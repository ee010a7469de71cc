----------------------------- MODULE Lifecycle -----------------------------
(***************************************************************************)
(* The program from start to end: App.Run (internal/application/app.go)    *)
(* starts the two worker pools, the schedulers and the HTTP server, waits  *)
(* for a signal, shuts the server down, cancels the pools and waits for    *)
(* their goroutines. What each step does to the jobs is in JobPipeline;    *)
(* here a job is one of a number in each place, Redis does not fail after  *)
(* the start, a stage has one scheduler, and the question is what the      *)
(* order of the starts and of the ends leaves where.                       *)
(*                                                                         *)
(* Cancelling a context does not end a blocked XREADGROUP BLOCK 0: the     *)
(* worker sees the context at the head of its loop, after the next message.*)
(***************************************************************************)
EXTENDS Integers, FiniteSets

CONSTANTS
  StoryWorkers, EmailWorkers,   \* the goroutines of the two pools
  Handlers,                     \* the goroutines of the HTTP server
  MaxJobs, MaxPanics            \* bounds: jobs accepted, workers that panic

Workers    == StoryWorkers \cup EmailWorkers
Stage      == {"story", "email"}
Pool(s)    == IF s = "story" THEN StoryWorkers ELSE EmailWorkers
StageOf(w) == IF w \in StoryWorkers THEN "story" ELSE "email"

ASSUME ConstantsAssumption ==
  /\ IsFiniteSet(StoryWorkers) /\ IsFiniteSet(EmailWorkers)
  /\ StoryWorkers \cap EmailWorkers = {}
  /\ MaxJobs \in Nat /\ MaxPanics \in Nat

VARIABLES
  main,        \* the next call of Run
  server,      \* the HTTP server
  cancelled,   \* the stages whose pool's context is cancelled
  wg,          \* per stage: the WaitGroup of its pool
  worker,      \* per worker: where it is in its loop
  scheduler,   \* per stage: where its scheduler is in ReEnqueue
  handler,     \* per goroutine of the server: whether it serves POST /stories
  group,       \* the stages whose consumer group exists
  unread,      \* per stage: the entries of its stream that the group will deliver
  retry,       \* per stage: the members of its retry set
  accepted,    \* history: the jobs that were put on the story stream
  done,        \* history: the jobs whose notification was sent
  abandoned,   \* history: the messages whose worker has panicked
  late,        \* history: per worker, the messages it got after Cancel
  timedOut     \* history: Shutdown gave up waiting for the handlers

redis == <<group, unread, retry>>
pools == <<cancelled, wg, worker, late>>
http  == <<server, handler, timedOut>>
hist  == <<accepted, done, abandoned>>
vars  == <<main, redis, pools, http, scheduler, hist>>

Main == {"createStory", "startStory", "createEmail", "startEmail", "startSchedulers", "listen",
         "signal", "closeServer", "shutdown", "cancelStory", "cancelEmail",
         "waitStory", "waitEmail", "returned", "crashed"}
Place == {"absent", "check", "send", "read", "execute", "scheduleRetry", "ackRetried",
          "ackDone", "forward", "gone"}

\* Redis is as an earlier run left it. A group is missing when its stream or its
\* name is new in the configuration.
Init ==
  /\ main = "createStory"
  /\ server = "off" /\ timedOut = FALSE
  /\ cancelled = {}
  /\ wg = [s \in Stage |-> 0]
  /\ worker = [w \in Workers |-> "absent"] /\ late = [w \in Workers |-> 0]
  /\ scheduler = [s \in Stage |-> "off"]
  /\ handler = [h \in Handlers |-> "idle"]
  /\ group \in SUBSET Stage
  /\ unread \in [Stage -> 0..MaxJobs] /\ retry \in [Stage -> 0..MaxJobs]
  /\ accepted = unread["story"] + unread["email"] + retry["story"] + retry["email"]
  /\ accepted <= MaxJobs /\ done = 0 /\ abandoned = 0

\* The process runs. A panic outside a worker or scheduler ends it.
Running  == main \notin {"returned", "crashed"}
MainGoes(call, next) == main = call /\ main' = next
Crash    == main' = "crashed"

More(f, s) == [f EXCEPT ![s] = @ + 1]
Less(f, s) == [f EXCEPT ![s] = @ - 1]

-----------------------------------------------------------------------------
(* Run                                                                      *)

\* Mutant: the group delivers what is added after it was created ("$").
FromNow(s, call, next) ==
  /\ MainGoes(call, next)
  /\ group' = group \cup {s}
  /\ unread' = IF s \in group THEN unread ELSE [unread EXCEPT ![s] = 0]
  /\ UNCHANGED <<retry, pools, http, scheduler, hist>>

\* The group delivers what is in the stream already ("0"). An error other than
\* BUSYGROUP is a panic of Start.
CreateConsumerGroup(s, call, next) ==
  /\ \/ MainGoes(call, next) /\ group' = group \cup {s}
     \/ main = call /\ Crash /\ UNCHANGED group
  /\ UNCHANGED <<unread, retry, pools, http, scheduler, hist>>

StartPool(s, call, next) ==
  /\ MainGoes(call, next)
  /\ wg' = [wg EXCEPT ![s] = Cardinality(Pool(s))]
  /\ worker' = [w \in Workers |-> IF w \in Pool(s) THEN "check" ELSE worker[w]]
  /\ UNCHANGED <<redis, cancelled, late, http, scheduler, hist>>

StartSchedulers ==
  /\ MainGoes("startSchedulers", "listen")
  /\ scheduler' = [s \in Stage |-> "wait"]
  /\ UNCHANGED <<redis, pools, http, hist>>

Listen ==
  /\ MainGoes("listen", "signal")
  /\ server' = "starting"
  /\ UNCHANGED <<redis, pools, handler, timedOut, scheduler, hist>>

\* SIGINT or SIGTERM.
Signal ==
  /\ MainGoes("signal", "closeServer")
  /\ UNCHANGED <<redis, pools, http, scheduler, hist>>

\* Shutdown takes no new request, and waits for those in progress until its timeout.
CloseServer ==
  /\ MainGoes("closeServer", "shutdown")
  /\ server' = "closed"
  /\ UNCHANGED <<redis, pools, handler, timedOut, scheduler, hist>>

Shutdown ==
  /\ MainGoes("shutdown", "cancelStory")
  /\ timedOut' = \E h \in Handlers : handler[h] = "busy"
  /\ UNCHANGED <<redis, pools, server, handler, scheduler, hist>>

Cancel(s, call, next) ==
  /\ MainGoes(call, next)
  /\ cancelled' = cancelled \cup {s}
  /\ UNCHANGED <<redis, wg, worker, late, http, scheduler, hist>>

\* Mutant: workers that wait for a message are not waited for.
WaitForReads(s, call, next) ==
  /\ \A w \in Pool(s) : worker[w] \in {"gone", "read"}
  /\ MainGoes(call, next)
  /\ UNCHANGED <<redis, pools, http, scheduler, hist>>

Wait(s, call, next) ==
  /\ wg[s] = 0
  /\ MainGoes(call, next)
  /\ UNCHANGED <<redis, pools, http, scheduler, hist>>

MainStep ==
  \/ CreateConsumerGroup("story", "createStory", "startStory")
  \/ StartPool("story", "startStory", "createEmail")
  \/ CreateConsumerGroup("email", "createEmail", "startEmail")
  \/ StartPool("email", "startEmail", "startSchedulers")
  \/ StartSchedulers
  \/ Listen
  \/ CloseServer
  \/ Shutdown
  \/ Cancel("story", "cancelStory", "cancelEmail")
  \/ Cancel("email", "cancelEmail", "waitStory")
  \/ Wait("story", "waitStory", "waitEmail")
  \/ Wait("email", "waitEmail", "returned")

-----------------------------------------------------------------------------
(* The HTTP server.                                                         *)

Serve ==
  /\ Running /\ server = "starting"
  /\ server' = "serving"
  /\ UNCHANGED <<main, redis, pools, handler, timedOut, scheduler, hist>>

\* The goroutine of ListenAndServe logs err, which is nil there, and not serverErr:
\* err.Error() panics, and the process ends.
ListenFails ==
  /\ Running /\ server = "starting"
  /\ Crash
  /\ UNCHANGED <<redis, pools, http, scheduler, hist>>

Request(h) ==
  /\ Running /\ server = "serving"
  /\ handler[h] = "idle"
  /\ handler' = [handler EXCEPT ![h] = "busy"]
  /\ UNCHANGED <<main, redis, pools, server, timedOut, scheduler, hist>>

\* ScheduleStoryGeneration puts the job on the stream, or fails before.
Respond(h) ==
  /\ Running
  /\ handler[h] = "busy"
  /\ handler' = [handler EXCEPT ![h] = "idle"]
  /\ \/ accepted < MaxJobs /\ accepted' = accepted + 1 /\ unread' = More(unread, "story")
     \/ UNCHANGED <<accepted, unread>>
  /\ UNCHANGED <<main, group, retry, pools, server, timedOut, scheduler, done, abandoned>>

-----------------------------------------------------------------------------
(* WorkerPool.Run                                                           *)

At(w, place)   == Running /\ worker[w] = place
Goes(w, place) == worker' = [worker EXCEPT ![w] = place] /\ UNCHANGED wg

\* Mutant: Wg.Done is the last statement of the loop's function, not deferred.
GoneRegularly(w) ==
  /\ worker' = [worker EXCEPT ![w] = "gone"]
  /\ IF worker[w] = "check" THEN wg' = Less(wg, StageOf(w)) ELSE UNCHANGED wg
Gone(w) ==
  /\ worker' = [worker EXCEPT ![w] = "gone"]
  /\ wg' = Less(wg, StageOf(w))

\* Mutant: the context of the program, cancelled when Run returns.
IsCancelledWithProgram(s) == ~Running
IsCancelled(s) == s \in cancelled

Check(w) ==
  /\ At(w, "check")
  /\ IF IsCancelled(StageOf(w)) THEN Gone(w) ELSE Goes(w, "send")
  /\ UNCHANGED <<main, redis, cancelled, late, http, scheduler, hist>>

\* Read: XREADGROUP is sent, unless the client sees the cancelled context.
Send(w) ==
  /\ At(w, "send")
  /\ Goes(w, "read") \/ Goes(w, "check")
  /\ UNCHANGED <<main, redis, cancelled, late, http, scheduler, hist>>

ReadFails(w) ==
  /\ At(w, "read")
  /\ Goes(w, "check")
  /\ UNCHANGED <<main, redis, cancelled, late, http, scheduler, hist>>

Receive(w) ==
  LET s == StageOf(w) IN
  /\ At(w, "read")
  /\ s \in group /\ unread[s] > 0
  /\ unread' = Less(unread, s)
  /\ late' = [late EXCEPT ![w] = @ + IF s \in cancelled THEN 1 ELSE 0]
  /\ Goes(w, "execute")
  /\ UNCHANGED <<main, group, retry, cancelled, http, scheduler, hist>>

\* The AI client does not start on a cancelled context; the mailer does not look at it.
Execute(w) ==
  /\ At(w, "execute")
  /\ \/ (w \in StoryWorkers => late[w] = 0) /\ Goes(w, "ackDone")
     \/ Goes(w, "scheduleRetry")
  /\ UNCHANGED <<main, redis, cancelled, late, http, scheduler, hist>>

\* A panic of the executer, or of CalculateBackoffDelay, ends the worker: nobody
\* reads its message again.
Panic(w) ==
  /\ At(w, "execute") \/ At(w, "scheduleRetry")
  /\ abandoned < MaxPanics /\ abandoned' = abandoned + 1
  /\ Gone(w)
  /\ UNCHANGED <<main, redis, cancelled, late, http, scheduler, accepted, done>>

\* OnFailure: ScheduleRetry, then Ack and Delete.
ScheduleRetry(w) ==
  /\ At(w, "scheduleRetry")
  /\ retry' = More(retry, StageOf(w))
  /\ Goes(w, "ackRetried")
  /\ UNCHANGED <<main, group, unread, cancelled, late, http, scheduler, hist>>

AckRetried(w) ==
  /\ At(w, "ackRetried")
  /\ Goes(w, "check")
  /\ UNCHANGED <<main, redis, cancelled, late, http, scheduler, hist>>

\* OnSuccess: Ack and Delete, then a story goes to the email stream.
AckDone(w) ==
  /\ At(w, "ackDone")
  /\ \/ w \in StoryWorkers /\ Goes(w, "forward") /\ UNCHANGED done
     \/ w \notin StoryWorkers /\ Goes(w, "check") /\ done' = done + 1
  /\ UNCHANGED <<main, redis, cancelled, late, http, scheduler, accepted, abandoned>>

Forward(w) ==
  /\ At(w, "forward")
  /\ unread' = More(unread, "email")
  /\ Goes(w, "check")
  /\ UNCHANGED <<main, group, retry, cancelled, late, http, scheduler, hist>>

WorkerStep(w) ==
  \/ Check(w) \/ Send(w) \/ Receive(w) \/ Execute(w) \/ ScheduleRetry(w) \/ AckRetried(w)
  \/ AckDone(w) \/ Forward(w)

-----------------------------------------------------------------------------
(* SchedulerWorkPool.Run; Run neither cancels the schedulers nor waits.     *)

Reenqueue(s) ==
  /\ Running /\ scheduler[s] = "wait"
  /\ retry[s] > 0
  /\ unread' = More(unread, s)
  /\ scheduler' = [scheduler EXCEPT ![s] = "removing"]
  /\ UNCHANGED <<main, group, retry, pools, http, hist>>

\* Mutant: the member is removed, and the scheduler removes it again.
RemoveAgain(s) ==
  /\ Running /\ scheduler[s] = "removing"
  /\ retry' = Less(retry, s)
  /\ UNCHANGED <<main, group, unread, pools, http, scheduler, hist>>

Remove(s) ==
  /\ Running /\ scheduler[s] = "removing"
  /\ retry' = Less(retry, s)
  /\ scheduler' = [scheduler EXCEPT ![s] = "wait"]
  /\ UNCHANGED <<main, group, unread, pools, http, hist>>

SchedulerStep(s) == Reenqueue(s) \/ Remove(s)

Next ==
  \/ MainStep \/ Signal
  \/ Serve \/ ListenFails
  \/ \E h \in Handlers : Request(h) \/ Respond(h)
  \/ \E w \in Workers : WorkerStep(w) \/ ReadFails(w) \/ Panic(w)
  \/ \E s \in Stage : SchedulerStep(s)

Spec == Init /\ [][Next]_vars

\* The Go scheduler runs every goroutine that can run; Execute and Shutdown have
\* timeouts, and a read returns when there is a message. Nobody owes a signal.
Fairness ==
  /\ WF_vars(MainStep)
  /\ \A w \in Workers : WF_vars(WorkerStep(w))
  /\ \A s \in Stage : WF_vars(SchedulerStep(s))

FairSpec == Spec /\ Fairness

-----------------------------------------------------------------------------
\* Every variable stays in its domain; no WaitGroup, stream or set gets below zero.
TypeOK ==
  /\ main \in Main
  /\ server \in {"off", "starting", "serving", "closed"} /\ timedOut \in BOOLEAN
  /\ cancelled \in SUBSET Stage /\ group \in SUBSET Stage
  /\ wg \in [Stage -> Nat]
  /\ worker \in [Workers -> Place] /\ late \in [Workers -> Nat]
  /\ scheduler \in [Stage -> {"off", "wait", "removing"}]
  /\ handler \in [Handlers -> {"idle", "busy"}]
  /\ unread \in [Stage -> Nat] /\ retry \in [Stage -> Nat]
  /\ accepted \in Nat /\ done \in Nat /\ abandoned \in Nat

\* The workers that have a message no stream or set holds.
Held == {w \in Workers : worker[w] \in {"execute", "scheduleRetry", "ackDone", "forward"}}

\* A job that a scheduler has put back on the stream is also in the retry set until ZREM.
InRedis(s) == unread[s] + retry[s] - (IF scheduler[s] = "removing" THEN 1 ELSE 0)

\* Whatever the order of the starts and of the ends (the story workers run before
\* the email group exists, the schedulers and late handlers run on after the pools
\* have stopped), no job is lost: each one is in Redis, with a worker, notified, or
\* with a worker that panicked.
JobsAccounted ==
  accepted = InRedis("story") + InRedis("email") + Cardinality(Held) + done + abandoned

\* Run returns when every worker has come to the end of the message it had, and
\* every request has been answered, unless Shutdown timed out.
NoHandlerCutOff ==
  main = "returned" =>
    /\ \A w \in Workers : worker[w] = "gone"
    /\ timedOut \/ \A h \in Handlers : handler[h] = "idle"

\* A worker handles one message at most after Cancel, the one its read waited for.
AtMostOneLate == \A w \in Workers : late[w] <= 1

\* After the signal Run returns, unless a worker waits for ever in a read. That is
\* all the code gives: on an idle system every worker does. A worker that panicked
\* does not keep Run from returning.
ReturnsOrStuck ==
  main = "closeServer" ~> (~Running \/ [](\E w \in Workers : worker[w] = "read"))

-----------------------------------------------------------------------------
(* What makes the properties inductive.                                     *)

Active(s) == {w \in Pool(s) : worker[w] \notin {"absent", "gone"}}

\* Where main is before the pool of s is started, and after Wait(s).
Before(s) == IF s = "story" THEN {"createStory", "startStory"}
             ELSE {"createStory", "startStory", "createEmail", "startEmail"}
After(s)  == IF s = "story" THEN {"waitEmail", "returned"} ELSE {"returned"}

\* The WaitGroup counts the goroutines that run.
PoolsOK ==
  \A s \in Stage :
    /\ wg[s] = Cardinality(Active(s))
    /\ main \in Before(s) => \A w \in Pool(s) : worker[w] = "absent"
    /\ main \notin Before(s) \cup {"crashed"} => \A w \in Pool(s) : worker[w] # "absent"
    /\ main \in After(s) => Active(s) = {}

\* A closed server takes no requests, and Shutdown has waited for the others.
ServerOK ==
  /\ main \in {"shutdown", "cancelStory", "cancelEmail", "waitStory", "waitEmail", "returned"}
       => server = "closed"
  /\ main \in {"cancelStory", "cancelEmail", "waitStory", "waitEmail", "returned"}
       => timedOut \/ \A h \in Handlers : handler[h] = "idle"

\* What a scheduler removes is there; before StartSchedulers there are none.
RemovingOK ==
  \A s \in Stage :
    /\ scheduler[s] = "removing" => retry[s] > 0
    /\ main \in Before("email") \cup {"startSchedulers"} => scheduler[s] = "off"

\* After a late message there is no other read.
LateOK ==
  \A w \in Workers :
    late[w] # 0 => late[w] = 1 /\ StageOf(w) \in cancelled /\ worker[w] \notin {"send", "read"}

\* The inductive invariant.
IInv ==
  /\ TypeOK
  /\ PoolsOK /\ ServerOK /\ RemovingOK /\ LateOK
  /\ JobsAccounted
=============================================================================
