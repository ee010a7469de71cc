--------------------------- MODULE JobPathProofs ---------------------------
(***************************************************************************)
(* What JobPipeline does when no call fails, for any number of jobs and    *)
(* processes: the invariants LimitInv and PlaceInv of JobPath, and what    *)
(* follows from them, StoryExceededIsDeadLettered, StrandedOnlyPastDLQ and *)
(* NoConcurrentExecution.                                                  *)
(***************************************************************************)
EXTENDS JobPath, JobPipelineProofs

-----------------------------------------------------------------------------
(* The steps of a worker when no call fails, one by one.                    *)

Goes(w, r) == worker' = [worker EXCEPT ![w] = r] /\ UNCHANGED <<api, scheduler, crashes>>
QueueGoes(s, q) == queue' = [queue EXCEPT ![s] = q]

\* XREADGROUP has given the worker an entry.
Started(s, e) == Enter(s, "execute", [Idle EXCEPT !.msg = e])

TakesThe(w, e) ==
  LET s == StageOf(w) IN
  /\ worker[w] = Idle
  /\ IsNext(queue[s], e)
  /\ QueueGoes(s, XReadGroup(queue[s], e))
  /\ Goes(w, Started(s, e))
  /\ UNCHANGED <<accepted, mailed, db>>

Takes(w) == \E e \in queue[StageOf(w)].entries : TakesThe(w, e)

\* Execute goes on, ends well, or ends with an error.
Executes(w) ==
  /\ worker[w].phase = "execute" /\ StageOf(w) = "story"
  /\ \E c \in {"UploadStory", "SaveEmailJob"} : Goes(w, At(worker[w], "execute", c))
  /\ UNCHANGED <<queue, accepted, mailed>>

Achieves(w) ==
  /\ worker[w].phase = "execute"
  /\ StageOf(w) = "email" => HeldJob(w) \in mailed'
  /\ Goes(w, At(worker[w], "success", "Ack"))
  /\ UNCHANGED <<queue, accepted>>

GivesUp(w) ==
  /\ worker[w].phase = "execute"
  /\ \/ worker[w].msg.retry = MaxJobRetry /\ Goes(w, At(worker[w], "dlq", "AddDead"))
     \/ worker[w].msg.retry # MaxJobRetry /\ Goes(w, At(worker[w], "failure", "ScheduleRetry"))
  /\ UNCHANGED <<queue, accepted>>

\* The calls of OnSuccess, SendToDQL and OnFailure.
DeadLetters(w) ==
  /\ worker[w].phase = "dlq" /\ worker[w].call = "AddDead"
  /\ QueueGoes(StageOf(w), AddDead(queue[StageOf(w)], MemberOf(worker[w].msg)))
  /\ Goes(w, At(worker[w], "dlq", "Ack"))
  /\ UNCHANGED <<accepted, mailed, db>>

Acknowledges(w) ==
  /\ worker[w].call = "Ack"
  /\ QueueGoes(StageOf(w), XAck(queue[StageOf(w)], worker[w].msg.id))
  /\ Goes(w, At(worker[w], worker[w].phase, "Delete"))
  /\ UNCHANGED <<accepted, mailed, db>>

Deletes(w) ==
  /\ worker[w].call = "Delete"
  /\ QueueGoes(StageOf(w), XDel(queue[StageOf(w)], worker[w].msg.id))
  /\ \/ StageOf(w) = "story" /\ worker[w].phase = "success" /\ Goes(w, At(worker[w], "success", "Forward"))
     \/ ~(StageOf(w) = "story" /\ worker[w].phase = "success") /\ Goes(w, At(worker[w], worker[w].phase, "Update"))
  /\ UNCHANGED <<accepted, mailed, db>>

Forwards(w) ==
  /\ worker[w].call = "Forward" /\ worker[w].phase = "success" /\ StageOf(w) = "story"
  /\ QueueGoes("email", XAdd(queue["email"], MemberOf(worker[w].msg)))
  /\ accepted' = [accepted EXCEPT !["email"] = @ \cup {HeldJob(w)}]
  /\ Goes(w, At(worker[w], "success", "Update"))
  /\ UNCHANGED <<mailed, db>>

RetryOf(w) == [job |-> HeldJob(w), retry |-> worker[w].msg.retry + 1]

Schedules(w) ==
  /\ worker[w].phase = "failure" /\ worker[w].call = "ScheduleRetry"
  /\ QueueGoes(StageOf(w), ZAdd(queue[StageOf(w)], RetryOf(w)))
  /\ Goes(w, At(worker[w], "failure", "Ack"))
  /\ UNCHANGED <<accepted, mailed, db>>

Dies(w) ==
  /\ worker[w].phase = "failure" /\ worker[w].call = "ScheduleRetry"
  /\ worker[w].msg.retry + 1 >= OverflowRetry
  /\ Goes(w, At(worker[w], "dead", "return"))
  /\ UNCHANGED <<queue, accepted, mailed, db>>

Finishes(w) ==
  /\ worker[w].call = "Update"
  /\ \/ worker[w].phase \in {"success", "failure"} /\ Goes(w, Idle)
     \/ worker[w].phase = "dlq" /\ Goes(w, At(worker[w], "failure", "ScheduleRetry"))
  /\ UNCHANGED <<queue, accepted, mailed>>

HandlerMove(w) ==
  \/ Executes(w) \/ Achieves(w) \/ GivesUp(w) \/ DeadLetters(w) \/ Acknowledges(w)
  \/ Deletes(w) \/ Forwards(w) \/ Schedules(w) \/ Dies(w) \/ Finishes(w)

LEMMA StartedFacts ==
  ASSUME NEW s \in Stage, NEW e
  PROVE  /\ Started(s, e).phase = "execute" /\ Started(s, e).msg = e
         /\ Started(s, e).call \in {"GenerateStory", "SendNotificationEmail"}
BY DEF Started, Enter, FirstCall, Idle

\* A worker that handles a message.
Handles(w) == InMethod(StageOf(w), worker[w]) /\ Held(w) /\ worker[w].msg \in Entry

\* Without a failed call a worker reads, or makes one of these moves.
LEMMA WorkerMoves ==
  ASSUME IInv, NEW w \in Workers, WorkerStep(w), faults' = 0
  PROVE  Takes(w) \/ (Handles(w) /\ HandlerMove(w))
<1> DEFINE s == StageOf(w)
           r == worker[w]
<1>0. /\ faults \in Nat /\ worker \in [Workers -> Worker] /\ s \in Stage /\ AchievedOK(w)
  BY DEF IInv, TypeOK, StageOf, Stage
<1>1. ~Fault
  BY <1>0 DEF Fault
<1>2. UNCHANGED <<api, scheduler, crashes>>
  BY DEF WorkerStep, Read, GenerateStory, StoreStory, StoreEmailJob, SendNotificationEmail,
     Ack, Delete, Forward, AddToDLQ, ScheduleRetry, Update, ExecuterWrite
<1>3. CASE Read(w)
  <2>1. r = Idle
    BY <1>3, WorkerFacts DEF Read, Calls
  <2>2. PICK e \in queue[s].entries :
             /\ IsNext(queue[s], e)
             /\ queue' = [queue EXCEPT ![s] = XReadGroup(@, e)]
             /\ worker' = [worker EXCEPT ![w] = Enter(s, "execute", [@ EXCEPT !.msg = e])]
    BY <1>1, <1>3 DEF Read
  <2>4. worker' = [worker EXCEPT ![w] = Enter(s, "execute", [Idle EXCEPT !.msg = e])]
    BY <2>1, <2>2
  <2>5. UNCHANGED <<accepted, mailed, db>>
    BY <1>3 DEF Read
  <2> QED
    BY <1>2, <2>1, <2>2, <2>4, <2>5 DEF Takes, TakesThe, Started, Goes, QueueGoes
<1>4. CASE ~Read(w)
  <2>1. r.call \notin {"Read", "return"}
    BY <1>4 DEF WorkerStep, Calls, GenerateStory, StoreStory, StoreEmailJob, SendNotificationEmail,
                Ack, Delete, Forward, AddToDLQ, ScheduleRetry, Update
  <2>2. Handles(w) /\ InMethod(s, r) /\ r.msg \in Entry
    BY <2>1, WorkerFacts DEF Handles, InMethod
  <2>3. Succeeds(w) => worker' = [worker EXCEPT ![w] = Proceed(s, r)]
    BY DEF Succeeds
  <2>4. ASSUME Fails(w), r.phase = "execute", UNCHANGED <<queue, accepted>>
        PROVE  GivesUp(w)
    <3>1. worker' = [worker EXCEPT ![w] = AfterError(s, r)]
      BY <2>4 DEF Fails
    <3>2. AfterError(s, r) = IF r.msg.retry = MaxJobRetry THEN At(r, "dlq", "AddDead")
                                                          ELSE At(r, "failure", "ScheduleRetry")
      BY <2>4 DEF AfterError, Enter, FirstCall, At
    <3> QED
      BY <1>2, <2>4, <3>1, <3>2 DEF GivesUp, Goes
  <2>5. CASE GenerateStory(w) \/ StoreStory(w) \/ StoreEmailJob(w)
    <3>1. r.phase = "execute" /\ s = "story" /\ r.call \in {"GenerateStory", "UploadStory", "SaveEmailJob"}
      BY <2>2, <2>5 DEF GenerateStory, StoreStory, StoreEmailJob, Calls, InMethod, CallsOf, Stage
    <3>2. UNCHANGED <<queue, accepted, mailed>> /\ (Succeeds(w) \/ Fails(w))
      BY <2>5 DEF GenerateStory, StoreStory, StoreEmailJob, ExecuterWrite
    <3>3. CASE Succeeds(w)
      <4>1. Proceed(s, r) \in {At(r, "execute", "UploadStory"), At(r, "execute", "SaveEmailJob"), At(r, "success", "Ack")}
        BY <2>2, <3>1, ProceedFacts
      <4> QED
        BY <1>2, <2>3, <3>1, <3>2, <3>3, <4>1, <2>2 DEF Executes, Achieves, Goes, HandlerMove
    <3> QED
      BY <2>2, <2>4, <3>1, <3>2, <3>3 DEF HandlerMove
  <2>6. CASE SendNotificationEmail(w)
    <3>1. r.phase = "execute" /\ r.call = "SendNotificationEmail"
      BY <2>2, <2>6 DEF SendNotificationEmail, Calls, InMethod, CallsOf, Stage
    <3>2. /\ UNCHANGED <<queue, accepted>>
          /\ (Succeeds(w) /\ HeldJob(w) \in mailed') \/ Fails(w)
      BY <2>6 DEF SendNotificationEmail, HeldJob
    <3>3. Proceed(s, r) = At(r, "success", "Ack")
      BY <2>2, <3>1, ProceedFacts
    <3> QED
      BY <1>2, <2>2, <2>3, <2>4, <3>1, <3>2, <3>3 DEF HandlerMove, Achieves, Goes
  <2>7. CASE Ack(w)
    <3>1. r.call = "Ack" /\ Succeeds(w) /\ UNCHANGED <<accepted, mailed, db>>
          /\ QueueGoes(s, XAck(queue[s], r.msg.id))
      BY <1>1, <2>7 DEF Ack, Calls, QueueCall, QueueGoes
    <3>2. Proceed(s, r) = At(r, r.phase, "Delete")
      BY <2>2, <3>1, ProceedFacts
    <3> QED
      BY <1>2, <2>2, <2>3, <3>1, <3>2 DEF HandlerMove, Acknowledges, Goes
  <2>8. CASE Delete(w)
    <3>1. r.call = "Delete" /\ Succeeds(w) /\ UNCHANGED <<accepted, mailed, db>>
          /\ QueueGoes(s, XDel(queue[s], r.msg.id))
      BY <1>1, <2>8 DEF Delete, Calls, QueueCall, QueueGoes
    <3>2. Proceed(s, r) = At(r, r.phase, IF s = "story" /\ r.phase = "success" THEN "Forward" ELSE "Update")
      BY <2>2, <3>1 DEF InMethod, At, Proceed, NextCall, CallsOf, Worker
    <3> QED
      BY <1>2, <2>2, <2>3, <3>1, <3>2 DEF HandlerMove, Deletes, Goes
  <2>9. CASE Forward(w)
    <3>1. /\ r.call = "Forward" /\ Succeeds(w) /\ UNCHANGED <<mailed, db>>
          /\ QueueGoes("email", XAdd(queue["email"], MemberOf(r.msg)))
          /\ accepted' = [accepted EXCEPT !["email"] = @ \cup {MemberOf(r.msg).job}]
      BY <1>1, <2>9 DEF Forward, Calls, QueueGoes
    <3>2. r.phase = "success" /\ s = "story"
      BY <2>2, <3>1 DEF InMethod, CallsOf, Stage
    <3>3. Proceed(s, r) = At(r, "success", "Update") /\ MemberOf(r.msg).job = HeldJob(w)
      BY <2>2, <3>1, <3>2, ProceedFacts DEF MemberOf, HeldJob
    <3> QED
      BY <1>2, <2>2, <2>3, <3>1, <3>2, <3>3 DEF HandlerMove, Forwards, Goes
  <2>10. CASE AddToDLQ(w)
    <3>1. r.call = "AddDead" /\ Succeeds(w) /\ UNCHANGED <<accepted, mailed, db>>
          /\ QueueGoes(s, AddDead(queue[s], MemberOf(r.msg)))
      BY <1>1, <2>10 DEF AddToDLQ, Calls, QueueCall, QueueGoes
    <3>2. r.phase = "dlq"
      BY <2>2, <3>1 DEF InMethod, CallsOf
    <3>3. Proceed(s, r) = At(r, "dlq", "Ack")
      BY <2>2, <3>1, <3>2, ProceedFacts
    <3> QED
      BY <1>2, <2>2, <2>3, <3>1, <3>2, <3>3 DEF HandlerMove, DeadLetters, Goes
  <2>11. CASE ScheduleRetry(w)
    <3> DEFINE m == [MemberOf(r.msg) EXCEPT !.retry = @ + 1]
    <3>1. r.call = "ScheduleRetry" /\ UNCHANGED <<accepted, mailed, db>>
      BY <2>11 DEF ScheduleRetry, Calls
    <3>2. r.phase = "failure"
      BY <2>2, <3>1 DEF InMethod, CallsOf
    <3>3. m = RetryOf(w)
      BY DEF RetryOf, HeldJob, MemberOf
    <3>4. CASE Succeeds(w) /\ queue' = [queue EXCEPT ![s] = ZAdd(queue[s], m)]
      <4>1. Proceed(s, r) = At(r, "failure", "Ack")
        BY <2>2, <3>1, <3>2, ProceedFacts
      <4> QED
        BY <1>2, <2>2, <2>3, <3>1, <3>2, <3>3, <3>4, <4>1 DEF HandlerMove, Schedules, Goes, QueueGoes
    <3>5. CASE /\ m.retry >= OverflowRetry
               /\ worker' = [worker EXCEPT ![w].phase = "dead", ![w].call = "return"]
               /\ UNCHANGED queue
      <4>1. worker' = [worker EXCEPT ![w] = At(r, "dead", "return")]
        BY <1>0, <3>5 DEF At
      <4>2. m.retry = r.msg.retry + 1
        BY DEF MemberOf
      <4> QED
        BY <1>2, <2>2, <3>1, <3>2, <3>5, <4>1, <4>2 DEF HandlerMove, Dies, Goes
    <3> QED
      BY <1>1, <2>11, <3>4, <3>5 DEF ScheduleRetry, QueueCall
  <2>12. CASE Update(w)
    <3>1. r.call = "Update" /\ Succeeds(w) /\ UNCHANGED <<queue, accepted, mailed>>
      BY <1>1, <2>12 DEF Update, Calls
    <3>2. \/ r.phase \in {"success", "failure"} /\ Proceed(s, r) = Idle
          \/ r.phase = "dlq" /\ Proceed(s, r) = At(r, "failure", "ScheduleRetry")
      BY <2>2, <3>1 DEF InMethod, CallsOf, Proceed, NextCall, AfterReturn, Enter, FirstCall, At
    <3> QED
      BY <1>2, <2>2, <2>3, <3>1, <3>2 DEF HandlerMove, Finishes, Goes
  <2> QED
    BY <1>4, <2>5, <2>6, <2>7, <2>8, <2>9, <2>10, <2>11, <2>12 DEF WorkerStep
<1> QED
  BY <1>3, <1>4

-----------------------------------------------------------------------------
(* All steps when no call fails.                                            *)

\* A request is over when its job is on the stream.
Asks(j) ==
  /\ api[j] = "addToStream" /\ api' = [api EXCEPT ![j] = "idle"]
  /\ QueueGoes("story", XAdd(queue["story"], [job |-> j, retry |-> 0]))
  /\ accepted' = [accepted EXCEPT !["story"] = @ \cup {j}]
  /\ UNCHANGED <<db, mailed, worker, scheduler, crashes>>

\* What touches only a user's rows, or nothing.
RowStep ==
  /\ \/ \E j \in Jobs : RequestStory(j) \/ RequestStoryJob(j) \/ DeleteUser(j)
     \/ UNCHANGED <<api, db>>
  /\ UNCHANGED <<queue, mailed, worker, scheduler, crashes, accepted>>

\* ReEnqueue adds a member to the stream again, then removes it.
Readds(p, m) ==
  /\ scheduler[p].removing = None
  /\ QueueGoes(StageOf(p), XAdd(queue[StageOf(p)], m))
  /\ scheduler' = [scheduler EXCEPT ![p] = [batch |-> @.batch \ {m}, removing |-> m]]
  /\ UNCHANGED <<db, mailed, api, worker, crashes, accepted>>

Removes(p) ==
  /\ scheduler[p].removing # None
  /\ QueueGoes(StageOf(p), ZRem(queue[StageOf(p)], scheduler[p].removing))
  /\ scheduler' = [scheduler EXCEPT ![p].removing = None]
  /\ UNCHANGED <<db, mailed, api, worker, crashes, accepted>>

SchedulerMove(p) ==
  \/ Tick(p)
  \/ \E m \in scheduler[p].batch : Readds(p, m)
  \/ Removes(p)

FaultlessMove ==
  \/ RowStep
  \/ \E j \in Jobs : Asks(j)
  \/ \E w \in Workers : WorkerStep(w) /\ (Takes(w) \/ (Handles(w) /\ HandlerMove(w)))
  \/ \E p \in Schedulers : SchedulerMove(p)

\* A step counts one failed or repeated call, or none.
LEMMA FaultsCount ==
  ASSUME IInv, [Next]_vars
  PROVE  faults \in Nat /\ faults' \in {faults, faults + 1}
<1>1. faults' \in {faults, faults + 1}
  BY DEF Next, vars, Fault, Request, RequestStory, RequestStoryJob, RequestAdd, DeleteUser,
     Tick, Reenqueue, Remove, Restart, WorkerStep, Read, GenerateStory, StoreStory, StoreEmailJob,
     SendNotificationEmail, Ack, Delete, Forward, AddToDLQ, ScheduleRetry, Update, ExecuterWrite,
     QueueCall, Succeeds
<1> QED
  BY <1>1 DEF IInv, TypeOK

\* A step after which there was no failed call yet.
LEMMA FaultlessStep ==
  ASSUME IInv, [Next]_vars, faults' = 0
  PROVE  faults = 0 /\ (FaultlessMove \/ Restart)
<1>0. faults \in Nat /\ crashes \in Nat
  BY DEF IInv, TypeOK
<1>1. ~Fault
  BY <1>0 DEF Fault
<1>2. faults = 0
  BY FaultsCount
<1>3. ASSUME NEW j \in Jobs, RequestStory(j) \/ RequestStoryJob(j) \/ DeleteUser(j) PROVE RowStep
  BY <1>3 DEF RowStep, RequestStory, RequestStoryJob, DeleteUser
<1>4. ASSUME NEW j \in Jobs, RequestAdd(j) PROVE Asks(j)
  BY <1>1, <1>4 DEF RequestAdd, Asks, QueueGoes
<1>5. ASSUME NEW p \in Schedulers, Tick(p) \/ Reenqueue(p) \/ Remove(p) PROVE SchedulerMove(p)
  BY <1>1, <1>5 DEF SchedulerMove, Reenqueue, Readds, Remove, Removes, QueueGoes
<1>6. UNCHANGED vars => RowStep
  BY DEF vars, RowStep
<1> QED
  BY <1>2, <1>3, <1>4, <1>5, <1>6, WorkerMoves DEF Next, Request, FaultlessMove

\* Without a restart either.
LEMMA CalmStep ==
  ASSUME IInv, [Next]_vars, Calm'
  PROVE  Calm /\ FaultlessMove
<1>0. crashes \in Nat
  BY DEF IInv, TypeOK
<1>1. faults = 0 /\ (FaultlessMove \/ Restart)
  BY FaultlessStep DEF Calm
<1>2. ~Restart
  BY <1>0 DEF Restart, Calm
<1>3. crashes = 0
  BY <1>1, <1>2 DEF Calm, FaultlessMove, RowStep, Asks, Takes, TakesThe, HandlerMove, Executes, Achieves, GivesUp,
     DeadLetters, Acknowledges, Deletes, Forwards, Schedules, Dies, Finishes, Goes, SchedulerMove, Tick,
     Readds, Removes
<1> QED
  BY <1>1, <1>2, <1>3 DEF Calm

-----------------------------------------------------------------------------
(* What the Redis commands leave in the fields of a queue.                  *)

LEMMA XAddFields ==
  ASSUME NEW q \in QueueState, NEW m
  PROVE  /\ XAdd(q, m).entries = q.entries \cup {[id |-> q.last + 1, job |-> m.job, retry |-> m.retry]}
         /\ XAdd(q, m).retry = q.retry /\ XAdd(q, m).pending = q.pending
         /\ XAdd(q, m).delivered = q.delivered
BY DEF XAdd, QueueState

LEMMA ZAddFields ==
  ASSUME NEW q \in QueueState, NEW m
  PROVE  /\ ZAdd(q, m).entries = q.entries /\ ZAdd(q, m).retry = q.retry \cup {m}
         /\ ZAdd(q, m).pending = q.pending /\ ZAdd(q, m).delivered = q.delivered
BY DEF ZAdd, QueueState

LEMMA ZRemFields ==
  ASSUME NEW q \in QueueState, NEW m
  PROVE  /\ ZRem(q, m).entries = q.entries /\ ZRem(q, m).retry = q.retry \ {m}
         /\ ZRem(q, m).pending = q.pending /\ ZRem(q, m).delivered = q.delivered
BY DEF ZRem, QueueState

LEMMA AddDeadFields ==
  ASSUME NEW q \in QueueState, NEW m
  PROVE  /\ AddDead(q, m).entries = q.entries /\ AddDead(q, m).retry = q.retry
         /\ AddDead(q, m).pending = q.pending /\ AddDead(q, m).delivered = q.delivered
BY DEF AddDead, QueueState

LEMMA XReadGroupFields ==
  ASSUME NEW q \in QueueState, NEW e
  PROVE  /\ XReadGroup(q, e).entries = q.entries /\ XReadGroup(q, e).retry = q.retry
         /\ XReadGroup(q, e).pending = q.pending \cup {e.id} /\ XReadGroup(q, e).delivered = e.id
BY DEF XReadGroup, QueueState

LEMMA XAckFields ==
  ASSUME NEW q \in QueueState, NEW id
  PROVE  /\ XAck(q, id).entries = q.entries /\ XAck(q, id).retry = q.retry
         /\ XAck(q, id).pending = q.pending \ {id} /\ XAck(q, id).delivered = q.delivered
BY DEF XAck, QueueState

LEMMA XDelFields ==
  ASSUME NEW q \in QueueState, NEW id
  PROVE  /\ XDel(q, id).entries = {e \in q.entries : e.id # id} /\ XDel(q, id).retry = q.retry
         /\ XDel(q, id).pending = q.pending /\ XDel(q, id).delivered = q.delivered
BY DEF XDel, QueueState

\* The domains of what the moves change.
LEMMA Domains ==
  IInv => /\ queue \in [Stage -> QueueState] /\ db \in [Jobs -> UserRows] /\ mailed \subseteq Jobs
          /\ worker \in [Workers -> Worker] /\ scheduler \in [Schedulers -> Scheduler]
          /\ accepted \in [Stage -> SUBSET Jobs]
          /\ api \in [Jobs -> {"idle", "saveStoryJob", "addToStream"}]
          /\ "story" \in Stage /\ "email" \in Stage
          /\ \A w \in Workers : StageOf(w) \in Stage
          /\ \A p \in Schedulers : StageOf(p) \in Stage
          /\ \A s \in Stage : s = "story" \/ s = "email"
BY DEF IInv, TypeOK, StageOf, Stage

\* Where a worker is after its own move, and that the others stay where they are.
LEMMA GoesFacts ==
  ASSUME IInv, NEW w \in Workers, NEW r, worker' = [worker EXCEPT ![w] = r]
  PROVE  worker'[w] = r /\ \A v \in Workers \ {w} : worker'[v] = worker[v]
BY Domains

LEMMA AtFacts ==
  ASSUME NEW r \in Worker, NEW p, NEW c
  PROVE  At(r, p, c).phase = p /\ At(r, p, c).call = c /\ At(r, p, c).msg = r.msg
BY DEF At, Worker

\* A handler move: the worker keeps its message or becomes idle.
LEMMA HandlerGoes ==
  ASSUME IInv, NEW w \in Workers, Handles(w), HandlerMove(w)
  PROVE  /\ \A v \in Workers \ {w} : worker'[v] = worker[v]
         /\ \/ worker'[w] = Idle /\ worker[w].call = "Update" /\ worker[w].phase \in {"success", "failure"}
            \/ worker'[w].msg = worker[w].msg /\ worker'[w].phase # "idle"
         /\ UNCHANGED <<api, scheduler, crashes>>
<1>1. PICK r : Goes(w, r) /\ \/ r = Idle /\ worker[w].call = "Update" /\ worker[w].phase \in {"success", "failure"}
                             \/ \E c : \E p \in Phase \ {"idle"} : r = At(worker[w], p, c)
  BY DEF HandlerMove, Executes, Achieves, GivesUp, DeadLetters, Acknowledges, Deletes, Forwards, Schedules,
     Dies, Finishes, Phase, Handles, InMethod
<1>2. worker[w] \in Worker
  BY Domains
<1>3. /\ worker'[w] = r /\ \A v \in Workers \ {w} : worker'[v] = worker[v]
      /\ UNCHANGED <<api, scheduler, crashes>>
  BY <1>1, GoesFacts DEF Goes
<1>4. ASSUME NEW p \in Phase \ {"idle"}, NEW c, r = At(worker[w], p, c)
      PROVE  worker'[w].msg = worker[w].msg /\ worker'[w].phase # "idle"
  BY <1>2, <1>3, <1>4, AtFacts
<1> QED
  BY <1>1, <1>3, <1>4

-----------------------------------------------------------------------------
(* LimitInv.                                                                *)

\* A message that is acknowledged stays so: its id is not given again.
LEMMA AckedStable ==
  ASSUME IInv, [Next]_vars, NEW v \in Workers, worker[v].msg \in Entry,
         worker[v].msg.id \notin queue[StageOf(v)].pending
  PROVE  worker[v].msg.id \notin queue'[StageOf(v)].pending
BY StepMoves, HeldStable DEF IInv

\* A worker only dies past the limit, and goes on to Delete only after Ack.
LEMMA DeadAckedStep ==
  ASSUME IInv, [Next]_vars, faults' = 0, NEW v \in Workers, DeadOK(v), AckedOK(v)
  PROVE  (DeadOK(v) /\ AckedOK(v))'
<1> DEFINE s == StageOf(v)
           r == worker[v]
<1>0. FaultlessMove \/ Restart
  BY FaultlessStep
<1>1. CASE worker'[v] = r
  <2>1. DeadOK(v)'
    BY <1>1 DEF DeadOK
  <2>2. ASSUME r.call \in {"Delete", "Forward", "Update"} PROVE r.msg.id \notin queue'[s].pending
    <3>1. r.msg \in Entry
      BY <2>2, WorkerFacts DEF InMethod
    <3> QED
      BY <2>2, <3>1, AckedStable DEF AckedOK
  <2> QED
    BY <1>1, <2>1, <2>2 DEF AckedOK
<1>2. CASE worker'[v].phase # "dead" /\ worker'[v].call \notin {"Delete", "Forward", "Update"}
  BY <1>2 DEF DeadOK, AckedOK
<1>3. CASE Takes(v)
  <2>1. PICK e : worker'[v] = Started(s, e)
    BY <1>3, Domains DEF Takes, TakesThe, Goes
  <2>2. worker'[v].phase = "execute" /\ worker'[v].call \in {"GenerateStory", "SendNotificationEmail"}
    BY <2>1, Domains, StartedFacts
  <2> QED
    BY <1>2, <2>2
<1>4. CASE Handles(v) /\ HandlerMove(v)
  <2>0. r \in Worker /\ r.msg \in Entry /\ r.phase \in {"execute", "success", "dlq", "failure"} /\ queue[s] \in QueueState
    BY <1>4, Domains DEF Handles, InMethod
  <2>1. ASSUME NEW p, NEW c, Goes(v, At(r, p, c))
        PROVE  worker'[v].phase = p /\ worker'[v].call = c /\ worker'[v].msg = r.msg
    <3>1. worker'[v] = At(r, p, c)
      BY <2>1, Domains DEF Goes
    <3> QED
      BY <2>0, <3>1, AtFacts
  <2>2. CASE Executes(v) \/ Achieves(v) \/ GivesUp(v) \/ DeadLetters(v) \/ Schedules(v)
    BY <1>2, <2>1, <2>2 DEF Executes, Achieves, GivesUp, DeadLetters, Schedules
  <2>3. CASE Acknowledges(v)
    <3>1. worker'[v].phase = r.phase /\ worker'[v].msg = r.msg
      BY <2>1, <2>3 DEF Acknowledges
    <3>2. queue'[s].pending = queue[s].pending \ {r.msg.id}
      BY <2>0, <2>3, Domains, XAckFields DEF Acknowledges, QueueGoes
    <3> QED
      BY <2>0, <3>1, <3>2 DEF DeadOK, AckedOK
  <2>4. CASE Deletes(v) \/ Forwards(v)
    <3>1. worker'[v].phase = r.phase /\ worker'[v].msg = r.msg /\ r.call \in {"Delete", "Forward"}
      BY <2>1, <2>4 DEF Deletes, Forwards
    <3>2. r.msg.id \notin queue'[s].pending
      BY <2>0, <3>1, AckedStable DEF AckedOK
    <3> QED
      BY <2>0, <3>1, <3>2 DEF DeadOK, AckedOK
  <2>5. CASE Dies(v)
    <3>1. worker'[v].call = "return" /\ worker'[v].msg = r.msg /\ r.msg.retry + 1 >= OverflowRetry
      BY <2>1, <2>5 DEF Dies
    <3>2. r.msg.retry >= MaxJobRetry
      BY <2>0, <3>1, LimitsAssumption DEF Entry
    <3> QED
      BY <3>1, <3>2 DEF DeadOK, AckedOK
  <2>6. CASE Finishes(v)
    <3>1. \/ worker'[v] = Idle
          \/ worker'[v].phase = "failure" /\ worker'[v].call = "ScheduleRetry"
      BY <2>1, <2>6, GoesFacts DEF Finishes, Goes
    <3> QED
      BY <1>2, <3>1 DEF Idle
  <2> QED
    BY <1>4, <2>2, <2>3, <2>4, <2>5, <2>6 DEF HandlerMove
<1>5. CASE Restart
  BY <1>2, <1>5 DEF Restart, Idle
<1>6. ASSUME NEW w \in Workers, w # v, Takes(w) \/ (Handles(w) /\ HandlerMove(w))
      PROVE  worker'[v] = r
  <2>1. CASE Takes(w)
    BY <1>6, <2>1, GoesFacts DEF Takes, TakesThe, Goes
  <2>2. CASE Handles(w) /\ HandlerMove(w)
    BY <1>6, <2>2, HandlerGoes
  <2> QED
    BY <1>6, <2>1, <2>2
<1> QED
  BY <1>0, <1>1, <1>3, <1>4, <1>5, <1>6
     DEF FaultlessMove, RowStep, Asks, SchedulerMove, Tick, Readds, Removes

\* Every pending entry keeps the worker that holds it until it is acknowledged.
LEMMA PendingStep ==
  ASSUME IInv, [Next]_vars, Calm', PendingOK, \A w \in Workers : AckedOK(w)
  PROVE  PendingOK'
<1> DEFINE Holds(w, s, id) == StageOf(w) = s /\ Held(w) /\ worker[w].msg.id = id
<1>0. FaultlessMove
  BY CalmStep
<1> SUFFICES ASSUME NEW s \in Stage, NEW id \in queue'[s].pending
             PROVE  \E w \in Workers : Holds(w, s, id)'
  BY DEF PendingOK
<1>1. ASSUME NEW w \in Workers, Holds(w, s, id), id \in queue[s].pending
      PROVE  Holds(w, s, id)'
  <2>1. worker[w] \in Worker /\ worker[w].msg \in Entry /\ worker[w].msg # None
    BY <1>1, Domains DEF Held, Worker
  <2>2. CASE worker'[w] = worker[w]
    BY <1>1, <2>2 DEF Held
  <2>3. ~Takes(w)
    BY <2>1 DEF Takes, TakesThe, Idle
  <2>4. CASE Handles(w) /\ HandlerMove(w)
    <3>1. worker[w].call # "Update"
      BY <1>1 DEF AckedOK
    <3> QED
      BY <1>1, <2>1, <2>4, <3>1, HandlerGoes DEF Held
  <2>5. ASSUME NEW v \in Workers, v # w, Takes(v) \/ (Handles(v) /\ HandlerMove(v))
        PROVE  worker'[w] = worker[w]
    BY <2>5, HandlerGoes, GoesFacts DEF Takes, TakesThe, Goes
  <2> QED
    BY <1>0, <2>2, <2>3, <2>4, <2>5 DEF FaultlessMove, RowStep, Asks, SchedulerMove, Tick, Readds, Removes
<1>2. CASE id \in queue[s].pending
  BY <1>1, <1>2 DEF PendingOK
<1>3. CASE id \notin queue[s].pending
  <2>1. ASSUME NEW t \in Stage, NEW q, QueueGoes(t, q), q.pending \subseteq queue[t].pending PROVE FALSE
    BY <1>3, <2>1, Domains DEF QueueGoes
  <2>2. \E w \in Workers : Takes(w)
    <3>1. ASSUME NEW t \in Stage, NEW m, NEW i
          PROVE  /\ XAdd(queue[t], m).pending = queue[t].pending /\ ZAdd(queue[t], m).pending = queue[t].pending
                 /\ ZRem(queue[t], m).pending = queue[t].pending /\ AddDead(queue[t], m).pending = queue[t].pending
                 /\ XAck(queue[t], i).pending \subseteq queue[t].pending /\ XDel(queue[t], i).pending = queue[t].pending
      <4>1. queue[t] \in QueueState
        BY Domains
      <4> QED
        BY <4>1, XAddFields, ZAddFields, ZRemFields, AddDeadFields, XAckFields, XDelFields
    <3>2. ASSUME NEW w \in Workers, HandlerMove(w) PROVE FALSE
      <4>1. StageOf(w) \in Stage /\ "email" \in Stage
        BY Domains
      <4>2. CASE UNCHANGED queue
        BY <1>3, <4>2
      <4>3. CASE \/ QueueGoes(StageOf(w), AddDead(queue[StageOf(w)], MemberOf(worker[w].msg)))
                 \/ QueueGoes(StageOf(w), XAck(queue[StageOf(w)], worker[w].msg.id))
                 \/ QueueGoes(StageOf(w), XDel(queue[StageOf(w)], worker[w].msg.id))
                 \/ QueueGoes(StageOf(w), ZAdd(queue[StageOf(w)], RetryOf(w)))
                 \/ QueueGoes("email", XAdd(queue["email"], MemberOf(worker[w].msg)))
        BY <2>1, <3>1, <4>1, <4>3
      <4> QED
        BY <3>2, <4>2, <4>3 DEF HandlerMove, Executes, Achieves, GivesUp, DeadLetters, Acknowledges, Deletes,
           Forwards, Schedules, Dies, Finishes
    <3>3. ASSUME NEW p \in Schedulers, SchedulerMove(p) PROVE FALSE
      <4>1. StageOf(p) \in Stage
        BY Domains
      <4> QED
        BY <1>3, <2>1, <3>1, <3>3, <4>1 DEF SchedulerMove, Tick, Readds, Removes
    <3>4. ASSUME NEW j \in Jobs, Asks(j) PROVE FALSE
      BY <2>1, <3>1, <3>4, Domains DEF Asks
    <3>5. ~RowStep
      BY <1>3 DEF RowStep
    <3> QED
      BY <1>0, <3>2, <3>3, <3>4, <3>5 DEF FaultlessMove
  <2> PICK w \in Workers : Takes(w)
    BY <2>2
  <2>3. PICK e \in queue[StageOf(w)].entries :
             /\ queue' = [queue EXCEPT ![StageOf(w)] = XReadGroup(queue[StageOf(w)], e)]
             /\ worker' = [worker EXCEPT ![w] = Started(StageOf(w), e)]
    BY DEF Takes, TakesThe, QueueGoes, Goes
  <2>4. StageOf(w) = s /\ id = e.id
    <3>1. StageOf(w) = s /\ queue'[s] = XReadGroup(queue[s], e)
      BY <1>3, <2>3, Domains
    <3>2. XReadGroup(queue[s], e).pending = queue[s].pending \cup {e.id}
      BY Domains, XReadGroupFields
    <3> QED
      BY <1>3, <3>1, <3>2
  <2>5. worker'[w].msg = e
    BY <2>3, Domains, StartedFacts
  <2>6. e # None
    BY Domains, PoolsAssumption DEF QueueState
  <2> QED
    BY <2>4, <2>5, <2>6 DEF Held
<1> QED
  BY <1>2, <1>3

\* A job past the limit stays dead-lettered.
LEMMA PastDLQStable ==
  ASSUME IInv, [Next]_vars, NEW s \in Stage, NEW j \in Jobs, PastDLQ(s, j)
  PROVE  PastDLQ(s, j)'
BY StepMoves, Domains, SettledStable DEF PastDLQ

\* ExceededOK of what waits: enough to look at what the step has added.
LEMMA ExceededQueue ==
  ASSUME IInv, [Next]_vars, ExceededOK, NEW t \in Stage, NEW q \in QueueState, QueueGoes(t, q),
         \A m \in q.entries \cup q.retry :
           \/ m \in queue[t].entries \cup queue[t].retry
           \/ Exceeds(m) => PastDLQ(t, m.job)
  PROVE  \A s \in Stage : \A m \in queue'[s].entries \cup queue'[s].retry : Exceeds(m) => PastDLQ(s, m.job)'
<1> SUFFICES ASSUME NEW s \in Stage, NEW m \in queue'[s].entries \cup queue'[s].retry, Exceeds(m)
             PROVE  PastDLQ(s, m.job)'
  OBVIOUS
<1>1. queue'[s] = IF s = t THEN q ELSE queue[s]
  BY Domains DEF QueueGoes
<1>2. queue'[s] \in QueueState
  BY <1>1, Domains
<1>3. m.job \in Jobs
  BY <1>2 DEF QueueState, Entry, Member
<1>4. PastDLQ(s, m.job)
  BY <1>1 DEF ExceededOK
<1> QED
  BY <1>3, <1>4, PastDLQStable

\* The same when the step adds nothing.
LEMMA ExceededSame ==
  ASSUME IInv, [Next]_vars, ExceededOK, UNCHANGED queue
  PROVE  \A s \in Stage : \A m \in queue'[s].entries \cup queue'[s].retry : Exceeds(m) => PastDLQ(s, m.job)'
<1> SUFFICES ASSUME NEW s \in Stage, NEW m \in queue[s].entries \cup queue[s].retry, Exceeds(m)
             PROVE  PastDLQ(s, m.job)'
  OBVIOUS
<1>1. m.job \in Jobs
  BY Domains DEF QueueState, Entry, Member
<1>2. PastDLQ(s, m.job)
  BY DEF ExceededOK
<1> QED
  BY <1>1, <1>2, PastDLQStable

\* A worker that holds a job past the limit has it from the stream, or has
\* dead-lettered it before OnFailure.
LEMMA ExceededWorker ==
  ASSUME IInv, [Next]_vars, faults' = 0, ExceededOK, NEW v \in Workers, (Held(v) /\ HasExceeded(v))'
  PROVE  PastDLQ(StageOf(v), HeldJob(v))'
<1> DEFINE s == StageOf(v)
           r == worker[v]
<1>0. FaultlessMove \/ Restart
  BY FaultlessStep
<1>1. ~Restart
  BY DEF Restart, Idle, Held
<1>2. ASSUME r.msg \in Entry, worker'[v].msg = r.msg, Held(v), HasExceeded(v) \/ PastDLQ(s, r.msg.job)
      PROVE  PastDLQ(s, HeldJob(v))'
  <2>1. PastDLQ(s, r.msg.job) /\ r.msg.job \in Jobs
    BY <1>2 DEF ExceededOK, HeldJob, Entry
  <2> QED
    BY <1>2, <2>1, Domains, PastDLQStable DEF HeldJob
<1>3. CASE worker'[v] = r
  <2>1. r.msg \in Entry
    BY <1>3, Domains DEF Held, Worker
  <2> QED
    BY <1>2, <1>3, <2>1 DEF Held, HasExceeded
<1>4. CASE Takes(v)
  <2>1. PICK e \in queue[s].entries : worker'[v] = Started(s, e)
    BY <1>4, Domains DEF Takes, TakesThe, Goes
  <2>2. worker'[v].phase = "execute" /\ worker'[v].msg = e
    BY <2>1, Domains, StartedFacts
  <2>3. Exceeds(e) /\ e.job \in Jobs
    BY <2>2, Domains DEF HasExceeded, QueueState, Entry
  <2>4. PastDLQ(s, e.job)
    BY <2>3, Domains DEF ExceededOK
  <2> QED
    BY <2>2, <2>3, <2>4, Domains, PastDLQStable DEF HeldJob
<1>5. CASE Handles(v) /\ HandlerMove(v)
  <2>0. r \in Worker /\ r.msg \in Entry /\ Held(v) /\ AchievedOK(v) /\ s \in Stage /\ r.phase # "dead"
    BY <1>5, Domains DEF Handles, InMethod, IInv
  <2>1. ASSUME NEW p, NEW c, Goes(v, At(r, p, c))
        PROVE  worker'[v].phase = p /\ worker'[v].msg = r.msg
    <3>1. worker'[v] = At(r, p, c)
      BY <2>1, Domains DEF Goes
    <3> QED
      BY <2>0, <3>1, AtFacts
  <2>2. worker'[v].msg = r.msg
    BY <1>5, HandlerGoes DEF Held, Idle
  <2>3. CASE Exceeds(r.msg)
    BY <1>2, <2>0, <2>2, <2>3 DEF HasExceeded
  <2>4. CASE r.msg.retry = MaxJobRetry /\ worker'[v].phase \in {"failure", "dead"}
    <3>1. CASE r.phase = "failure"
      BY <1>2, <2>0, <2>2, <2>4, <3>1 DEF HasExceeded
    <3>2. CASE r.phase # "failure"
      <4>1. Finishes(v)
        BY <1>5, <2>0, <2>1, <2>4, <3>2 DEF HandlerMove, Executes, Achieves, GivesUp, DeadLetters, Acknowledges,
           Deletes, Forwards, Schedules, Dies
      <4>2. worker'[v] # Idle
        BY DEF Held, Idle
      <4>3. r.phase = "dlq" /\ r.call = "Update"
        BY <3>2, <4>1, <4>2, Domains DEF Finishes, Goes
      <4>4. DeadLettered(s, r.msg.job)
        BY <2>0, <4>3 DEF AchievedOK, AchievedAt
      <4> QED
        BY <1>2, <2>0, <2>2, <4>4 DEF PastDLQ
    <3> QED
      BY <3>1, <3>2
  <2> QED
    BY <2>2, <2>3, <2>4 DEF HasExceeded
<1>6. ASSUME NEW w \in Workers, w # v, Takes(w) \/ (Handles(w) /\ HandlerMove(w))
      PROVE  worker'[v] = r
  BY <1>6, HandlerGoes, Domains DEF Takes, TakesThe, Goes
<1> QED
  BY <1>0, <1>1, <1>3, <1>4, <1>5, <1>6
     DEF FaultlessMove, RowStep, Asks, SchedulerMove, Tick, Readds, Removes

\* Every move keeps ExceededOK.
LEMMA ExceededStep ==
  ASSUME IInv, [Next]_vars, faults' = 0, ExceededOK
  PROVE  ExceededOK'
<1> DEFINE Queues  == \A s \in Stage : \A m \in queue'[s].entries \cup queue'[s].retry :
                        Exceeds(m) => PastDLQ(s, m.job)'
           Batches == \A p \in Schedulers : \A m \in scheduler'[p].batch :
                        Exceeds(m) => PastDLQ(StageOf(p), m.job)'
<1>0. FaultlessMove \/ Restart
  BY FaultlessStep
<1>1. \A w \in Workers : (Held(w) /\ HasExceeded(w))' => PastDLQ(StageOf(w), HeldJob(w))'
  BY ExceededWorker
<1>2. ASSUME Queues, Batches PROVE ExceededOK'
  BY <1>1, <1>2 DEF ExceededOK, Exceeds
<1>3. ASSUME NEW p \in Schedulers, NEW m \in scheduler[p].batch \cup queue[StageOf(p)].retry, Exceeds(m)
      PROVE  PastDLQ(StageOf(p), m.job)'
  <2>1. PastDLQ(StageOf(p), m.job)
    BY <1>3, Domains DEF ExceededOK
  <2>2. m.job \in Jobs
    BY Domains DEF Scheduler, QueueState, Member
  <2> QED
    BY <2>1, <2>2, Domains, PastDLQStable
<1>4. ASSUME UNCHANGED scheduler PROVE Batches
  BY <1>3, <1>4
<1>5. ASSUME UNCHANGED queue PROVE Queues
  BY <1>5, ExceededSame
<1>6. ASSUME NEW t \in Stage, NEW m, m.job \in Jobs, m.retry \in Nat, Exceeds(m) => PastDLQ(t, m.job),
             QueueGoes(t, XAdd(queue[t], m))
      PROVE  Queues
  <2> DEFINE q == XAdd(queue[t], m)
  <2>1. q \in QueueState
    BY <1>6, Domains, XAddFacts DEF IInv
  <2>2. q.retry = queue[t].retry /\ q.entries = queue[t].entries \cup {[id |-> queue[t].last + 1, job |-> m.job, retry |-> m.retry]}
    BY Domains, XAddFields
  <2>3. Exceeds([id |-> queue[t].last + 1, job |-> m.job, retry |-> m.retry]) <=> Exceeds(m)
    BY DEF Exceeds
  <2> QED
    BY <1>6, <2>1, <2>2, <2>3, ExceededQueue
<1>7. ASSUME NEW t \in Stage, NEW q \in QueueState, QueueGoes(t, q),
             q.entries \subseteq queue[t].entries, q.retry \subseteq queue[t].retry
      PROVE  Queues
  BY <1>7, ExceededQueue
<1>8. CASE RowStep
  BY <1>2, <1>4, <1>5, <1>8 DEF RowStep
<1>9. ASSUME NEW j \in Jobs, Asks(j) PROVE ExceededOK'
  <2> DEFINE m == [job |-> j, retry |-> 0]
  <2>1. ~Exceeds(m) /\ m.job \in Jobs /\ m.retry \in Nat
    BY LimitsAssumption DEF Exceeds
  <2>2. QueueGoes("story", XAdd(queue["story"], m)) /\ UNCHANGED scheduler
    BY <1>9 DEF Asks
  <2> HIDE DEF m
  <2> QED
    BY <1>2, <1>4, <1>6, <2>1, <2>2, Domains
<1>10. ASSUME NEW w \in Workers, Takes(w) PROVE ExceededOK'
  <2> DEFINE t == StageOf(w)
  <2>1. PICK e \in queue[t].entries : IsNext(queue[t], e) /\ QueueGoes(t, XReadGroup(queue[t], e))
    BY <1>10 DEF Takes, TakesThe
  <2>2. XReadGroup(queue[t], e) \in QueueState
    BY <2>1, Domains, XReadGroupFacts DEF IInv
  <2>3. /\ XReadGroup(queue[t], e).entries = queue[t].entries
        /\ XReadGroup(queue[t], e).retry = queue[t].retry
    BY Domains, XReadGroupFields
  <2>4. Queues
    BY <1>7, <2>1, <2>2, <2>3, Domains
  <2> QED
    BY <1>2, <1>4, <1>10, <2>4 DEF Takes, TakesThe, Goes
<1>11. ASSUME NEW w \in Workers, Handles(w), HandlerMove(w) PROVE ExceededOK'
  <2> DEFINE t == StageOf(w)
             m == worker[w].msg
  <2>0. /\ t \in Stage /\ queue[t] \in QueueState /\ m \in Entry /\ m.job \in Jobs /\ m.retry \in Nat
        /\ IdsOK(queue[t]) /\ Held(w) /\ MemberOf(m) \in Member
    BY <1>11, Domains DEF Handles, Entry, IInv, MemberOf, Member
  <2>1. Batches
    BY <1>4, <1>11, HandlerGoes
  <2>2. CASE UNCHANGED queue
    BY <1>2, <1>5, <2>1, <2>2
  <2>3. CASE DeadLetters(w)
    <3>1. /\ AddDead(queue[t], MemberOf(m)) \in QueueState
          /\ AddDead(queue[t], MemberOf(m)).entries = queue[t].entries
          /\ AddDead(queue[t], MemberOf(m)).retry = queue[t].retry
      BY <2>0, ZAddFacts, AddDeadFields
    <3> QED
      BY <1>2, <1>7, <2>0, <2>1, <2>3, <3>1 DEF DeadLetters
  <2>4. CASE Acknowledges(w)
    <3>1. /\ XAck(queue[t], m.id) \in QueueState
          /\ XAck(queue[t], m.id).entries = queue[t].entries
          /\ XAck(queue[t], m.id).retry = queue[t].retry
      BY <2>0, XAckFacts, XAckFields
    <3> QED
      BY <1>2, <1>7, <2>0, <2>1, <2>4, <3>1 DEF Acknowledges
  <2>5. CASE Deletes(w)
    <3>1. /\ XDel(queue[t], m.id) \in QueueState
          /\ XDel(queue[t], m.id).entries \subseteq queue[t].entries
          /\ XDel(queue[t], m.id).retry = queue[t].retry
      BY <2>0, XDelFacts, XDelFields
    <3> QED
      BY <1>2, <1>7, <2>0, <2>1, <2>5, <3>1 DEF Deletes
  <2>6. CASE Forwards(w)
    <3>1. MemberOf(m).job = m.job /\ MemberOf(m).retry = m.retry
      BY DEF MemberOf
    <3>2. Exceeds(MemberOf(m)) => PastDLQ("email", MemberOf(m).job)
      BY <2>0, <2>6, <3>1 DEF Exceeds, HasExceeded, ExceededOK, Forwards, PastDLQ, HeldJob
    <3>3. Queues
      BY <1>6, <2>0, <2>6, <3>1, <3>2, Domains DEF Forwards
    <3> QED
      BY <1>2, <2>1, <3>3
  <2>7. CASE Schedules(w)
    <3> DEFINE n == RetryOf(w)
    <3>1. n \in Member /\ n.job = m.job /\ n.retry = m.retry + 1
      BY <2>0 DEF RetryOf, HeldJob, Member
    <3>2. Exceeds(n) => PastDLQ(t, n.job)
      BY <2>0, <2>7, <3>1, LimitsAssumption DEF Exceeds, HasExceeded, ExceededOK, Schedules, HeldJob
    <3>3. ZAdd(queue[t], n) \in QueueState
      BY <2>0, <3>1, ZAddFacts
    <3>4. ZAdd(queue[t], n).entries = queue[t].entries /\ ZAdd(queue[t], n).retry = queue[t].retry \cup {n}
      BY <2>0, ZAddFields
    <3>5. QueueGoes(t, ZAdd(queue[t], n))
      BY <2>7 DEF Schedules
    <3> HIDE DEF n
    <3>6. Queues
      BY <2>0, <3>2, <3>3, <3>4, <3>5, ExceededQueue
    <3> QED
      BY <1>2, <2>1, <3>6
  <2> QED
    BY <1>11, <2>2, <2>3, <2>4, <2>5, <2>6, <2>7 DEF HandlerMove, Executes, Achieves, GivesUp, Dies, Finishes
<1>12. ASSUME NEW p \in Schedulers, SchedulerMove(p) PROVE ExceededOK'
  <2> DEFINE t == StageOf(p)
  <2>0. t \in Stage /\ queue[t] \in QueueState /\ IdsOK(queue[t]) /\ scheduler[p] \in Scheduler
    BY Domains DEF IInv
  <2>1. CASE Tick(p)
    <3>1. PICK due \in SUBSET queue[t].retry : scheduler' = [scheduler EXCEPT ![p].batch = due]
      BY <2>1 DEF Tick
    <3>2. scheduler'[p].batch = due /\ \A o \in Schedulers \ {p} : scheduler'[o] = scheduler[o]
      BY <2>0, <3>1, Domains DEF Scheduler
    <3>3. Batches
      BY <1>3, <3>2
    <3> QED
      BY <1>2, <1>5, <2>1, <3>3 DEF Tick
  <2>2. ASSUME NEW m \in scheduler[p].batch, Readds(p, m) PROVE ExceededOK'
    <3>1. m.job \in Jobs /\ m.retry \in Nat
      BY <2>0 DEF Scheduler, Member
    <3>2. Queues
      BY <1>6, <2>0, <2>2, <3>1 DEF Readds, ExceededOK
    <3>3. scheduler'[p].batch \subseteq scheduler[p].batch /\ \A o \in Schedulers \ {p} : scheduler'[o] = scheduler[o]
      BY <2>2, Domains DEF Readds
    <3>4. Batches
      BY <1>3, <3>3
    <3> QED
      BY <1>2, <3>2, <3>4
  <2>3. CASE Removes(p)
    <3> DEFINE m == scheduler[p].removing
    <3>1. m \in Member
      BY <2>0, <2>3 DEF Removes, Scheduler
    <3>2. /\ ZRem(queue[t], m) \in QueueState
          /\ ZRem(queue[t], m).entries = queue[t].entries
          /\ ZRem(queue[t], m).retry \subseteq queue[t].retry
      BY <2>0, <3>1, ZAddFacts, ZRemFields
    <3>3. Queues
      BY <1>7, <2>0, <2>3, <3>2 DEF Removes
    <3>4. \A o \in Schedulers : scheduler'[o].batch = scheduler[o].batch
      BY <2>3, Domains DEF Removes, Scheduler
    <3>5. Batches
      BY <1>3, <3>4
    <3> QED
      BY <1>2, <3>3, <3>5
  <2> QED
    BY <1>12, <2>1, <2>2, <2>3 DEF SchedulerMove
<1>13. CASE Restart
  BY <1>2, <1>5, <1>13 DEF Restart, IdleScheduler
<1> QED
  BY <1>0, <1>8, <1>9, <1>10, <1>11, <1>12, <1>13 DEF FaultlessMove

LEMMA LimitInit == Init => LimitInv
BY DEF Init, LimitInv, Idle, IdleScheduler, EmptyQueue, DeadOK, AckedOK, ExceededOK, PendingOK, Held

LEMMA LimitStep == IInv /\ LimitInv /\ [Next]_vars => LimitInv'
<1> SUFFICES ASSUME IInv, LimitInv, [Next]_vars, faults' = 0
             PROVE  /\ \A w \in Workers : (DeadOK(w) /\ AckedOK(w))'
                    /\ ExceededOK'
                    /\ crashes' = 0 => PendingOK'
  BY DEF LimitInv
<1>1. faults = 0
  BY FaultlessStep
<1>2. (\A w \in Workers : DeadOK(w) /\ AckedOK(w)) /\ ExceededOK
  BY <1>1 DEF LimitInv
<1>3. ASSUME crashes' = 0 PROVE PendingOK'
  <2>1. Calm' /\ Calm
    BY <1>3, CalmStep DEF Calm
  <2>2. PendingOK
    BY <2>1 DEF LimitInv, Calm
  <2> QED
    BY <1>2, <2>1, <2>2, PendingStep
<1> QED
  BY <1>2, <1>3, DeadAckedStep, ExceededStep

\* While no call fails: a message retried more than MaxJobRetry times is of a job
\* that SendToDQL has put into a dead-letter stream, wherever the message is; from
\* the call of Delete on a worker's message is acknowledged; and every pending entry is
\* the message of a worker, unless the program was stopped.
THEOREM LimitInvariance == Spec => []LimitInv
BY LimitInit, LimitStep, Invariance, PTL DEF Spec

\* In the story stage no job is past its retry limit without being in the
\* dead-letter stream, when no call fails: the count that AfterError compares for
\* equality never skips the limit, and SendToDQL comes before OnFailure.
THEOREM StoryExceeded == Spec => []StoryExceededIsDeadLettered
<1>1. LimitInv => StoryExceededIsDeadLettered
  BY Domains DEF LimitInv, ExceededOK, StoryExceededIsDeadLettered, ExceededIsDeadLettered, HasExceeded,
     Exceeds, PastDLQ, Stage
<1> QED
  BY <1>1, LimitInvariance, PTL

\* What stays pending for ever, when no call fails and the program is not stopped,
\* is the message of a worker that a panic of the backoff has ended, and its job
\* has been dead-lettered before.
THEOREM StrandedPastDLQ == Spec => []StrandedOnlyPastDLQ
<1>1. IInv /\ LimitInv => StrandedOnlyPastDLQ
  <2> SUFFICES ASSUME IInv, LimitInv, Calm, NEW s \in Stage, NEW id \in queue[s].pending
               PROVE  \E w \in Workers :
                        /\ StageOf(w) = s /\ Held(w) /\ worker[w].msg.id = id
                        /\ worker[w].phase = "dead" => \E t \in Stage : DeadLettered(t, HeldJob(w))
    BY DEF StrandedOnlyPastDLQ
  <2>1. PICK w \in Workers : StageOf(w) = s /\ Held(w) /\ worker[w].msg.id = id
    BY DEF LimitInv, Calm, PendingOK
  <2>2. ASSUME worker[w].phase = "dead" PROVE \E t \in Stage : DeadLettered(t, HeldJob(w))
    <3>1. worker[w].msg \in Entry
      BY <2>1, Domains DEF Held, Worker
    <3>2. worker[w].msg.retry >= MaxJobRetry
      BY <2>2 DEF LimitInv, Calm, DeadOK
    <3>3. HasExceeded(w)
      BY <2>2, <3>1, <3>2, LimitsAssumption DEF HasExceeded, Exceeds, Entry
    <3>4. PastDLQ(s, HeldJob(w))
      BY <2>1, <3>3 DEF LimitInv, Calm, ExceededOK
    <3> QED
      BY <3>4, Domains DEF PastDLQ
  <2> QED
    BY <2>1, <2>2
<1> QED
  BY <1>1, Invariance, LimitInvariance, PTL

-----------------------------------------------------------------------------
(* RequestedOnce.                                                           *)

\* The worker's queries neither make nor remove a row of users, stories or story_jobs.
SameKeys(r, r2) ==
  /\ r2.user = r.user
  /\ r2.story = "absent" <=> r.story = "absent"
  /\ r2.storyJob = "absent" <=> r.storyJob = "absent"

LEMMA QueryKeys ==
  ASSUME NEW r \in UserRows, NEW status \in JobStatus
  PROVE  /\ SameKeys(r, UploadStory(r)) /\ SameKeys(r, SaveEmailJob(r))
         /\ SameKeys(r, UpdateStoryJob(r, status)) /\ SameKeys(r, UpdateEmailJob(r, status))
BY DEF SameKeys, UserRows, JobStatus, UploadStory, SaveEmailJob, UpdateStoryJob, UpdateEmailJob, HasStory

LEMMA WorkerKeys ==
  ASSUME IInv, NEW w \in Workers, WorkerStep(w), NEW j \in Jobs
  PROVE  SameKeys(db[j], db'[j])
<1> DEFINE k == worker[w].msg.job
<1>0. db \in [Jobs -> UserRows] /\ db[j] \in UserRows
  BY Domains
<1>1. CASE UNCHANGED db
  BY <1>1 DEF SameKeys
<1>2. CASE StoreStory(w) \/ StoreEmailJob(w)
  <2>1. \/ db' \in {db, [db EXCEPT ![k] = UploadStory(db[k])]}
        \/ db' \in {db, [db EXCEPT ![k] = SaveEmailJob(db[k])]}
    BY <1>2 DEF StoreStory, StoreEmailJob, ExecuterWrite
  <2>2. db'[j] \in {db[j], UploadStory(db[j]), SaveEmailJob(db[j])}
    BY <1>0, <2>1
  <2>3. SameKeys(db[j], db[j]) /\ \A st \in JobStatus : SameKeys(db[j], UploadStory(db[j])) /\ SameKeys(db[j], SaveEmailJob(db[j]))
    BY <1>0, QueryKeys DEF SameKeys
  <2>4. "pending" \in JobStatus
    BY DEF JobStatus
  <2> QED
    BY <2>2, <2>3, <2>4
<1>3. CASE Update(w)
  <2> DEFINE status == StatusOf(worker[w].phase)
  <2>1. worker[w].phase \in {"success", "dlq", "failure"}
    BY <1>3, WorkerFacts DEF Update, Calls, InMethod, CallsOf
  <2>2. status \in JobStatus
    BY <2>1 DEF StatusOf, JobStatus
  <2>3. \/ db' \in {db, [db EXCEPT ![k] = UpdateStoryJob(db[k], status)]}
        \/ db' \in {db, [db EXCEPT ![k] = UpdateEmailJob(db[k], status)]}
    BY <1>3 DEF Update
  <2>4. db'[j] \in {db[j], UpdateStoryJob(db[j], status), UpdateEmailJob(db[j], status)}
    BY <1>0, <2>3
  <2>5. SameKeys(db[j], db[j]) /\ SameKeys(db[j], UpdateStoryJob(db[j], status)) /\ SameKeys(db[j], UpdateEmailJob(db[j], status))
    BY <1>0, <2>2, QueryKeys DEF SameKeys
  <2> QED
    BY <2>4, <2>5
<1> QED
  BY <1>1, <1>2, <1>3 DEF WorkerStep, Read, GenerateStory, SendNotificationEmail, Ack, Delete, Forward,
     AddToDLQ, ScheduleRetry

\* The three writes of a request: the row of stories, the row of story_jobs, and
\* the entry of the stream, each once.
LEMMA RequestedStep ==
  ASSUME IInv, [Next]_vars, NEW j \in Jobs, RequestedOnce(j)
  PROVE  RequestedOnce(j)'
<1>0. /\ db \in [Jobs -> UserRows] /\ db[j] \in UserRows
      /\ api \in [Jobs -> {"idle", "saveStoryJob", "addToStream"}]
      /\ accepted \in [Stage -> SUBSET Jobs]
      /\ faults' = 0 => faults = 0
  BY Domains, FaultsCount
<1>1. ASSUME SameKeys(db[j], db'[j]), api'[j] \in {api[j], "idle"}, accepted'["story"] = accepted["story"]
      PROVE  RequestedOnce(j)'
  BY <1>0, <1>1 DEF RequestedOnce, SameKeys
<1>2. SameKeys(db[j], db[j])
  BY DEF SameKeys
<1>3. ASSUME NEW k \in Jobs, RequestStory(k) PROVE RequestedOnce(j)'
  <2>1. CASE k = j
    BY <1>0, <1>3, <2>1 DEF RequestStory, RequestedOnce, SaveStoryInfo, UserRows
  <2>2. CASE k # j
    BY <1>0, <1>1, <1>2, <1>3, <2>2 DEF RequestStory
  <2> QED
    BY <2>1, <2>2
<1>4. ASSUME NEW k \in Jobs, RequestStoryJob(k) PROVE RequestedOnce(j)'
  <2>1. CASE k = j
    <3>1. /\ api[j] = "saveStoryJob" /\ accepted' = accepted
          /\ \/ db' = [db EXCEPT ![j] = SaveStoryJob(@)]
             \/ db' = db /\ api' = [api EXCEPT ![j] = "idle"]
      BY <1>0, <1>4, <2>1 DEF RequestStoryJob
    <3>2. CASE db' = [db EXCEPT ![j] = SaveStoryJob(@)]
      BY <1>0, <3>1, <3>2 DEF RequestedOnce, SaveStoryJob, UserRows
    <3>3. CASE db' = db /\ api' = [api EXCEPT ![j] = "idle"]
      BY <1>0, <1>1, <1>2, <3>1, <3>3
    <3> QED
      BY <3>1, <3>2, <3>3
  <2>2. CASE k # j
    BY <1>0, <1>1, <1>2, <1>4, <2>2 DEF RequestStoryJob
  <2> QED
    BY <2>1, <2>2
<1>5. ASSUME NEW k \in Jobs, RequestAdd(k) PROVE RequestedOnce(j)'
  <2>1. /\ db' = db /\ api[k] = "addToStream"
        /\ api' = [api EXCEPT ![k] = "idle"] \/ (api' = api /\ faults' = faults + 1)
        /\ accepted' = accepted \/ accepted' = [accepted EXCEPT !["story"] = @ \cup {k}]
    BY <1>5 DEF RequestAdd, Fault
  <2>4. faults \in Nat
    BY FaultsCount
  <2>2. CASE k = j
    BY <1>0, <2>1, <2>2, <2>4 DEF RequestedOnce
  <2>3. CASE k # j
    BY <1>0, <2>1, <2>3 DEF RequestedOnce
  <2> QED
    BY <2>2, <2>3
<1>6. ASSUME NEW k \in Jobs, DeleteUser(k) PROVE RequestedOnce(j)'
  <2>1. CASE k = j
    BY <1>0, <1>6, <2>1 DEF DeleteUser, DeleteUserByID, RequestedOnce
  <2>2. CASE k # j
    BY <1>0, <1>1, <1>2, <1>6, <2>2 DEF DeleteUser
  <2> QED
    BY <2>1, <2>2
<1>7. ASSUME NEW w \in Workers, WorkerStep(w) PROVE RequestedOnce(j)'
  <2>0. api' = api
    BY <1>7 DEF WorkerStep, Read, GenerateStory, StoreStory, StoreEmailJob, SendNotificationEmail,
       Ack, Delete, Forward, AddToDLQ, ScheduleRetry, Update, ExecuterWrite
  <2>1. accepted'["story"] = accepted["story"]
    <3>1. CASE Forward(w)
      <4>1. \/ accepted' = [accepted EXCEPT !["email"] = @ \cup {MemberOf(worker[w].msg).job}]
            \/ UNCHANGED accepted
        BY <3>1 DEF Forward
      <4> QED
        BY <4>1, Domains
    <3>2. CASE ~Forward(w)
      BY <1>7, <3>2 DEF WorkerStep, Read, GenerateStory, StoreStory, StoreEmailJob, SendNotificationEmail,
         Ack, Delete, AddToDLQ, ScheduleRetry, Update, ExecuterWrite
    <3> QED
      BY <3>1, <3>2
  <2> QED
    BY <1>1, <1>7, <2>0, <2>1, WorkerKeys
<1>8. ASSUME NEW p \in Schedulers, Tick(p) \/ Reenqueue(p) \/ Remove(p) PROVE RequestedOnce(j)'
  BY <1>1, <1>2, <1>8 DEF Tick, Reenqueue, Remove
<1>9. CASE Restart
  BY <1>1, <1>2, <1>9 DEF Restart
<1>10. CASE UNCHANGED vars
  BY <1>1, <1>2, <1>10 DEF vars
<1> QED
  BY <1>3, <1>4, <1>5, <1>6, <1>7, <1>8, <1>9, <1>10 DEF Next, Request

-----------------------------------------------------------------------------
(* What the commands do to the entries nobody was given yet.                *)

LEMMA UndeliveredAdd ==
  ASSUME NEW q \in QueueState, IdsOK(q), NEW m
  PROVE  Undelivered(XAdd(q, m)) = Undelivered(q) \cup {[id |-> q.last + 1, job |-> m.job, retry |-> m.retry]}
<1>1. q.last \in Nat /\ q.delivered \in Nat /\ q.last + 1 > q.delivered
  BY DEF QueueState, IdsOK
<1> QED
  BY <1>1, XAddFields DEF Undelivered

\* The entry that is read is the oldest, so all the others stay undelivered.
LEMMA UndeliveredRead ==
  ASSUME NEW q \in QueueState, IdsOK(q), NEW e \in q.entries, IsNext(q, e)
  PROVE  Undelivered(XReadGroup(q, e)) = Undelivered(q) \ {e}
<1>1. q.entries \subseteq Entry /\ q.delivered \in Nat /\ e.id \in Nat /\ e.id > q.delivered
  BY DEF QueueState, IsNext, Undelivered, Entry
<1>2. ASSUME NEW f \in q.entries PROVE f.id > e.id <=> f.id > q.delivered /\ f # e
  <2>1. f.id \in Nat /\ (f.id = e.id => f = e)
    BY <1>1 DEF IdsOK, Entry
  <2>2. f.id > q.delivered => e.id <= f.id
    BY DEF IsNext, Undelivered
  <2> QED
    BY <1>1, <2>1, <2>2
<1>3. XReadGroup(q, e).entries = q.entries /\ XReadGroup(q, e).delivered = e.id
  BY XReadGroupFields
<1> QED
  BY <1>2, <1>3 DEF Undelivered

LEMMA UndeliveredSame ==
  ASSUME NEW q \in QueueState, NEW m, NEW id \in Nat, id <= q.delivered
  PROVE  /\ Undelivered(ZAdd(q, m)) = Undelivered(q) /\ Undelivered(ZRem(q, m)) = Undelivered(q)
         /\ Undelivered(AddDead(q, m)) = Undelivered(q) /\ Undelivered(XAck(q, id)) = Undelivered(q)
         /\ Undelivered(XDel(q, id)) = Undelivered(q)
<1>1. /\ Undelivered(ZAdd(q, m)) = Undelivered(q) /\ Undelivered(ZRem(q, m)) = Undelivered(q)
      /\ Undelivered(AddDead(q, m)) = Undelivered(q) /\ Undelivered(XAck(q, id)) = Undelivered(q)
  BY ZAddFields, ZRemFields, AddDeadFields, XAckFields DEF Undelivered
<1>2. Undelivered(XDel(q, id)) = Undelivered(q)
  <2>1. q.delivered \in Nat
    BY DEF QueueState
  <2>2. \A e \in q.entries : e.id > q.delivered => e.id # id
    BY <2>1
  <2> QED
    BY <2>2, XDelFields DEF Undelivered
<1> QED
  BY <1>1, <1>2

-----------------------------------------------------------------------------
(* The places of a job after each move: what a move takes from one place it *)
(* puts at one other at most.                                               *)

\* No place of j is new.
NoNewPlace(j) ==
  \A s \in Stage : /\ Waiting(s, j)' \subseteq Waiting(s, j)
                   /\ Retrying(s, j)' \subseteq Retrying(s, j)
                   /\ Working(s, j)' \subseteq Working(s, j)

LEMMA OnePlaceKept ==
  ASSUME NEW j, OnePlace(j), NoNewPlace(j)
  PROVE  OnePlace(j)'
BY DEF OnePlace, NoNewPlace

\* Nothing about the job is anywhere.
NoPlace(j) == \A s \in Stage : Waiting(s, j) = {} /\ Retrying(s, j) = {} /\ Working(s, j) = {}

\* With one place x of j taken away there is none left.
LEMMA OnlyPlace ==
  ASSUME NEW j, OnePlace(j), NEW s \in Stage
  PROVE  /\ \A e \in Waiting(s, j) : \A t \in Stage :
              /\ Waiting(t, j) = IF t = s THEN {e} ELSE {}
              /\ Retrying(t, j) = {} /\ Working(t, j) = {}
         /\ \A m \in Retrying(s, j) : \A t \in Stage :
              /\ Retrying(t, j) = IF t = s THEN {m} ELSE {}
              /\ Waiting(t, j) = {} /\ Working(t, j) = {}
         /\ \A w \in Working(s, j) : \A t \in Stage :
              /\ Working(t, j) \subseteq {w}
              /\ Waiting(t, j) = {} /\ Retrying(t, j) = {}
<1>1. ASSUME NEW e \in Waiting(s, j), NEW t \in Stage
      PROVE  Waiting(t, j) = (IF t = s THEN {e} ELSE {}) /\ Retrying(t, j) = {} /\ Working(t, j) = {}
  BY DEF OnePlace
<1>2. ASSUME NEW m \in Retrying(s, j), NEW t \in Stage
      PROVE  Retrying(t, j) = (IF t = s THEN {m} ELSE {}) /\ Waiting(t, j) = {} /\ Working(t, j) = {}
  BY DEF OnePlace
<1>3. ASSUME NEW w \in Working(s, j), NEW t \in Stage
      PROVE  Working(t, j) \subseteq {w} /\ Waiting(t, j) = {} /\ Retrying(t, j) = {}
  BY DEF OnePlace
<1> QED
  BY <1>1, <1>2, <1>3

\* Where things wait after a command on one queue, or after none.
LEMMA QueueAfter ==
  ASSUME IInv, NEW t \in Stage, NEW q, QueueGoes(t, q), NEW s \in Stage, NEW j
  PROVE  /\ queue'[s] = IF s = t THEN q ELSE queue[s]
         /\ Waiting(s, j)' = IF s = t THEN {e \in Undelivered(q) : e.job = j} ELSE Waiting(s, j)
BY Domains DEF QueueGoes, Waiting, Undelivered

LEMMA RetryingSame ==
  ASSUME UNCHANGED scheduler, NEW s, NEW j, queue'[s].retry \subseteq queue[s].retry
  PROVE  Retrying(s, j)' \subseteq Retrying(s, j)
BY DEF Retrying

\* A handler only gets on with the job it holds, and does not begin again with it.
LEMMA HandlerWorking ==
  ASSUME IInv, NEW w \in Workers, Handles(w), HandlerMove(w), NEW s, NEW j
  PROVE  Working(s, j)' \subseteq Working(s, j)
<1> DEFINE r == worker[w]
<1>1. r \in Worker /\ r.phase \in {"execute", "success", "dlq", "failure"}
  BY Domains DEF Handles, InMethod
<1>2. ASSUME NEW p, NEW c, Goes(w, At(r, p, c))
      PROVE  worker'[w].phase = p /\ worker'[w].call = c /\ worker'[w].msg = r.msg
  <2>1. worker'[w] = At(r, p, c)
    BY <1>2, Domains DEF Goes
  <2> QED
    BY <1>1, <2>1, AtFacts
<1>3. ASSUME worker'[w] # Idle, Busy(w)' PROVE Busy(w)
  <2>1. CASE Executes(w) \/ Achieves(w) \/ GivesUp(w) \/ DeadLetters(w)
    BY <2>1 DEF Executes, Achieves, GivesUp, DeadLetters, Busy
  <2>2. CASE Acknowledges(w)
    BY <1>1, <1>2, <1>3, <2>2 DEF Acknowledges, Busy
  <2>3. CASE Deletes(w)
    BY <1>1, <1>2, <1>3, <2>3 DEF Deletes, Busy
  <2>4. CASE Forwards(w) \/ Schedules(w) \/ Dies(w)
    BY <1>2, <1>3, <2>4 DEF Forwards, Schedules, Dies, Busy
  <2>5. CASE Finishes(w)
    <3>1. r.phase = "dlq"
      BY <1>3, <2>5, Domains DEF Finishes, Goes
    <3> QED
      BY <3>1 DEF Busy
  <2> QED
    BY <2>1, <2>2, <2>3, <2>4, <2>5 DEF HandlerMove
<1>4. ASSUME NEW v \in Workers, (HoldsJob(v, s, j) /\ Busy(v))' PROVE HoldsJob(v, s, j) /\ Busy(v)
  <2>1. CASE v # w
    <3>1. worker'[v] = worker[v]
      BY <2>1, HandlerGoes
    <3> QED
      BY <1>4, <3>1 DEF HoldsJob, Held, HeldJob, Busy
  <2>2. CASE v = w
    <3>1. worker'[w] # Idle
      BY <1>4, <2>2 DEF HoldsJob, Held, Idle
    <3>2. worker'[w].msg = r.msg
      BY <3>1, HandlerGoes
    <3> QED
      BY <1>3, <1>4, <2>2, <3>1, <3>2 DEF HoldsJob, Held, HeldJob
  <2> QED
    BY <2>1, <2>2
<1> QED
  BY <1>4 DEF Working

\* A job that was not taken in is nowhere.
LEMMA NotAccepted ==
  ASSUME IInv, NEW j, j \notin accepted["story"]
  PROVE  NoPlace(j)
<1>1. \A s \in Stage : accepted[s] \subseteq accepted["story"] /\ JobsIn(queue[s]) \subseteq accepted[s]
  BY Domains DEF IInv, OriginOK
<1>2. ASSUME NEW s \in Stage, NEW e \in queue[s].entries \cup queue[s].retry PROVE e.job # j
  BY <1>1 DEF JobsIn
<1>3. ASSUME NEW w \in Workers, Held(w) PROVE HeldJob(w) # j
  BY <1>1, <1>3, Domains DEF IInv, OriginOK
<1> QED
  BY <1>2, <1>3 DEF NoPlace, Waiting, Undelivered, Retrying, Working, HoldsJob

\* The moves that put a job somewhere find it nowhere else.
LEMMA OneWaiting ==
  ASSUME NEW j, NEW t \in Stage, NEW x,
         \A s \in Stage : /\ Waiting(s, j)' \subseteq IF s = t THEN {x} ELSE {}
                          /\ Retrying(s, j)' = {} /\ Working(s, j)' = {}
  PROVE  OnePlace(j)'
BY DEF OnePlace

LEMMA OneRetrying ==
  ASSUME NEW j, NEW t \in Stage, NEW x,
         \A s \in Stage : /\ Retrying(s, j)' \subseteq IF s = t THEN {x} ELSE {}
                          /\ Waiting(s, j)' = {} /\ Working(s, j)' = {}
  PROVE  OnePlace(j)'
BY DEF OnePlace

LEMMA OneWorking ==
  ASSUME NEW j, NEW x,
         \A s \in Stage : /\ Working(s, j)' \subseteq {x}
                          /\ Waiting(s, j)' = {} /\ Retrying(s, j)' = {}
  PROVE  OnePlace(j)'
BY DEF OnePlace

\* What the moves of a handler leave in the queues.
LEMMA HandlerRetry ==
  ASSUME IInv, NEW w \in Workers, Handles(w), HandlerMove(w), ~Schedules(w), NEW s \in Stage
  PROVE  queue'[s].retry = queue[s].retry
<1> DEFINE t == StageOf(w)
<1>1. ASSUME NEW u \in Stage, NEW q, QueueGoes(u, q), q.retry = queue[u].retry
      PROVE  queue'[s].retry = queue[s].retry
  BY <1>1, Domains DEF QueueGoes
<1>2. /\ t \in Stage /\ "email" \in Stage
      /\ queue[t] \in QueueState /\ queue["email"] \in QueueState
  BY Domains
<1>3. CASE UNCHANGED queue
  BY <1>3
<1>4. CASE DeadLetters(w)
  BY <1>1, <1>2, <1>4, AddDeadFields DEF DeadLetters
<1>5. CASE Acknowledges(w)
  BY <1>1, <1>2, <1>5, XAckFields DEF Acknowledges
<1>6. CASE Deletes(w)
  BY <1>1, <1>2, <1>6, XDelFields DEF Deletes
<1>7. CASE Forwards(w)
  BY <1>1, <1>2, <1>7, XAddFields DEF Forwards
<1> QED
  BY <1>3, <1>4, <1>5, <1>6, <1>7 DEF HandlerMove, Executes, Achieves, GivesUp, Dies, Finishes

LEMMA HandlerWaiting ==
  ASSUME IInv, NEW w \in Workers, Handles(w), HandlerMove(w), ~Forwards(w), NEW s \in Stage
  PROVE  Undelivered(queue'[s]) = Undelivered(queue[s])
<1> DEFINE t == StageOf(w)
           id == worker[w].msg.id
<1>1. ASSUME NEW q, QueueGoes(t, q), Undelivered(q) = Undelivered(queue[t])
      PROVE  Undelivered(queue'[s]) = Undelivered(queue[s])
  BY <1>1, Domains DEF QueueGoes
<1>2. t \in Stage /\ queue[t] \in QueueState /\ id \in Nat /\ id <= queue[t].delivered
  BY Domains DEF Handles, Entry, IInv, HeldOK
<1> HIDE DEF id
<1>3. CASE UNCHANGED queue
  BY <1>3
<1>4. CASE DeadLetters(w)
  BY <1>1, <1>2, <1>4, UndeliveredSame DEF DeadLetters
<1>5. CASE Acknowledges(w)
  BY <1>1, <1>2, <1>5, UndeliveredSame DEF Acknowledges, id
<1>6. CASE Deletes(w)
  BY <1>1, <1>2, <1>6, UndeliveredSame DEF Deletes, id
<1>7. CASE Schedules(w)
  BY <1>1, <1>2, <1>7, UndeliveredSame DEF Schedules
<1> QED
  BY <1>3, <1>4, <1>5, <1>6, <1>7 DEF HandlerMove, Executes, Achieves, GivesUp, Dies, Finishes

\* What a move other than a scheduler's ZREM takes from a retry set: nothing.
LEMMA RetryGrows ==
  ASSUME IInv, FaultlessMove, NEW s \in Stage, \A p \in Schedulers : Removes(p) => StageOf(p) # s
  PROVE  queue[s].retry \subseteq queue'[s].retry
<1>1. ASSUME NEW t \in Stage, NEW q, QueueGoes(t, q), s = t => queue[s].retry \subseteq q.retry
      PROVE  queue[s].retry \subseteq queue'[s].retry
  BY <1>1, Domains DEF QueueGoes
<1>2. ASSUME NEW t \in Stage, NEW m PROVE XAdd(queue[t], m).retry = queue[t].retry
  BY Domains, XAddFields
<1>3. ASSUME NEW w \in Workers, Takes(w) PROVE queue[s].retry \subseteq queue'[s].retry
  <2>1. PICK e : QueueGoes(StageOf(w), XReadGroup(queue[StageOf(w)], e))
    BY <1>3 DEF Takes, TakesThe
  <2>2. XReadGroup(queue[StageOf(w)], e).retry = queue[StageOf(w)].retry
    BY Domains, XReadGroupFields
  <2> QED
    BY <1>1, <2>1, <2>2, Domains
<1>4. ASSUME NEW w \in Workers, Handles(w), HandlerMove(w) PROVE queue[s].retry \subseteq queue'[s].retry
  <2>1. CASE Schedules(w)
    <3>1. ZAdd(queue[StageOf(w)], RetryOf(w)).retry = queue[StageOf(w)].retry \cup {RetryOf(w)}
      BY Domains, ZAddFields
    <3> QED
      BY <1>1, <2>1, <3>1, Domains DEF Schedules
  <2> QED
    BY <1>4, <2>1, HandlerRetry
<1>5. ASSUME NEW j \in Jobs, Asks(j) PROVE queue[s].retry \subseteq queue'[s].retry
  BY <1>1, <1>2, <1>5, Domains DEF Asks
<1>6. ASSUME NEW p \in Schedulers, NEW m, Readds(p, m) PROVE queue[s].retry \subseteq queue'[s].retry
  BY <1>1, <1>2, <1>6, Domains DEF Readds
<1>7. ASSUME NEW p \in Schedulers, Removes(p) PROVE queue[s].retry \subseteq queue'[s].retry
  BY <1>1, <1>7, Domains DEF Removes
<1>8. CASE UNCHANGED queue
  BY <1>8
<1> QED
  BY <1>3, <1>4, <1>5, <1>6, <1>7, <1>8 DEF FaultlessMove, RowStep, SchedulerMove, Tick

\* Only its own moves change a scheduler.
LEMMA SchedulerSame ==
  ASSUME IInv, FaultlessMove, NEW p \in Schedulers, ~SchedulerMove(p)
  PROVE  scheduler'[p] = scheduler[p]
<1>1. ASSUME NEW o \in Schedulers, SchedulerMove(o) PROVE scheduler'[p] = scheduler[p]
  BY <1>1, Domains DEF SchedulerMove, Tick, Readds, Removes
<1>2. ASSUME NEW w \in Workers, Takes(w) \/ (Handles(w) /\ HandlerMove(w)) PROVE scheduler'[p] = scheduler[p]
  BY <1>2, HandlerGoes DEF Takes, TakesThe, Goes
<1> QED
  BY <1>1, <1>2 DEF FaultlessMove, RowStep, Asks

\* With one scheduler per stage nobody else takes a member of its batch away.
LEMMA BatchStep ==
  ASSUME IInv, [Next]_vars, OneEach(Schedulers), Calm', NEW p \in Schedulers, BatchOK(p)
  PROVE  BatchOK(p)'
<1> DEFINE s == StageOf(p)
<1>0. FaultlessMove /\ s \in Stage /\ scheduler[p] \in Scheduler
  BY CalmStep, Domains
<1>1. \A o \in Schedulers : Removes(o) /\ o # p => StageOf(o) # s
  BY DEF OneEach
<1>2. CASE ~SchedulerMove(p)
  <2>1. scheduler'[p] = scheduler[p]
    BY <1>0, <1>2, SchedulerSame
  <2>2. queue[s].retry \subseteq queue'[s].retry
    BY <1>0, <1>1, <1>2, RetryGrows DEF SchedulerMove
  <2> QED
    BY <2>1, <2>2 DEF BatchOK
<1>3. CASE Tick(p)
  <2>1. scheduler[p] = IdleScheduler /\ UNCHANGED queue
    BY <1>3 DEF Tick
  <2>2. PICK due \in SUBSET queue[s].retry : scheduler' = [scheduler EXCEPT ![p].batch = due]
    BY <1>3 DEF Tick
  <2>3. scheduler'[p].batch = due /\ scheduler'[p].removing = None
    BY <2>1, <2>2, Domains DEF IdleScheduler
  <2>4. None \notin due
    BY <1>0, Domains, PoolsAssumption DEF QueueState
  <2> QED
    BY <2>1, <2>3, <2>4 DEF BatchOK
<1>4. ASSUME NEW m \in scheduler[p].batch, Readds(p, m) PROVE BatchOK(p)'
  <2>1. scheduler'[p].batch = scheduler[p].batch \ {m} /\ scheduler'[p].removing = m
    BY <1>4, Domains DEF Readds
  <2>2. queue'[s].retry = queue[s].retry
    BY <1>0, <1>4, Domains, XAddFields DEF Readds, QueueGoes
  <2> QED
    BY <2>1, <2>2 DEF BatchOK
<1>5. CASE Removes(p)
  <2>1. scheduler'[p].batch = scheduler[p].batch /\ scheduler'[p].removing = None
    BY <1>0, <1>5, Domains DEF Removes, Scheduler
  <2>2. queue'[s].retry = queue[s].retry \ {scheduler[p].removing}
    BY <1>0, <1>5, Domains, ZRemFields DEF Removes, QueueGoes
  <2>3. None \notin scheduler[p].batch
    BY <1>0, PoolsAssumption DEF Scheduler
  <2> QED
    BY <2>1, <2>2, <2>3 DEF BatchOK
<1> QED
  BY <1>2, <1>3, <1>4, <1>5 DEF SchedulerMove

\* Where a job is after each move that puts it somewhere else.
Added(q, m) == [id |-> q.last + 1, job |-> m.job, retry |-> m.retry]

LEMMA AddWaiting ==
  ASSUME IInv, NEW t \in Stage, NEW m, QueueGoes(t, XAdd(queue[t], m)), NEW s \in Stage, NEW j
  PROVE  /\ Waiting(s, j)' = Waiting(s, j) \cup IF s = t /\ m.job = j THEN {Added(queue[t], m)} ELSE {}
         /\ queue'[s].retry = queue[s].retry
<1> DEFINE q == XAdd(queue[t], m)
           a == Added(queue[t], m)
<1>1. Undelivered(q) = Undelivered(queue[t]) \cup {a}
  BY UndeliveredAdd, Domains DEF IInv, Added
<1>2. a.job = m.job
  BY DEF Added
<1>3. q.retry = queue[t].retry
  BY Domains, XAddFields
<1> HIDE DEF q, a
<1>4. CASE s = t
  <2>1. queue'[s] = q
    BY <1>4, Domains DEF QueueGoes, q
  <2> QED
    BY <1>1, <1>2, <1>3, <1>4, <2>1 DEF Waiting, a
<1>5. CASE s # t
  <2>1. queue'[s] = queue[s]
    BY <1>5, Domains DEF QueueGoes
  <2> QED
    BY <1>5, <2>1 DEF Waiting
<1> QED
  BY <1>4, <1>5

LEMMA TakesPlaces ==
  ASSUME IInv, NEW w \in Workers, NEW e \in queue[StageOf(w)].entries, TakesThe(w, e), NEW s \in Stage, NEW j
  PROVE  /\ Waiting(s, j)' = Waiting(s, j) \ IF s = StageOf(w) THEN {e} ELSE {}
         /\ Retrying(s, j)' = Retrying(s, j)
         /\ Working(s, j)' = Working(s, j) \cup IF s = StageOf(w) /\ e.job = j THEN {w} ELSE {}
<1> DEFINE t == StageOf(w)
           q == XReadGroup(queue[t], e)
<1>1. t \in Stage /\ queue[t] \in QueueState /\ IdsOK(queue[t]) /\ e # None
  BY Domains, PoolsAssumption DEF IInv, QueueState
<1>2. Undelivered(q) = Undelivered(queue[t]) \ {e} /\ q.retry = queue[t].retry
  BY <1>1, UndeliveredRead, XReadGroupFields DEF TakesThe
<1>3. queue'[s] = IF s = t THEN q ELSE queue[s]
  BY <1>1, Domains DEF TakesThe, QueueGoes
<1> HIDE DEF q
<1>4. Waiting(s, j)' = Waiting(s, j) \ IF s = t THEN {e} ELSE {}
  BY <1>2, <1>3 DEF Waiting, Undelivered
<1>5. Retrying(s, j)' = Retrying(s, j)
  BY <1>2, <1>3 DEF Retrying, TakesThe, Goes
<1>6. worker'[w] = Started(t, e) /\ worker[w] = Idle /\ \A v \in Workers \ {w} : worker'[v] = worker[v]
  BY Domains DEF TakesThe, Goes
<1>7. worker'[w].phase = "execute" /\ worker'[w].msg = e /\ worker[w].msg = None
  BY <1>1, <1>6, StartedFacts DEF Idle
<1>8. ASSUME NEW v \in Workers \ {w} PROVE (HoldsJob(v, s, j) /\ Busy(v))' <=> HoldsJob(v, s, j) /\ Busy(v)
  BY <1>6 DEF HoldsJob, Held, HeldJob, Busy
<1>9. ~HoldsJob(w, s, j) /\ ((HoldsJob(w, s, j) /\ Busy(w))' <=> s = t /\ e.job = j)
  BY <1>1, <1>7 DEF HoldsJob, Held, HeldJob, Busy
<1>10. Working(s, j)' = Working(s, j) \cup IF s = t /\ e.job = j THEN {w} ELSE {}
  BY <1>8, <1>9 DEF Working
<1> QED
  BY <1>4, <1>5, <1>10

LEMMA WorkingSame ==
  ASSUME UNCHANGED worker, NEW s, NEW j
  PROVE  Working(s, j)' = Working(s, j)
BY DEF Working, HoldsJob, Held, HeldJob, Busy

LEMMA ReaddsPlaces ==
  ASSUME IInv, NEW p \in Schedulers, NEW m \in scheduler[p].batch, Readds(p, m), NEW s \in Stage, NEW j
  PROVE  /\ Waiting(s, j)' = Waiting(s, j) \cup IF s = StageOf(p) /\ m.job = j THEN {Added(queue[s], m)} ELSE {}
         /\ Retrying(s, j)' = Retrying(s, j) \ IF s = StageOf(p) THEN {m} ELSE {}
         /\ Working(s, j)' = Working(s, j)
<1>1. /\ Waiting(s, j)' = Waiting(s, j) \cup IF s = StageOf(p) /\ m.job = j THEN {Added(queue[s], m)} ELSE {}
      /\ queue'[s].retry = queue[s].retry
  BY AddWaiting, Domains DEF Readds
<1>2. /\ scheduler'[p].removing = m /\ scheduler[p].removing = None
      /\ \A o \in Schedulers \ {p} : scheduler'[o] = scheduler[o]
  BY Domains DEF Readds
<1>3. None \notin queue[s].retry
  BY Domains, PoolsAssumption DEF QueueState
<1>4. ASSUME NEW n \in queue[s].retry
      PROVE  (\A o \in Schedulers : StageOf(o) = s => scheduler'[o].removing # n)
               <=> (\A o \in Schedulers : StageOf(o) = s => scheduler[o].removing # n) /\ ~(s = StageOf(p) /\ n = m)
  BY <1>2, <1>3
<1>5. Retrying(s, j)' = Retrying(s, j) \ IF s = StageOf(p) THEN {m} ELSE {}
  BY <1>1, <1>4 DEF Retrying
<1> QED
  BY <1>1, <1>5, WorkingSame DEF Readds

LEMMA RemovesPlaces ==
  ASSUME IInv, NEW p \in Schedulers, Removes(p), NEW s \in Stage, NEW j
  PROVE  Waiting(s, j)' = Waiting(s, j) /\ Retrying(s, j)' = Retrying(s, j) /\ Working(s, j)' = Working(s, j)
<1> DEFINE t == StageOf(p)
           m == scheduler[p].removing
<1>1. t \in Stage /\ queue[t] \in QueueState /\ 0 \in Nat /\ 0 <= queue[t].delivered
  BY Domains DEF QueueState
<1>2. Undelivered(ZRem(queue[t], m)) = Undelivered(queue[t]) /\ ZRem(queue[t], m).retry = queue[t].retry \ {m}
  BY <1>1, UndeliveredSame, ZRemFields
<1>3. queue'[s] = IF s = t THEN ZRem(queue[t], m) ELSE queue[s]
  BY <1>1, Domains DEF Removes, QueueGoes
<1>4. Waiting(s, j)' = Waiting(s, j)
  BY <1>2, <1>3 DEF Waiting
<1>5. scheduler'[p].removing = None /\ \A o \in Schedulers \ {p} : scheduler'[o] = scheduler[o]
  BY Domains DEF Removes, Scheduler
<1>6. queue'[s].retry = queue[s].retry \ IF s = t THEN {m} ELSE {}
  BY <1>2, <1>3
<1>7. None \notin queue[s].retry
  BY Domains, PoolsAssumption DEF QueueState
<1>8. ASSUME NEW n \in queue[s].retry
      PROVE  n \in queue'[s].retry /\ (\A o \in Schedulers : StageOf(o) = s => scheduler'[o].removing # n)
               <=> (\A o \in Schedulers : StageOf(o) = s => scheduler[o].removing # n)
  BY <1>5, <1>6, <1>7
<1>9. Retrying(s, j)' = Retrying(s, j)
  BY <1>6, <1>8 DEF Retrying
<1> QED
  BY <1>4, <1>9, WorkingSame DEF Removes

\* Where a worker stands after a move of its handler.
LEMMA GoesAt ==
  ASSUME IInv, NEW w \in Workers, NEW p, NEW c, Goes(w, At(worker[w], p, c))
  PROVE  worker'[w].phase = p /\ worker'[w].call = c /\ worker'[w].msg = worker[w].msg
<1>1. worker'[w] = At(worker[w], p, c) /\ worker[w] \in Worker
  BY Domains DEF Goes
<1> QED
  BY <1>1, AtFacts

LEMMA ForwardsPlaces ==
  ASSUME IInv, NEW w \in Workers, Handles(w), Forwards(w), NEW s \in Stage, NEW j
  PROVE  /\ Waiting(s, j)' = Waiting(s, j) \cup IF s = "email" /\ HeldJob(w) = j
                                                THEN {Added(queue["email"], MemberOf(worker[w].msg))} ELSE {}
         /\ Retrying(s, j)' = Retrying(s, j)
         /\ Working(s, j)' = Working(s, j) \ {w}
<1>1. /\ Waiting(s, j)' = Waiting(s, j) \cup IF s = "email" /\ MemberOf(worker[w].msg).job = j
                                             THEN {Added(queue["email"], MemberOf(worker[w].msg))} ELSE {}
      /\ queue'[s].retry = queue[s].retry
  BY AddWaiting, Domains DEF Forwards
<1>2. MemberOf(worker[w].msg).job = HeldJob(w)
  BY DEF MemberOf, HeldJob
<1>3. Retrying(s, j)' = Retrying(s, j)
  BY <1>1 DEF Retrying, Forwards, Goes
<1>4. worker'[w].phase = "success" /\ worker'[w].call = "Update"
  BY GoesAt DEF Forwards
<1>5. ASSUME NEW v \in Workers \ {w} PROVE (HoldsJob(v, s, j) /\ Busy(v))' <=> HoldsJob(v, s, j) /\ Busy(v)
  <2>1. worker'[v] = worker[v]
    BY Domains DEF Forwards, Goes
  <2> QED
    BY <2>1 DEF HoldsJob, Held, HeldJob, Busy
<1>6. ~Busy(w)'
  BY <1>4 DEF Busy
<1>7. Working(s, j)' = Working(s, j) \ {w}
  BY <1>5, <1>6 DEF Working
<1> QED
  BY <1>1, <1>2, <1>3, <1>7

LEMMA SchedulesPlaces ==
  ASSUME IInv, NEW w \in Workers, Handles(w), Schedules(w), NEW s \in Stage, NEW j
  PROVE  /\ Waiting(s, j)' = Waiting(s, j)
         /\ queue'[s].retry = queue[s].retry \cup IF s = StageOf(w) THEN {RetryOf(w)} ELSE {}
         /\ Retrying(s, j)' \subseteq Retrying(s, j) \cup IF s = StageOf(w) /\ HeldJob(w) = j THEN {RetryOf(w)} ELSE {}
         /\ Retrying(s, j) \subseteq Retrying(s, j)'
         /\ Working(s, j)' = Working(s, j) \ {w}
<1>1. Waiting(s, j)' = Waiting(s, j)
  <2>1. HandlerMove(w) /\ ~Forwards(w)
    BY DEF Schedules, Forwards, HandlerMove
  <2>2. Undelivered(queue'[s]) = Undelivered(queue[s])
    BY <2>1, HandlerWaiting
  <2> QED
    BY <2>2 DEF Waiting
<1>2. queue'[s].retry = queue[s].retry \cup IF s = StageOf(w) THEN {RetryOf(w)} ELSE {}
  <2>1. ZAdd(queue[StageOf(w)], RetryOf(w)).retry = queue[StageOf(w)].retry \cup {RetryOf(w)}
    BY ZAddFields, Domains
  <2> QED
    BY <2>1, Domains DEF Schedules, QueueGoes
<1>3. RetryOf(w).job = HeldJob(w) /\ UNCHANGED scheduler
  BY DEF RetryOf, Schedules, Goes
<1>4. /\ Retrying(s, j)' \subseteq Retrying(s, j) \cup IF s = StageOf(w) /\ HeldJob(w) = j THEN {RetryOf(w)} ELSE {}
      /\ Retrying(s, j) \subseteq Retrying(s, j)'
  BY <1>2, <1>3 DEF Retrying
<1>5. worker'[w].phase = "failure" /\ worker'[w].call = "Ack"
  BY GoesAt DEF Schedules
<1>6. ASSUME NEW v \in Workers \ {w} PROVE (HoldsJob(v, s, j) /\ Busy(v))' <=> HoldsJob(v, s, j) /\ Busy(v)
  <2>1. worker'[v] = worker[v]
    BY Domains DEF Schedules, Goes
  <2> QED
    BY <2>1 DEF HoldsJob, Held, HeldJob, Busy
<1>7. ~Busy(w)'
  BY <1>5 DEF Busy
<1>8. Working(s, j)' = Working(s, j) \ {w}
  BY <1>6, <1>7 DEF Working
<1> QED
  BY <1>1, <1>2, <1>4, <1>8

\* The other moves of a handler add no place.
LEMMA HandlerPlaces ==
  ASSUME IInv, NEW w \in Workers, Handles(w), HandlerMove(w), ~Forwards(w), ~Schedules(w), NEW s \in Stage, NEW j
  PROVE  /\ Waiting(s, j)' = Waiting(s, j) /\ Retrying(s, j)' = Retrying(s, j)
         /\ Working(s, j)' \subseteq Working(s, j)
<1>1. Undelivered(queue'[s]) = Undelivered(queue[s])
  BY HandlerWaiting
<1>2. queue'[s].retry = queue[s].retry
  BY HandlerRetry
<1>3. UNCHANGED scheduler
  BY HandlerGoes
<1> QED
  BY <1>1, <1>2, <1>3, HandlerWorking DEF Waiting, Retrying

-----------------------------------------------------------------------------
(* OnePlace.                                                                *)

\* What a step of a worker does to the places of a job.
LEMMA OnePlaceWorker ==
  ASSUME IInv, NEW w \in Workers, Takes(w) \/ (Handles(w) /\ HandlerMove(w)), NEW j, OnePlace(j)
  PROVE  OnePlace(j)'
<1> DEFINE t == StageOf(w)
<1>0. t \in Stage /\ "email" \in Stage
  BY Domains
<1>1. ASSUME NEW e \in queue[t].entries, TakesThe(w, e) PROVE OnePlace(j)'
  <2>1. CASE e.job = j
    <3>1. e \in Waiting(t, j)
      BY <1>1, <2>1 DEF TakesThe, IsNext, Waiting
    <3>2. ASSUME NEW s \in Stage
          PROVE  Working(s, j)' \subseteq {w} /\ Waiting(s, j)' = {} /\ Retrying(s, j)' = {}
      <4>1. /\ Waiting(s, j) = IF s = t THEN {e} ELSE {}
            /\ Retrying(s, j) = {} /\ Working(s, j) = {}
        BY <1>0, <3>1, OnlyPlace
      <4>2. /\ Waiting(s, j)' = Waiting(s, j) \ IF s = t THEN {e} ELSE {}
            /\ Retrying(s, j)' = Retrying(s, j)
            /\ Working(s, j)' = Working(s, j) \cup IF s = t /\ e.job = j THEN {w} ELSE {}
        BY <1>1, TakesPlaces
      <4> QED
        BY <4>1, <4>2
    <3> QED
      BY <3>2, OneWorking
  <2>2. CASE e.job # j
    <3>1. ASSUME NEW s \in Stage
          PROVE  /\ Waiting(s, j)' \subseteq Waiting(s, j) /\ Retrying(s, j)' \subseteq Retrying(s, j)
                 /\ Working(s, j)' \subseteq Working(s, j)
      BY <1>1, <2>2, TakesPlaces
    <3> QED
      BY <3>1, OnePlaceKept DEF NoNewPlace
  <2> QED
    BY <2>1, <2>2
<1>2. CASE Handles(w) /\ Forwards(w)
  <2>1. CASE HeldJob(w) = j
    <3>1. w \in Working("story", j)
      BY <1>2, <2>1 DEF Forwards, Handles, Working, HoldsJob, Busy
    <3> DEFINE x == Added(queue["email"], MemberOf(worker[w].msg))
    <3>2. ASSUME NEW s \in Stage
          PROVE  /\ Waiting(s, j)' \subseteq IF s = "email" THEN {x} ELSE {}
                 /\ Retrying(s, j)' = {} /\ Working(s, j)' = {}
      <4>1. Working(s, j) \subseteq {w} /\ Waiting(s, j) = {} /\ Retrying(s, j) = {}
        BY <3>1, Domains, OnlyPlace
      <4>2. /\ Waiting(s, j)' = Waiting(s, j) \cup IF s = "email" /\ HeldJob(w) = j THEN {x} ELSE {}
            /\ Retrying(s, j)' = Retrying(s, j)
            /\ Working(s, j)' = Working(s, j) \ {w}
        BY <1>2, ForwardsPlaces
      <4> QED
        BY <4>1, <4>2
    <3> QED
      BY <1>0, <3>2, OneWaiting
  <2>2. CASE HeldJob(w) # j
    <3>1. ASSUME NEW s \in Stage
          PROVE  /\ Waiting(s, j)' \subseteq Waiting(s, j) /\ Retrying(s, j)' \subseteq Retrying(s, j)
                 /\ Working(s, j)' \subseteq Working(s, j)
      BY <1>2, <2>2, ForwardsPlaces
    <3> QED
      BY <3>1, OnePlaceKept DEF NoNewPlace
  <2> QED
    BY <2>1, <2>2
<1>3. CASE Handles(w) /\ Schedules(w)
  <2>1. CASE HeldJob(w) = j
    <3>1. w \in Working(t, j)
      BY <1>3, <2>1 DEF Schedules, Handles, Working, HoldsJob, Busy
    <3>2. ASSUME NEW s \in Stage
          PROVE  /\ Retrying(s, j)' \subseteq IF s = t THEN {RetryOf(w)} ELSE {}
                 /\ Waiting(s, j)' = {} /\ Working(s, j)' = {}
      <4>1. Working(s, j) \subseteq {w} /\ Waiting(s, j) = {} /\ Retrying(s, j) = {}
        BY <1>0, <3>1, OnlyPlace
      <4>2. /\ Waiting(s, j)' = Waiting(s, j)
            /\ Retrying(s, j)' \subseteq Retrying(s, j) \cup IF s = t /\ HeldJob(w) = j THEN {RetryOf(w)} ELSE {}
            /\ Working(s, j)' = Working(s, j) \ {w}
        BY <1>3, SchedulesPlaces
      <4> QED
        BY <4>1, <4>2
    <3> QED
      BY <1>0, <3>2, OneRetrying
  <2>2. CASE HeldJob(w) # j
    <3>1. ASSUME NEW s \in Stage
          PROVE  /\ Waiting(s, j)' \subseteq Waiting(s, j) /\ Retrying(s, j)' \subseteq Retrying(s, j)
                 /\ Working(s, j)' \subseteq Working(s, j)
      <4>1. /\ Waiting(s, j)' = Waiting(s, j)
            /\ Retrying(s, j)' \subseteq Retrying(s, j) \cup IF s = t /\ HeldJob(w) = j THEN {RetryOf(w)} ELSE {}
            /\ Working(s, j)' = Working(s, j) \ {w}
        BY <1>3, SchedulesPlaces
      <4> QED
        BY <2>2, <4>1
    <3> QED
      BY <3>1, OnePlaceKept DEF NoNewPlace
  <2> QED
    BY <2>1, <2>2
<1>4. CASE Handles(w) /\ HandlerMove(w) /\ ~Forwards(w) /\ ~Schedules(w)
  <2>1. ASSUME NEW s \in Stage
        PROVE  /\ Waiting(s, j)' \subseteq Waiting(s, j) /\ Retrying(s, j)' \subseteq Retrying(s, j)
               /\ Working(s, j)' \subseteq Working(s, j)
    BY <1>4, HandlerPlaces
  <2> QED
    BY <2>1, OnePlaceKept DEF NoNewPlace
<1> QED
  BY <1>1, <1>2, <1>3, <1>4 DEF Takes

\* The other steps: a request, and what a scheduler does with its batch.
LEMMA OnePlaceStep ==
  ASSUME IInv, [Next]_vars, OneEach(Schedulers), Calm', \A p \in Schedulers : BatchOK(p),
         NEW j \in Jobs, RequestedOnce(j), OnePlace(j)
  PROVE  OnePlace(j)'
<1>0. FaultlessMove /\ faults = 0
  BY CalmStep DEF Calm
<1>1. CASE UNCHANGED <<queue, worker, scheduler>>
  BY <1>1 DEF OnePlace, Waiting, Undelivered, Retrying, Working, HoldsJob, Held, HeldJob, Busy
<1>2. ASSUME NEW k \in Jobs, Asks(k) PROVE OnePlace(j)'
  <2> DEFINE m == [job |-> k, retry |-> 0]
             x == Added(queue["story"], m)
  <2>1. ASSUME NEW s \in Stage
        PROVE  /\ Waiting(s, j)' = Waiting(s, j) \cup IF s = "story" /\ k = j THEN {x} ELSE {}
               /\ Retrying(s, j)' = Retrying(s, j) /\ Working(s, j)' = Working(s, j)
    <3>1. QueueGoes("story", XAdd(queue["story"], m)) /\ UNCHANGED <<worker, scheduler>> /\ m.job = k
      BY <1>2 DEF Asks
    <3> HIDE DEF m
    <3>2. /\ Waiting(s, j)' = Waiting(s, j) \cup IF s = "story" /\ m.job = j THEN {x} ELSE {}
          /\ queue'[s].retry = queue[s].retry
      BY <3>1, AddWaiting, Domains
    <3> QED
      BY <3>1, <3>2, WorkingSame DEF Retrying
  <2> HIDE DEF x
  <2>2. CASE k = j
    <3>1. NoPlace(j)
      BY <1>0, <1>2, <2>2, NotAccepted DEF Asks, RequestedOnce
    <3>2. ASSUME NEW s \in Stage
          PROVE  /\ Waiting(s, j)' \subseteq IF s = "story" THEN {x} ELSE {}
                 /\ Retrying(s, j)' = {} /\ Working(s, j)' = {}
      BY <2>1, <3>1 DEF NoPlace
    <3> QED
      BY <3>2, Domains, OneWaiting
  <2>3. CASE k # j
    BY <2>1, <2>3, OnePlaceKept DEF NoNewPlace
  <2> QED
    BY <2>2, <2>3
<1>3. ASSUME NEW p \in Schedulers, NEW m \in scheduler[p].batch, Readds(p, m) PROVE OnePlace(j)'
  <2> DEFINE t == StageOf(p)
             x == Added(queue[t], m)
  <2>1. ASSUME NEW s \in Stage
        PROVE  /\ Waiting(s, j)' = Waiting(s, j) \cup IF s = t /\ m.job = j THEN {x} ELSE {}
               /\ Retrying(s, j)' = Retrying(s, j) \ IF s = t THEN {m} ELSE {}
               /\ Working(s, j)' = Working(s, j)
    BY <1>3, ReaddsPlaces
  <2> HIDE DEF x
  <2>2. CASE m.job = j
    <3>1. m \in Retrying(t, j)
      <4>1. m \in queue[t].retry
        BY DEF BatchOK
      <4>2. m # None
        BY <4>1, Domains, PoolsAssumption DEF QueueState
      <4>3. \A o \in Schedulers : StageOf(o) = t => scheduler[o].removing # m
        BY <1>3, <4>2 DEF OneEach, Readds
      <4> QED
        BY <2>2, <4>1, <4>3 DEF Retrying
    <3>2. ASSUME NEW s \in Stage
          PROVE  /\ Waiting(s, j)' \subseteq IF s = t THEN {x} ELSE {}
                 /\ Retrying(s, j)' = {} /\ Working(s, j)' = {}
      <4>1. /\ Retrying(s, j) = IF s = t THEN {m} ELSE {}
            /\ Waiting(s, j) = {} /\ Working(s, j) = {}
        BY <3>1, Domains, OnlyPlace
      <4> QED
        BY <2>1, <4>1
    <3> QED
      BY <3>2, Domains, OneWaiting
  <2>3. CASE m.job # j
    BY <2>1, <2>3, OnePlaceKept DEF NoNewPlace
  <2> QED
    BY <2>2, <2>3
<1>4. ASSUME NEW p \in Schedulers, Removes(p) PROVE OnePlace(j)'
  BY <1>4, RemovesPlaces, OnePlaceKept DEF NoNewPlace
<1>5. ASSUME NEW p \in Schedulers, Tick(p) PROVE OnePlace(j)'
  <2>1. scheduler'[p].removing = scheduler[p].removing /\ \A o \in Schedulers \ {p} : scheduler'[o] = scheduler[o]
    BY <1>5, Domains DEF Tick, Scheduler
  <2>2. \A o \in Schedulers : scheduler'[o].removing = scheduler[o].removing
    BY <2>1
  <2>3. UNCHANGED <<queue, worker>>
    BY <1>5 DEF Tick
  <2>4. ASSUME NEW s \in Stage
        PROVE  /\ Waiting(s, j)' \subseteq Waiting(s, j) /\ Retrying(s, j)' \subseteq Retrying(s, j)
               /\ Working(s, j)' \subseteq Working(s, j)
    BY <2>2, <2>3, WorkingSame DEF Waiting, Undelivered, Retrying
  <2> QED
    BY <2>4, OnePlaceKept DEF NoNewPlace
<1> QED
  BY <1>0, <1>1, <1>2, <1>3, <1>4, <1>5, OnePlaceWorker DEF FaultlessMove, RowStep, SchedulerMove

-----------------------------------------------------------------------------
(* PlaceInv.                                                                *)

LEMMA PlaceInit == Init => PlaceInv
<1> SUFFICES ASSUME Init PROVE PlaceInv
  OBVIOUS
<1>1. ASSUME NEW j \in Jobs PROVE RequestedOnce(j)
  BY DEF Init, RequestedOnce, VerifiedUser, Stage
<1>2. ASSUME NEW p \in Schedulers PROVE BatchOK(p)
  BY DEF Init, BatchOK, IdleScheduler
<1>3. ASSUME NEW j \in Jobs PROVE OnePlace(j)
  <2>1. ASSUME NEW s \in Stage PROVE Waiting(s, j) = {} /\ Retrying(s, j) = {} /\ Working(s, j) = {}
    BY DEF Init, Waiting, Undelivered, Retrying, Working, HoldsJob, Held, EmptyQueue, Idle
  <2> QED
    BY <2>1 DEF OnePlace
<1> QED
  BY <1>1, <1>2, <1>3 DEF PlaceInv

LEMMA PlaceStep ==
  ASSUME IInv, PlaceInv, [Next]_vars
  PROVE  PlaceInv'
<1>1. \A j \in Jobs : RequestedOnce(j)'
  BY RequestedStep DEF PlaceInv
<1>2. ASSUME OneEach(Schedulers), Calm'
      PROVE  /\ \A p \in Schedulers : BatchOK(p)'
             /\ \A j \in Jobs : OnePlace(j)'
  <2>1. Calm
    BY <1>2, CalmStep
  <2> QED
    BY <1>2, <2>1, BatchStep, OnePlaceStep DEF PlaceInv
<1> QED
  BY <1>1, <1>2 DEF PlaceInv, OneEach

\* While no call fails and the program is not stopped, a job of a stage is at one
\* place at most: an entry not read, a pending one, a worker that still has to hand it
\* on, the retry queue or a scheduler's batch. Every handler takes it from one place
\* before it puts it at the next (XADD after Execute, ZREM before the retry's XADD).
THEOREM PlaceInvariance == Spec => []PlaceInv
BY Invariance, PlaceInit, PlaceStep, PTL DEF Spec

\* With one scheduler per stage, no failed call and no restart, no two workers of
\* a stage execute one job at once: WorkerPool.Run hands a job on only when its
\* Execute is over.
THEOREM NoConcurrent == Spec => []NoConcurrentExecution
<1>1. PlaceInv => NoConcurrentExecution
  <2> SUFFICES ASSUME PlaceInv, OneEach(Schedulers), Calm,
                      NEW v \in Workers, NEW w \in Workers, NEW s \in Stage, NEW j \in Jobs,
                      v # w, HoldsJob(v, s, j), HoldsJob(w, s, j),
                      worker[v].phase = "execute", worker[w].phase = "execute"
               PROVE  FALSE
    BY DEF NoConcurrentExecution
  <2>1. v \in Working(s, j) /\ w \in Working(s, j)
    BY DEF Working, Busy
  <2> QED
    BY <2>1 DEF PlaceInv, OnePlace
<1> QED
  BY <1>1, PlaceInvariance, PTL
=============================================================================
