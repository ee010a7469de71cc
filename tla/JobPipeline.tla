---------------------------- MODULE JobPipeline ----------------------------
(***************************************************************************)
(* The asynchronous story pipeline: ScheduleStoryGeneration puts a job on  *)
(* the story stream; a pool of story workers generates and stores the      *)
(* story and forwards the job to the email stream; a pool of email workers *)
(* sends the notification. A job that fails goes to a sorted set, from     *)
(* which a pool of schedulers puts it back on its stream, and at           *)
(* MaxJobRetry also to the dead-letter stream.                             *)
(*                                                                         *)
(* A worker is the loop of WorkerPool.Run                                  *)
(* (infrastructure/queue/streams_consumers.go) with the executer and the   *)
(* completion handler it calls; each call to Redis, PostgreSQL, the AI     *)
(* client or the mailer is one action, because other processes may run     *)
(* between two calls. A call can fail, and a Redis or PostgreSQL call that *)
(* reports an error may have taken effect all the same; when a Redis       *)
(* command's answer is lost, the client (made with its default options,    *)
(* repository/redis/client.go) issues the command again. The program can   *)
(* stop at any point and be started again: Redis and PostgreSQL keep their *)
(* contents, everything a goroutine held is gone.                          *)
(***************************************************************************)
EXTENDS FiniteSets, TaskStream, StoryStore

CONSTANTS
  StoryWorkers, EmailWorkers,        \* the goroutines of the two worker pools
  StorySchedulers, EmailSchedulers,  \* the goroutines of the two scheduler pools
  MaxJobRetry,     \* cfg.JobRetryCount
  OverflowRetry,   \* the retry count at which CalculateBackoffDelay panics (33)
  BatchLimit,      \* members one ReEnqueue takes from the sorted set (10)
  MaxFaults,       \* bound: failed Redis and PostgreSQL calls, and repeated commands
  MaxCrashes,      \* bound: stops and restarts of the program
  None

Workers    == StoryWorkers \cup EmailWorkers
Schedulers == StorySchedulers \cup EmailSchedulers
Stage      == {"story", "email"}

StageOf(p) == IF p \in StoryWorkers \cup StorySchedulers THEN "story" ELSE "email"

\* The pools share no goroutine, and None is neither an entry nor a member.
ASSUME PoolsAssumption ==
  /\ Workers \cap Schedulers = {}
  /\ StoryWorkers \cap EmailWorkers = {}
  /\ StorySchedulers \cap EmailSchedulers = {}
  /\ None \notin Entry \cup Member

\* The configuration refuses a limit of 0 (configs.go). That a job reaches the
\* limit before its backoff overflows, JobRetryCount < 33, is assumed of it.
ASSUME LimitsAssumption ==
  /\ MaxJobRetry \in Nat \ {0} /\ OverflowRetry \in Nat /\ MaxJobRetry < OverflowRetry
  /\ BatchLimit \in Nat \ {0}
  /\ MaxFaults \in Nat /\ MaxCrashes \in Nat

VARIABLES
  queue,      \* per stage: its stream, retry set and dead-letter stream in Redis
  db,         \* per user: his rows in PostgreSQL
  mailed,     \* the users the SMTP server has accepted a notification for
  api,        \* per user: the next call of a ScheduleStoryGeneration in progress
  worker,     \* per worker: where it is in Run, and the message it handles
  scheduler,  \* per scheduler: where it is in ReEnqueue
  faults, crashes,   \* how many there were, to bound them
  accepted    \* history: per stage, the jobs an XADD put on its stream

vars == <<queue, db, mailed, api, worker, scheduler, faults, crashes, accepted>>

-----------------------------------------------------------------------------
(***************************************************************************)
(* The control of a worker. phase is the method that runs: "execute",      *)
(* "success" (OnSuccess), "dlq" (SendToDQL), "failure" (OnFailure), or     *)
(* "idle" before Read and "dead" after a panic; call is the call that is   *)
(* made next and "return" stands for the end of the method.                *)
(***************************************************************************)
Phase == {"idle", "execute", "success", "dlq", "failure", "dead"}
Call  == {"Read", "GenerateStory", "UploadStory", "SaveEmailJob", "SendNotificationEmail",
          "Ack", "Delete", "Forward", "AddDead", "ScheduleRetry", "Update", "return"}

Worker == [phase: Phase, call: Call, msg: Entry \cup {None}]
Idle   == [phase |-> "idle", call |-> "Read", msg |-> None]

Scheduler     == [batch: SUBSET Member, removing: Member \cup {None}]
IdleScheduler == [batch |-> {}, removing |-> None]

\* Mutant: OnFailure forgets ScheduleRetry.
FailureWithoutRetry(stage, phase) ==
  CASE phase = "execute" -> IF stage = "story" THEN "GenerateStory" ELSE "SendNotificationEmail"
    [] phase \in {"success", "failure"} -> "Ack"
    [] phase = "dlq" -> "AddDead"

FirstCall(stage, phase) ==
  CASE phase = "execute" -> IF stage = "story" THEN "GenerateStory" ELSE "SendNotificationEmail"
    [] phase = "success" -> "Ack"
    [] phase = "dlq"     -> "AddDead"
    [] phase = "failure" -> "ScheduleRetry"

\* Mutants: OnSuccess of the story job forgets Add, OnFailure forgets Ack.
WithoutForward(stage, phase, call) ==
  CASE call = "GenerateStory" -> "UploadStory"
    [] call = "UploadStory"   -> "SaveEmailJob"
    [] call \in {"AddDead", "ScheduleRetry"} -> "Ack"
    [] call = "Ack"           -> "Delete"
    [] call \in {"Delete", "Forward"} -> "Update"
    [] call \in {"SaveEmailJob", "SendNotificationEmail", "Update"} -> "return"

WithoutAck(stage, phase, call) ==
  CASE call = "ScheduleRetry" -> "Delete"
    [] call = "GenerateStory" -> "UploadStory"
    [] call = "UploadStory"   -> "SaveEmailJob"
    [] call = "AddDead"       -> "Ack"
    [] call = "Ack"           -> "Delete"
    [] call = "Delete"        -> IF phase = "success" /\ stage = "story" THEN "Forward" ELSE "Update"
    [] call = "Forward"       -> "Update"
    [] call \in {"SaveEmailJob", "SendNotificationEmail", "Update"} -> "return"

NextCall(stage, phase, call) ==
  CASE call = "GenerateStory" -> "UploadStory"
    [] call = "UploadStory"   -> "SaveEmailJob"
    [] call \in {"AddDead", "ScheduleRetry"} -> "Ack"
    [] call = "Ack"           -> "Delete"
    [] call = "Delete"        -> IF phase = "success" /\ stage = "story" THEN "Forward" ELSE "Update"
    [] call = "Forward"       -> "Update"
    [] call \in {"SaveEmailJob", "SendNotificationEmail", "Update"} -> "return"

\* What UpdateStoryJob and UpdateEmailJob write at the end of each handler.
\* Mutant: a status the enum of the migrations does not have.
StatusSent(phase) == IF phase = "success" THEN "sent" ELSE "failed"

StatusOf(phase) ==
  CASE phase = "success" -> "completed"
    [] phase = "dlq"     -> "failed"
    [] phase = "failure" -> "processing"

Enter(stage, phase, w) == [w EXCEPT !.phase = phase, !.call = FirstCall(stage, phase)]

\* Mutants: the limit is missed by one; an error of SaveEmailJob is ignored.
LimitOffByOne(stage, w) ==
  CASE w.phase = "execute" -> Enter(stage, IF w.msg.retry > MaxJobRetry THEN "dlq" ELSE "failure", w)
    [] w.phase = "dlq"     -> Enter(stage, "failure", w)
    [] w.phase \in {"success", "failure"} -> Idle

IgnoreEmailJobError(stage, w) ==
  CASE w.phase = "execute" /\ w.call = "SaveEmailJob" -> Enter(stage, "success", w)
    [] w.phase = "execute" /\ w.call # "SaveEmailJob" ->
         Enter(stage, IF w.msg.retry = MaxJobRetry THEN "dlq" ELSE "failure", w)
    [] w.phase = "dlq"     -> Enter(stage, "failure", w)
    [] w.phase \in {"success", "failure"} -> Idle

\* Run goes on to OnFailure whether or not SendToDQL succeeded.
AfterError(stage, w) ==
  CASE w.phase = "execute" -> Enter(stage, IF w.msg.retry = MaxJobRetry THEN "dlq" ELSE "failure", w)
    [] w.phase = "dlq"     -> Enter(stage, "failure", w)
    [] w.phase \in {"success", "failure"} -> Idle

AfterReturn(stage, w) ==
  CASE w.phase = "execute" -> Enter(stage, "success", w)
    [] w.phase = "dlq"     -> Enter(stage, "failure", w)
    [] w.phase \in {"success", "failure"} -> Idle

Proceed(stage, w) ==
  LET next == NextCall(stage, w.phase, w.call)
  IN  IF next = "return" THEN AfterReturn(stage, w) ELSE [w EXCEPT !.call = next]

-----------------------------------------------------------------------------
Init ==
  /\ queue = [s \in Stage |-> EmptyQueue]
  /\ db = [j \in Jobs |-> VerifiedUser]
  /\ mailed = {}
  /\ api = [j \in Jobs |-> "idle"]
  /\ worker = [w \in Workers |-> Idle]
  /\ scheduler = [p \in Schedulers |-> IdleScheduler]
  /\ faults = 0 /\ crashes = 0
  /\ accepted = [s \in Stage |-> {}]

Fault == faults < MaxFaults /\ faults' = faults + 1

-----------------------------------------------------------------------------
(* ScheduleStoryGeneration, the handler of POST /stories: three writes.     *)

\* GetUserByID, GetUserPreferencesByID and the INSERT, which fails if the
\* user already has a story; a request that fails leaves nothing behind.
RequestStory(j) ==
  /\ api[j] = "idle"
  /\ db[j].user /\ db[j].story = "absent"
  /\ db' = [db EXCEPT ![j] = SaveStoryInfo(@)]
  /\ \/ api' = [api EXCEPT ![j] = "saveStoryJob"] /\ UNCHANGED faults
     \/ Fault /\ UNCHANGED api
  /\ UNCHANGED <<queue, mailed, worker, scheduler, crashes, accepted>>

\* The foreign key makes the INSERT fail when the user was deleted meanwhile.
RequestStoryJob(j) ==
  /\ api[j] = "saveStoryJob"
  /\ \/ /\ db[j].user
        /\ db' = [db EXCEPT ![j] = SaveStoryJob(@)]
        /\ api' = [api EXCEPT ![j] = "addToStream"]
        /\ UNCHANGED faults
     \/ /\ ~db[j].user
        /\ api' = [api EXCEPT ![j] = "idle"]
        /\ UNCHANGED <<db, faults>>
     \/ /\ Fault
        /\ db' \in {db, [db EXCEPT ![j] = IF @.user THEN SaveStoryJob(@) ELSE @]}
        /\ api' = [api EXCEPT ![j] = "idle"]
  /\ UNCHANGED <<queue, mailed, worker, scheduler, crashes, accepted>>

\* Add with RetryCounts 0. Whatever is replied, the request is over; while nothing
\* is, the client adds the job once more.
RequestAdd(j) ==
  LET replied == api' = [api EXCEPT ![j] = "idle"] IN
  /\ api[j] = "addToStream"
  /\ \/ /\ queue' = [queue EXCEPT !["story"] = XAdd(@, [job |-> j, retry |-> 0])]
        /\ accepted' = [accepted EXCEPT !["story"] = @ \cup {j}]
        /\ (replied /\ UNCHANGED faults) \/ (Fault /\ (replied \/ UNCHANGED api))
     \/ Fault /\ replied /\ UNCHANGED <<queue, accepted>>
  /\ UNCHANGED <<db, mailed, worker, scheduler, crashes>>

\* DELETE /users: UserRegisterService.DeleteUser, at any time.
DeleteUser(j) ==
  /\ db[j].user
  /\ db' = [db EXCEPT ![j] = DeleteUserByID(@)]
  /\ UNCHANGED <<queue, mailed, api, worker, scheduler, faults, crashes, accepted>>

Request(j) == RequestStory(j) \/ RequestStoryJob(j) \/ RequestAdd(j)

-----------------------------------------------------------------------------
(* WorkerPool.Run                                                           *)

Calls(w, call) == worker[w].call = call

Succeeds(w) == worker' = [worker EXCEPT ![w] = Proceed(StageOf(w), @)] /\ UNCHANGED faults
Fails(w)    == worker' = [worker EXCEPT ![w] = AfterError(StageOf(w), @)]

\* A Redis command of worker w that would change the queues to q. (The client's own
\* repetition of an XACK or XDEL, or of the XADD to the dead letters, which are kept as
\* a set, changes nothing.)
QueueCall(w, q) ==
  \/ queue' = q /\ Succeeds(w)
  \/ queue' \in {q, queue} /\ Fault /\ Fails(w)

\* The read blocks while there is nothing to read. When the reply is lost the
\* entry is pending, but no worker has it.
Read(w) ==
  /\ Calls(w, "Read")
  /\ \E e \in queue[StageOf(w)].entries :
       /\ IsNext(queue[StageOf(w)], e)
       /\ queue' = [queue EXCEPT ![StageOf(w)] = XReadGroup(@, e)]
       /\ \/ /\ worker' = [worker EXCEPT ![w] = Enter(StageOf(w), "execute", [@ EXCEPT !.msg = e])]
             /\ UNCHANGED faults
          \/ Fault /\ UNCHANGED worker
  /\ UNCHANGED <<db, mailed, api, scheduler, crashes, accepted>>

\* The AI client may answer, fail, or not answer within the 30 s of Execute.
GenerateStory(w) ==
  /\ Calls(w, "GenerateStory")
  /\ Succeeds(w) \/ (Fails(w) /\ UNCHANGED faults)
  /\ UNCHANGED <<queue, db, mailed, api, scheduler, crashes, accepted>>

\* The executer's two writes. Without the story row they fail; with it they
\* may fail as well, the deadline of 30 s passing before or after the commit.
ExecuterWrite(w, rows) ==
  LET j == worker[w].msg.job IN
  /\ \/ HasStory(db[j]) /\ db' = rows /\ Succeeds(w)
     \/ db' \in {db, rows} /\ Fails(w) /\ UNCHANGED faults
  /\ UNCHANGED <<queue, mailed, api, scheduler, crashes, accepted>>

StoreStory(w) ==
  /\ Calls(w, "UploadStory")
  /\ ExecuterWrite(w, [db EXCEPT ![worker[w].msg.job] = UploadStory(@)])

StoreEmailJob(w) ==
  /\ Calls(w, "SaveEmailJob")
  /\ ExecuterWrite(w, [db EXCEPT ![worker[w].msg.job] = SaveEmailJob(@)])

\* SMTP gives no transaction: an error may be reported for a mail that was sent.
SendNotificationEmail(w) ==
  /\ Calls(w, "SendNotificationEmail")
  /\ \/ mailed' = mailed \cup {worker[w].msg.job} /\ Succeeds(w)
     \/ /\ mailed' \in {mailed, mailed \cup {worker[w].msg.job}}
        /\ Fails(w) /\ UNCHANGED faults
  /\ UNCHANGED <<queue, db, api, scheduler, crashes, accepted>>

Ack(w) ==
  /\ Calls(w, "Ack")
  /\ QueueCall(w, [queue EXCEPT ![StageOf(w)] = XAck(@, worker[w].msg.id)])
  /\ UNCHANGED <<db, mailed, api, scheduler, crashes, accepted>>

Delete(w) ==
  /\ Calls(w, "Delete")
  /\ QueueCall(w, [queue EXCEPT ![StageOf(w)] = XDel(@, worker[w].msg.id)])
  /\ UNCHANGED <<db, mailed, api, scheduler, crashes, accepted>>

\* The job goes to the email stream with the retry count of the story stage.
Forward(w) ==
  LET m == MemberOf(worker[w].msg) IN
  /\ Calls(w, "Forward")
  /\ \/ /\ queue' = [queue EXCEPT !["email"] = XAdd(@, m)]
        /\ accepted' = [accepted EXCEPT !["email"] = @ \cup {m.job}]
        /\ Succeeds(w) \/ (Fault /\ (Fails(w) \/ UNCHANGED worker))
     \/ Fault /\ Fails(w) /\ UNCHANGED <<queue, accepted>>
  /\ UNCHANGED <<db, mailed, api, scheduler, crashes>>

AddToDLQ(w) ==
  /\ Calls(w, "AddDead")
  /\ QueueCall(w, [queue EXCEPT ![StageOf(w)] = AddDead(@, MemberOf(worker[w].msg))])
  /\ UNCHANGED <<db, mailed, api, scheduler, crashes, accepted>>

\* RetryCounts++ and ScheduleRetry. The deferred recover of Run ends the
\* goroutine when the delay overflows; nothing starts it again.
ScheduleRetry(w) ==
  LET m == [MemberOf(worker[w].msg) EXCEPT !.retry = @ + 1] IN
  /\ Calls(w, "ScheduleRetry")
  /\ \/ /\ m.retry < OverflowRetry
        /\ LET added == [queue EXCEPT ![StageOf(w)] = ZAdd(@, m)] IN
           QueueCall(w, added) \/ (queue' = added /\ Fault /\ UNCHANGED worker)
     \/ /\ m.retry >= OverflowRetry
        /\ worker' = [worker EXCEPT ![w].phase = "dead", ![w].call = "return"]
        /\ UNCHANGED <<queue, faults>>
  /\ UNCHANGED <<db, mailed, api, scheduler, crashes, accepted>>

\* UpdateStoryJob or UpdateEmailJob, the last call of every handler.
Update(w) ==
  LET j == worker[w].msg.job
      Set(r) == IF StageOf(w) = "story" THEN UpdateStoryJob(r, StatusOf(worker[w].phase))
                                        ELSE UpdateEmailJob(r, StatusOf(worker[w].phase))
  IN
  /\ Calls(w, "Update")
  /\ \/ db' = [db EXCEPT ![j] = Set(@)] /\ Succeeds(w)
     \/ UNCHANGED db /\ Fault /\ Fails(w)
  /\ UNCHANGED <<queue, mailed, api, scheduler, crashes, accepted>>

WorkerStep(w) ==
  \/ Read(w) \/ GenerateStory(w) \/ StoreStory(w) \/ StoreEmailJob(w)
  \/ SendNotificationEmail(w) \/ Ack(w) \/ Delete(w) \/ Forward(w)
  \/ AddToDLQ(w) \/ ScheduleRetry(w) \/ Update(w)

-----------------------------------------------------------------------------
(* SchedulerWorkPool.Run: ReEnqueue at every tick.                          *)

\* ZRANGEBYSCORE: some of the members are due; a tick that finds none does
\* nothing.
Tick(p) ==
  /\ scheduler[p] = IdleScheduler
  /\ \E due \in SUBSET queue[StageOf(p)].retry :
       /\ due # {} /\ Cardinality(due) <= BatchLimit
       /\ scheduler' = [scheduler EXCEPT ![p].batch = due]
  /\ UNCHANGED <<queue, db, mailed, api, worker, faults, crashes, accepted>>

\* Mutant: the error of Add is ignored and the member is removed all the same.
ReenqueueAnyway(p) ==
  \E m \in scheduler[p].batch :
    /\ scheduler[p].removing = None
    /\ \/ queue' = [queue EXCEPT ![StageOf(p)] = XAdd(@, m)] /\ UNCHANGED faults
       \/ UNCHANGED queue /\ Fault
    /\ scheduler' = [scheduler EXCEPT ![p] = [batch |-> @.batch \ {m}, removing |-> m]]
    /\ UNCHANGED <<db, mailed, api, worker, crashes, accepted>>

\* Add. An error ends ReEnqueue and leaves the rest of the batch to a later tick;
\* a lost answer makes the client add the job again.
Reenqueue(p) ==
  \E m \in scheduler[p].batch :
    LET added == [queue EXCEPT ![StageOf(p)] = XAdd(@, m)] IN
    /\ scheduler[p].removing = None
    /\ \/ /\ queue' = added
          /\ scheduler' = [scheduler EXCEPT ![p] = [batch |-> @.batch \ {m}, removing |-> m]]
          /\ UNCHANGED faults
       \/ queue' \in {queue, added} /\ Fault /\ scheduler' = [scheduler EXCEPT ![p] = IdleScheduler]
       \/ queue' = added /\ Fault /\ UNCHANGED scheduler
    /\ UNCHANGED <<db, mailed, api, worker, crashes, accepted>>

\* Mutant: the ZRem is missing.
RemoveNothing(p) ==
  /\ scheduler[p].removing # None
  /\ scheduler' = [scheduler EXCEPT ![p].removing = None]
  /\ UNCHANGED <<queue, db, mailed, api, worker, faults, crashes, accepted>>

\* ZRem, whose error nobody looks at.
Remove(p) ==
  /\ scheduler[p].removing # None
  /\ LET removed == [queue EXCEPT ![StageOf(p)] = ZRem(@, scheduler[p].removing)]
         goesOn == scheduler' = [scheduler EXCEPT ![p].removing = None]
     IN
     \/ queue' = removed /\ goesOn /\ UNCHANGED faults
     \/ UNCHANGED queue /\ goesOn /\ Fault
     \/ queue' = removed /\ UNCHANGED scheduler /\ Fault
  /\ UNCHANGED <<db, mailed, api, worker, crashes, accepted>>

-----------------------------------------------------------------------------
\* The process is stopped or killed and started again (App.Run).
Restart ==
  /\ crashes < MaxCrashes /\ crashes' = crashes + 1
  /\ api' = [j \in Jobs |-> "idle"]
  /\ worker' = [w \in Workers |-> Idle]
  /\ scheduler' = [p \in Schedulers |-> IdleScheduler]
  /\ UNCHANGED <<queue, db, mailed, faults, accepted>>

Next ==
  \/ \E j \in Jobs : Request(j) \/ DeleteUser(j)
  \/ \E w \in Workers : WorkerStep(w)
  \/ \E p \in Schedulers : Tick(p) \/ Reenqueue(p) \/ Remove(p)
  \/ Restart

Spec == Init /\ [][Next]_vars

(***************************************************************************)
(* Fairness. The Go scheduler runs every goroutine that can run. A tick    *)
(* comes every 2 s and a scan takes the lowest scores first; the score of  *)
(* a member is fixed and at most 5 min ahead, so as long as j waits in the *)
(* retry set some tick takes it, although ticks without j come in between. *)
(***************************************************************************)
TickFor(p, j) == Tick(p) /\ \E m \in scheduler'[p].batch : m.job = j

Fairness ==
  /\ \A w \in Workers : WF_vars(WorkerStep(w))
  /\ \A p \in Schedulers : WF_vars(Reenqueue(p) \/ Remove(p))
  /\ \A p \in Schedulers, j \in Jobs : SF_vars(TickFor(p, j))

FairSpec == Spec /\ Fairness

-----------------------------------------------------------------------------
(* Where a job is. It is carried by a live entry of the stream or by a      *)
(* member of the retry set; CarriedFrom(s, j, r) asks for a retry count of  *)
(* at least r.                                                              *)
CarriesFrom(m, j, r) == m.job = j /\ m.retry >= r
InStream(s, j, r)    == \E e \in LiveEntries(queue[s]) : CarriesFrom(e, j, r)
InRetrySet(s, j, r)  == \E m \in queue[s].retry : CarriesFrom(m, j, r)
CarriedFrom(s, j, r) == InStream(s, j, r) \/ InRetrySet(s, j, r)

DeadLettered(s, j) == j \in queue[s].dead
StoryReady(j) == db[j].story = "uploaded" /\ db[j].emailJobs # {}

\* Stage s has done its work for j: its story is stored, or its mail is sent.
Done(s, j) ==
  \/ s = "story" /\ (StoryReady(j) \/ ~db[j].user)
  \/ s = "email" /\ j \in mailed

\* Stage s owes job j nothing more.
Settled(s, j) == DeadLettered(s, j) \/ Done(s, j)

Held(w)    == worker[w].msg # None
HeldJob(w) == worker[w].msg.job
HoldsJob(w, s, j) == StageOf(w) = s /\ Held(w) /\ HeldJob(w) = j

-----------------------------------------------------------------------------
(* The type invariant and the inductive invariant.                          *)

\* Every variable stays in its domain.
TypeOK ==
  /\ queue \in [Stage -> QueueState]
  /\ db \in [Jobs -> UserRows]
  /\ mailed \in SUBSET Jobs
  /\ api \in [Jobs -> {"idle", "saveStoryJob", "addToStream"}]
  /\ worker \in [Workers -> Worker]
  /\ scheduler \in [Schedulers -> Scheduler]
  /\ faults \in Nat /\ crashes \in Nat
  /\ accepted \in [Stage -> SUBSET Jobs]

\* Every stage's work survives: a job whose XADD took effect is in Redis, or the
\* stage has done its work for it, or the job is in the dead-letter stream. It
\* needs OnFailure to add the retry before it acknowledges, ReEnqueue to add
\* before it removes, and nothing to acknowledge before the work is done.
NoJobLost ==
  \A s \in Stage : \A j \in accepted[s] : Settled(s, j) \/ CarriedFrom(s, j, 0)

\* A notification is only in preparation, or sent, for a story that is stored
\* with a row in email_jobs (OnSuccess runs after the whole of Execute), unless
\* the user was deleted meanwhile.
NotifiedOnlyWhenReady ==
  \A j \in accepted["email"] \cup mailed : Done("story", j)

\* The stream numbers its entries, and a read never leaves one behind.
IdsOK(q) ==
  /\ q.delivered <= q.last
  /\ \A e \in q.entries : 1 <= e.id /\ e.id <= q.last
  /\ \A e, f \in q.entries : e.id = f.id => e = f

\* The cascades and the foreign keys: without the row of users there is no other.
RowsOK(r) == ~r.user => r = DeleteUserByID(r)

CallsOf(stage, phase) ==
  CASE phase = "idle"    -> {"Read"}
    [] phase = "execute" -> IF stage = "story" THEN {"GenerateStory", "UploadStory", "SaveEmailJob"}
                                               ELSE {"SendNotificationEmail"}
    [] phase = "success" -> {"Ack", "Delete", "Update"} \cup IF stage = "story" THEN {"Forward"} ELSE {}
    [] phase = "dlq"     -> {"AddDead", "Ack", "Delete", "Update"}
    [] phase = "failure" -> {"ScheduleRetry", "Ack", "Delete", "Update"}
    [] phase = "dead"    -> {"return"}

ControlOK(w) ==
  /\ worker[w].call \in CallsOf(StageOf(w), worker[w].phase)
  /\ Held(w) <=> worker[w].phase # "idle"

\* What a worker holds is the entry of that id, delivered, and acknowledged
\* before it is deleted.
HeldOK(w) ==
  LET q == queue[StageOf(w)]  m == worker[w].msg IN
  Held(w) => /\ m.id <= q.delivered
             /\ \A e \in q.entries : e.id = m.id => e = m
             /\ worker[w].call = "Delete" => m.id \notin q.pending

\* What has been achieved for the job of message m when a worker of stage s gets
\* to a call of a method.
AchievedAt(s, m, phase, call) ==
  /\ call = "SaveEmailJob" => db[m.job].story = "uploaded" \/ ~db[m.job].user
  /\ phase = "success" => Done(s, m.job)
  /\ phase = "dlq" /\ call # "AddDead" => DeadLettered(s, m.job)
  /\ phase = "failure" /\ call # "ScheduleRetry"
       => Settled(s, m.job) \/ CarriedFrom(s, m.job, m.retry + 1)

AchievedOK(w) == AchievedAt(StageOf(w), worker[w].msg, worker[w].phase, worker[w].call)

\* Between Add and ZRem the job is carried by something else than the member.
RemovingOK(p) ==
  LET s == StageOf(p)  m == scheduler[p].removing IN
  m # None => \/ Settled(s, m.job)
              \/ InStream(s, m.job, m.retry)
              \/ CarriedFrom(s, m.job, m.retry + 1)

JobsIn(q) == {e.job : e \in q.entries \cup q.retry}

\* Nothing is in a stage that the stage did not take in: entries, retries, what
\* workers and schedulers hold, and mails all go back to an XADD on its stream.
OriginOK ==
  /\ \A s \in Stage : JobsIn(queue[s]) \subseteq accepted[s]
  /\ \A w \in Workers : Held(w) => HeldJob(w) \in accepted[StageOf(w)]
  /\ \A p \in Schedulers : \A m \in scheduler[p].batch : m.job \in accepted[StageOf(p)]
  /\ mailed \subseteq accepted["email"]
  /\ accepted["email"] \subseteq accepted["story"]

\* DELETE /users leaves nothing of the user, and nothing comes back: a request
\* between its writes, a worker inside Execute or a completion handler, and every
\* retry of his job, store no story and no job row for him once he is deleted.
NothingAfterDeletion == \A j \in Jobs : RowsOK(db[j])

\* The inductive invariant: NoJobLost with what makes it inductive.
IInv ==
  /\ TypeOK
  /\ \A s \in Stage : IdsOK(queue[s])
  /\ NothingAfterDeletion
  /\ \A w \in Workers : ControlOK(w) /\ HeldOK(w) /\ AchievedOK(w)
  /\ \A p \in Schedulers : RemovingOK(p)
  /\ \A j \in accepted["email"] : Done("story", j)
  /\ OriginOK
  /\ NoJobLost

-----------------------------------------------------------------------------
(* What holds besides. The conditions some of it needs are part of it.       *)

Calm == faults = 0 /\ crashes = 0

\* Every stage has at most one process of the pool.
OneEach(pool) == \A p, q \in pool : StageOf(p) = StageOf(q) => p = q

\* No entry is handled by two workers: XREADGROUP gives each to one of them, and
\* nothing reads the pending list again.
NoDoubleDelivery ==
  \A v, w \in Workers :
    v # w /\ StageOf(v) = StageOf(w) /\ Held(v) /\ Held(w) => worker[v].msg.id # worker[w].msg.id

\* With no failed call and no restart, what is pending is being handled, except
\* when the backoff panicked: and then the job has been dead-lettered before.
StrandedOnlyPastDLQ ==
  Calm => \A s \in Stage : \A id \in queue[s].pending : \E w \in Workers :
    /\ StageOf(w) = s /\ Held(w) /\ worker[w].msg.id = id
    /\ worker[w].phase = "dead" => \E t \in Stage : DeadLettered(t, HeldJob(w))

\* README "Sent to a Dead Letter Queue (DLQ) after exceeding retry limits", of
\* stage s: a job that went beyond MaxJobRetry there is in its dead-letter stream.
ExceededIsDeadLettered(s) ==
  /\ \A w \in Workers : StageOf(w) = s /\ Held(w) /\ worker[w].msg.retry > MaxJobRetry
                          => DeadLettered(s, HeldJob(w))
  /\ \A m \in queue[s].retry : m.retry > MaxJobRetry => DeadLettered(s, m.job)

\* It holds of the story stage when no call fails (streams_consumers.go:120). It is
\* false of the email stage: OnSuccess forwards the retry count of the story job
\* (job_completion.go:93), which may be past the limit already.
StoryExceededIsDeadLettered == faults = 0 => ExceededIsDeadLettered("story")

\* With one scheduler per stage, no failed call and no restart, one job is never
\* executed by two workers of a stage at once, although the retry can be under
\* way while the worker that scheduled it is still in OnFailure.
NoConcurrentExecution ==
  OneEach(Schedulers) /\ Calm =>
    \A v, w \in Workers, s \in Stage, j \in Jobs :
      v # w /\ HoldsJob(v, s, j) /\ HoldsJob(w, s, j)
        => ~(worker[v].phase = "execute" /\ worker[w].phase = "execute")

\* With one worker and one scheduler per stage, no failed call and no restart, a
\* status "completed" is never overwritten by the "processing" of an earlier
\* attempt, in story_jobs or in email_jobs.
CompletedIsFinal ==
  [][OneEach(Workers) /\ OneEach(Schedulers) /\ Calm =>
     \A j \in Jobs : db'[j].user =>
       /\ db[j].storyJob = "completed" => db'[j].storyJob = "completed"
       /\ db[j].emailJobs = {"completed"} => db'[j].emailJobs = {"completed"}]_vars

\* Nothing in Redis or in a worker is about j any more.
Quiet(j) ==
  /\ \A s \in Stage : ~CarriedFrom(s, j, 0)
  /\ \A w \in Workers : Held(w) => HeldJob(w) # j

\* Under the same conditions a job that has left the pipeline was completed: both
\* status columns say so and the mail was sent. (Dead-lettering does not end it.)
QuietIsCompleted ==
  OneEach(Workers) /\ OneEach(Schedulers) /\ Calm =>
    \A j \in accepted["story"] : db[j].user /\ Quiet(j) =>
      db[j].storyJob = "completed" /\ db[j].emailJobs = {"completed"} /\ j \in mailed

\* "Sent to a Dead Letter Queue (DLQ) after exceeding retry limits": the retries
\* end there. They do not: Run calls OnFailure after SendToDQL.
DeadLetteredIsNotRetried ==
  \A w \in Workers : worker[w].phase = "execute" => ~DeadLettered(StageOf(w), HeldJob(w))

Resolved(j) == j \in mailed \/ ~db[j].user \/ \E s \in Stage : DeadLettered(s, j)

\* "You will be notified by email": a job is somewhere on its way until it is
\* resolved. Between Delete and Add in OnSuccess only the worker knows it.
NotificationStillComing ==
  \A j \in accepted["story"] :
    Resolved(j) \/ (\E s \in Stage : CarriedFrom(s, j, 0)) \/ (\E w \in Workers : Held(w) /\ HeldJob(w) = j)

\* "You will be notified by email", as a liveness property: every job taken in is
\* resolved in the end. It holds of one job, with no failed Redis or PostgreSQL call
\* and no restart; it needs a worker that no other job has killed.
EventuallyResolved == \A j \in Jobs : j \in accepted["story"] ~> Resolved(j)

-----------------------------------------------------------------------------
(* The abstract specification.                                              *)

\* A job stage s has taken in but neither carries nor has settled would be
\* "lost", a value JobContract does not know.
StatusIn(s, j) ==
  CASE j \notin accepted[s] -> "new"
    [] j \in accepted[s] /\ Settled(s, j) -> "settled"
    [] j \in accepted[s] /\ ~Settled(s, j) -> IF CarriedFrom(s, j, 0) THEN "owed" ELSE "lost"

Statuses == [s \in Stage |-> [j \in Jobs |-> StatusIn(s, j)]]

Contract == INSTANCE JobContract WITH status <- Statuses

\* The pipeline keeps the promise of JobContract, step by step: no stage forgets a
\* job it owes, or owes again one it has settled, and the email stage takes in
\* only what the story stage has settled.
KeepsContract == Contract!Spec
=============================================================================
