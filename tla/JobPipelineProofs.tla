------------------------- MODULE JobPipelineProofs -------------------------
(***************************************************************************)
(* IInv is an inductive invariant of JobPipeline, for any number of jobs,  *)
(* workers, schedulers, failed calls and restarts. TypeOK, NoJobLost and   *)
(* NotifiedOnlyWhenReady follow.                                           *)
(***************************************************************************)
EXTENDS JobPipeline, TLAPS

-----------------------------------------------------------------------------
(* What the Redis commands do to one stage's queue.                         *)

\* XADD keeps the queue's type and its numbering, and all that was live.
LEMMA XAddFacts ==
  ASSUME NEW q \in QueueState, IdsOK(q), NEW m, m.job \in Jobs, m.retry \in Nat
  PROVE  /\ XAdd(q, m) \in QueueState
         /\ IdsOK(XAdd(q, m))
         /\ LiveEntries(q) \subseteq LiveEntries(XAdd(q, m))
         /\ \E e \in LiveEntries(XAdd(q, m)) : e.job = m.job /\ e.retry = m.retry
<1> DEFINE new == [id |-> q.last + 1, job |-> m.job, retry |-> m.retry]
<1>1. new \in Entry /\ q.entries \subseteq Entry /\ q.last \in Nat /\ q.delivered \in Nat
  BY DEF Entry, QueueState
<1>2. /\ XAdd(q, m).entries = q.entries \cup {new}
      /\ XAdd(q, m).last = q.last + 1
      /\ XAdd(q, m).delivered = q.delivered
      /\ XAdd(q, m).pending = q.pending
  BY DEF XAdd, QueueState
<1>3. XAdd(q, m) \in QueueState
  <2>1. XAdd(q, m) = [q EXCEPT !.entries = @ \cup {new}, !.last = @ + 1]
    BY DEF XAdd
  <2>2. q.last + 1 \in Nat /\ q.entries \cup {new} \subseteq Entry
    BY <1>1
  <2> QED
    BY <2>1, <2>2 DEF QueueState
<1>4. IdsOK(XAdd(q, m))
  BY <1>1, <1>2 DEF IdsOK, Entry
<1>5. LiveEntries(q) \subseteq LiveEntries(XAdd(q, m))
  BY <1>2 DEF LiveEntries
<1>6. new \in LiveEntries(XAdd(q, m))
  BY <1>1, <1>2 DEF LiveEntries, IdsOK
<1> QED
  BY <1>3, <1>4, <1>5, <1>6

\* XREADGROUP moves an entry from undelivered to pending: it stays live.
LEMMA XReadGroupFacts ==
  ASSUME NEW q \in QueueState, IdsOK(q), NEW e \in q.entries, IsNext(q, e)
  PROVE  /\ XReadGroup(q, e) \in QueueState
         /\ IdsOK(XReadGroup(q, e))
         /\ LiveEntries(q) \subseteq LiveEntries(XReadGroup(q, e))
<1>1. e \in Entry /\ q.entries \subseteq Entry /\ q.delivered \in Nat /\ e.id > q.delivered
  BY DEF Entry, QueueState, IsNext, Undelivered
<1>2. /\ XReadGroup(q, e).entries = q.entries
      /\ XReadGroup(q, e).last = q.last
      /\ XReadGroup(q, e).delivered = e.id
      /\ XReadGroup(q, e).pending = q.pending \cup {e.id}
  BY DEF XReadGroup, QueueState
<1>3. XReadGroup(q, e) \in QueueState
  BY <1>1 DEF XReadGroup, QueueState, Entry
<1>4. IdsOK(XReadGroup(q, e))
  BY <1>1, <1>2 DEF IdsOK
<1>5. ASSUME NEW f \in LiveEntries(q) PROVE f \in LiveEntries(XReadGroup(q, e))
  <2>1. f \in Entry /\ f.id \in Nat /\ e.id \in Nat
    BY <1>1 DEF LiveEntries, Entry
  <2>2. CASE f.id \in q.pending
    BY <2>2, <1>2 DEF LiveEntries
  <2>3. CASE f.id > q.delivered
    <3>1. f.id >= e.id
      BY <2>1, <2>3 DEF LiveEntries, IsNext, Undelivered
    <3>2. f.id > e.id \/ f.id = e.id
      BY <2>1, <3>1
    <3> QED
      BY <3>2, <1>2 DEF LiveEntries
  <2> QED
    BY <2>2, <2>3 DEF LiveEntries
<1> QED
  BY <1>3, <1>4, <1>5

\* XACK takes away the liveness of the entry of that id only.
LEMMA XAckFacts ==
  ASSUME NEW q \in QueueState, IdsOK(q), NEW id
  PROVE  /\ XAck(q, id) \in QueueState
         /\ IdsOK(XAck(q, id))
         /\ \A e \in LiveEntries(q) : e.id # id => e \in LiveEntries(XAck(q, id))
<1>1. /\ XAck(q, id).entries = q.entries
      /\ XAck(q, id).last = q.last
      /\ XAck(q, id).delivered = q.delivered
      /\ XAck(q, id).pending = q.pending \ {id}
  BY DEF XAck, QueueState
<1>2. XAck(q, id) \in QueueState
  BY DEF XAck, QueueState
<1>3. IdsOK(XAck(q, id))
  BY <1>1 DEF IdsOK
<1>4. \A e \in LiveEntries(q) : e.id # id => e \in LiveEntries(XAck(q, id))
  BY <1>1 DEF LiveEntries
<1> QED
  BY <1>2, <1>3, <1>4

\* XDEL of an acknowledged entry takes no live entry away.
LEMMA XDelFacts ==
  ASSUME NEW q \in QueueState, IdsOK(q), NEW id
  PROVE  /\ XDel(q, id) \in QueueState
         /\ IdsOK(XDel(q, id))
         /\ XDel(q, id).entries \subseteq q.entries
         /\ id <= q.delivered /\ id \in Nat /\ id \notin q.pending =>
              LiveEntries(q) \subseteq LiveEntries(XDel(q, id))
<1>1. /\ XDel(q, id).entries = {e \in q.entries : e.id # id}
      /\ XDel(q, id).last = q.last
      /\ XDel(q, id).delivered = q.delivered
      /\ XDel(q, id).pending = q.pending
  BY DEF XDel, QueueState
<1>2. XDel(q, id) \in QueueState
  BY DEF XDel, QueueState
<1>3. IdsOK(XDel(q, id))
  BY <1>1 DEF IdsOK
<1>4. ASSUME id <= q.delivered, id \in Nat, id \notin q.pending
      PROVE  LiveEntries(q) \subseteq LiveEntries(XDel(q, id))
  BY <1>1, <1>4 DEF LiveEntries, QueueState
<1> QED
  BY <1>1, <1>2, <1>3, <1>4

\* The sorted set and the dead-letter stream are apart from the stream.
LEMMA ZAddFacts ==
  ASSUME NEW q \in QueueState, IdsOK(q), NEW m \in Member
  PROVE  /\ ZAdd(q, m) \in QueueState /\ ZRem(q, m) \in QueueState /\ AddDead(q, m) \in QueueState
         /\ IdsOK(ZAdd(q, m)) /\ IdsOK(ZRem(q, m)) /\ IdsOK(AddDead(q, m))
         /\ LiveEntries(ZAdd(q, m)) = LiveEntries(q)
         /\ LiveEntries(ZRem(q, m)) = LiveEntries(q)
         /\ LiveEntries(AddDead(q, m)) = LiveEntries(q)
<1>1. /\ ZAdd(q, m) \in QueueState /\ ZRem(q, m) \in QueueState /\ AddDead(q, m) \in QueueState
  BY DEF ZAdd, ZRem, AddDead, QueueState, Member
<1>2. ASSUME NEW p \in {ZAdd(q, m), ZRem(q, m), AddDead(q, m)}
      PROVE  /\ p.entries = q.entries /\ p.last = q.last
             /\ p.delivered = q.delivered /\ p.pending = q.pending
  BY DEF ZAdd, ZRem, AddDead, QueueState
<1> QED
  BY <1>1, <1>2 DEF IdsOK, LiveEntries

-----------------------------------------------------------------------------
(* What the queries do to one user's rows.                                  *)

\* A query of the pipeline, with the condition under which it changes a row.
RowMove(r, r2) ==
  \/ r2 = r
  \/ r.user /\ r.story = "absent" /\ r2 = SaveStoryInfo(r)
  \/ r.user /\ r2 = SaveStoryJob(r)
  \/ r2 = UploadStory(r)
  \/ r2 = SaveEmailJob(r)
  \/ \E status \in JobStatus : r2 = UpdateStoryJob(r, status) \/ r2 = UpdateEmailJob(r, status)
  \/ r2 = DeleteUserByID(r)

Kept(r, r2) ==
  /\ r2 \in UserRows
  /\ RowsOK(r2)
  /\ ~r.user => ~r2.user
  /\ r.story = "uploaded" => r2.story = "uploaded" \/ ~r2.user
  /\ r.emailJobs # {} => r2.emailJobs # {} \/ ~r2.user

\* Field by field, what it is to have nothing left.
LEMMA RowsFields ==
  ASSUME NEW r \in UserRows
  PROVE  RowsOK(r) <=> r.user \/ (r.story = "absent" /\ r.storyJob = "absent" /\ r.emailJobs = {})
BY DEF RowsOK, DeleteUserByID, UserRows

\* No query takes a stored story away from a user who stays, and none writes
\* anything for one who does not exist.
LEMMA RowMoveFacts ==
  ASSUME NEW r \in UserRows, NEW r2, RowsOK(r), RowMove(r, r2)
  PROVE  Kept(r, r2)
<1>0. /\ r.user \/ (r.story = "absent" /\ r.storyJob = "absent" /\ r.emailJobs = {})
      /\ \A t \in UserRows : t.user \/ (t.story = "absent" /\ t.storyJob = "absent" /\ t.emailJobs = {})
           => RowsOK(t)
  BY RowsFields
<1> USE <1>0 DEF Kept, UserRows, HasStory, JobStatus
<1>1. CASE r2 = r
  BY <1>1
<1>2. CASE r.user /\ r.story = "absent" /\ r2 = SaveStoryInfo(r)
  BY <1>2 DEF SaveStoryInfo
<1>3. CASE r.user /\ r2 = SaveStoryJob(r)
  BY <1>3 DEF SaveStoryJob
<1>4. CASE r2 = UploadStory(r)
  BY <1>4 DEF UploadStory
<1>5. CASE r2 = SaveEmailJob(r)
  BY <1>5 DEF SaveEmailJob
<1>6. ASSUME NEW status \in JobStatus, r2 = UpdateStoryJob(r, status) PROVE Kept(r, r2)
  BY <1>6 DEF UpdateStoryJob
<1>7. ASSUME NEW status \in JobStatus, r2 = UpdateEmailJob(r, status) PROVE Kept(r, r2)
  BY <1>7 DEF UpdateEmailJob
<1>8. CASE r2 = DeleteUserByID(r)
  BY <1>8 DEF DeleteUserByID
<1> QED
  BY <1>1, <1>2, <1>3, <1>4, <1>5, <1>6, <1>7, <1>8 DEF RowMove

-----------------------------------------------------------------------------
(* Where a worker goes.                                                     *)

InMethod(s, r) ==
  /\ s \in Stage /\ r \in Worker /\ r.msg \in Entry
  /\ r.phase \in {"execute", "success", "dlq", "failure"}
  /\ r.call \in CallsOf(s, r.phase)

At(r, phase, call) == [r EXCEPT !.phase = phase, !.call = call]

\* An error leads out of the method: to SendToDQL, to OnFailure or to Read.
LEMMA AfterErrorFacts ==
  ASSUME NEW s, NEW r, InMethod(s, r)
  PROVE  AfterError(s, r) \in {Idle, At(r, "dlq", "AddDead"), At(r, "failure", "ScheduleRetry")}
BY DEF InMethod, AfterError, Enter, FirstCall, At

\* Without an error the calls follow one another as in the source.
LEMMA ProceedFacts ==
  ASSUME NEW s, NEW r, InMethod(s, r)
  PROVE  /\ r.call = "GenerateStory" => Proceed(s, r) = At(r, r.phase, "UploadStory")
         /\ r.call = "UploadStory" => Proceed(s, r) = At(r, r.phase, "SaveEmailJob")
         /\ r.call \in {"SaveEmailJob", "SendNotificationEmail"} => Proceed(s, r) = At(r, "success", "Ack")
         /\ r.call \in {"AddDead", "ScheduleRetry"} => Proceed(s, r) = At(r, r.phase, "Ack")
         /\ r.call = "Ack" => Proceed(s, r) = At(r, r.phase, "Delete")
         /\ r.call = "Delete" => \/ Proceed(s, r) = At(r, r.phase, "Update")
                                \/ /\ s = "story" /\ r.phase = "success"
                                   /\ Proceed(s, r) = At(r, r.phase, "Forward")
         /\ r.call = "Forward" => Proceed(s, r) = At(r, r.phase, "Update")
         /\ r.call = "Update" => Proceed(s, r) \in {Idle, At(r, "failure", "ScheduleRetry")}
<1> USE DEF InMethod, At, Proceed, NextCall, AfterReturn, Enter, FirstCall, CallsOf, Worker
<1>1. r = [phase |-> r.phase, call |-> r.call, msg |-> r.msg]
  OBVIOUS
<1>2. r.call = "GenerateStory" => Proceed(s, r) = At(r, r.phase, "UploadStory")
  OBVIOUS
<1>3. r.call = "UploadStory" => Proceed(s, r) = At(r, r.phase, "SaveEmailJob")
  OBVIOUS
<1>4. r.call \in {"SaveEmailJob", "SendNotificationEmail"} => Proceed(s, r) = At(r, "success", "Ack")
  OBVIOUS
<1>5. r.call \in {"AddDead", "ScheduleRetry"} => Proceed(s, r) = At(r, r.phase, "Ack")
  OBVIOUS
<1>6. r.call = "Ack" => Proceed(s, r) = At(r, r.phase, "Delete")
  OBVIOUS
<1>7. r.call = "Delete" => \/ Proceed(s, r) = At(r, r.phase, "Update")
                           \/ /\ s = "story" /\ r.phase = "success"
                              /\ Proceed(s, r) = At(r, r.phase, "Forward")
  OBVIOUS
<1>8. r.call = "Forward" => Proceed(s, r) = At(r, r.phase, "Update")
  OBVIOUS
<1>9. r.call = "Update" => Proceed(s, r) \in {Idle, At(r, "failure", "ScheduleRetry")}
  OBVIOUS
<1> QED
  BY <1>2, <1>3, <1>4, <1>5, <1>6, <1>7, <1>8, <1>9

\* A worker that is neither reading nor dead runs a method with a message.
LEMMA WorkerFacts ==
  ASSUME IInv, NEW w \in Workers
  PROVE  /\ StageOf(w) \in Stage /\ worker[w] \in Worker
         /\ worker[w].call = "Read" => worker[w] = Idle
         /\ worker[w].call \notin {"Read", "return"} =>
              /\ InMethod(StageOf(w), worker[w])
              /\ Held(w)
              /\ MemberOf(worker[w].msg) \in Member
<1>1. worker[w] \in Worker /\ ControlOK(w)
  BY DEF IInv, TypeOK
<1>2. StageOf(w) \in Stage
  BY DEF StageOf, Stage
<1>3. worker[w].phase \in Phase
  BY <1>1 DEF Worker
<1>4. ASSUME worker[w].call = "Read" PROVE worker[w] = Idle
  <2>1. worker[w].phase = "idle"
    BY <1>1, <1>3, <1>4 DEF ControlOK, CallsOf, Phase
  <2>2. worker[w].msg = None
    BY <1>1, <2>1 DEF ControlOK, Held
  <2> QED
    BY <1>1, <1>4, <2>1, <2>2 DEF Worker, Idle
<1>5. ASSUME worker[w].call \notin {"Read", "return"}
      PROVE  InMethod(StageOf(w), worker[w]) /\ Held(w) /\ MemberOf(worker[w].msg) \in Member
  <2>1. worker[w].phase \in {"execute", "success", "dlq", "failure"}
    BY <1>1, <1>3, <1>5 DEF ControlOK, CallsOf, Phase
  <2>2. Held(w) /\ worker[w].msg \in Entry
    BY <1>1, <2>1 DEF ControlOK, Held, Worker
  <2> QED
    BY <1>1, <1>2, <2>1, <2>2 DEF InMethod, ControlOK, MemberOf, Entry, Member
<1> QED
  BY <1>1, <1>2, <1>4, <1>5

-----------------------------------------------------------------------------
(* What a step of the pipeline does to the queues, the rows and the mails.  *)

QueueMove(s) ==
  \/ queue'[s] = queue[s]
  \/ \E m \in Member : queue'[s] \in {XAdd(queue[s], m), ZAdd(queue[s], m), AddDead(queue[s], m)}
  \/ \E e \in queue[s].entries : IsNext(queue[s], e) /\ queue'[s] = XReadGroup(queue[s], e)
  \/ \E w \in Workers : /\ StageOf(w) = s /\ worker[w].call = "Ack"
                        /\ queue'[s] = XAck(queue[s], worker[w].msg.id)
  \/ \E w \in Workers : /\ StageOf(w) = s /\ worker[w].call = "Delete"
                        /\ queue'[s] = XDel(queue[s], worker[w].msg.id)
  \/ \E p \in Schedulers : /\ StageOf(p) = s /\ scheduler[p].removing # None
                           /\ queue'[s] = ZRem(queue[s], scheduler[p].removing)

QueueMoves == queue' = [s \in Stage |-> queue'[s]] /\ \A s \in Stage : QueueMove(s)
RowMoves ==
  /\ db' = [j \in Jobs |-> db'[j]] /\ \A j \in Jobs : RowMove(db[j], db'[j])
  /\ mailed \subseteq mailed' /\ mailed' \subseteq Jobs

\* The step touches no queue, or only one; no row, or only one user's.
LEMMA SameQueues == IInv /\ UNCHANGED queue => QueueMoves
BY DEF QueueMoves, QueueMove, IInv, TypeOK

LEMMA OneQueue ==
  ASSUME IInv, NEW t \in Stage, NEW q, queue' \in {queue, [queue EXCEPT ![t] = q]},
         queue'[t] = q => QueueMove(t)
  PROVE  QueueMoves
BY DEF QueueMoves, QueueMove, IInv, TypeOK

LEMMA SameRows == IInv /\ UNCHANGED <<db, mailed>> => RowMoves
BY DEF RowMoves, RowMove, IInv, TypeOK

LEMMA OneRow ==
  ASSUME IInv, NEW k \in Jobs, NEW r, db' \in {db, [db EXCEPT ![k] = r]}, UNCHANGED mailed,
         RowMove(db[k], r)
  PROVE  RowMoves
<1>0. db \in [Jobs -> UserRows] /\ mailed \subseteq Jobs
  BY DEF IInv, TypeOK
<1>1. \A j \in Jobs : db'[j] = db[j] \/ (j = k /\ db'[j] = r)
  BY <1>0
<1>2. \A j \in Jobs : RowMove(db[j], db[j])
  BY DEF RowMove
<1>3. \A j \in Jobs : RowMove(db[j], db'[j])
  BY <1>1, <1>2
<1> QED
  BY <1>0, <1>3 DEF RowMoves

\* Every step makes only the moves listed above.
LEMMA StepMoves == IInv /\ [Next]_vars => QueueMoves /\ RowMoves
<1> SUFFICES ASSUME IInv, [Next]_vars PROVE QueueMoves /\ RowMoves
  OBVIOUS
<1>0. "story" \in Stage /\ "email" \in Stage /\ mailed \subseteq Jobs
  BY DEF Stage, IInv, TypeOK
<1>1. ASSUME NEW j \in Jobs, RequestStory(j) PROVE QueueMoves /\ RowMoves
  <2>1. RowMove(db[j], SaveStoryInfo(db[j]))
    BY <1>1 DEF RequestStory, RowMove
  <2>2. db' \in {db, [db EXCEPT ![j] = SaveStoryInfo(db[j])]}
    BY <1>1 DEF RequestStory
  <2>3. UNCHANGED <<queue, mailed>>
    BY <1>1 DEF RequestStory
  <2> QED
    BY <2>1, <2>2, <2>3, OneRow, SameQueues
<1>2. ASSUME NEW j \in Jobs, RequestStoryJob(j) PROVE QueueMoves /\ RowMoves
  <2>1. db' \in {db, [db EXCEPT ![j] = IF db[j].user THEN SaveStoryJob(db[j]) ELSE db[j]]}
    BY <1>2 DEF RequestStoryJob
  <2>2. RowMove(db[j], IF db[j].user THEN SaveStoryJob(db[j]) ELSE db[j])
    BY DEF RowMove
  <2> QED
    BY <1>2, <2>1, <2>2, OneRow, SameQueues DEF RequestStoryJob
<1>3. ASSUME NEW j \in Jobs, RequestAdd(j) PROVE QueueMoves /\ RowMoves
  <2> DEFINE m == [job |-> j, retry |-> 0]
  <2>1. m \in Member
    BY DEF Member
  <2>2. queue' \in {queue, [queue EXCEPT !["story"] = XAdd(queue["story"], m)]}
    BY <1>3 DEF RequestAdd
  <2>3. queue'["story"] = XAdd(queue["story"], m) => QueueMove("story")
    BY <2>1 DEF QueueMove
  <2> QED
    BY <1>0, <1>3, <2>2, <2>3, OneQueue, SameRows DEF RequestAdd
<1>4. ASSUME NEW j \in Jobs, DeleteUser(j) PROVE QueueMoves /\ RowMoves
  <2>1. RowMove(db[j], DeleteUserByID(db[j]))
    BY DEF RowMove
  <2>2. db' \in {db, [db EXCEPT ![j] = DeleteUserByID(db[j])]}
    BY <1>4 DEF DeleteUser
  <2>3. UNCHANGED <<queue, mailed>>
    BY <1>4 DEF DeleteUser
  <2> QED
    BY <2>1, <2>2, <2>3, OneRow, SameQueues
<1>5. ASSUME NEW w \in Workers, WorkerStep(w) PROVE QueueMoves /\ RowMoves
  <2> DEFINE s == StageOf(w)
             q == queue[s]
             e == worker[w].msg
             j == worker[w].msg.job
  <2>0. s \in Stage
    BY WorkerFacts
  <2>1. CASE Read(w)
    <3>1. PICK f \in q.entries : IsNext(q, f) /\ queue' = [queue EXCEPT ![s] = XReadGroup(q, f)]
      BY <2>1 DEF Read
    <3>2. queue'[s] = XReadGroup(q, f) => QueueMove(s)
      BY <3>1 DEF QueueMove
    <3>3. queue' \in {queue, [queue EXCEPT ![s] = XReadGroup(q, f)]} /\ UNCHANGED <<db, mailed>>
      BY <2>1, <3>1 DEF Read
    <3> QED
      BY <2>0, <3>2, <3>3, OneQueue, SameRows
  <2>2. CASE GenerateStory(w)
    BY <2>2, SameQueues, SameRows DEF GenerateStory
  <2>3. CASE StoreStory(w) \/ StoreEmailJob(w)
    <3>1. j \in Jobs
      BY <2>3, WorkerFacts DEF StoreStory, StoreEmailJob, Calls, InMethod, Entry
    <3>2. \/ db' \in {db, [db EXCEPT ![j] = UploadStory(db[j])]}
          \/ db' \in {db, [db EXCEPT ![j] = SaveEmailJob(db[j])]}
      BY <2>3 DEF StoreStory, StoreEmailJob, ExecuterWrite
    <3>3. RowMove(db[j], UploadStory(db[j])) /\ RowMove(db[j], SaveEmailJob(db[j]))
      BY DEF RowMove
    <3>4. UNCHANGED <<queue, mailed>>
      BY <2>3 DEF StoreStory, StoreEmailJob, ExecuterWrite
    <3> QED
      BY <3>1, <3>2, <3>3, <3>4, OneRow, SameQueues
  <2>4. CASE SendNotificationEmail(w)
    <3>1. j \in Jobs
      BY <2>4, WorkerFacts DEF SendNotificationEmail, Calls, InMethod, Entry
    <3>2. mailed' \in {mailed, mailed \cup {j}} /\ UNCHANGED <<queue, db>>
      BY <2>4 DEF SendNotificationEmail
    <3>3. RowMoves
      BY <1>0, <3>1, <3>2 DEF RowMoves, RowMove, IInv, TypeOK
    <3> QED
      BY <3>2, <3>3, SameQueues
  <2>5. CASE Ack(w)
    <3>1. queue' \in {queue, [queue EXCEPT ![s] = XAck(q, e.id)]} /\ UNCHANGED <<db, mailed>>
      BY <2>5 DEF Ack, QueueCall
    <3>2. queue'[s] = XAck(q, e.id) => QueueMove(s)
      BY <2>5 DEF QueueMove, Ack, Calls
    <3> QED
      BY <2>0, <3>1, <3>2, OneQueue, SameRows
  <2>6. CASE Delete(w)
    <3>1. queue' \in {queue, [queue EXCEPT ![s] = XDel(q, e.id)]} /\ UNCHANGED <<db, mailed>>
      BY <2>6 DEF Delete, QueueCall
    <3>2. queue'[s] = XDel(q, e.id) => QueueMove(s)
      BY <2>6 DEF QueueMove, Delete, Calls
    <3> QED
      BY <2>0, <3>1, <3>2, OneQueue, SameRows
  <2>7. CASE Forward(w)
    <3>1. MemberOf(e) \in Member
      BY <2>7, WorkerFacts DEF Forward, Calls
    <3>2. /\ queue' \in {queue, [queue EXCEPT !["email"] = XAdd(queue["email"], MemberOf(e))]}
          /\ UNCHANGED <<db, mailed>>
      BY <2>7 DEF Forward
    <3>3. queue'["email"] = XAdd(queue["email"], MemberOf(e)) => QueueMove("email")
      BY <3>1 DEF QueueMove
    <3> QED
      BY <1>0, <3>2, <3>3, OneQueue, SameRows
  <2>8. CASE AddToDLQ(w)
    <3>1. MemberOf(e) \in Member
      BY <2>8, WorkerFacts DEF AddToDLQ, Calls
    <3>2. /\ queue' \in {queue, [queue EXCEPT ![s] = AddDead(q, MemberOf(e))]}
          /\ UNCHANGED <<db, mailed>>
      BY <2>8 DEF AddToDLQ, QueueCall
    <3>3. queue'[s] = AddDead(q, MemberOf(e)) => QueueMove(s)
      BY <3>1 DEF QueueMove
    <3> QED
      BY <2>0, <3>2, <3>3, OneQueue, SameRows
  <2>9. CASE ScheduleRetry(w)
    <3> DEFINE m == [MemberOf(e) EXCEPT !.retry = @ + 1]
    <3>1. m \in Member
      BY <2>9, WorkerFacts DEF ScheduleRetry, Calls, Member
    <3>2. queue' \in {queue, [queue EXCEPT ![s] = ZAdd(q, m)]} /\ UNCHANGED <<db, mailed>>
      BY <2>9 DEF ScheduleRetry, QueueCall
    <3>3. queue'[s] = ZAdd(q, m) => QueueMove(s)
      BY <3>1 DEF QueueMove
    <3> QED
      BY <2>0, <3>2, <3>3, OneQueue, SameRows
  <2>10. CASE Update(w)
    <3>1. InMethod(s, worker[w]) /\ j \in Jobs
      BY <2>10, WorkerFacts DEF Update, Calls, InMethod, Entry
    <3>2. worker[w].phase \in {"success", "dlq", "failure"}
      BY <2>10, <3>1 DEF Update, Calls, InMethod, CallsOf
    <3>3. StatusOf(worker[w].phase) \in JobStatus
      BY <3>2 DEF StatusOf, JobStatus
    <3>4. \/ db' \in {db, [db EXCEPT ![j] = UpdateStoryJob(db[j], StatusOf(worker[w].phase))]}
          \/ db' \in {db, [db EXCEPT ![j] = UpdateEmailJob(db[j], StatusOf(worker[w].phase))]}
      BY <2>10 DEF Update
    <3>5. /\ RowMove(db[j], UpdateStoryJob(db[j], StatusOf(worker[w].phase)))
          /\ RowMove(db[j], UpdateEmailJob(db[j], StatusOf(worker[w].phase)))
      BY <3>3 DEF RowMove
    <3>6. UNCHANGED <<queue, mailed>>
      BY <2>10 DEF Update
    <3> QED
      BY <3>1, <3>4, <3>5, <3>6, OneRow, SameQueues
  <2> QED
    BY <1>5, <2>1, <2>2, <2>3, <2>4, <2>5, <2>6, <2>7, <2>8, <2>9, <2>10 DEF WorkerStep
<1>6. ASSUME NEW p \in Schedulers, Tick(p) \/ Reenqueue(p) \/ Remove(p) PROVE QueueMoves /\ RowMoves
  <2> DEFINE s == StageOf(p)
  <2>0. s \in Stage /\ scheduler[p] \in Scheduler
    BY DEF StageOf, Stage, IInv, TypeOK
  <2>1. CASE Tick(p)
    BY <2>1, SameQueues, SameRows DEF Tick
  <2>2. CASE Reenqueue(p)
    <3>1. PICK m \in scheduler[p].batch :
               queue' \in {queue, [queue EXCEPT ![s] = XAdd(queue[s], m)]} /\ UNCHANGED <<db, mailed>>
      BY <2>2 DEF Reenqueue
    <3>2. m \in Member
      BY <2>0, <3>1 DEF Scheduler
    <3>3. queue'[s] = XAdd(queue[s], m) => QueueMove(s)
      BY <3>2 DEF QueueMove
    <3> QED
      BY <2>0, <3>1, <3>3, OneQueue, SameRows
  <2>3. CASE Remove(p)
    <3>1. /\ queue' \in {queue, [queue EXCEPT ![s] = ZRem(queue[s], scheduler[p].removing)]}
          /\ scheduler[p].removing # None /\ UNCHANGED <<db, mailed>>
      BY <2>3 DEF Remove
    <3>2. queue'[s] = ZRem(queue[s], scheduler[p].removing) => QueueMove(s)
      BY <3>1 DEF QueueMove
    <3> QED
      BY <2>0, <3>1, <3>2, OneQueue, SameRows
  <2> QED
    BY <1>6, <2>1, <2>2, <2>3
<1>7. ASSUME Restart \/ UNCHANGED vars PROVE QueueMoves /\ RowMoves
  BY <1>7, SameQueues, SameRows DEF Restart, vars
<1> QED
  BY <1>1, <1>2, <1>3, <1>4, <1>5, <1>6, <1>7 DEF Next, Request

-----------------------------------------------------------------------------
(* What no step takes away.                                                 *)

\* Numbers only grow, and an id that was delivered is never given again.
LEMMA QueueStable ==
  ASSUME IInv, NEW s \in Stage, QueueMove(s)
  PROVE  /\ queue'[s] \in QueueState
         /\ IdsOK(queue'[s])
         /\ queue[s].dead \subseteq queue'[s].dead
         /\ queue[s].delivered <= queue'[s].delivered
         /\ \A e \in queue'[s].entries : e \in queue[s].entries \/ e.id > queue[s].delivered
         /\ \A i \in queue'[s].pending : i \in queue[s].pending \/ i > queue[s].delivered
<1> DEFINE q == queue[s]
           Good(p) == /\ p \in QueueState
                      /\ IdsOK(p)
                      /\ q.dead \subseteq p.dead
                      /\ q.delivered <= p.delivered
                      /\ \A e \in p.entries : e \in q.entries \/ e.id > q.delivered
                      /\ \A i \in p.pending : i \in q.pending \/ i > q.delivered
<1>0. q \in QueueState /\ IdsOK(q) /\ q.delivered \in Nat /\ q.last \in Nat
  BY DEF IInv, TypeOK, QueueState
<1>1. Good(q)
  BY <1>0
<1>2. ASSUME NEW m \in Member PROVE Good(XAdd(q, m))
  <2>1. XAdd(q, m) \in QueueState /\ IdsOK(XAdd(q, m))
    BY <1>0, XAddFacts DEF Member
  <2>2. /\ XAdd(q, m).dead = q.dead /\ XAdd(q, m).delivered = q.delivered
        /\ XAdd(q, m).pending = q.pending
        /\ XAdd(q, m).entries = q.entries \cup {[id |-> q.last + 1, job |-> m.job, retry |-> m.retry]}
    BY <1>0 DEF XAdd, QueueState
  <2>3. q.last + 1 > q.delivered
    BY <1>0 DEF IdsOK
  <2> QED
    BY <1>0, <2>1, <2>2, <2>3
<1>3. ASSUME NEW m \in Member PROVE Good(ZAdd(q, m)) /\ Good(AddDead(q, m))
  <2>1. ASSUME NEW p \in {ZAdd(q, m), AddDead(q, m)}
        PROVE  /\ p \in QueueState /\ IdsOK(p)
               /\ p.entries = q.entries /\ p.delivered = q.delivered
               /\ p.pending = q.pending /\ q.dead \subseteq p.dead
    <3>1. p \in QueueState /\ IdsOK(p)
      BY <1>0, ZAddFacts
    <3> QED
      BY <1>0, <3>1 DEF ZAdd, AddDead, QueueState
  <2> QED
    BY <1>0, <2>1
<1>4. ASSUME NEW e \in q.entries, IsNext(q, e) PROVE Good(XReadGroup(q, e))
  <2>1. XReadGroup(q, e) \in QueueState /\ IdsOK(XReadGroup(q, e))
    BY <1>0, <1>4, XReadGroupFacts
  <2>2. /\ XReadGroup(q, e).dead = q.dead /\ XReadGroup(q, e).delivered = e.id
        /\ XReadGroup(q, e).pending = q.pending \cup {e.id}
        /\ XReadGroup(q, e).entries = q.entries
    BY <1>0 DEF XReadGroup, QueueState
  <2>3. e.id > q.delivered /\ e.id \in Nat
    BY <1>0, <1>4 DEF IsNext, Undelivered, QueueState, Entry
  <2> QED
    BY <1>0, <2>1, <2>2, <2>3
<1>5. ASSUME NEW id PROVE Good(XAck(q, id))
  BY <1>0, XAckFacts DEF XAck, QueueState
<1>6. ASSUME NEW id PROVE Good(XDel(q, id))
  <2>1. XDel(q, id) \in QueueState /\ IdsOK(XDel(q, id))
    BY <1>0, XDelFacts
  <2>2. /\ XDel(q, id).dead = q.dead /\ XDel(q, id).delivered = q.delivered
        /\ XDel(q, id).pending = q.pending /\ XDel(q, id).entries \subseteq q.entries
    BY <1>0 DEF XDel, QueueState
  <2> QED
    BY <1>0, <2>1, <2>2
<1>7. ASSUME NEW p \in Schedulers, scheduler[p].removing # None PROVE Good(ZRem(q, scheduler[p].removing))
  <2>1. scheduler[p].removing \in Member
    BY <1>7 DEF IInv, TypeOK, Scheduler
  <2>2. ZRem(q, scheduler[p].removing) \in QueueState /\ IdsOK(ZRem(q, scheduler[p].removing))
    BY <1>0, <2>1, ZAddFacts
  <2>3. \A m : /\ ZRem(q, m).entries = q.entries /\ ZRem(q, m).delivered = q.delivered
               /\ ZRem(q, m).pending = q.pending /\ ZRem(q, m).dead = q.dead
    BY <1>0 DEF ZRem, QueueState
  <2> QED
    BY <1>0, <2>2, <2>3
<1> QED
  BY <1>1, <1>2, <1>3, <1>4, <1>5, <1>6, <1>7 DEF QueueMove

\* What a stage has done for a job, it has done.
LEMMA SettledStable ==
  ASSUME IInv, QueueMoves, RowMoves, NEW s \in Stage, NEW j \in Jobs
  PROVE  /\ DeadLettered(s, j) => DeadLettered(s, j)'
         /\ Done(s, j) => Done(s, j)'
         /\ Settled(s, j) => Settled(s, j)'
<1>1. DeadLettered(s, j) => DeadLettered(s, j)'
  BY QueueStable DEF DeadLettered, QueueMoves
<1>2. Kept(db[j], db'[j])
  BY RowMoveFacts DEF RowMoves, IInv, TypeOK, NothingAfterDeletion
<1>3. Done(s, j) => Done(s, j)'
  BY <1>2 DEF Done, StoryReady, Kept, RowMoves
<1> QED
  BY <1>1, <1>3 DEF Settled

\* A live entry stays live until its worker acknowledges it, and then its job is
\* settled or carried on with more retries.
LEMMA EntryStable ==
  ASSUME IInv, NEW s \in Stage, QueueMove(s), NEW e \in LiveEntries(queue[s])
  PROVE  \/ e \in LiveEntries(queue'[s])
         \/ Settled(s, e.job)
         \/ \E f \in LiveEntries(queue'[s]) : CarriesFrom(f, e.job, e.retry + 1)
         \/ \E m \in queue'[s].retry : CarriesFrom(m, e.job, e.retry + 1)
<1> DEFINE q == queue[s]
<1>0. q \in QueueState /\ IdsOK(q) /\ e \in q.entries /\ e \in Entry
  BY DEF IInv, TypeOK, QueueState, LiveEntries
<1>1. ASSUME NEW m \in Member, queue'[s] \in {XAdd(q, m), ZAdd(q, m), AddDead(q, m)}
      PROVE  e \in LiveEntries(queue'[s])
  <2>1. m.job \in Jobs /\ m.retry \in Nat
    BY DEF Member
  <2> QED
    BY <1>0, <1>1, <2>1, XAddFacts, ZAddFacts
<1>2. ASSUME NEW f \in q.entries, IsNext(q, f), queue'[s] = XReadGroup(q, f)
      PROVE  e \in LiveEntries(queue'[s])
  BY <1>0, <1>2, XReadGroupFacts
<1>3. ASSUME NEW w \in Workers, StageOf(w) = s, worker[w].call = "Ack",
             queue'[s] = XAck(q, worker[w].msg.id), e \notin LiveEntries(queue'[s]),
             ~Settled(s, e.job)
      PROVE  \/ \E f \in LiveEntries(queue'[s]) : CarriesFrom(f, e.job, e.retry + 1)
             \/ \E m \in queue'[s].retry : CarriesFrom(m, e.job, e.retry + 1)
  <2>1. InMethod(s, worker[w]) /\ Held(w) /\ HeldOK(w) /\ AchievedOK(w)
    BY <1>3, WorkerFacts DEF IInv
  <2>2. \A f \in LiveEntries(q) : f.id # worker[w].msg.id => f \in LiveEntries(queue'[s])
    BY <1>0, <1>3, XAckFacts
  <2>3. e.id = worker[w].msg.id
    BY <1>3, <2>2
  <2>4. e = worker[w].msg
    BY <1>0, <1>3, <2>1, <2>3 DEF HeldOK
  <2>5. worker[w].phase = "failure"
    BY <1>3, <2>1, <2>4 DEF InMethod, CallsOf, AchievedOK, AchievedAt, Settled
  <2>6. CarriedFrom(s, e.job, e.retry + 1)
    BY <1>3, <2>1, <2>4, <2>5 DEF AchievedOK, AchievedAt
  <2>7. queue'[s].retry = q.retry
    BY <1>0, <1>3 DEF XAck, QueueState
  <2>8. ASSUME NEW f \in LiveEntries(q), CarriesFrom(f, e.job, e.retry + 1)
        PROVE  f \in LiveEntries(queue'[s])
    <3>1. f \in q.entries /\ f \in Entry
      BY <1>0 DEF LiveEntries, QueueState
    <3>2. f # e
      BY <1>0, <2>8, <3>1 DEF CarriesFrom, Entry
    <3>3. f.id # worker[w].msg.id
      BY <1>0, <2>4, <3>1, <3>2 DEF IdsOK
    <3> QED
      BY <2>2, <3>3
  <2> QED
    BY <2>6, <2>7, <2>8 DEF CarriedFrom, InStream, InRetrySet
<1>4. ASSUME NEW w \in Workers, StageOf(w) = s, worker[w].call = "Delete",
             queue'[s] = XDel(q, worker[w].msg.id)
      PROVE  e \in LiveEntries(queue'[s])
  <2>1. InMethod(s, worker[w]) /\ Held(w) /\ HeldOK(w)
    BY <1>4, WorkerFacts DEF IInv
  <2>2. /\ worker[w].msg.id <= q.delivered /\ worker[w].msg.id \in Nat
        /\ worker[w].msg.id \notin q.pending
    BY <1>4, <2>1 DEF HeldOK, InMethod, Entry
  <2> QED
    BY <1>0, <1>4, <2>2, XDelFacts
<1>5. ASSUME NEW p \in Schedulers, scheduler[p].removing # None,
             queue'[s] = ZRem(q, scheduler[p].removing)
      PROVE  e \in LiveEntries(queue'[s])
  <2>1. scheduler[p].removing \in Member
    BY <1>5 DEF IInv, TypeOK, Scheduler
  <2> QED
    BY <1>0, <1>5, <2>1, ZAddFacts
<1> QED
  BY <1>1, <1>2, <1>3, <1>4, <1>5 DEF QueueMove

\* A member stays until a scheduler removes it, and then its job is settled, on
\* the stream again, or carried on with more retries.
LEMMA MemberStable ==
  ASSUME IInv, NEW s \in Stage, QueueMove(s), NEW m \in queue[s].retry
  PROVE  \/ m \in queue'[s].retry
         \/ Settled(s, m.job)
         \/ \E e \in LiveEntries(queue'[s]) : CarriesFrom(e, m.job, m.retry)
         \/ \E n \in queue'[s].retry : CarriesFrom(n, m.job, m.retry + 1)
<1> DEFINE q == queue[s]
<1>0. q \in QueueState /\ IdsOK(q) /\ m \in Member
  BY DEF IInv, TypeOK, QueueState
<1>1. ASSUME NEW p \in Schedulers, StageOf(p) = s, scheduler[p].removing = m, m # None,
             queue'[s] = ZRem(q, m), ~Settled(s, m.job)
      PROVE  \/ \E e \in LiveEntries(queue'[s]) : CarriesFrom(e, m.job, m.retry)
             \/ \E n \in queue'[s].retry : CarriesFrom(n, m.job, m.retry + 1)
  <2>1. InStream(s, m.job, m.retry) \/ CarriedFrom(s, m.job, m.retry + 1)
    BY <1>1 DEF IInv, RemovingOK
  <2>2. LiveEntries(queue'[s]) = LiveEntries(q)
    BY <1>0, <1>1, ZAddFacts
  <2>3. CASE InStream(s, m.job, m.retry)
    BY <2>2, <2>3 DEF InStream
  <2>4. CASE InStream(s, m.job, m.retry + 1)
    <3>1. PICK e \in LiveEntries(q) : CarriesFrom(e, m.job, m.retry + 1)
      BY <2>4 DEF InStream
    <3>2. e \in Entry
      BY <1>0 DEF LiveEntries, QueueState
    <3>3. CarriesFrom(e, m.job, m.retry)
      BY <1>0, <3>1, <3>2 DEF CarriesFrom, Entry, Member
    <3> QED
      BY <2>2, <3>3
  <2>5. CASE InRetrySet(s, m.job, m.retry + 1)
    <3>1. PICK n \in q.retry : CarriesFrom(n, m.job, m.retry + 1)
      BY <2>5 DEF InRetrySet
    <3>2. n # m
      BY <1>0, <3>1 DEF CarriesFrom, Member
    <3>3. n \in queue'[s].retry
      BY <1>0, <1>1, <3>2 DEF ZRem, QueueState
    <3> QED
      BY <3>1, <3>3
  <2> QED
    BY <2>1, <2>3, <2>4, <2>5 DEF CarriedFrom
<1>2. ASSUME NEW p \in Schedulers, scheduler[p].removing # m, queue'[s] = ZRem(q, scheduler[p].removing)
      PROVE  m \in queue'[s].retry
  BY <1>0, <1>2 DEF ZRem, QueueState
<1>3. CASE q.retry \subseteq queue'[s].retry
  BY <1>3
<1>4. \A e, n : /\ q.retry \subseteq XAdd(q, n).retry /\ q.retry \subseteq ZAdd(q, n).retry
                /\ q.retry \subseteq AddDead(q, n).retry /\ q.retry \subseteq XReadGroup(q, e).retry
                /\ q.retry \subseteq XAck(q, n).retry /\ q.retry \subseteq XDel(q, n).retry
  BY <1>0 DEF XAdd, ZAdd, AddDead, XReadGroup, XAck, XDel, QueueState
<1> QED
  BY <1>1, <1>2, <1>3, <1>4 DEF QueueMove

\* A job that is settled, or carried with r retries or more, is so after any step.
LEMMA CarriedStable ==
  ASSUME IInv, QueueMoves, RowMoves, NEW s \in Stage, NEW j \in Jobs, NEW r \in Nat,
         Settled(s, j) \/ CarriedFrom(s, j, r)
  PROVE  (Settled(s, j) \/ CarriedFrom(s, j, r))'
<1>0. /\ QueueMove(s) /\ queue[s] \in QueueState /\ queue'[s] \in QueueState
      /\ \A e \in LiveEntries(queue[s]) \cup LiveEntries(queue'[s]) : e \in Entry
      /\ \A m \in queue[s].retry \cup queue'[s].retry : m \in Member
  BY QueueStable DEF QueueMoves, IInv, TypeOK, LiveEntries, QueueState
<1>1. CASE Settled(s, j)
  BY <1>1, SettledStable
<1>2. ASSUME NEW e \in LiveEntries(queue[s]), CarriesFrom(e, j, r), ~Settled(s, j)
      PROVE  CarriedFrom(s, j, r)'
  BY <1>0, <1>2, EntryStable DEF CarriesFrom, CarriedFrom, InStream, InRetrySet, Entry, Member
<1>3. ASSUME NEW m \in queue[s].retry, CarriesFrom(m, j, r), ~Settled(s, j)
      PROVE  CarriedFrom(s, j, r)'
  BY <1>0, <1>3, MemberStable DEF CarriesFrom, CarriedFrom, InStream, InRetrySet, Entry, Member
<1> QED
  BY <1>1, <1>2, <1>3 DEF CarriedFrom, InStream, InRetrySet

\* The same for what a scheduler relies on between Add and ZRem.
LEMMA RemovingStable ==
  ASSUME IInv, QueueMoves, RowMoves, NEW s \in Stage, NEW m \in Member,
         \/ Settled(s, m.job)
         \/ InStream(s, m.job, m.retry)
         \/ CarriedFrom(s, m.job, m.retry + 1)
  PROVE  (\/ Settled(s, m.job)
          \/ InStream(s, m.job, m.retry)
          \/ CarriedFrom(s, m.job, m.retry + 1))'
<1>0. /\ QueueMove(s) /\ m.job \in Jobs /\ m.retry \in Nat
      /\ \A e \in LiveEntries(queue[s]) \cup LiveEntries(queue'[s]) : e \in Entry
      /\ \A n \in queue'[s].retry : n \in Member
  BY QueueStable DEF QueueMoves, IInv, TypeOK, LiveEntries, QueueState, Member
<1>1. CASE Settled(s, m.job) \/ CarriedFrom(s, m.job, m.retry + 1)
  BY <1>0, <1>1, CarriedStable
<1>2. ASSUME NEW e \in LiveEntries(queue[s]), CarriesFrom(e, m.job, m.retry), ~Settled(s, m.job)
      PROVE  (InStream(s, m.job, m.retry) \/ CarriedFrom(s, m.job, m.retry + 1))'
  BY <1>0, <1>2, EntryStable DEF CarriesFrom, CarriedFrom, InStream, InRetrySet, Entry, Member
<1> QED
  BY <1>1, <1>2 DEF InStream

-----------------------------------------------------------------------------
(* What a worker knows after a step, its own or another's.                  *)

WorkerOK(v) == worker[v] \in Worker /\ ControlOK(v) /\ HeldOK(v) /\ AchievedOK(v)

LEMMA IdleWorker ==
  ASSUME NEW v \in Workers, worker'[v] = Idle
  PROVE  WorkerOK(v)'
BY DEF WorkerOK, Idle, Worker, Phase, Call, ControlOK, CallsOf, Held, HeldOK, AchievedOK, AchievedAt

\* The message stays the delivered entry of its id, and stays acknowledged.
LEMMA HeldStable ==
  ASSUME IInv, QueueMoves, NEW v \in Workers, HeldOK(v), worker[v].msg \in Entry
  PROVE  LET q == queue'[StageOf(v)]  m == worker[v].msg IN
         /\ m.id <= q.delivered
         /\ \A e \in q.entries : e.id = m.id => e = m
         /\ m.id \notin queue[StageOf(v)].pending => m.id \notin q.pending
<1> DEFINE s == StageOf(v)
           m == worker[v].msg
<1>1. s \in Stage /\ Held(v) /\ m.id \in Nat
  BY PoolsAssumption DEF StageOf, Stage, Held, Entry
<1>2. /\ queue[s] \in QueueState /\ queue'[s] \in QueueState
      /\ queue[s].delivered \in Nat /\ queue'[s].delivered \in Nat
  BY <1>1, QueueStable DEF QueueMoves, IInv, TypeOK, QueueState
<1>3. /\ queue[s].delivered <= queue'[s].delivered
      /\ \A e \in queue'[s].entries : e \in queue[s].entries \/ e.id > queue[s].delivered
      /\ \A i \in queue'[s].pending : i \in queue[s].pending \/ i > queue[s].delivered
  BY <1>1, QueueStable DEF QueueMoves
<1>4. m.id <= queue[s].delivered /\ \A e \in queue[s].entries : e.id = m.id => e = m
  BY <1>1 DEF HeldOK
<1> QED
  BY <1>1, <1>2, <1>3, <1>4

\* What was achieved stays so.
LEMMA AchievedStable ==
  ASSUME IInv, QueueMoves, RowMoves, NEW s \in Stage, NEW m \in Entry, NEW phase, NEW call,
         AchievedAt(s, m, phase, call)
  PROVE  AchievedAt(s, m, phase, call)'
<1>0. m.job \in Jobs /\ m.retry + 1 \in Nat
  BY DEF Entry
<1>1. Kept(db[m.job], db'[m.job])
  BY <1>0, RowMoveFacts DEF RowMoves, IInv, TypeOK, NothingAfterDeletion
<1>2. call = "SaveEmailJob" => db'[m.job].story = "uploaded" \/ ~db'[m.job].user
  BY <1>1 DEF AchievedAt, Kept
<1>3. phase = "success" => Done(s, m.job)'
  BY <1>0, SettledStable DEF AchievedAt
<1>4. phase = "dlq" /\ call # "AddDead" => DeadLettered(s, m.job)'
  BY <1>0, SettledStable DEF AchievedAt
<1>5. phase = "failure" /\ call # "ScheduleRetry"
       => (Settled(s, m.job) \/ CarriedFrom(s, m.job, m.retry + 1))'
  BY <1>0, CarriedStable DEF AchievedAt
<1> QED
  BY <1>2, <1>3, <1>4, <1>5 DEF AchievedAt

\* A worker that does not move keeps all it knows.
LEMMA OtherWorker ==
  ASSUME IInv, QueueMoves, RowMoves, NEW v \in Workers, worker'[v] = worker[v]
  PROVE  WorkerOK(v)'
<1>0. worker[v] \in Worker /\ ControlOK(v) /\ HeldOK(v) /\ AchievedOK(v) /\ StageOf(v) \in Stage
  BY DEF IInv, TypeOK, StageOf, Stage
<1>1. ControlOK(v)'
  BY <1>0 DEF ControlOK, Held
<1>2. CASE ~Held(v)
  <2>1. worker[v] = Idle
    BY <1>0, <1>2 DEF ControlOK, Held, CallsOf, Worker, Idle
  <2> QED
    BY <2>1, IdleWorker
<1>3. CASE Held(v)
  <2>1. worker[v].msg \in Entry
    BY <1>0, <1>3 DEF Held, Worker
  <2>2. HeldOK(v)'
    BY <1>0, <2>1, <1>3, HeldStable DEF HeldOK
  <2>3. AchievedOK(v)'
    BY <1>0, <2>1, AchievedStable DEF AchievedOK
  <2> QED
    BY <1>0, <1>1, <2>2, <2>3 DEF WorkerOK
<1> QED
  BY <1>2, <1>3

\* A worker that moves on with its message, having achieved what the next call
\* asks for.
LEMMA MovedWorker ==
  ASSUME IInv, QueueMoves, NEW v \in Workers, NEW m \in Entry, worker[v].msg = m,
         InMethod(StageOf(v), worker[v]),
         NEW phase \in Phase \ {"idle"}, NEW call \in CallsOf(StageOf(v), phase),
         worker'[v] = At(worker[v], phase, call),
         call = "Delete" => m.id \notin queue'[StageOf(v)].pending,
         AchievedAt(StageOf(v), m, phase, call)'
  PROVE  WorkerOK(v)'
<1>1. /\ worker'[v].phase = phase /\ worker'[v].call = call /\ worker'[v].msg = m
      /\ worker'[v] \in [phase: Phase, call: {call}, msg: Entry \cup {None}]
  BY DEF InMethod, Worker, At
<1>2. call \in Call
  BY DEF CallsOf, Call, Phase
<1>3. worker'[v] \in Worker
  BY <1>1, <1>2 DEF Worker
<1>4. m # None
  BY PoolsAssumption
<1>5. ControlOK(v)'
  BY <1>1, <1>4 DEF ControlOK, Held
<1>6. HeldOK(v)'
  BY <1>1, HeldStable DEF HeldOK, IInv
<1>7. AchievedOK(v)'
  BY <1>1 DEF AchievedOK
<1> QED
  BY <1>3, <1>5, <1>6, <1>7 DEF WorkerOK

\* After an error a worker owes nothing yet: SendToDQL or OnFailure begins.
LEMMA FailedWorker ==
  ASSUME IInv, QueueMoves, NEW v \in Workers, InMethod(StageOf(v), worker[v]),
         worker'[v] \in {Idle, At(worker[v], "dlq", "AddDead"), At(worker[v], "failure", "ScheduleRetry")}
  PROVE  WorkerOK(v)'
<1>0. worker[v].msg \in Entry
  BY DEF InMethod
<1>1. CASE worker'[v] = Idle
  BY <1>1, IdleWorker
<1>2. CASE worker'[v] = At(worker[v], "dlq", "AddDead")
  <2>1. "AddDead" \in CallsOf(StageOf(v), "dlq") /\ "dlq" \in Phase \ {"idle"}
    BY DEF CallsOf, Phase
  <2>2. \A m \in Entry : AchievedAt(StageOf(v), m, "dlq", "AddDead")'
    BY DEF AchievedAt
  <2> QED
    BY <1>0, <1>2, <2>1, <2>2, MovedWorker
<1>3. CASE worker'[v] = At(worker[v], "failure", "ScheduleRetry")
  <2>1. "ScheduleRetry" \in CallsOf(StageOf(v), "failure") /\ "failure" \in Phase \ {"idle"}
    BY DEF CallsOf, Phase
  <2>2. \A m \in Entry : AchievedAt(StageOf(v), m, "failure", "ScheduleRetry")'
    BY DEF AchievedAt
  <2> QED
    BY <1>0, <1>3, <2>1, <2>2, MovedWorker
<1> QED
  BY <1>1, <1>2, <1>3

\* The worker that reads.
LEMMA ReadStep ==
  ASSUME IInv, QueueMoves, RowMoves, NEW w \in Workers, Read(w)
  PROVE  WorkerOK(w)'
<1> DEFINE s == StageOf(w)
<1>0. worker[w] = Idle /\ s \in Stage /\ worker \in [Workers -> Worker]
  BY WorkerFacts DEF Read, Calls, IInv, TypeOK
<1>1. PICK f \in queue[s].entries :
           /\ queue' = [queue EXCEPT ![s] = XReadGroup(@, f)]
           /\ \/ worker' = [worker EXCEPT ![w] = Enter(s, "execute", [@ EXCEPT !.msg = f])]
              \/ UNCHANGED worker
  BY DEF Read
<1>2. CASE UNCHANGED worker
  BY <1>2, OtherWorker
<1>3. CASE worker' = [worker EXCEPT ![w] = Enter(s, "execute", [@ EXCEPT !.msg = f])]
  <2>1. queue[s] \in QueueState /\ IdsOK(queue[s]) /\ f \in Entry /\ f # None
    BY <1>0, PoolsAssumption DEF IInv, TypeOK, QueueState
  <2>2. /\ worker'[w].phase = "execute" /\ worker'[w].msg = f
        /\ worker'[w].call = IF s = "story" THEN "GenerateStory" ELSE "SendNotificationEmail"
        /\ worker'[w] \in [phase: {"execute"}, call: {"GenerateStory", "SendNotificationEmail"}, msg: {f}]
    BY <1>0, <1>3 DEF Enter, FirstCall, Idle
  <2>3. worker'[w] \in Worker
    BY <2>1, <2>2 DEF Worker, Phase, Call
  <2>4. ControlOK(w)'
    BY <2>1, <2>2 DEF ControlOK, CallsOf, Held
  <2>5. HeldOK(w)'
    <3>1. queue'[s].delivered = f.id /\ queue'[s].entries = queue[s].entries
      BY <1>0, <1>1, <2>1 DEF XReadGroup, IInv, TypeOK, QueueState
    <3> QED
      BY <2>1, <2>2, <3>1 DEF HeldOK, IdsOK, Entry
  <2>6. AchievedOK(w)'
    BY <2>2 DEF AchievedOK, AchievedAt
  <2> QED
    BY <2>3, <2>4, <2>5, <2>6 DEF WorkerOK
<1> QED
  BY <1>1, <1>2, <1>3

\* The worker in Execute: what it has written is what the next call relies on.
LEMMA ExecuteStep ==
  ASSUME IInv, QueueMoves, RowMoves, NEW w \in Workers, InMethod(StageOf(w), worker[w]),
         NEW m \in Entry, worker[w].msg = m,
         Succeeds(w),
         \/ GenerateStory(w)
         \/ StoreStory(w) /\ HasStory(db[m.job])
              /\ db' = [db EXCEPT ![m.job] = UploadStory(@)]
         \/ StoreEmailJob(w) /\ HasStory(db[m.job])
              /\ db' = [db EXCEPT ![m.job] = SaveEmailJob(@)]
         \/ SendNotificationEmail(w) /\ mailed' = mailed \cup {m.job}
  PROVE  WorkerOK(w)'
<1> DEFINE s == StageOf(w)
           r == worker[w]
           j == m.job
<1>0. /\ j \in Jobs /\ s \in Stage /\ db \in [Jobs -> UserRows]
      /\ worker'[w] = Proceed(s, r) /\ AchievedOK(w) /\ RowsOK(db[j])
  BY DEF InMethod, Entry, IInv, TypeOK, Succeeds, NothingAfterDeletion
<1>1. CASE GenerateStory(w)
  <2>1. r.call = "GenerateStory" /\ r.phase = "execute" /\ s = "story"
    BY <1>1 DEF GenerateStory, Calls, InMethod, CallsOf, Stage
  <2>2. worker'[w] = At(r, "execute", "UploadStory")
    BY <1>0, <2>1, ProceedFacts
  <2>3. AchievedAt(s, m, "execute", "UploadStory")'
    BY DEF AchievedAt
  <2>4. "execute" \in Phase \ {"idle"} /\ "UploadStory" \in CallsOf(s, "execute")
    BY <2>1 DEF Phase, CallsOf
  <2> QED
    BY <1>0, <2>2, <2>3, <2>4, MovedWorker
<1>2. CASE StoreStory(w) /\ HasStory(db[j]) /\ db' = [db EXCEPT ![j] = UploadStory(@)]
  <2>1. r.call = "UploadStory" /\ r.phase = "execute" /\ s = "story"
    BY <1>2 DEF StoreStory, Calls, InMethod, CallsOf, Stage
  <2>2. worker'[w] = At(r, "execute", "SaveEmailJob")
    BY <1>0, <2>1, ProceedFacts
  <2>3. db'[j].story = "uploaded"
    BY <1>0, <1>2 DEF UploadStory, UserRows
  <2>4. AchievedAt(s, m, "execute", "SaveEmailJob")'
    BY <2>3 DEF AchievedAt
  <2>5. "execute" \in Phase \ {"idle"} /\ "SaveEmailJob" \in CallsOf(s, "execute")
    BY <2>1 DEF Phase, CallsOf
  <2> QED
    BY <1>0, <2>2, <2>4, <2>5, MovedWorker
<1>3. CASE StoreEmailJob(w) /\ HasStory(db[j]) /\ db' = [db EXCEPT ![j] = SaveEmailJob(@)]
  <2>1. r.call = "SaveEmailJob" /\ s = "story"
    BY <1>3 DEF StoreEmailJob, Calls, InMethod, CallsOf, Stage
  <2>2. worker'[w] = At(r, "success", "Ack")
    BY <1>0, <2>1, ProceedFacts
  <2>3. db[j].story = "uploaded"
    BY <1>0, <1>3, <2>1, RowsFields DEF AchievedOK, AchievedAt, HasStory
  <2>4. db'[j].story = "uploaded" /\ db'[j].emailJobs # {}
    BY <1>0, <1>3, <2>3 DEF SaveEmailJob, UserRows
  <2>5. AchievedAt(s, m, "success", "Ack")'
    BY <2>1, <2>4 DEF AchievedAt, Done, StoryReady
  <2>6. "success" \in Phase \ {"idle"} /\ "Ack" \in CallsOf(s, "success")
    BY DEF Phase, CallsOf
  <2> QED
    BY <1>0, <2>2, <2>5, <2>6, MovedWorker
<1>4. CASE SendNotificationEmail(w) /\ mailed' = mailed \cup {j}
  <2>1. r.call = "SendNotificationEmail" /\ s = "email"
    BY <1>4 DEF SendNotificationEmail, Calls, InMethod, CallsOf, Stage
  <2>2. worker'[w] = At(r, "success", "Ack")
    BY <1>0, <2>1, ProceedFacts
  <2>3. AchievedAt(s, m, "success", "Ack")'
    BY <1>4, <2>1 DEF AchievedAt, Done
  <2>4. "success" \in Phase \ {"idle"} /\ "Ack" \in CallsOf(s, "success")
    BY DEF Phase, CallsOf
  <2> QED
    BY <1>0, <2>2, <2>3, <2>4, MovedWorker
<1> QED
  BY <1>1, <1>2, <1>3, <1>4

\* The worker in OnSuccess, SendToDQL or OnFailure.
LEMMA CompletionStep ==
  ASSUME IInv, QueueMoves, RowMoves, NEW w \in Workers, InMethod(StageOf(w), worker[w]),
         NEW m \in Entry, worker[w].msg = m, NEW phase, worker[w].phase = phase, Succeeds(w),
         \/ worker[w].call = "Ack" /\ queue' = [queue EXCEPT ![StageOf(w)] = XAck(@, m.id)]
         \/ worker[w].call \in {"Delete", "Forward", "Update"}
         \/ worker[w].call = "AddDead" /\ queue' = [queue EXCEPT ![StageOf(w)] = AddDead(@, MemberOf(m))]
         \/ worker[w].call = "ScheduleRetry"
              /\ queue' = [queue EXCEPT ![StageOf(w)] = ZAdd(@, [MemberOf(m) EXCEPT !.retry = @ + 1])]
  PROVE  WorkerOK(w)'
<1> DEFINE s == StageOf(w)
           r == worker[w]
<1>0. /\ s \in Stage /\ queue \in [Stage -> QueueState] /\ r \in Worker
      /\ worker'[w] = Proceed(s, r) /\ AchievedAt(s, m, phase, r.call)
      /\ phase \in Phase \ {"idle"} /\ r.call \in CallsOf(s, phase)
  BY DEF InMethod, IInv, TypeOK, Succeeds, AchievedOK, Phase
<1>1. \A p, c : AchievedAt(s, m, p, c) => AchievedAt(s, m, p, c)'
  BY <1>0, AchievedStable
<1>2. ASSUME NEW c \in {"Delete", "Forward", "Update"}, r.call \in {"Ack", "Delete", "Forward"},
             worker'[w] = At(r, phase, c), c \in CallsOf(s, phase),
             c = "Delete" => m.id \notin queue'[s].pending
      PROVE  WorkerOK(w)'
  <2>1. AchievedAt(s, m, phase, c)
    BY <1>0, <1>2 DEF AchievedAt
  <2>2. AchievedAt(s, m, phase, c)'
    BY <1>1, <2>1
  <2> QED
    BY <1>0, <1>2, <2>2, MovedWorker
<1>3. CASE r.call = "Ack" /\ queue' = [queue EXCEPT ![s] = XAck(@, m.id)]
  <2>1. worker'[w] = At(r, phase, "Delete")
    BY <1>0, <1>3, ProceedFacts
  <2>2. m.id \notin queue'[s].pending
    BY <1>0, <1>3 DEF XAck, QueueState
  <2>3. "Delete" \in CallsOf(s, phase)
    BY <1>3 DEF InMethod, CallsOf
  <2> QED
    BY <1>2, <1>3, <2>1, <2>2, <2>3
<1>4. CASE r.call \in {"Delete", "Forward"}
  <2>1. PICK c \in {"Forward", "Update"} :
             /\ worker'[w] = At(r, phase, c)
             /\ c = "Forward" => s = "story" /\ phase = "success"
    BY <1>0, <1>4, ProceedFacts
  <2>2. c \in CallsOf(s, phase)
    BY <1>4, <2>1 DEF InMethod, CallsOf
  <2> QED
    BY <1>2, <1>4, <2>1, <2>2
<1>5. CASE r.call = "Update"
  <2>1. worker'[w] \in {Idle, At(r, "failure", "ScheduleRetry")}
    BY <1>0, <1>5, ProceedFacts
  <2> QED
    BY <2>1, FailedWorker
<1>6. CASE r.call = "AddDead" /\ queue' = [queue EXCEPT ![s] = AddDead(@, MemberOf(m))]
  <2>0. phase = "dlq"
    BY <1>6 DEF InMethod, CallsOf
  <2>1. worker'[w] = At(r, "dlq", "Ack")
    BY <1>0, <1>6, <2>0, ProceedFacts
  <2>2. DeadLettered(s, m.job)'
    BY <1>0, <1>6 DEF DeadLettered, AddDead, MemberOf, QueueState
  <2>3. AchievedAt(s, m, "dlq", "Ack")'
    BY <2>2 DEF AchievedAt
  <2>4. "dlq" \in Phase \ {"idle"} /\ "Ack" \in CallsOf(s, "dlq")
    BY DEF Phase, CallsOf
  <2> QED
    BY <2>1, <2>3, <2>4, MovedWorker
<1>7. CASE r.call = "ScheduleRetry" /\ queue' = [queue EXCEPT ![s] = ZAdd(@, [MemberOf(m) EXCEPT !.retry = @ + 1])]
  <2> DEFINE n == [MemberOf(m) EXCEPT !.retry = @ + 1]
  <2>0. phase = "failure"
    BY <1>7 DEF InMethod, CallsOf
  <2>1. worker'[w] = At(r, "failure", "Ack")
    BY <1>0, <1>7, <2>0, ProceedFacts
  <2>2. n.job = m.job /\ n.retry = m.retry + 1 /\ m.retry \in Nat
    BY DEF MemberOf, Entry
  <2>3. n \in queue'[s].retry
    BY <1>0, <1>7 DEF ZAdd, QueueState
  <2>4. CarriesFrom(n, m.job, m.retry + 1)
    BY <2>2 DEF CarriesFrom
  <2>5. InRetrySet(s, m.job, m.retry + 1)'
    BY <2>3, <2>4 DEF InRetrySet
  <2>6. AchievedAt(s, m, "failure", "Ack")'
    BY <2>5 DEF AchievedAt, CarriedFrom
  <2>7. "failure" \in Phase \ {"idle"} /\ "Ack" \in CallsOf(s, "failure")
    BY DEF Phase, CallsOf
  <2> QED
    BY <2>1, <2>6, <2>7, MovedWorker
<1> QED
  BY <1>3, <1>4, <1>5, <1>6, <1>7

\* A worker's own step leaves it in order.
LEMMA OwnStep ==
  ASSUME IInv, QueueMoves, RowMoves, NEW w \in Workers, WorkerStep(w)
  PROVE  WorkerOK(w)'
<1> DEFINE s == StageOf(w)
<1>1. CASE Read(w)
  BY <1>1, ReadStep
<1>2. CASE ~Read(w)
  <2>1. worker[w].call \notin {"Read", "return"}
    BY <1>2 DEF WorkerStep, Calls, GenerateStory, StoreStory, StoreEmailJob, SendNotificationEmail,
                Ack, Delete, Forward, AddToDLQ, ScheduleRetry, Update
  <2>2. InMethod(s, worker[w])
    BY <2>1, WorkerFacts
  <2>3. PICK m \in Entry : worker[w].msg = m
    BY <2>2 DEF InMethod
  <2>4. worker \in [Workers -> Worker]
    BY DEF IInv, TypeOK
  <2>5. CASE Fails(w)
    <3>1. worker'[w] = AfterError(s, worker[w])
      BY <2>4, <2>5 DEF Fails
    <3> QED
      BY <2>2, <3>1, AfterErrorFacts, FailedWorker
  <2>6. CASE Succeeds(w) /\ ~Fails(w) /\ (GenerateStory(w) \/ StoreStory(w) \/ StoreEmailJob(w) \/ SendNotificationEmail(w))
    BY <2>2, <2>3, <2>6, ExecuteStep DEF StoreStory, StoreEmailJob, SendNotificationEmail, ExecuterWrite
  <2>7. CASE Succeeds(w) /\ ~Fails(w) /\ (Ack(w) \/ Delete(w) \/ Forward(w) \/ AddToDLQ(w) \/ Update(w))
    BY <2>2, <2>3, <2>7, CompletionStep DEF Ack, Delete, Forward, AddToDLQ, Update, QueueCall, Calls
  <2>8. CASE ScheduleRetry(w) /\ Succeeds(w) /\ ~Fails(w)
             /\ queue' = [queue EXCEPT ![s] = ZAdd(@, [MemberOf(m) EXCEPT !.retry = @ + 1])]
    BY <2>2, <2>3, <2>8, CompletionStep DEF ScheduleRetry, Calls
  <2>9. CASE worker' = [worker EXCEPT ![w].phase = "dead", ![w].call = "return"]
    <3>1. worker'[w] = At(worker[w], "dead", "return")
      BY <2>4, <2>9 DEF At
    <3>2. "dead" \in Phase \ {"idle"} /\ "return" \in CallsOf(s, "dead")
      BY DEF Phase, CallsOf
    <3>3. AchievedAt(s, m, "dead", "return")'
      BY DEF AchievedAt
    <3> QED
      BY <2>2, <2>3, <3>1, <3>2, <3>3, MovedWorker
  <2>13. CASE UNCHANGED worker
    BY <2>13, OtherWorker
  <2>10. CASE ScheduleRetry(w)
    BY <2>3, <2>5, <2>8, <2>9, <2>10, <2>13 DEF ScheduleRetry, QueueCall
  <2>11. CASE GenerateStory(w) \/ StoreStory(w) \/ StoreEmailJob(w) \/ SendNotificationEmail(w)
    BY <2>5, <2>6, <2>11 DEF GenerateStory, StoreStory, StoreEmailJob, SendNotificationEmail, ExecuterWrite
  <2>12. CASE Ack(w) \/ Delete(w) \/ Forward(w) \/ AddToDLQ(w) \/ Update(w)
    BY <2>5, <2>7, <2>12, <2>13 DEF Ack, Delete, Forward, AddToDLQ, Update, QueueCall
  <2> QED
    BY <1>2, <2>10, <2>11, <2>12 DEF WorkerStep
<1> QED
  BY <1>1, <1>2

-----------------------------------------------------------------------------
(* The parts of IInv after any step.                                        *)

\* Workers: the one that steps, and those that do not.
LEMMA WorkersStep ==
  ASSUME IInv, [Next]_vars, QueueMoves, RowMoves
  PROVE  worker' \in [Workers -> Worker] /\ \A v \in Workers : WorkerOK(v)'
<1>0. worker \in [Workers -> Worker]
  BY DEF IInv, TypeOK
<1>1. ASSUME UNCHANGED worker PROVE \A v \in Workers : WorkerOK(v)'
  BY <1>1, OtherWorker
<1>2. ASSUME NEW w \in Workers, WorkerStep(w)
      PROVE  (\A v \in Workers : WorkerOK(v)') /\ worker' = [v \in Workers |-> worker'[v]]
  <2>1. PICK r : worker' = [worker EXCEPT ![w] = r] \/ worker' = worker
    <3>1. CASE Read(w) \/ (ScheduleRetry(w) /\ ~Succeeds(w) /\ ~Fails(w))
      BY <3>1 DEF Read, ScheduleRetry, QueueCall
    <3>2. CASE Succeeds(w) \/ Fails(w)
      BY <3>2 DEF Succeeds, Fails
    <3> QED
      BY <1>2, <3>1, <3>2 DEF WorkerStep, GenerateStory, StoreStory, StoreEmailJob,
         SendNotificationEmail, Ack, Delete, Forward, AddToDLQ, Update, QueueCall, ExecuterWrite
  <2>2. \A v \in Workers \ {w} : worker'[v] = worker[v]
    BY <1>0, <2>1
  <2>3. worker' = [v \in Workers |-> worker'[v]]
    BY <1>0, <2>1
  <2> QED
    BY <1>2, <2>2, <2>3, OwnStep, OtherWorker
<1>3. ASSUME Restart
      PROVE  (\A v \in Workers : WorkerOK(v)') /\ worker' = [v \in Workers |-> worker'[v]]
  BY <1>3, IdleWorker DEF Restart
<1>4. CASE UNCHANGED worker
  BY <1>0, <1>1, <1>4
<1>5. CASE worker' # worker
  <2>1. (\E w \in Workers : WorkerStep(w)) \/ Restart
    BY <1>5 DEF Next, vars, Request, RequestStory, RequestStoryJob, RequestAdd, DeleteUser,
                Tick, Reenqueue, Remove
  <2> QED
    BY <2>1, <1>2, <1>3 DEF WorkerOK
<1> QED
  BY <1>4, <1>5

\* Schedulers: what is about to be removed was added before.
LEMMA SchedulersStep ==
  ASSUME IInv, [Next]_vars, QueueMoves, RowMoves
  PROVE  scheduler' \in [Schedulers -> Scheduler] /\ \A p \in Schedulers : RemovingOK(p)'
<1>0. /\ scheduler \in [Schedulers -> Scheduler] /\ queue \in [Stage -> QueueState]
      /\ \A p \in Schedulers : StageOf(p) \in Stage /\ RemovingOK(p)
      /\ \A s \in Stage : IdsOK(queue[s])
  BY DEF IInv, TypeOK, StageOf, Stage
<1>1. ASSUME NEW p \in Schedulers, scheduler'[p] = scheduler[p] PROVE RemovingOK(p)'
  <2>1. CASE scheduler[p].removing = None
    BY <1>1, <2>1 DEF RemovingOK
  <2>2. CASE scheduler[p].removing # None
    <3>1. PICK m \in Member : scheduler[p].removing = m
      BY <1>0, <2>2 DEF Scheduler
    <3>2. /\ scheduler'[p].removing = m
          /\ \/ Settled(StageOf(p), m.job) \/ InStream(StageOf(p), m.job, m.retry)
             \/ CarriedFrom(StageOf(p), m.job, m.retry + 1)
      BY <1>0, <1>1, <2>2, <3>1 DEF RemovingOK
    <3>3. (\/ Settled(StageOf(p), m.job) \/ InStream(StageOf(p), m.job, m.retry)
           \/ CarriedFrom(StageOf(p), m.job, m.retry + 1))'
      BY <1>0, <3>2, RemovingStable
    <3> QED
      BY <3>2, <3>3 DEF RemovingOK
  <2> QED
    BY <2>1, <2>2
<1>2. ASSUME NEW p \in Schedulers, scheduler'[p].removing = None PROVE RemovingOK(p)'
  BY <1>2 DEF RemovingOK
<1>3. CASE UNCHANGED scheduler
  BY <1>0, <1>1, <1>3
<1>4. CASE Restart
  BY <1>4, <1>2 DEF Restart, IdleScheduler, Scheduler
<1>5. ASSUME NEW p \in Schedulers, Tick(p)
      PROVE  scheduler' \in [Schedulers -> Scheduler] /\ \A o \in Schedulers : RemovingOK(o)'
  <2>1. PICK due \in SUBSET queue[StageOf(p)].retry : scheduler' = [scheduler EXCEPT ![p].batch = due]
    BY <1>5 DEF Tick
  <2>2. due \subseteq Member
    BY <1>0, <2>1 DEF QueueState
  <2>3. scheduler[p] = IdleScheduler
    BY <1>5 DEF Tick
  <2>4. scheduler' \in [Schedulers -> Scheduler] /\ scheduler'[p].removing = None
    BY <1>0, <2>1, <2>2, <2>3 DEF Scheduler, IdleScheduler
  <2>5. \A o \in Schedulers \ {p} : scheduler'[o] = scheduler[o]
    BY <1>0, <2>1
  <2> QED
    BY <1>1, <1>2, <2>4, <2>5
<1>6. ASSUME NEW p \in Schedulers, Reenqueue(p)
      PROVE  scheduler' \in [Schedulers -> Scheduler] /\ \A o \in Schedulers : RemovingOK(o)'
  <2> DEFINE s == StageOf(p)
  <2>1. PICK m \in scheduler[p].batch :
             \/ /\ queue' = [queue EXCEPT ![s] = XAdd(@, m)]
                /\ scheduler' = [scheduler EXCEPT ![p] = [batch |-> @.batch \ {m}, removing |-> m]]
             \/ scheduler' = [scheduler EXCEPT ![p] = IdleScheduler]
             \/ UNCHANGED scheduler
    BY <1>6 DEF Reenqueue
  <2>2. m \in Member /\ m.job \in Jobs /\ m.retry \in Nat
    BY <1>0 DEF Scheduler, Member
  <2>3. \A o \in Schedulers \ {p} : scheduler'[o] = scheduler[o]
    BY <1>0, <2>1
  <2>4. CASE scheduler' = [scheduler EXCEPT ![p] = IdleScheduler]
    BY <1>0, <1>1, <1>2, <2>3, <2>4 DEF IdleScheduler, Scheduler
  <2>5. CASE /\ queue' = [queue EXCEPT ![s] = XAdd(@, m)]
             /\ scheduler' = [scheduler EXCEPT ![p] = [batch |-> @.batch \ {m}, removing |-> m]]
    <3>1. scheduler' \in [Schedulers -> Scheduler] /\ scheduler'[p].removing = m
      BY <1>0, <2>2, <2>5 DEF Scheduler
    <3>2. PICK e \in LiveEntries(queue'[s]) : e.job = m.job /\ e.retry = m.retry
      BY <1>0, <2>2, <2>5, XAddFacts
    <3>3. InStream(s, m.job, m.retry)'
      BY <2>2, <3>2 DEF InStream, CarriesFrom
    <3>4. RemovingOK(p)'
      BY <3>1, <3>3 DEF RemovingOK
    <3> QED
      BY <1>1, <2>3, <3>1, <3>4
  <2> QED
    BY <1>0, <1>1, <2>1, <2>4, <2>5
<1>7. ASSUME NEW p \in Schedulers, Remove(p)
      PROVE  scheduler' \in [Schedulers -> Scheduler] /\ \A o \in Schedulers : RemovingOK(o)'
  <2>1. CASE UNCHANGED scheduler
    BY <1>0, <1>1, <2>1
  <2>2. CASE scheduler' = [scheduler EXCEPT ![p].removing = None]
    <3>1. scheduler' \in [Schedulers -> Scheduler] /\ scheduler'[p].removing = None
      BY <1>0, <2>2 DEF Scheduler
    <3>2. \A o \in Schedulers \ {p} : scheduler'[o] = scheduler[o]
      BY <1>0, <2>2
    <3> QED
      BY <1>1, <1>2, <3>1, <3>2
  <2> QED
    BY <1>7, <2>1, <2>2 DEF Remove
<1> QED
  BY <1>3, <1>4, <1>5, <1>6, <1>7 DEF Next, vars, Request, RequestStory, RequestStoryJob, RequestAdd,
     DeleteUser, WorkerStep, Read, GenerateStory, StoreStory, StoreEmailJob, SendNotificationEmail,
     Ack, Delete, Forward, AddToDLQ, ScheduleRetry, Update, ExecuterWrite

\* A job is taken in with an entry that carries it; it is forwarded by a worker
\* that has done the story.
LEMMA AcceptedStep ==
  ASSUME IInv, [Next]_vars, QueueMoves, RowMoves
  PROVE  /\ accepted' \in [Stage -> SUBSET Jobs]
         /\ \A j \in accepted'["email"] : Done("story", j)'
         /\ NoJobLost'
<1> DEFINE Goal == /\ accepted' \in [Stage -> SUBSET Jobs]
                   /\ \A j \in accepted'["email"] : Done("story", j)'
                   /\ NoJobLost'
<1>0. /\ accepted \in [Stage -> SUBSET Jobs] /\ "story" \in Stage /\ "email" \in Stage
      /\ queue \in [Stage -> QueueState] /\ \A s \in Stage : IdsOK(queue[s])
      /\ \A j \in accepted["email"] : Done("story", j)
      /\ \A s \in Stage : \A j \in accepted[s] : Settled(s, j) \/ CarriedFrom(s, j, 0)
  BY DEF IInv, TypeOK, Stage, NoJobLost
<1>1. \A j \in accepted["email"] : Done("story", j)'
  BY <1>0, SettledStable
<1>2. \A s \in Stage : \A j \in accepted[s] : (Settled(s, j) \/ CarriedFrom(s, j, 0))'
  BY <1>0, CarriedStable
<1>3. CASE UNCHANGED accepted
  BY <1>0, <1>1, <1>2, <1>3 DEF NoJobLost
<1>4. ASSUME NEW s \in Stage, NEW m \in Member, s = "email" => Done("story", m.job)',
             accepted' = [accepted EXCEPT ![s] = @ \cup {m.job}],
             queue' = [queue EXCEPT ![s] = XAdd(@, m)]
      PROVE  Goal
  <2>1. m.job \in Jobs /\ m.retry \in Nat
    BY DEF Member
  <2>2. PICK e \in LiveEntries(queue'[s]) : e.job = m.job /\ e.retry = m.retry
    BY <1>0, <1>4, <2>1, XAddFacts
  <2>3. CarriedFrom(s, m.job, 0)'
    BY <2>1, <2>2 DEF CarriedFrom, InStream, CarriesFrom
  <2>4. \A t \in Stage : \A j \in accepted'[t] : j \in accepted[t] \/ (t = s /\ j = m.job)
    BY <1>0, <1>4
  <2>5. NoJobLost'
    BY <1>2, <2>3, <2>4 DEF NoJobLost
  <2>6. \A j \in accepted'["email"] : Done("story", j)'
    BY <1>0, <1>1, <1>4, <2>4
  <2> QED
    BY <1>0, <1>4, <2>1, <2>5, <2>6
<1>5. ASSUME NEW j \in Jobs, RequestAdd(j) PROVE Goal
  <2>1. [job |-> j, retry |-> 0] \in Member /\ [job |-> j, retry |-> 0].job = j
    BY DEF Member
  <2>2. CASE UNCHANGED accepted
    BY <1>3, <2>2
  <2>3. CASE /\ accepted' = [accepted EXCEPT !["story"] = @ \cup {j}]
             /\ queue' = [queue EXCEPT !["story"] = XAdd(@, [job |-> j, retry |-> 0])]
    BY <1>0, <1>4, <2>1, <2>3
  <2> QED
    BY <1>5, <2>2, <2>3 DEF RequestAdd
<1>6. ASSUME NEW w \in Workers, Forward(w) PROVE Goal
  <2> DEFINE m == MemberOf(worker[w].msg)
  <2>1. InMethod(StageOf(w), worker[w]) /\ AchievedOK(w) /\ m \in Member
    BY <1>6, WorkerFacts DEF Forward, Calls, IInv
  <2>2. StageOf(w) = "story" /\ worker[w].phase = "success"
    BY <1>6, <2>1 DEF Forward, Calls, InMethod, CallsOf, Stage
  <2>3. PICK n \in Member : n = m
    BY <2>1
  <2>4. n.job \in Jobs /\ Done("story", n.job)
    BY <2>1, <2>2, <2>3 DEF AchievedOK, AchievedAt, MemberOf, Member
  <2>5. Done("story", n.job)'
    BY <1>0, <2>4, SettledStable
  <2>6. CASE UNCHANGED accepted
    BY <1>3, <2>6
  <2>7. CASE /\ accepted' = [accepted EXCEPT !["email"] = @ \cup {n.job}]
             /\ queue' = [queue EXCEPT !["email"] = XAdd(@, n)]
    BY <1>0, <1>4, <2>5, <2>7
  <2> QED
    BY <1>6, <2>3, <2>6, <2>7 DEF Forward
<1>7. CASE accepted' # accepted
  <2>1. (\E j \in Jobs : RequestAdd(j)) \/ (\E w \in Workers : Forward(w))
    BY <1>7 DEF Next, vars, Request, RequestStory, RequestStoryJob, DeleteUser, Tick, Reenqueue, Remove,
       Restart, WorkerStep, Read, GenerateStory, StoreStory, StoreEmailJob, SendNotificationEmail,
       Ack, Delete, AddToDLQ, ScheduleRetry, Update, ExecuterWrite
  <2> QED
    BY <1>5, <1>6, <2>1
<1> QED
  BY <1>3, <1>7

\* A command brings no job into a queue but the one it adds.
LEMMA JobsInMember ==
  ASSUME NEW q \in QueueState, NEW m \in Member
  PROVE  /\ JobsIn(XAdd(q, m)) \subseteq JobsIn(q) \cup {m.job}
         /\ JobsIn(ZAdd(q, m)) \subseteq JobsIn(q) \cup {m.job}
         /\ JobsIn(AddDead(q, m)) \subseteq JobsIn(q)
         /\ JobsIn(ZRem(q, m)) \subseteq JobsIn(q)
<1>1. JobsIn(XAdd(q, m)) \subseteq JobsIn(q) \cup {m.job}
  BY DEF JobsIn, XAdd, QueueState
<1>2. JobsIn(ZAdd(q, m)) \subseteq JobsIn(q) \cup {m.job}
  BY DEF JobsIn, ZAdd, QueueState
<1>3. JobsIn(AddDead(q, m)) \subseteq JobsIn(q)
  BY DEF JobsIn, AddDead, QueueState
<1>4. JobsIn(ZRem(q, m)) \subseteq JobsIn(q)
  BY DEF JobsIn, ZRem, QueueState
<1> QED
  BY <1>1, <1>2, <1>3, <1>4

LEMMA JobsInRead ==
  ASSUME NEW q \in QueueState, NEW e
  PROVE  JobsIn(XReadGroup(q, e)) \subseteq JobsIn(q)
BY DEF JobsIn, XReadGroup, QueueState

LEMMA JobsInAck ==
  ASSUME NEW q \in QueueState, NEW id
  PROVE  /\ JobsIn(XAck(q, id)) \subseteq JobsIn(q)
         /\ JobsIn(XDel(q, id)) \subseteq JobsIn(q)
BY DEF JobsIn, XAck, XDel, QueueState

\* What a worker takes to another place comes from where it was.
LEMMA OriginStep ==
  ASSUME IInv, [Next]_vars, QueueMoves, RowMoves
  PROVE  OriginOK'
<1>0. /\ queue \in [Stage -> QueueState] /\ worker \in [Workers -> Worker]
      /\ scheduler \in [Schedulers -> Scheduler] /\ accepted \in [Stage -> SUBSET Jobs]
      /\ "story" \in Stage /\ "email" \in Stage /\ OriginOK
      /\ \A w \in Workers : StageOf(w) \in Stage
      /\ \A p \in Schedulers : StageOf(p) \in Stage
  BY DEF IInv, TypeOK, Stage, StageOf
<1>1. \A s \in Stage : accepted[s] \subseteq accepted'[s]
  <2>1. \/ UNCHANGED accepted
        \/ \E s \in Stage : \E j : accepted' = [accepted EXCEPT ![s] = @ \cup {j}]
    BY <1>0 DEF Next, vars, Request, RequestStory, RequestStoryJob, RequestAdd, DeleteUser, Tick, Reenqueue,
       Remove, Restart, WorkerStep, Read, GenerateStory, StoreStory, StoreEmailJob, SendNotificationEmail,
       Ack, Delete, Forward, AddToDLQ, ScheduleRetry, Update, ExecuterWrite
  <2> QED
    BY <1>0, <2>1
<1> DEFINE Queues  == \A s \in Stage : JobsIn(queue'[s]) \subseteq accepted'[s]
           Ws      == \A w \in Workers : worker'[w].msg # None => worker'[w].msg.job \in accepted'[StageOf(w)]
           Batches == \A p \in Schedulers : \A m \in scheduler'[p].batch : m.job \in accepted'[StageOf(p)]
           Mails   == mailed' \subseteq accepted'["email"] /\ accepted'["email"] \subseteq accepted'["story"]
<1>2. ASSUME NEW t \in Stage, NEW q, queue' \in {queue, [queue EXCEPT ![t] = q]},
             JobsIn(q) \subseteq JobsIn(queue[t]) \cup accepted'[t]
      PROVE  Queues
  BY <1>0, <1>1, <1>2 DEF OriginOK
<1>3. ASSUME UNCHANGED queue PROVE Queues
  BY <1>0, <1>1, <1>3 DEF OriginOK
<1>4. ASSUME UNCHANGED worker PROVE Ws
  BY <1>0, <1>1, <1>4 DEF OriginOK, Held, HeldJob
<1>5. ASSUME UNCHANGED scheduler PROVE Batches
  BY <1>0, <1>1, <1>5 DEF OriginOK
<1>6. ASSUME UNCHANGED mailed, accepted'["email"] = accepted["email"] PROVE Mails
  BY <1>0, <1>1, <1>6 DEF OriginOK
<1>7. ASSUME Queues, Ws, Batches, Mails PROVE OriginOK'
  BY <1>7 DEF OriginOK, Held, HeldJob
<1>8. ASSUME NEW j \in Jobs, Request(j) \/ DeleteUser(j) PROVE OriginOK'
  <2>1. UNCHANGED <<worker, scheduler, mailed>>
    BY <1>8 DEF Request, RequestStory, RequestStoryJob, RequestAdd, DeleteUser
  <2>2. CASE RequestAdd(j)
    <3> DEFINE m == [job |-> j, retry |-> 0]
    <3>1. m \in Member
      BY DEF Member
    <3>2. accepted'["email"] = accepted["email"]
      BY <1>0, <2>2 DEF RequestAdd
    <3>3. CASE UNCHANGED queue
      BY <1>3, <1>4, <1>5, <1>6, <1>7, <2>1, <3>2, <3>3
    <3>4. CASE /\ queue' = [queue EXCEPT !["story"] = XAdd(@, m)]
               /\ accepted' = [accepted EXCEPT !["story"] = @ \cup {j}]
      <4>1. JobsIn(XAdd(queue["story"], m)) \subseteq JobsIn(queue["story"]) \cup {j}
        <5>1. queue["story"] \in QueueState /\ m.job = j
          BY <1>0
        <5> QED
          BY <3>1, <5>1, JobsInMember
      <4>2. j \in accepted'["story"]
        BY <1>0, <3>4
      <4>3. JobsIn(XAdd(queue["story"], m)) \subseteq JobsIn(queue["story"]) \cup accepted'["story"]
        BY <4>1, <4>2
      <4>4. queue' \in {queue, [queue EXCEPT !["story"] = XAdd(queue["story"], m)]}
        BY <3>4
      <4>5. Queues
        BY <1>0, <1>2, <4>3, <4>4
      <4> QED
        BY <1>4, <1>5, <1>6, <1>7, <2>1, <3>2, <4>5
    <3> QED
      BY <2>2, <3>3, <3>4 DEF RequestAdd
  <2>3. CASE ~RequestAdd(j)
    <3>1. UNCHANGED <<queue, accepted>>
      BY <1>8, <2>3 DEF Request, RequestStory, RequestStoryJob, DeleteUser
    <3> QED
      BY <1>3, <1>4, <1>5, <1>6, <1>7, <2>1, <3>1
  <2> QED
    BY <2>2, <2>3
<1>9. ASSUME NEW w \in Workers, WorkerStep(w) PROVE OriginOK'
  <2> DEFINE s == StageOf(w)
  <2>0. UNCHANGED scheduler
    BY <1>9 DEF WorkerStep, Read, GenerateStory, StoreStory, StoreEmailJob, SendNotificationEmail,
       Ack, Delete, Forward, AddToDLQ, ScheduleRetry, Update, ExecuterWrite
  <2>1. CASE Read(w)
    <3>1. PICK f \in queue[s].entries :
               /\ queue' = [queue EXCEPT ![s] = XReadGroup(@, f)]
               /\ \/ worker' = [worker EXCEPT ![w] = Enter(s, "execute", [@ EXCEPT !.msg = f])]
                  \/ UNCHANGED worker
      BY <2>1 DEF Read
    <3>2. f \in Entry /\ f.job \in JobsIn(queue[s])
      BY <1>0, <3>1 DEF QueueState, JobsIn
    <3>3. Queues
      <4>1. JobsIn(XReadGroup(queue[s], f)) \subseteq JobsIn(queue[s])
        BY <1>0, JobsInRead
      <4>2. queue' \in {queue, [queue EXCEPT ![s] = XReadGroup(queue[s], f)]}
        BY <3>1
      <4>3. JobsIn(XReadGroup(queue[s], f)) \subseteq JobsIn(queue[s]) \cup accepted'[s]
        BY <4>1
      <4> QED
        BY <1>0, <1>2, <4>2, <4>3
    <3>4. f.job \in accepted'[s]
      BY <1>0, <1>1, <3>2 DEF OriginOK
    <3>5. CASE worker' = [worker EXCEPT ![w] = Enter(s, "execute", [@ EXCEPT !.msg = f])]
      <4>1. worker'[w].msg = f
        BY <1>0, <3>5 DEF Enter, Worker
      <4>2. Ws
        BY <1>0, <1>1, <3>4, <3>5, <4>1 DEF OriginOK, Held, HeldJob
      <4> QED
        BY <1>5, <1>6, <1>7, <2>0, <2>1, <3>3, <4>2 DEF Read
    <3> QED
      BY <1>4, <1>5, <1>6, <1>7, <2>0, <2>1, <3>1, <3>3, <3>5 DEF Read
  <2>2. CASE ~Read(w)
    <3>1. worker[w].call \notin {"Read", "return"}
      BY <1>9, <2>2 DEF WorkerStep, Calls, GenerateStory, StoreStory, StoreEmailJob, SendNotificationEmail,
                  Ack, Delete, Forward, AddToDLQ, ScheduleRetry, Update
    <3>2. InMethod(s, worker[w]) /\ Held(w) /\ MemberOf(worker[w].msg) \in Member
      BY <3>1, WorkerFacts
    <3>3. PICK m \in Entry : worker[w].msg = m
      BY <3>2 DEF InMethod
    <3>4. m.job \in accepted[s] /\ m.job \in accepted'[s] /\ MemberOf(m).job = m.job
      BY <1>0, <1>1, <3>2, <3>3 DEF OriginOK, HeldJob, MemberOf
    <3>5. PICK r \in {worker[w], Proceed(s, worker[w]), AfterError(s, worker[w]), At(worker[w], "dead", "return")} :
               worker' = [worker EXCEPT ![w] = r]
      <4>1. CASE Succeeds(w) \/ Fails(w)
        BY <4>1 DEF Succeeds, Fails
      <4>2. CASE worker' = [worker EXCEPT ![w].phase = "dead", ![w].call = "return"]
        <5>1. worker' = [worker EXCEPT ![w] = At(worker[w], "dead", "return")]
          BY <4>2 DEF At
        <5> QED
          BY <5>1
      <4>3. CASE UNCHANGED worker
        BY <1>0, <4>3
      <4> QED
        BY <1>9, <2>2, <4>1, <4>2, <4>3 DEF WorkerStep, GenerateStory, StoreStory, StoreEmailJob,
           SendNotificationEmail, Ack, Delete, Forward, AddToDLQ, ScheduleRetry, Update, QueueCall, ExecuterWrite
    <3>6. r.msg \in {None, m}
      <4>1. \A p, c : At(worker[w], p, c).msg = m
        BY <3>2, <3>3 DEF At, InMethod, Worker
      <4>2. Idle.msg = None
        BY DEF Idle
      <4>3. worker[w].call \in {"GenerateStory", "UploadStory", "SaveEmailJob", "SendNotificationEmail",
                "AddDead", "ScheduleRetry", "Ack", "Delete", "Forward", "Update"}
        BY <3>1, <3>2 DEF InMethod, Worker, Call
      <4>4. worker[w].msg = m
        BY <3>3
      <4> QED
        BY <3>2, <3>5, <4>1, <4>2, <4>3, <4>4, AfterErrorFacts, ProceedFacts
    <3>7. Ws
      BY <1>0, <1>1, <3>4, <3>5, <3>6 DEF OriginOK, Held, HeldJob
    <3>8. CASE Forward(w)
      <4>1. s = "story"
        BY <3>2, <3>8 DEF Forward, Calls, InMethod, CallsOf, Stage
      <4>2. CASE UNCHANGED <<queue, accepted>>
        BY <1>3, <1>5, <1>6, <1>7, <2>0, <3>7, <3>8, <4>2 DEF Forward
      <4>3. CASE /\ queue' = [queue EXCEPT !["email"] = XAdd(@, MemberOf(m))]
                 /\ accepted' = [accepted EXCEPT !["email"] = @ \cup {m.job}]
        <5>1. JobsIn(XAdd(queue["email"], MemberOf(m))) \subseteq JobsIn(queue["email"]) \cup {m.job}
          <6>1. queue["email"] \in QueueState /\ MemberOf(m) \in Member /\ MemberOf(m).job = m.job
            BY <1>0, <3>2, <3>3, <3>4
          <6> QED
            BY <6>1, JobsInMember
        <5>2. Queues
          <6>1. m.job \in accepted'["email"]
            BY <1>0, <4>3
          <6>2. JobsIn(XAdd(queue["email"], MemberOf(m))) \subseteq JobsIn(queue["email"]) \cup accepted'["email"]
            BY <5>1, <6>1
          <6>3. queue' \in {queue, [queue EXCEPT !["email"] = XAdd(queue["email"], MemberOf(m))]}
            BY <4>3
          <6> QED
            BY <1>0, <1>2, <6>2, <6>3
        <5>3. Mails
          BY <1>0, <3>4, <3>8, <4>1, <4>3 DEF OriginOK, Forward
        <5> QED
          BY <1>5, <1>7, <2>0, <3>7, <5>2, <5>3
      <4> QED
        BY <3>3, <3>4, <3>8, <4>2, <4>3 DEF Forward
    <3>9. CASE Ack(w) \/ Delete(w) \/ AddToDLQ(w) \/ ScheduleRetry(w)
      <4> DEFINE n == [MemberOf(m) EXCEPT !.retry = @ + 1]
      <4>1. n \in Member /\ n.job = m.job
        BY <3>2, <3>3, <3>4 DEF Member
      <4>2. /\ UNCHANGED <<accepted, mailed>>
            /\ \/ queue' \in {queue, [queue EXCEPT ![s] = XAck(queue[s], m.id)]}
               \/ queue' \in {queue, [queue EXCEPT ![s] = XDel(queue[s], m.id)]}
               \/ queue' \in {queue, [queue EXCEPT ![s] = AddDead(queue[s], MemberOf(m))]}
               \/ queue' \in {queue, [queue EXCEPT ![s] = ZAdd(queue[s], n)]}
        BY <3>3, <3>9 DEF Ack, Delete, AddToDLQ, ScheduleRetry, QueueCall
      <4>3. /\ JobsIn(XAck(queue[s], m.id)) \subseteq JobsIn(queue[s])
            /\ JobsIn(XDel(queue[s], m.id)) \subseteq JobsIn(queue[s])
            /\ JobsIn(AddDead(queue[s], MemberOf(m))) \subseteq JobsIn(queue[s])
            /\ JobsIn(ZAdd(queue[s], n)) \subseteq JobsIn(queue[s]) \cup {m.job}
        <5>1. queue[s] \in QueueState /\ MemberOf(m) \in Member
          BY <1>0, <3>2, <3>3
        <5> QED
          BY <4>1, <5>1, JobsInAck, JobsInMember
      <4>4. PICK q \in {XAck(queue[s], m.id), XDel(queue[s], m.id), AddDead(queue[s], MemberOf(m)), ZAdd(queue[s], n)} :
                 queue' \in {queue, [queue EXCEPT ![s] = q]}
        BY <4>2
      <4>5. JobsIn(q) \subseteq JobsIn(queue[s]) \cup accepted'[s]
        BY <3>4, <4>3
      <4>6. Queues
        BY <1>0, <1>2, <4>4, <4>5
      <4> QED
        BY <1>5, <1>6, <1>7, <2>0, <3>7, <4>2, <4>6
    <3>10. CASE SendNotificationEmail(w)
      <4>1. s = "email"
        BY <3>2, <3>10 DEF SendNotificationEmail, Calls, InMethod, CallsOf, Stage
      <4>2. Mails
        BY <1>0, <3>3, <3>4, <3>10, <4>1 DEF OriginOK, SendNotificationEmail
      <4> QED
        BY <1>3, <1>5, <1>7, <2>0, <3>7, <3>10, <4>2 DEF SendNotificationEmail
    <3>11. CASE GenerateStory(w) \/ StoreStory(w) \/ StoreEmailJob(w) \/ Update(w)
      <4>1. UNCHANGED <<queue, mailed, accepted>>
        BY <3>11 DEF GenerateStory, StoreStory, StoreEmailJob, Update, ExecuterWrite
      <4> QED
        BY <1>3, <1>5, <1>6, <1>7, <2>0, <3>7, <4>1
    <3> QED
      BY <1>9, <2>2, <3>8, <3>9, <3>10, <3>11 DEF WorkerStep
  <2> QED
    BY <2>1, <2>2
<1>10. ASSUME NEW p \in Schedulers, Tick(p) \/ Reenqueue(p) \/ Remove(p) PROVE OriginOK'
  <2> DEFINE s == StageOf(p)
  <2>0. UNCHANGED <<worker, mailed, accepted>>
    BY <1>10 DEF Tick, Reenqueue, Remove
  <2>1. CASE Tick(p)
    <3>1. PICK due \in SUBSET queue[s].retry : scheduler' = [scheduler EXCEPT ![p].batch = due]
      BY <2>1 DEF Tick
    <3>2. \A m \in due : m.job \in accepted'[s]
      BY <1>0, <1>1, <3>1 DEF OriginOK, JobsIn
    <3>3. scheduler'[p].batch = due /\ \A o \in Schedulers \ {p} : scheduler'[o] = scheduler[o]
      BY <1>0, <3>1 DEF Scheduler
    <3>4. Batches
      BY <1>0, <1>1, <3>2, <3>3 DEF OriginOK
    <3> QED
      BY <1>3, <1>4, <1>6, <1>7, <2>0, <2>1, <3>4 DEF Tick
  <2>2. CASE Reenqueue(p)
    <3>1. PICK m \in scheduler[p].batch :
               /\ queue' \in {queue, [queue EXCEPT ![s] = XAdd(queue[s], m)]}
               /\ scheduler' \in {[scheduler EXCEPT ![p] = [batch |-> @.batch \ {m}, removing |-> m]],
                                 [scheduler EXCEPT ![p] = IdleScheduler], scheduler}
      BY <2>2 DEF Reenqueue
    <3>2. m \in Member /\ m.job \in accepted'[s]
      BY <1>0, <1>1 DEF Scheduler, OriginOK
    <3>3. JobsIn(XAdd(queue[s], m)) \subseteq JobsIn(queue[s]) \cup {m.job}
      BY <1>0, <3>2, JobsInMember
    <3>4. Queues
      <4>1. JobsIn(XAdd(queue[s], m)) \subseteq JobsIn(queue[s]) \cup accepted'[s]
        BY <3>2, <3>3
      <4> QED
        BY <1>0, <1>2, <3>1, <4>1
    <3>5. scheduler'[p].batch \subseteq scheduler[p].batch /\ \A o \in Schedulers \ {p} : scheduler'[o] = scheduler[o]
      BY <1>0, <3>1 DEF IdleScheduler
    <3>6. Batches
      BY <1>0, <1>1, <3>5 DEF OriginOK
    <3> QED
      BY <1>4, <1>6, <1>7, <2>0, <3>4, <3>6
  <2>3. CASE Remove(p)
    <3>1. /\ queue' \in {queue, [queue EXCEPT ![s] = ZRem(queue[s], scheduler[p].removing)]}
          /\ scheduler' \in {scheduler, [scheduler EXCEPT ![p].removing = None]}
          /\ scheduler[p].removing \in Member
      BY <1>0, <2>3 DEF Remove, Scheduler
    <3>2. Queues
      <4>1. PICK m \in Member : m = scheduler[p].removing
        BY <3>1
      <4>2. JobsIn(ZRem(queue[s], m)) \subseteq JobsIn(queue[s]) \cup accepted'[s]
        BY <1>0, JobsInMember
      <4> QED
        BY <1>0, <1>2, <3>1, <4>1, <4>2
    <3>3. \A o \in Schedulers : scheduler'[o].batch = scheduler[o].batch
      BY <1>0, <3>1 DEF Scheduler
    <3>4. Batches
      BY <1>0, <1>1, <3>3 DEF OriginOK
    <3> QED
      BY <1>4, <1>6, <1>7, <2>0, <3>2, <3>4
  <2> QED
    BY <1>10, <2>1, <2>2, <2>3
<1>11. CASE Restart
  <2>1. Ws /\ Batches
    BY <1>11 DEF Restart, Idle, IdleScheduler
  <2> QED
    BY <1>3, <1>6, <1>7, <1>11, <2>1 DEF Restart
<1>12. CASE UNCHANGED vars
  BY <1>3, <1>4, <1>5, <1>6, <1>7, <1>12 DEF vars
<1> QED
  BY <1>8, <1>9, <1>10, <1>11, <1>12 DEF Next

-----------------------------------------------------------------------------
(* The theorems.                                                            *)

LEMMA IInvInit == Init => IInv
<1> SUFFICES ASSUME Init PROVE IInv
  OBVIOUS
<1>1. EmptyQueue \in QueueState /\ IdsOK(EmptyQueue)
  BY DEF EmptyQueue, QueueState, IdsOK
<1>2. VerifiedUser \in UserRows /\ RowsOK(VerifiedUser)
  BY DEF VerifiedUser, UserRows, RowsOK, JobStatus
<1>3. Idle \in Worker /\ IdleScheduler \in Scheduler
  BY DEF Idle, Worker, Phase, Call, IdleScheduler, Scheduler
<1>4. TypeOK
  BY <1>1, <1>2, <1>3 DEF Init, TypeOK
<1>5. \A w \in Workers : ControlOK(w) /\ HeldOK(w) /\ AchievedOK(w)
  BY DEF Init, Idle, ControlOK, CallsOf, Held, HeldOK, AchievedOK, AchievedAt
<1>6. \A p \in Schedulers : RemovingOK(p)
  BY DEF Init, IdleScheduler, RemovingOK
<1>7. \A s \in Stage : accepted[s] = {}
  BY DEF Init
<1>8. NoJobLost /\ \A j \in accepted["email"] : Done("story", j)
  BY <1>7 DEF NoJobLost, Stage
<1>9. OriginOK
  BY <1>7 DEF Init, OriginOK, JobsIn, EmptyQueue, Idle, Held, IdleScheduler, Stage
<1> QED
  BY <1>1, <1>2, <1>4, <1>5, <1>6, <1>8, <1>9 DEF Init, IInv, NothingAfterDeletion

LEMMA IInvStep == IInv /\ [Next]_vars => IInv'
<1> SUFFICES ASSUME IInv, [Next]_vars PROVE IInv'
  OBVIOUS
<1>1. QueueMoves /\ RowMoves
  BY StepMoves
<1>2. queue' \in [Stage -> QueueState] /\ \A s \in Stage : IdsOK(queue[s])'
  BY <1>1, QueueStable DEF QueueMoves
<1>3. \A j \in Jobs : Kept(db[j], db'[j])
  BY <1>1, RowMoveFacts DEF RowMoves, IInv, TypeOK, NothingAfterDeletion
<1>4. db' \in [Jobs -> UserRows] /\ mailed' \in SUBSET Jobs /\ NothingAfterDeletion'
  BY <1>1, <1>3 DEF RowMoves, Kept, NothingAfterDeletion
<1>5. worker' \in [Workers -> Worker] /\ \A w \in Workers : (ControlOK(w) /\ HeldOK(w) /\ AchievedOK(w))'
  BY <1>1, WorkersStep DEF WorkerOK
<1>6. scheduler' \in [Schedulers -> Scheduler] /\ \A p \in Schedulers : RemovingOK(p)'
  BY <1>1, SchedulersStep
<1>7. /\ accepted' \in [Stage -> SUBSET Jobs] /\ NoJobLost'
      /\ \A j \in accepted'["email"] : Done("story", j)'
  BY <1>1, AcceptedStep
<1>8. api' \in [Jobs -> {"idle", "saveStoryJob", "addToStream"}]
  BY DEF IInv, TypeOK, Next, vars, Request, RequestStory, RequestStoryJob, RequestAdd, DeleteUser,
     Tick, Reenqueue, Remove, Restart, WorkerStep, Read, GenerateStory, StoreStory, StoreEmailJob,
     SendNotificationEmail, Ack, Delete, Forward, AddToDLQ, ScheduleRetry, Update, ExecuterWrite
<1>9. faults' \in {faults, faults + 1} /\ crashes' \in {crashes, crashes + 1}
  BY DEF Next, vars, Fault, Request, RequestStory, RequestStoryJob, RequestAdd, DeleteUser,
     Tick, Reenqueue, Remove, Restart, WorkerStep, Read, GenerateStory, StoreStory, StoreEmailJob,
     SendNotificationEmail, Ack, Delete, Forward, AddToDLQ, ScheduleRetry, Update, ExecuterWrite,
     QueueCall, Succeeds
<1>10. TypeOK'
  BY <1>2, <1>4, <1>5, <1>6, <1>7, <1>8, <1>9 DEF IInv, TypeOK
<1>11. OriginOK'
  BY <1>1, OriginStep
<1> QED
  BY <1>2, <1>4, <1>5, <1>6, <1>7, <1>10, <1>11 DEF IInv

\* IInv is an invariant: it holds at first and every step keeps it.
THEOREM Invariance == Spec => []IInv
BY IInvInit, IInvStep, PTL DEF Spec

\* The variables keep their types for every number of jobs and processes.
THEOREM TypeCorrect == Spec => []TypeOK
<1>1. IInv => TypeOK
  BY DEF IInv
<1> QED
  BY <1>1, Invariance, PTL

\* No job that entered a stage is lost by it, however many calls of Redis,
\* PostgreSQL, the AI client and the mailer fail, and whenever the program is
\* stopped and started again.
THEOREM JobsAreKept == Spec => []NoJobLost
<1>1. IInv => NoJobLost
  BY DEF IInv
<1> QED
  BY <1>1, Invariance, PTL

\* Once a user is deleted the database keeps nothing of him, whatever request,
\* worker or retry was under way, and however often it is repeated.
THEOREM DeletedUsersKeepNothing == Spec => []NothingAfterDeletion
<1>1. IInv => NothingAfterDeletion
  BY DEF IInv
<1> QED
  BY <1>1, Invariance, PTL

\* A notification is sent or prepared only for a job whose story is stored together
\* with a row in email_jobs, or whose user was deleted.
THEOREM NotifiedWhenReady == Spec => []NotifiedOnlyWhenReady
<1>1. IInv => NotifiedOnlyWhenReady
  BY DEF IInv, OriginOK, NotifiedOnlyWhenReady
<1> QED
  BY <1>1, Invariance, PTL
=============================================================================
