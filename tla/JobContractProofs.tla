------------------------- MODULE JobContractProofs -------------------------
(***************************************************************************)
(* JobPipeline implements JobContract, for any number of jobs, workers,    *)
(* schedulers, failed calls and restarts: every step of the pipeline       *)
(* changes the status of at most one job in one stage, from "new" or from  *)
(* "owed", and never to "lost". And no entry is handled by two workers.    *)
(***************************************************************************)
EXTENDS JobPipelineProofs

-----------------------------------------------------------------------------
(* One step, one status.                                                    *)

\* The step leaves the status of job k in stage t as it is.
Still(t, k) ==
  /\ k \in accepted'[t] <=> k \in accepted[t]
  /\ Settled(t, k)' <=> Settled(t, k)

OnlyFor(s, j) == \A t \in Stage, k \in Jobs : t # s \/ k # j => Still(t, k)

SameDead == \A t \in Stage : queue'[t].dead = queue[t].dead

\* What a status depends on.
LEMMA StillFacts ==
  ASSUME NEW t \in Stage, NEW k \in Jobs,
         k \in accepted'[t] <=> k \in accepted[t],
         k \in queue'[t].dead <=> k \in queue[t].dead,
         t = "email" => (k \in mailed' <=> k \in mailed),
         t = "story" => db'[k] = db[k]
  PROVE  Still(t, k)
BY DEF Still, Settled, DeadLettered, Done, StoryReady

\* Only AddDead changes the dead-letter stream.
LEMMA OneQueueSameDead ==
  ASSUME IInv, NEW s \in Stage, NEW q, q.dead = queue[s].dead,
         queue' \in {queue, [queue EXCEPT ![s] = q]}
  PROVE  SameDead
BY DEF SameDead, IInv, TypeOK

LEMMA CommandsSameDead ==
  ASSUME NEW q \in QueueState
  PROVE  /\ \A m : XAdd(q, m).dead = q.dead
         /\ \A m : ZAdd(q, m).dead = q.dead
         /\ \A m : ZRem(q, m).dead = q.dead
         /\ \A e : XReadGroup(q, e).dead = q.dead
         /\ \A id : XAck(q, id).dead = q.dead
         /\ \A id : XDel(q, id).dead = q.dead
BY DEF QueueState, XAdd, ZAdd, ZRem, XReadGroup, XAck, XDel

\* The four kinds of step that may change a status: the rows of one user, a job
\* taken in, a mail, a dead letter.
LEMMA RowsOnly ==
  ASSUME IInv, NEW j \in Jobs, NEW r, db' \in {db, [db EXCEPT ![j] = r]},
         UNCHANGED <<queue, mailed, accepted>>
  PROVE  OnlyFor("story", j)
<1>1. \A k \in Jobs \ {j} : db'[k] = db[k]
  BY DEF IInv, TypeOK
<1> QED
  BY <1>1, StillFacts DEF OnlyFor, Stage

LEMMA AcceptedOnly ==
  ASSUME IInv, NEW s \in Stage, NEW j \in Jobs,
         accepted' \in {accepted, [accepted EXCEPT ![s] = @ \cup {j}]},
         SameDead, UNCHANGED <<db, mailed>>
  PROVE  OnlyFor(s, j)
<1>1. \A t \in Stage, k \in Jobs : t # s \/ k # j => (k \in accepted'[t] <=> k \in accepted[t])
  BY DEF IInv, TypeOK
<1> QED
  BY <1>1, StillFacts DEF OnlyFor, SameDead

LEMMA MailOnly ==
  ASSUME NEW j \in Jobs, mailed' \in {mailed, mailed \cup {j}},
         UNCHANGED <<queue, db, accepted>>
  PROVE  OnlyFor("email", j)
BY StillFacts DEF OnlyFor, Stage

LEMMA DeadOnly ==
  ASSUME IInv, NEW s \in Stage, NEW m \in Member,
         queue' \in {queue, [queue EXCEPT ![s] = AddDead(queue[s], m)]},
         UNCHANGED <<db, mailed, accepted>>
  PROVE  OnlyFor(s, m.job)
<1>1. queue[s] \in QueueState /\ queue \in [Stage -> QueueState]
  BY DEF IInv, TypeOK
<1>2. AddDead(queue[s], m).dead = queue[s].dead \cup {m.job}
  BY <1>1 DEF AddDead, QueueState
<1>3. \A t \in Stage : t # s => queue'[t] = queue[t]
  BY <1>1
<1>4. queue'[s].dead \in {queue[s].dead, queue[s].dead \cup {m.job}}
  BY <1>1, <1>2
<1>5. \A t \in Stage, k \in Jobs : t # s \/ k # m.job => (k \in queue'[t].dead <=> k \in queue[t].dead)
  BY <1>3, <1>4
<1> QED
  BY <1>5, StillFacts DEF OnlyFor

LEMMA NothingMoves ==
  ASSUME SameDead, UNCHANGED <<db, mailed, accepted>>
  PROVE  \A t \in Stage, k \in Jobs : Still(t, k)
BY StillFacts DEF SameDead

\* Every step is of one of these kinds.
LEMMA OneStatus ==
  ASSUME IInv, [Next]_vars
  PROVE  \/ \A t \in Stage, k \in Jobs : Still(t, k)
         \/ \E s \in Stage, j \in Jobs : OnlyFor(s, j)
<1> DEFINE Goal == \/ \A t \in Stage, k \in Jobs : Still(t, k)
                   \/ \E s \in Stage, j \in Jobs : OnlyFor(s, j)
<1>0. /\ "story" \in Stage /\ "email" \in Stage
      /\ \A s \in Stage : queue[s] \in QueueState
      /\ \A w \in Workers : StageOf(w) \in Stage
      /\ \A p \in Schedulers : StageOf(p) \in Stage
  BY DEF IInv, TypeOK, Stage, StageOf
<1>1. ASSUME NEW j \in Jobs, Request(j) \/ DeleteUser(j) PROVE Goal
  <2>1. CASE RequestAdd(j)
    <3> DEFINE m == [job |-> j, retry |-> 0]
    <3>1. queue' \in {queue, [queue EXCEPT !["story"] = XAdd(queue["story"], m)]}
      BY <2>1 DEF RequestAdd
    <3>2. SameDead
      BY <1>0, <3>1, CommandsSameDead, OneQueueSameDead
    <3>3. accepted' \in {accepted, [accepted EXCEPT !["story"] = @ \cup {j}]} /\ UNCHANGED <<db, mailed>>
      BY <2>1 DEF RequestAdd
    <3> QED
      BY <1>0, <3>2, <3>3, AcceptedOnly
  <2>2. CASE RequestStory(j) \/ RequestStoryJob(j) \/ DeleteUser(j)
    <3>1. \/ db' \in {db, [db EXCEPT ![j] = SaveStoryInfo(db[j])]}
          \/ db' \in {db, [db EXCEPT ![j] = SaveStoryJob(db[j])]}
          \/ db' \in {db, [db EXCEPT ![j] = IF db[j].user THEN SaveStoryJob(db[j]) ELSE db[j]]}
          \/ db' \in {db, [db EXCEPT ![j] = DeleteUserByID(db[j])]}
      BY <2>2 DEF RequestStory, RequestStoryJob, DeleteUser
    <3>2. UNCHANGED <<queue, mailed, accepted>>
      BY <2>2 DEF RequestStory, RequestStoryJob, DeleteUser
    <3> QED
      BY <1>0, <3>1, <3>2, RowsOnly
  <2> QED
    BY <1>1, <2>1, <2>2 DEF Request
<1>2. ASSUME NEW w \in Workers, WorkerStep(w) PROVE Goal
  <2> DEFINE s == StageOf(w)
             e == worker[w].msg
  <2>0. worker[w].call \notin {"Read", "return"} => e.job \in Jobs /\ MemberOf(e) \in Member /\ MemberOf(e).job = e.job
    BY WorkerFacts DEF InMethod, Entry, MemberOf
  <2>1. CASE StoreStory(w) \/ StoreEmailJob(w) \/ Update(w)
    <3>1. e.job \in Jobs
      BY <2>0, <2>1 DEF StoreStory, StoreEmailJob, Update, Calls
    <3>2. \/ db' \in {db, [db EXCEPT ![e.job] = UploadStory(db[e.job])]}
          \/ db' \in {db, [db EXCEPT ![e.job] = SaveEmailJob(db[e.job])]}
          \/ db' \in {db, [db EXCEPT ![e.job] = UpdateStoryJob(db[e.job], StatusOf(worker[w].phase))]}
          \/ db' \in {db, [db EXCEPT ![e.job] = UpdateEmailJob(db[e.job], StatusOf(worker[w].phase))]}
      BY <2>1 DEF StoreStory, StoreEmailJob, ExecuterWrite, Update
    <3>3. UNCHANGED <<queue, mailed, accepted>>
      BY <2>1 DEF StoreStory, StoreEmailJob, ExecuterWrite, Update
    <3> QED
      BY <1>0, <3>1, <3>2, <3>3, RowsOnly
  <2>2. CASE Forward(w)
    <3>1. e.job \in Jobs /\ MemberOf(e).job = e.job
      BY <2>0, <2>2 DEF Forward, Calls
    <3>2. /\ queue' \in {queue, [queue EXCEPT !["email"] = XAdd(queue["email"], MemberOf(e))]}
          /\ accepted' \in {accepted, [accepted EXCEPT !["email"] = @ \cup {e.job}]}
          /\ UNCHANGED <<db, mailed>>
      BY <2>2, <3>1 DEF Forward
    <3>3. SameDead
      BY <1>0, <3>2, CommandsSameDead, OneQueueSameDead
    <3> QED
      BY <1>0, <3>1, <3>2, <3>3, AcceptedOnly
  <2>3. CASE SendNotificationEmail(w)
    <3>1. e.job \in Jobs
      BY <2>0, <2>3 DEF SendNotificationEmail, Calls
    <3>2. mailed' \in {mailed, mailed \cup {e.job}} /\ UNCHANGED <<queue, db, accepted>>
      BY <2>3 DEF SendNotificationEmail
    <3> QED
      BY <1>0, <3>1, <3>2, MailOnly
  <2>4. CASE AddToDLQ(w)
    <3>1. MemberOf(e) \in Member /\ MemberOf(e).job \in Jobs
      BY <2>0, <2>4 DEF AddToDLQ, Calls
    <3>2. queue' \in {queue, [queue EXCEPT ![s] = AddDead(queue[s], MemberOf(e))]}
      BY <2>4 DEF AddToDLQ, QueueCall
    <3>3. UNCHANGED <<db, mailed, accepted>>
      BY <2>4 DEF AddToDLQ
    <3> QED
      BY <1>0, <3>1, <3>2, <3>3, DeadOnly
  <2>5. CASE Read(w) \/ GenerateStory(w) \/ Ack(w) \/ Delete(w) \/ ScheduleRetry(w)
    <3>1. UNCHANGED <<db, mailed, accepted>>
      BY <2>5 DEF Read, GenerateStory, Ack, Delete, ScheduleRetry
    <3>2. \/ \E f \in queue[s].entries : queue' \in {queue, [queue EXCEPT ![s] = XReadGroup(queue[s], f)]}
          \/ queue' \in {queue, [queue EXCEPT ![s] = XAck(queue[s], e.id)]}
          \/ queue' \in {queue, [queue EXCEPT ![s] = XDel(queue[s], e.id)]}
          \/ \E m : queue' \in {queue, [queue EXCEPT ![s] = ZAdd(queue[s], m)]}
          \/ queue' \in {queue, [queue EXCEPT ![s] = queue[s]]}
      BY <2>5 DEF Read, GenerateStory, Ack, Delete, ScheduleRetry, QueueCall
    <3>3. SameDead
      BY <1>0, <3>2, CommandsSameDead, OneQueueSameDead
    <3> QED
      BY <3>1, <3>3, NothingMoves
  <2> QED
    BY <1>2, <2>1, <2>2, <2>3, <2>4, <2>5 DEF WorkerStep
<1>3. ASSUME NEW p \in Schedulers, Tick(p) \/ Reenqueue(p) \/ Remove(p) PROVE Goal
  <2> DEFINE s == StageOf(p)
  <2>1. UNCHANGED <<db, mailed, accepted>>
    BY <1>3 DEF Tick, Reenqueue, Remove
  <2>2. \/ \E m : queue' \in {queue, [queue EXCEPT ![s] = XAdd(queue[s], m)]}
        \/ \E m : queue' \in {queue, [queue EXCEPT ![s] = ZRem(queue[s], m)]}
        \/ queue' \in {queue, [queue EXCEPT ![s] = queue[s]]}
    BY <1>3 DEF Tick, Reenqueue, Remove
  <2>3. SameDead
    BY <1>0, <2>2, CommandsSameDead, OneQueueSameDead
  <2> QED
    BY <2>1, <2>3, NothingMoves
<1>4. ASSUME Restart \/ UNCHANGED vars PROVE Goal
  BY <1>4, NothingMoves DEF Restart, vars, SameDead
<1> QED
  BY <1>1, <1>2, <1>3, <1>4 DEF Next

\* What a stage has taken in it does not forget to have taken in.
LEMMA AcceptedGrows ==
  ASSUME IInv, [Next]_vars, NEW s \in Stage
  PROVE  accepted[s] \subseteq accepted'[s]
<1>1. \/ UNCHANGED accepted
      \/ \E t \in Stage : \E j : accepted' = [accepted EXCEPT ![t] = @ \cup {j}]
  BY DEF Next, vars, Request, RequestStory, RequestStoryJob, RequestAdd, DeleteUser, Tick, Reenqueue,
     Remove, Restart, WorkerStep, Read, GenerateStory, StoreStory, StoreEmailJob, SendNotificationEmail,
     Ack, Delete, Forward, AddToDLQ, ScheduleRetry, Update, ExecuterWrite, Stage
<1>2. accepted \in [Stage -> SUBSET Jobs]
  BY DEF IInv, TypeOK
<1> QED
  BY <1>1, <1>2

-----------------------------------------------------------------------------
(* The refinement.                                                          *)

Status == {"new", "owed", "settled"}

\* No accepted job is "lost": a status is one of the three JobContract knows.
LEMMA StatusFacts ==
  ASSUME IInv, NEW s \in Stage, NEW j \in Jobs
  PROVE  /\ Statuses[s][j] = StatusIn(s, j)
         /\ StatusIn(s, j) \in Status
         /\ StatusIn(s, j) = "new" <=> j \notin accepted[s]
         /\ StatusIn(s, j) = "settled" <=> j \in accepted[s] /\ Settled(s, j)
BY DEF IInv, NoJobLost, StatusIn, Statuses, Status

\* What was said of a state is true of the next one.
LEMMA StatusFactsNext ==
  ASSUME IInv', NEW s \in Stage, NEW j \in Jobs
  PROVE  /\ Statuses'[s][j] = StatusIn(s, j)'
         /\ StatusIn(s, j)' \in Status
         /\ StatusIn(s, j)' = "new" <=> j \notin accepted'[s]
         /\ StatusIn(s, j)' = "settled" <=> j \in accepted'[s] /\ Settled(s, j)'
BY DEF IInv, NoJobLost, StatusIn, Statuses, Status

\* Two tables that differ at most in one place.
LEMMA OneEntry ==
  ASSUME NEW A, NEW B, NEW S, NEW f \in [A -> [B -> S]], NEW g \in [A -> [B -> S]],
         NEW a \in A, NEW b \in B,
         \A x \in A, y \in B : x # a \/ y # b => g[x][y] = f[x][y]
  PROVE  g = [f EXCEPT ![a][b] = g[a][b]]
<1>1. \A x \in A : f[x] \in [B -> S] /\ g[x] \in [B -> S]
  OBVIOUS
<1>2. \A x \in A : x # a => g[x] = f[x]
  BY <1>1
<1>3. g[a] = [f[a] EXCEPT ![b] = g[a][b]]
  BY <1>1
<1> QED
  BY <1>2, <1>3

\* Every step of the pipeline is a step of the contract, or changes no status.
LEMMA ContractStep == IInv /\ IInv' /\ [Next]_vars => [Contract!Next]_Statuses
<1> SUFFICES ASSUME IInv, IInv', [Next]_vars PROVE [Contract!Next]_Statuses
  OBVIOUS
<1>1. QueueMoves /\ RowMoves
  BY StepMoves
<1>2. \A s \in Stage : accepted[s] \subseteq accepted'[s]
  BY AcceptedGrows
<1>3. \A s \in Stage, j \in Jobs : Settled(s, j) => Settled(s, j)'
  BY <1>1, SettledStable
<1>4. ASSUME NEW s \in Stage, NEW j \in Jobs, Still(s, j) PROVE Statuses'[s][j] = Statuses[s][j]
  BY <1>4, StatusFacts, StatusFactsNext DEF Still, Status
<1>5. CASE \A t \in Stage, k \in Jobs : Still(t, k)
  <2>1. ASSUME NEW t \in Stage, NEW k \in Jobs PROVE StatusIn(t, k)' = StatusIn(t, k)
    <3>1. Statuses'[t][k] = Statuses[t][k]
      BY <1>4, <1>5
    <3> QED
      BY <3>1, StatusFacts, StatusFactsNext
  <2> QED
    BY <2>1 DEF Statuses
<1>6. ASSUME NEW s \in Stage, NEW j \in Jobs, OnlyFor(s, j) PROVE [Contract!Next]_Statuses
  <2> DEFINE old == Statuses[s][j]
  <2>1. PICK new : new = Statuses'[s][j]
    OBVIOUS
  <2>2. \A t \in Stage, k \in Jobs : t # s \/ k # j => Statuses'[t][k] = Statuses[t][k]
    BY <1>4, <1>6 DEF OnlyFor
  <2>3. Statuses' = [Statuses EXCEPT ![s][j] = new]
    <3>1. PICK f : f = Statuses
      OBVIOUS
    <3>2. PICK g : g = Statuses'
      OBVIOUS
    <3>3. f \in [Stage -> [Jobs -> Status]] /\ g \in [Stage -> [Jobs -> Status]]
      <4>1. Statuses \in [Stage -> [Jobs -> Status]]
        BY StatusFacts DEF Statuses
      <4>2. Statuses' \in [Stage -> [Jobs -> Status]]
        BY StatusFactsNext DEF Statuses
      <4> QED
        BY <3>1, <3>2, <4>1, <4>2
    <3>4. \A t \in Stage, k \in Jobs : t # s \/ k # j => g[t][k] = f[t][k]
      BY <2>2, <3>1, <3>2
    <3>5. g = [f EXCEPT ![s][j] = g[s][j]]
      BY <3>3, <3>4, OneEntry
    <3> QED
      BY <2>1, <3>1, <3>2, <3>5
  <2>4. /\ old \in Status /\ new \in Status
        /\ old # "new" => new # "new"
        /\ old = "settled" => new = "settled"
    BY <1>2, <1>3, <2>1, StatusFacts, StatusFactsNext
  <2>5. CASE new = old
    BY <2>3, <2>5 DEF Statuses
  <2>6. CASE old = "owed" /\ new = "settled"
    BY <2>3, <2>6 DEF Contract!Next, Contract!Settle, Contract!Becomes, Contract!Stages, Stage
  <2>7. CASE old = "new" /\ new \in {"owed", "settled"}
    <3>1. s = "email" => Statuses["story"][j] = "settled"
      <4> SUFFICES ASSUME s = "email" PROVE Statuses["story"][j] = "settled"
        OBVIOUS
      <4>1. "story" \in Stage /\ Statuses'["story"][j] = Statuses["story"][j]
        BY <2>2 DEF Stage
      <4>2. j \in accepted'["email"]
        BY <2>1, <2>7, StatusFactsNext
      <4>3. j \in accepted'["story"] /\ Done("story", j)'
        BY <4>2 DEF IInv, OriginOK
      <4>4. Settled("story", j)'
        BY <4>3 DEF Settled
      <4> QED
        BY <4>1, <4>3, <4>4, StatusFactsNext
    <3> QED
      BY <2>3, <2>7, <3>1 DEF Contract!Next, Contract!TakeIn, Contract!Becomes, Contract!Stages, Stage
  <2> QED
    BY <2>4, <2>5, <2>6, <2>7 DEF Status
<1> QED
  BY <1>5, <1>6, OneStatus

LEMMA ContractInit == Init => Contract!Init
<1> SUFFICES ASSUME Init PROVE Contract!Init
  OBVIOUS
<1>1. \A s \in Stage, j \in Jobs : StatusIn(s, j) = "new"
  BY DEF Init, StatusIn
<1> QED
  BY <1>1 DEF Contract!Init, Contract!Stages, Statuses, Stage

\* The pipeline keeps the promise of JobContract: whatever calls fail and whenever
\* the program stops, each stage takes a job in at most once, never forgets one it
\* owes nor owes again one it has settled, and the email stage takes in only jobs
\* the story stage has settled.
THEOREM ContractKept == Spec => KeepsContract
BY ContractInit, ContractStep, Invariance, PTL DEF Spec, KeepsContract, Contract!Spec

-----------------------------------------------------------------------------
(* No entry is handled twice at once.                                       *)

\* A worker keeps its message, drops it, or reads one nobody was given before.
LEMMA MessageMoves ==
  ASSUME IInv, [Next]_vars
  PROVE  \/ \A w \in Workers : worker'[w].msg \in {None, worker[w].msg}
         \/ \E v \in Workers : /\ worker'[v].msg.id > queue[StageOf(v)].delivered
                             /\ \A w \in Workers \ {v} : worker'[w] = worker[w]
<1>0. worker \in [Workers -> Worker] /\ \A w \in Workers : StageOf(w) \in Stage
  BY DEF IInv, TypeOK, StageOf, Stage
<1> DEFINE Goal == \/ \A w \in Workers : worker'[w].msg \in {None, worker[w].msg}
                   \/ \E v \in Workers : /\ worker'[v].msg.id > queue[StageOf(v)].delivered
                                       /\ \A w \in Workers \ {v} : worker'[w] = worker[w]
<1>1. ASSUME NEW v \in Workers, WorkerStep(v) PROVE Goal
  <2> DEFINE s == StageOf(v)
  <2>1. CASE Read(v)
    <3>1. PICK f \in queue[s].entries :
               /\ f.id > queue[s].delivered
               /\ \/ worker' = [worker EXCEPT ![v] = Enter(s, "execute", [@ EXCEPT !.msg = f])]
                  \/ UNCHANGED worker
      BY <2>1 DEF Read, IsNext, Undelivered
    <3>2. CASE worker' = [worker EXCEPT ![v] = Enter(s, "execute", [@ EXCEPT !.msg = f])]
      <4>1. worker'[v].msg = f
        BY <1>0, <3>2 DEF Enter, Worker
      <4> QED
        BY <1>0, <3>1, <3>2, <4>1
    <3> QED
      BY <3>1, <3>2
  <2>2. CASE ~Read(v)
    <3>1. worker[v].call \notin {"Read", "return"}
      BY <1>1, <2>2 DEF WorkerStep, Calls, GenerateStory, StoreStory, StoreEmailJob, SendNotificationEmail,
                  Ack, Delete, Forward, AddToDLQ, ScheduleRetry, Update
    <3>2. InMethod(s, worker[v])
      BY <3>1, WorkerFacts
    <3>3. PICK r \in {worker[v], Proceed(s, worker[v]), AfterError(s, worker[v]), At(worker[v], "dead", "return")} :
               worker' = [worker EXCEPT ![v] = r]
      <4>1. CASE Succeeds(v) \/ Fails(v)
        BY <4>1 DEF Succeeds, Fails
      <4>2. CASE worker' = [worker EXCEPT ![v].phase = "dead", ![v].call = "return"]
        <5>1. worker' = [worker EXCEPT ![v] = At(worker[v], "dead", "return")]
          BY <4>2 DEF At
        <5> QED
          BY <5>1
      <4>3. CASE UNCHANGED worker
        BY <1>0, <4>3
      <4> QED
        BY <1>1, <2>2, <4>1, <4>2, <4>3 DEF WorkerStep, GenerateStory, StoreStory, StoreEmailJob,
           SendNotificationEmail, Ack, Delete, Forward, AddToDLQ, ScheduleRetry, Update, QueueCall, ExecuterWrite
    <3>4. r.msg \in {None, worker[v].msg}
      <4>1. \A p, c : At(worker[v], p, c).msg = worker[v].msg
        BY <3>2 DEF At, InMethod, Worker
      <4>2. Idle.msg = None
        BY DEF Idle
      <4>3. worker[v].call \in {"GenerateStory", "UploadStory", "SaveEmailJob", "SendNotificationEmail",
                "AddDead", "ScheduleRetry", "Ack", "Delete", "Forward", "Update"}
        BY <3>1, <3>2 DEF InMethod, Worker, Call
      <4> QED
        BY <3>2, <3>3, <4>1, <4>2, <4>3, AfterErrorFacts, ProceedFacts
    <3> QED
      BY <1>0, <3>3, <3>4
  <2> QED
    BY <2>1, <2>2
<1>2. CASE UNCHANGED worker
  BY <1>2
<1>3. CASE Restart
  BY <1>3 DEF Restart, Idle
<1> QED
  BY <1>1, <1>2, <1>3 DEF Next, vars, Request, RequestStory, RequestStoryJob, RequestAdd, DeleteUser,
     Tick, Reenqueue, Remove

LEMMA DeliveryStep == IInv /\ NoDoubleDelivery /\ [Next]_vars => NoDoubleDelivery'
<1> SUFFICES ASSUME IInv, NoDoubleDelivery, [Next]_vars,
                    NEW v \in Workers, NEW w \in Workers,
                    v # w, StageOf(v) = StageOf(w), Held(v)', Held(w)'
             PROVE  worker'[v].msg.id # worker'[w].msg.id
  BY DEF NoDoubleDelivery
<1>1. \A o \in Workers : Held(o) => /\ worker[o].msg.id <= queue[StageOf(o)].delivered
                                   /\ worker[o].msg.id \in Nat
                                   /\ queue[StageOf(o)].delivered \in Nat
  BY DEF IInv, TypeOK, HeldOK, Held, Worker, Entry, QueueState, StageOf, Stage
<1>2. CASE \A o \in Workers : worker'[o].msg \in {None, worker[o].msg}
  BY <1>2 DEF NoDoubleDelivery, Held
<1>3. ASSUME NEW u \in Workers, worker'[u].msg.id > queue[StageOf(u)].delivered,
             \A o \in Workers \ {u} : worker'[o] = worker[o]
      PROVE  worker'[v].msg.id # worker'[w].msg.id
  <2>1. CASE u = v
    <3>1. worker'[w] = worker[w] /\ Held(w)
      BY <1>3, <2>1 DEF Held
    <3> QED
      BY <1>1, <1>3, <2>1, <3>1
  <2>2. CASE u = w
    <3>1. worker'[v] = worker[v] /\ Held(v)
      BY <1>3, <2>2 DEF Held
    <3> QED
      BY <1>1, <1>3, <2>2, <3>1
  <2>3. CASE u # v /\ u # w
    BY <1>3, <2>3 DEF NoDoubleDelivery, Held
  <2> QED
    BY <2>1, <2>2, <2>3
<1> QED
  BY <1>2, <1>3, MessageMoves

\* No two workers of a stage ever hold the same stream entry, across failed reads,
\* panics and restarts: a read hands out only ids above the group's cursor.
THEOREM DeliveredOnce == Spec => []NoDoubleDelivery
<1>1. Init => NoDoubleDelivery
  BY DEF Init, NoDoubleDelivery, Held, Idle
<1> QED
  BY <1>1, DeliveryStep, Invariance, PTL DEF Spec
=============================================================================
