---------------------------- MODULE JobEndProofs ----------------------------
(***************************************************************************)
(* How a job of JobPipeline ends, with one worker and one scheduler per    *)
(* stage, no failed call and no restart: the invariant FinalInv of JobPath *)
(* and what follows from it, CompletedIsFinal and QuietIsCompleted.        *)
(***************************************************************************)
EXTENDS JobPathProofs

-----------------------------------------------------------------------------
(* Who writes what in the rows of a user. These hold with failed calls too. *)

\* The queries of the workers, by the columns they leave alone.
LEMMA StoreColumns ==
  ASSUME NEW r \in UserRows
  PROVE  /\ UploadStory(r).storyJob = r.storyJob /\ UploadStory(r).emailJobs = r.emailJobs
         /\ SaveEmailJob(r).storyJob = r.storyJob
BY DEF UserRows, UploadStory, SaveEmailJob

LEMMA UpdateStoryColumns ==
  ASSUME NEW r \in UserRows, NEW status
  PROVE  /\ UpdateStoryJob(r, status).emailJobs = r.emailJobs
         /\ UpdateStoryJob(r, status).storyJob = IF r.storyJob = "absent" THEN "absent" ELSE status
BY DEF UserRows, UpdateStoryJob

LEMMA UpdateEmailColumns ==
  ASSUME NEW r \in UserRows, NEW status
  PROVE  /\ UpdateEmailJob(r, status).storyJob = r.storyJob
         /\ UpdateEmailJob(r, status).emailJobs = IF r.emailJobs = {} THEN {} ELSE {status}
BY DEF UserRows, UpdateEmailJob

\* What a worker may write of a job: the row of the job it holds.
Writes(w, j, r) ==
  \/ r = UploadStory(db[j]) /\ worker[w].call = "UploadStory" /\ StageOf(w) = "story"
  \/ r = SaveEmailJob(db[j]) /\ worker[w].call = "SaveEmailJob" /\ StageOf(w) = "story"
  \/ r = UpdateStoryJob(db[j], StatusOf(worker[w].phase)) /\ worker[w].call = "Update" /\ StageOf(w) = "story"
  \/ r = UpdateEmailJob(db[j], StatusOf(worker[w].phase)) /\ worker[w].call = "Update" /\ StageOf(w) = "email"

LEMMA WorkerWrites ==
  ASSUME IInv, NEW w \in Workers, WorkerStep(w), NEW j \in Jobs, db'[j] # db[j]
  PROVE  HoldsJob(w, StageOf(w), j) /\ Writes(w, j, db'[j])
<1> DEFINE s == StageOf(w)
           k == worker[w].msg.job
<1>1. db \in [Jobs -> UserRows] /\ s \in Stage
  BY Domains
<1>2. StoreStory(w) \/ StoreEmailJob(w) \/ Update(w)
  BY DEF WorkerStep, Read, GenerateStory, SendNotificationEmail, Ack, Delete, Forward, AddToDLQ, ScheduleRetry
<1>3. Held(w) /\ worker[w].call \in {"UploadStory", "SaveEmailJob", "Update"} /\ InMethod(s, worker[w])
  BY <1>2, WorkerFacts DEF StoreStory, StoreEmailJob, Update, Calls
<1>4. CASE StoreStory(w)
  <2>1. worker[w].call = "UploadStory" /\ db' \in {db, [db EXCEPT ![k] = UploadStory(db[k])]}
    BY <1>4 DEF StoreStory, ExecuterWrite, Calls
  <2>2. s = "story"
    BY <1>3, <2>1 DEF InMethod, CallsOf, Stage
  <2>3. k = j /\ db'[j] = UploadStory(db[j])
    BY <1>1, <2>1
  <2> QED
    BY <1>3, <2>1, <2>2, <2>3 DEF HoldsJob, HeldJob, Writes
<1>5. CASE StoreEmailJob(w)
  <2>1. worker[w].call = "SaveEmailJob" /\ db' \in {db, [db EXCEPT ![k] = SaveEmailJob(db[k])]}
    BY <1>5 DEF StoreEmailJob, ExecuterWrite, Calls
  <2>2. s = "story"
    BY <1>3, <2>1 DEF InMethod, CallsOf, Stage
  <2>3. k = j /\ db'[j] = SaveEmailJob(db[j])
    BY <1>1, <2>1
  <2> QED
    BY <1>3, <2>1, <2>2, <2>3 DEF HoldsJob, HeldJob, Writes
<1>6. CASE Update(w)
  <2> DEFINE status == StatusOf(worker[w].phase)
  <2>1. /\ worker[w].call = "Update"
        /\ \/ s = "story" /\ db' \in {db, [db EXCEPT ![k] = UpdateStoryJob(db[k], status)]}
           \/ s = "email" /\ db' \in {db, [db EXCEPT ![k] = UpdateEmailJob(db[k], status)]}
    BY <1>1, <1>6 DEF Update, Calls, Stage
  <2>2. k = j /\ \/ s = "story" /\ db'[j] = UpdateStoryJob(db[j], status)
                 \/ s = "email" /\ db'[j] = UpdateEmailJob(db[j], status)
    BY <1>1, <2>1
  <2> QED
    BY <1>3, <2>1, <2>2 DEF HoldsJob, HeldJob, Writes
<1> QED
  BY <1>2, <1>4, <1>5, <1>6

\* Besides the workers, only requests and deletions write; and these at the
\* beginning and at the end.
LEMMA RowWrites ==
  ASSUME IInv, [Next]_vars, NEW j \in Jobs, db'[j] # db[j]
  PROVE  /\ db'[j].user => db[j].user
         /\ \/ db'[j] = DeleteUserByID(db[j])
            \/ db[j].story = "absent" /\ db'[j].storyJob = db[j].storyJob /\ db'[j].emailJobs = db[j].emailJobs
            \/ api[j] = "saveStoryJob" /\ db'[j].storyJob = "pending" /\ db'[j].emailJobs = db[j].emailJobs
            \/ \E w \in Workers : HoldsJob(w, StageOf(w), j) /\ Writes(w, j, db'[j])
<1>1. db \in [Jobs -> UserRows] /\ db[j] \in UserRows
  BY Domains
<1>2. ASSUME NEW k \in Jobs, RequestStory(k)
      PROVE  db[j].user /\ db[j].story = "absent" /\ db'[j].storyJob = db[j].storyJob /\ db'[j].emailJobs = db[j].emailJobs
  <2>1. k = j /\ db[j].user /\ db[j].story = "absent" /\ db'[j] = SaveStoryInfo(db[j])
    BY <1>1, <1>2 DEF RequestStory
  <2> QED
    BY <1>1, <2>1 DEF SaveStoryInfo, UserRows
<1>3. ASSUME NEW k \in Jobs, RequestStoryJob(k)
      PROVE  /\ db'[j].user => db[j].user
             /\ api[j] = "saveStoryJob" /\ db'[j].storyJob = "pending" /\ db'[j].emailJobs = db[j].emailJobs
  <2>1. api[k] = "saveStoryJob" /\ db' \in {db, [db EXCEPT ![k] = SaveStoryJob(@)], [db EXCEPT ![k] = IF @.user THEN SaveStoryJob(@) ELSE @]}
    BY <1>3 DEF RequestStoryJob
  <2>2. k = j /\ db'[j] = SaveStoryJob(db[j])
    BY <1>1, <2>1
  <2> QED
    BY <1>1, <2>1, <2>2 DEF SaveStoryJob, UserRows
<1>4. ASSUME NEW k \in Jobs, DeleteUser(k) PROVE db'[j] = DeleteUserByID(db[j]) /\ ~db'[j].user
  <2>1. db'[j] = DeleteUserByID(db[j])
    BY <1>1, <1>4 DEF DeleteUser
  <2> QED
    BY <2>1 DEF DeleteUserByID
<1>5. ASSUME NEW w \in Workers, WorkerStep(w)
      PROVE  (db'[j].user => db[j].user) /\ HoldsJob(w, StageOf(w), j) /\ Writes(w, j, db'[j])
  <2>1. db'[j].user => db[j].user
    BY <1>5, WorkerKeys DEF SameKeys
  <2> QED
    BY <1>5, <2>1, WorkerWrites
<1> QED
  BY <1>2, <1>3, <1>4, <1>5 DEF Next, Request, RequestAdd, Tick, Reenqueue, Remove, Restart, vars

-----------------------------------------------------------------------------
(* A status "completed" is not overwritten. The step may be any.            *)

\* What is assumed from here on: the invariants, and the conditions of FinalInv.
Course ==
  /\ IInv /\ PlaceInv /\ FinalInv
  /\ OneEach(Workers) /\ OneEach(Schedulers) /\ Calm

LEMMA CourseFacts ==
  ASSUME Course
  PROVE  /\ IInv /\ faults = 0
         /\ \A w \in Workers : ForwardedOK(w)
         /\ \A p \in Schedulers : RemovingOld(p) /\ BatchOK(p)
         /\ \A j \in Jobs : CourseOK(j) /\ OnePlace(j) /\ RequestedOnce(j)
         /\ \A v, w \in Workers : StageOf(v) = StageOf(w) => v = w
         /\ \A p, q \in Schedulers : StageOf(p) = StageOf(q) => p = q
BY DEF Course, Calm, FinalInv, PlaceInv, OneEach

\* Whatever is taken in by a stage was taken in by the story stage before.
LEMMA Origins ==
  ASSUME IInv
  PROVE  /\ mailed \subseteq accepted["email"] /\ accepted["email"] \subseteq accepted["story"]
         /\ accepted["story"] \subseteq Jobs
         /\ \A w \in Workers : Held(w) => HeldJob(w) \in accepted[StageOf(w)] /\ HeldJob(w) \in accepted["story"]
<1>1. /\ mailed \subseteq accepted["email"] /\ accepted["email"] \subseteq accepted["story"]
      /\ \A w \in Workers : Held(w) => HeldJob(w) \in accepted[StageOf(w)]
  BY DEF IInv, OriginOK
<1> QED
  BY <1>1, Domains

LEMMA CompletedKept ==
  ASSUME Course, [Next]_vars, NEW j \in Jobs, db'[j].user
  PROVE  /\ db[j].storyJob = "completed" => db'[j].storyJob = "completed"
         /\ db[j].emailJobs = {"completed"} => db'[j].emailJobs = {"completed"}
<1>0. IInv /\ faults = 0 /\ CourseOK(j) /\ RequestedOnce(j) /\ db[j] \in UserRows
  BY CourseFacts, Domains
<1> SUFFICES ASSUME db'[j] # db[j],
                    db[j].storyJob = "completed" \/ db[j].emailJobs = {"completed"}
             PROVE  /\ db[j].storyJob = "completed" => db'[j].storyJob = "completed"
                    /\ db[j].emailJobs = {"completed"} => db'[j].emailJobs = {"completed"}
  OBVIOUS
<1>1. j \in accepted["email"] /\ j \in accepted["story"] /\ HandedOver(j)
  <2>1. j \in accepted["email"]
    BY <1>0, Origins DEF CourseOK, Recorded, SentOK
  <2> QED
    BY <1>0, <2>1, Origins DEF CourseOK
<1>2. api[j] = "idle"
  BY <1>0, <1>1 DEF RequestedOnce
<1>3. CASE db[j].story = "absent" /\ db'[j].storyJob = db[j].storyJob /\ db'[j].emailJobs = db[j].emailJobs
  BY <1>3
<1>4. ASSUME NEW w \in Workers, HoldsJob(w, StageOf(w), j), Writes(w, j, db'[j])
      PROVE  /\ db[j].storyJob = "completed" => db'[j].storyJob = "completed"
             /\ db[j].emailJobs = {"completed"} => db'[j].emailJobs = {"completed"}
  <2> DEFINE status == StatusOf(worker[w].phase)
  <2>1. StageOf(w) = "story" => worker[w].phase = "success" /\ worker[w].call = "Update"
    BY <1>1, <1>4 DEF HandedOver
  <2>2. CASE StageOf(w) = "story"
    <3>1. db'[j] = UpdateStoryJob(db[j], status) /\ status = "completed"
      BY <1>4, <2>1, <2>2 DEF Writes, StatusOf
    <3>2. /\ db'[j].emailJobs = db[j].emailJobs
          /\ db'[j].storyJob = IF db[j].storyJob = "absent" THEN "absent" ELSE "completed"
      BY <1>0, <3>1, UpdateStoryColumns
    <3> QED
      BY <3>2
  <2>3. CASE StageOf(w) = "email"
    <3>1. db'[j] = UpdateEmailJob(db[j], status)
      BY <1>4, <2>3 DEF Writes
    <3>2. db[j].emailJobs = {"completed"} => worker[w].phase = "success"
      BY <1>0, <1>4, <2>3 DEF CourseOK, Recorded, SentOK
    <3>3. db[j].emailJobs = {"completed"} => status = "completed"
      BY <3>2 DEF StatusOf
    <3>4. /\ db'[j].storyJob = db[j].storyJob
          /\ db'[j].emailJobs = IF db[j].emailJobs = {} THEN {} ELSE {status}
      BY <1>0, <3>1, UpdateEmailColumns
    <3> QED
      BY <3>3, <3>4
  <2> QED
    BY <1>0, <2>2, <2>3, Domains
<1> QED
  BY <1>0, <1>2, <1>3, <1>4, RowWrites DEF DeleteUserByID

-----------------------------------------------------------------------------
(* How the moves change the places of a job, continued from JobPathProofs.  *)

LEMMA AsksPlaces ==
  ASSUME IInv, NEW k \in Jobs, Asks(k), NEW s \in Stage, NEW j
  PROVE  /\ Waiting(s, j)' = Waiting(s, j) \cup IF s = "story" /\ k = j
                                                THEN {Added(queue["story"], [job |-> k, retry |-> 0])} ELSE {}
         /\ Retrying(s, j)' = Retrying(s, j) /\ Working(s, j)' = Working(s, j)
<1> DEFINE m == [job |-> k, retry |-> 0]
<1>1. QueueGoes("story", XAdd(queue["story"], m)) /\ UNCHANGED <<worker, scheduler>> /\ m.job = k
  BY DEF Asks
<1> HIDE DEF m
<1>2. /\ Waiting(s, j)' = Waiting(s, j) \cup IF s = "story" /\ m.job = j THEN {Added(queue["story"], m)} ELSE {}
      /\ queue'[s].retry = queue[s].retry
  BY <1>1, AddWaiting, Domains
<1> QED
  BY <1>1, <1>2, WorkingSame DEF Retrying, m

LEMMA TickPlaces ==
  ASSUME IInv, NEW p \in Schedulers, Tick(p), NEW s \in Stage, NEW j
  PROVE  Waiting(s, j)' = Waiting(s, j) /\ Retrying(s, j)' = Retrying(s, j) /\ Working(s, j)' = Working(s, j)
<1>1. scheduler'[p].removing = scheduler[p].removing /\ \A o \in Schedulers \ {p} : scheduler'[o] = scheduler[o]
  BY Domains DEF Tick, Scheduler
<1>2. \A o \in Schedulers : scheduler'[o].removing = scheduler[o].removing
  BY <1>1
<1>3. UNCHANGED <<queue, worker>>
  BY DEF Tick
<1> QED
  BY <1>2, <1>3, WorkingSame DEF Waiting, Undelivered, Retrying

LEMMA RowPlaces ==
  ASSUME RowStep, NEW s \in Stage, NEW j
  PROVE  Waiting(s, j)' = Waiting(s, j) /\ Retrying(s, j)' = Retrying(s, j) /\ Working(s, j)' = Working(s, j)
BY WorkingSame DEF RowStep, Waiting, Undelivered, Retrying

\* A member that is about to be added again waits in the retry set.
LEMMA BatchRetrying ==
  ASSUME Course, NEW p \in Schedulers, NEW m \in scheduler[p].batch, scheduler[p].removing = None
  PROVE  m \in Retrying(StageOf(p), m.job) /\ m.job \in Jobs /\ m.job \in accepted[StageOf(p)] /\ m \in Member
<1>1. m \in queue[StageOf(p)].retry
  BY CourseFacts DEF BatchOK
<1>2. m \in Member /\ m # None /\ m.job \in Jobs
  BY <1>1, CourseFacts, Domains, PoolsAssumption DEF QueueState, Member
<1>3. m.job \in accepted[StageOf(p)]
  BY CourseFacts DEF IInv, OriginOK
<1>4. \A o \in Schedulers : StageOf(o) = StageOf(p) => scheduler[o].removing # m
  BY <1>2, CourseFacts
<1> QED
  BY <1>1, <1>2, <1>3, <1>4 DEF Retrying

\* Only its own step changes a worker.
LEMMA WorkerSame ==
  ASSUME IInv, FaultlessMove, NEW v \in Workers, worker'[v] # worker[v]
  PROVE  WorkerStep(v) /\ (Takes(v) \/ (Handles(v) /\ HandlerMove(v)))
<1>1. ASSUME NEW w \in Workers, Takes(w) \/ (Handles(w) /\ HandlerMove(w)), w # v PROVE FALSE
  BY <1>1, HandlerGoes, Domains DEF Takes, TakesThe, Goes
<1> QED
  BY <1>1 DEF FaultlessMove, RowStep, Asks, SchedulerMove, Tick, Readds, Removes

-----------------------------------------------------------------------------
(* Nothing comes back: a job a stage has done with is not put there again.  *)

Unplaced(s, j) == Waiting(s, j) = {} /\ Retrying(s, j) = {} /\ Working(s, j) = {}

\* What a worker of s holds of j after a step it held before, when none waited.
LEMMA HoldsStep ==
  ASSUME IInv, FaultlessMove, NEW s \in Stage, NEW j, Waiting(s, j) = {},
         NEW v \in Workers, HoldsJob(v, s, j)'
  PROVE  HoldsJob(v, s, j) /\ worker'[v].msg = worker[v].msg
                           /\ \/ worker'[v] = worker[v]
                              \/ WorkerStep(v) /\ Handles(v) /\ HandlerMove(v)
<1>1. CASE worker'[v] = worker[v]
  BY <1>1 DEF HoldsJob, Held, HeldJob
<1>2. ASSUME NEW e \in queue[StageOf(v)].entries, TakesThe(v, e) PROVE FALSE
  <2>1. worker'[v] = Started(StageOf(v), e)
    BY <1>2, Domains DEF TakesThe, Goes
  <2>2. worker'[v].msg = e
    BY <2>1, Domains, StartedFacts
  <2>3. StageOf(v) = s /\ e.job = j
    BY <2>2 DEF HoldsJob, HeldJob
  <2>4. e \in Waiting(s, j)
    BY <1>2, <2>3 DEF TakesThe, IsNext, Waiting
  <2> QED
    BY <2>4
<1>3. CASE WorkerStep(v) /\ Handles(v) /\ HandlerMove(v)
  <2>1. worker'[v] # Idle
    BY DEF HoldsJob, Held, Idle
  <2>2. worker'[v].msg = worker[v].msg
    BY <1>3, <2>1, HandlerGoes
  <2> QED
    BY <1>3, <2>2 DEF HoldsJob, Held, HeldJob
<1>4. worker'[v] # worker[v] => WorkerStep(v) /\ (Takes(v) \/ (Handles(v) /\ HandlerMove(v)))
  BY WorkerSame
<1> QED
  BY <1>1, <1>2, <1>3, <1>4 DEF Takes

LEMMA UnplacedStep ==
  ASSUME Course, FaultlessMove, NEW j \in accepted["story"], NEW s \in Stage,
         Unplaced(s, j), Working("story", j) = {}
  PROVE  Unplaced(s, j)'
<1>0. IInv /\ faults = 0 /\ j \in Jobs /\ RequestedOnce(j)
  BY CourseFacts, Origins
<1>1. ASSUME NEW k \in Jobs, Asks(k) PROVE Unplaced(s, j)'
  <2>1. k # j
    BY <1>0, <1>1 DEF Asks, RequestedOnce
  <2>2. Waiting(s, j)' = Waiting(s, j) /\ Retrying(s, j)' = Retrying(s, j) /\ Working(s, j)' = Working(s, j)
    <3>1. /\ Waiting(s, j)' = Waiting(s, j) \cup IF s = "story" /\ k = j
                                                  THEN {Added(queue["story"], [job |-> k, retry |-> 0])} ELSE {}
          /\ Retrying(s, j)' = Retrying(s, j) /\ Working(s, j)' = Working(s, j)
      BY <1>0, <1>1, AsksPlaces
    <3> QED
      BY <2>1, <3>1
  <2> QED
    BY <2>2 DEF Unplaced
<1>2. CASE RowStep
  BY <1>2, RowPlaces DEF Unplaced
<1>3. ASSUME NEW w \in Workers, NEW e \in queue[StageOf(w)].entries, TakesThe(w, e) PROVE Unplaced(s, j)'
  <2>1. e \in Waiting(StageOf(w), e.job)
    BY <1>3 DEF TakesThe, IsNext, Waiting
  <2>2. ~(s = StageOf(w) /\ e.job = j)
    BY <2>1 DEF Unplaced
  <2> QED
    BY <1>0, <1>3, <2>2, TakesPlaces DEF Unplaced
<1>4. ASSUME NEW w \in Workers, Handles(w), HandlerMove(w) PROVE Unplaced(s, j)'
  <2>1. CASE Forwards(w)
    <3>1. HeldJob(w) # j
      BY <1>4, <2>1 DEF Forwards, Handles, Working, HoldsJob, Busy
    <3> QED
      BY <1>0, <1>4, <2>1, <3>1, ForwardsPlaces DEF Unplaced
  <2>2. CASE Schedules(w)
    <3>1. ~(s = StageOf(w) /\ HeldJob(w) = j)
      BY <1>4, <2>2 DEF Unplaced, Schedules, Handles, Working, HoldsJob, Busy
    <3>2. /\ Waiting(s, j)' = Waiting(s, j)
          /\ Retrying(s, j)' \subseteq Retrying(s, j) \cup IF s = StageOf(w) /\ HeldJob(w) = j THEN {RetryOf(w)} ELSE {}
          /\ Working(s, j)' = Working(s, j) \ {w}
      BY <1>0, <1>4, <2>2, SchedulesPlaces
    <3> QED
      BY <3>1, <3>2 DEF Unplaced
  <2>3. CASE ~Forwards(w) /\ ~Schedules(w)
    BY <1>0, <1>4, <2>3, HandlerPlaces DEF Unplaced
  <2> QED
    BY <2>1, <2>2, <2>3
<1>5. ASSUME NEW p \in Schedulers, NEW m \in scheduler[p].batch, Readds(p, m) PROVE Unplaced(s, j)'
  <2>1. m \in Retrying(StageOf(p), m.job)
    BY <1>5, BatchRetrying DEF Readds
  <2>2. ~(s = StageOf(p) /\ m.job = j)
    BY <2>1 DEF Unplaced
  <2> QED
    BY <1>0, <1>5, <2>2, ReaddsPlaces DEF Unplaced
<1>6. ASSUME NEW p \in Schedulers, Removes(p) \/ Tick(p) PROVE Unplaced(s, j)'
  BY <1>0, <1>6, RemovesPlaces, TickPlaces DEF Unplaced
<1> QED
  BY <1>1, <1>2, <1>3, <1>4, <1>5, <1>6 DEF FaultlessMove, SchedulerMove, Takes

\* The last call of a successful handler, and the only way it goes.
LEMMA SuccessMove ==
  ASSUME IInv, NEW w \in Workers, Handles(w), HandlerMove(w), worker[w].phase = "success"
  PROVE  /\ worker'[w] = Idle \/ worker'[w].phase = "success"
         /\ worker[w].call = "Update" => worker'[w] = Idle
<1>1. \/ Acknowledges(w) \/ Deletes(w) \/ Forwards(w)
      \/ Finishes(w)
  BY DEF HandlerMove, Executes, Achieves, GivesUp, DeadLetters, Schedules, Dies
<1>2. CASE Acknowledges(w) \/ Deletes(w) \/ Forwards(w)
  BY <1>2, GoesAt DEF Acknowledges, Deletes, Forwards
<1>3. CASE Finishes(w)
  BY <1>3, GoesFacts DEF Finishes, Goes
<1> QED
  BY <1>1, <1>2, <1>3 DEF Acknowledges, Deletes, Forwards

\* Who has forwarded a job has it from then on at its last call only.
LEMMA HandedOverStep ==
  ASSUME Course, FaultlessMove, NEW j \in Jobs, j \in accepted["email"]
  PROVE  HandedOver(j)'
<1>0. IInv /\ HandedOver(j) /\ j \in accepted["story"] /\ "story" \in Stage
  BY CourseFacts, Origins, Domains DEF CourseOK
<1>1. Unplaced("story", j)
  BY <1>0 DEF HandedOver, Unplaced, Working, Busy
<1>2. Unplaced("story", j)'
  BY <1>0, <1>1, UnplacedStep DEF Unplaced
<1>3. ASSUME NEW w \in Workers, HoldsJob(w, "story", j)'
      PROVE  worker'[w].phase = "success" /\ worker'[w].call = "Update"
  <2>1. /\ HoldsJob(w, "story", j)
        /\ worker'[w] = worker[w] \/ (Handles(w) /\ HandlerMove(w))
    BY <1>0, <1>1, <1>3, HoldsStep DEF Unplaced
  <2>2. worker[w].phase = "success" /\ worker[w].call = "Update"
    BY <1>0, <2>1 DEF HandedOver
  <2>3. worker'[w] # Idle
    BY <1>3 DEF HoldsJob, Held, Idle
  <2> QED
    BY <1>0, <2>1, <2>2, <2>3, SuccessMove
<1> QED
  BY <1>2, <1>3 DEF HandedOver, Unplaced

\* The worker that forwards a job was its only place.
LEMMA NewlyForwarded ==
  ASSUME Course, FaultlessMove, NEW j \in Jobs, j \notin accepted["email"], j \in accepted'["email"]
  PROVE  (HandedOver(j) /\ StoryStatusOK(j))'
<1>0. IInv /\ OnePlace(j) /\ "story" \in Stage /\ "email" \in Stage
  BY CourseFacts, Domains
<1>1. PICK w \in Workers : Handles(w) /\ Forwards(w)
  <2>1. ASSUME NEW k \in Jobs, Asks(k) PROVE FALSE
    BY <1>0, <2>1, Domains DEF Asks
  <2> QED
    BY <2>1 DEF FaultlessMove, RowStep, Takes, TakesThe, HandlerMove, Executes, Achieves, GivesUp,
       DeadLetters, Acknowledges, Deletes, Schedules, Dies, Finishes, SchedulerMove, Tick, Readds, Removes
<1>2. HeldJob(w) = j
  BY <1>0, <1>1, Domains DEF Forwards
<1>3. HoldsJob(w, "story", j) /\ w \in Working("story", j)
  BY <1>1, <1>2 DEF Forwards, Handles, Working, HoldsJob, Busy
<1>4. worker'[w].phase = "success" /\ worker'[w].call = "Update" /\ worker'[w].msg = worker[w].msg
  BY <1>0, <1>1, GoesAt DEF Forwards
<1>5. HoldsJob(w, "story", j)'
  BY <1>3, <1>4 DEF HoldsJob, Held, HeldJob
<1>6. Waiting("story", j)' = {} /\ Retrying("story", j)' = {}
  <2>1. Waiting("story", j) = {} /\ Retrying("story", j) = {}
    BY <1>0, <1>3, OnlyPlace
  <2>2. /\ Waiting("story", j)' = Waiting("story", j) \cup IF "story" = "email" /\ HeldJob(w) = j
                                                        THEN {Added(queue["email"], MemberOf(worker[w].msg))} ELSE {}
        /\ Retrying("story", j)' = Retrying("story", j)
    BY <1>0, <1>1, ForwardsPlaces
  <2> QED
    BY <2>1, <2>2
<1>7. \A v \in Workers : HoldsJob(v, "story", j)' => v = w
  BY <1>5, CourseFacts DEF HoldsJob
<1> QED
  BY <1>4, <1>5, <1>6, <1>7 DEF HandedOver, StoryStatusOK

\* Without a failed call the last call writes what it should.
LEMMA UpdateWrites ==
  ASSUME IInv, NEW w \in Workers, WorkerStep(w), ~Fault, worker[w].call = "Update"
  PROVE  LET r == db[HeldJob(w)]  status == StatusOf(worker[w].phase) IN
         HeldJob(w) \in Jobs /\
         db'[HeldJob(w)] = IF StageOf(w) = "story" THEN UpdateStoryJob(r, status) ELSE UpdateEmailJob(r, status)
<1> DEFINE k == worker[w].msg.job
           status == StatusOf(worker[w].phase)
<1>1. Update(w)
  BY DEF WorkerStep, Calls, Read, GenerateStory, StoreStory, StoreEmailJob, SendNotificationEmail,
     Ack, Delete, Forward, AddToDLQ, ScheduleRetry
<1>2. db' = [db EXCEPT ![k] = IF StageOf(w) = "story" THEN UpdateStoryJob(db[k], status) ELSE UpdateEmailJob(db[k], status)]
  BY <1>1 DEF Update
<1>3. k \in Jobs
  BY WorkerFacts DEF Member, MemberOf
<1> QED
  BY <1>2, <1>3, Domains DEF HeldJob

\* The status of the story job, or the worker that will write it, stays.
LEMMA StoryStatusStep ==
  ASSUME Course, [Next]_vars, Calm', NEW j \in Jobs, j \in accepted["email"]
  PROVE  StoryStatusOK(j)'
<1>0. IInv /\ HandedOver(j) /\ StoryStatusOK(j) /\ j \in accepted["story"] /\ RequestedOnce(j) /\ "story" \in Stage
  BY CourseFacts, Origins, Domains DEF CourseOK
<1>1. FaultlessMove /\ ~Fault
  <2>1. faults \in Nat
    BY <1>0 DEF IInv, TypeOK
  <2> QED
    BY <1>0, <2>1, CalmStep DEF Fault, Calm
<1> SUFFICES ASSUME db'[j].user PROVE StoryStatusOK(j)'
  BY DEF StoryStatusOK
<1>2. db[j].user
  BY <1>0, RowWrites
<1>3. CASE db[j].storyJob = "completed"
  BY <1>3, CompletedKept DEF StoryStatusOK
<1>4. ASSUME NEW w \in Workers, HoldsJob(w, "story", j) PROVE StoryStatusOK(j)'
  <2>1. worker[w].phase = "success" /\ worker[w].call = "Update"
    BY <1>0, <1>4 DEF HandedOver
  <2>2. CASE worker'[w] = worker[w]
    BY <1>4, <2>2 DEF StoryStatusOK, HoldsJob, Held, HeldJob
  <2>3. CASE worker'[w] # worker[w]
    <3>1. WorkerStep(w)
      BY <1>0, <1>1, <2>3, WorkerSame
    <3>2. HeldJob(w) = j /\ StageOf(w) = "story" /\ StatusOf(worker[w].phase) = "completed"
      BY <1>4, <2>1 DEF HoldsJob, StatusOf
    <3>3. db'[j] = UpdateStoryJob(db[j], "completed")
      BY <1>0, <1>1, <2>1, <3>1, <3>2, UpdateWrites
    <3>4. db[j].storyJob # "absent" /\ db[j] \in UserRows
      BY <1>0, <1>2, Domains DEF RequestedOnce
    <3>5. db'[j].storyJob = "completed"
      BY <3>3, <3>4, UpdateStoryColumns
    <3> QED
      BY <3>5 DEF StoryStatusOK
  <2> QED
    BY <2>2, <2>3
<1> QED
  BY <1>0, <1>2, <1>3, <1>4 DEF StoryStatusOK

\* Nothing leaves the histories.
LEMMA HistoryGrows ==
  ASSUME IInv, [Next]_vars, NEW s \in Stage
  PROVE  accepted[s] \subseteq accepted'[s] /\ mailed \subseteq mailed'
<1>1. ASSUME NEW t, NEW X, accepted' = [accepted EXCEPT ![t] = @ \cup X]
      PROVE  accepted[s] \subseteq accepted'[s]
  BY <1>1, Domains
<1>2. ASSUME NEW w \in Workers, WorkerStep(w)
      PROVE  accepted[s] \subseteq accepted'[s] /\ mailed \subseteq mailed'
  <2>1. CASE Forward(w)
    <3>1. UNCHANGED mailed /\ \/ accepted' = [accepted EXCEPT !["email"] = @ \cup {MemberOf(worker[w].msg).job}]
                              \/ UNCHANGED accepted
      BY <2>1 DEF Forward
    <3> QED
      BY <1>1, <3>1
  <2>2. CASE ~Forward(w)
    BY <1>2, <2>2 DEF WorkerStep, Read, GenerateStory, StoreStory, StoreEmailJob, SendNotificationEmail,
       Ack, Delete, AddToDLQ, ScheduleRetry, Update, ExecuterWrite
  <2> QED
    BY <2>1, <2>2
<1>3. ASSUME NEW j \in Jobs, Request(j) \/ DeleteUser(j)
      PROVE  accepted[s] \subseteq accepted'[s] /\ mailed \subseteq mailed'
  BY <1>1, <1>3 DEF Request, RequestStory, RequestStoryJob, RequestAdd, DeleteUser
<1> QED
  BY <1>2, <1>3 DEF Next, Tick, Reenqueue, Remove, Restart, vars

\* Only a forwarded job is completed.
LEMMA CompletedStep ==
  ASSUME Course, [Next]_vars, NEW j \in Jobs, db'[j].storyJob = "completed"
  PROVE  j \in accepted'["email"]
<1>0. IInv /\ CourseOK(j) /\ db[j] \in UserRows /\ "email" \in Stage /\ \A w \in Workers : ForwardedOK(w)
  BY CourseFacts, Domains
<1> SUFFICES j \in accepted["email"]
  BY <1>0, HistoryGrows
<1>1. CASE db[j].storyJob = "completed"
  BY <1>0, <1>1 DEF CourseOK
<1>2. ASSUME NEW w \in Workers, HoldsJob(w, StageOf(w), j), Writes(w, j, db'[j]), db[j].storyJob # "completed"
      PROVE  j \in accepted["email"]
  <2> DEFINE status == StatusOf(worker[w].phase)
  <2>1. db'[j] = UpdateStoryJob(db[j], status) /\ worker[w].call = "Update" /\ StageOf(w) = "story"
    <3>1. /\ UploadStory(db[j]).storyJob = db[j].storyJob /\ SaveEmailJob(db[j]).storyJob = db[j].storyJob
          /\ UpdateEmailJob(db[j], status).storyJob = db[j].storyJob
      BY <1>0, StoreColumns, UpdateEmailColumns
    <3> QED
      BY <1>2, <3>1 DEF Writes
  <2>2. db'[j].storyJob = IF db[j].storyJob = "absent" THEN "absent" ELSE status
    BY <1>0, <2>1, UpdateStoryColumns
  <2>3. worker[w].phase \in {"success", "dlq", "failure"}
    BY <1>0, <2>1, WorkerFacts DEF InMethod, CallsOf
  <2>4. worker[w].phase = "success"
    BY <2>2, <2>3 DEF StatusOf
  <2> QED
    BY <1>0, <1>2, <2>1, <2>4 DEF ForwardedOK, HoldsJob
<1> QED
  BY <1>0, <1>1, <1>2, RowWrites DEF DeleteUserByID

\* OnSuccess of the story stage gets past Add only with the job forwarded.
LEMMA ForwardedStep ==
  ASSUME Course, [Next]_vars, FaultlessMove, NEW w \in Workers
  PROVE  ForwardedOK(w)'
<1>0. IInv /\ ForwardedOK(w) /\ "email" \in Stage
  BY CourseFacts, Domains
<1> SUFFICES ASSUME StageOf(w) = "story", worker'[w].phase = "success", worker'[w].call = "Update"
             PROVE  worker'[w].msg.job \in accepted'["email"]
  BY DEF ForwardedOK, HeldJob
<1>1. CASE worker'[w] = worker[w]
  BY <1>0, <1>1, HistoryGrows DEF ForwardedOK, HeldJob
<1>2. CASE worker'[w] # worker[w]
  <2>1. ~Takes(w)
    <3>1. ASSUME NEW e, TakesThe(w, e) PROVE FALSE
      <4>1. worker'[w] = Started(StageOf(w), e)
        BY <1>0, <3>1, Domains DEF TakesThe, Goes
      <4> QED
        BY <1>0, <4>1, Domains, StartedFacts
    <3> QED
      BY <3>1 DEF Takes
  <2>2. Handles(w) /\ HandlerMove(w)
    BY <1>0, <1>2, <2>1, WorkerSame
  <2>3. CASE Forwards(w)
    <3>1. worker'[w].msg = worker[w].msg
      BY <1>0, <2>3, GoesAt DEF Forwards
    <3>2. HeldJob(w) \in accepted'["email"]
      BY <1>0, <2>3, Domains DEF Forwards
    <3> QED
      BY <3>1, <3>2 DEF HeldJob
  <2>4. ~Forwards(w) => FALSE
    <3> SUFFICES ASSUME HandlerMove(w), ~Forwards(w) PROVE FALSE
      BY <2>2
    <3>0. ASSUME NEW p, NEW c, Goes(w, At(worker[w], p, c)) PROVE p = "success" /\ c = "Update"
      BY <1>0, <3>0, GoesAt
    <3>1. ~Executes(w) /\ ~Achieves(w) /\ ~GivesUp(w) /\ ~DeadLetters(w) /\ ~Acknowledges(w) /\ ~Schedules(w) /\ ~Dies(w)
      BY <3>0 DEF Executes, Achieves, GivesUp, DeadLetters, Acknowledges, Schedules, Dies
    <3>2. ~Deletes(w)
      BY <3>0 DEF Deletes
    <3>3. ~Finishes(w)
      <4>1. worker'[w] # Idle
        BY DEF Idle
      <4> QED
        BY <1>0, <3>0, <4>1, GoesFacts DEF Finishes, Goes
    <3> QED
      BY <3>1, <3>2, <3>3 DEF HandlerMove
  <2> QED
    BY <2>3, <2>4
<1> QED
  BY <1>1, <1>2

-----------------------------------------------------------------------------
(* The mail is the last thing that happens to a job.                        *)

\* Once it is sent, nothing is left that could take the job up again.
LEMMA SentStep ==
  ASSUME Course, [Next]_vars, FaultlessMove, NEW j \in Jobs, SentOK(j)
  PROVE  SentOK(j)'
<1>0. IInv /\ "story" \in Stage /\ "email" \in Stage /\ j \in accepted["story"]
  BY CourseFacts, Origins, Domains DEF SentOK
<1>1. \A s \in Stage : Unplaced(s, j)
  BY DEF SentOK, HasPlace, Unplaced
<1>2. \A s \in Stage : Unplaced(s, j)'
  BY <1>0, <1>1, UnplacedStep DEF Unplaced
<1>3. ~HasPlace(j)'
  BY <1>2 DEF HasPlace, Unplaced
<1>4. ASSUME NEW w \in Workers, HoldsJob(w, "email", j)' PROVE worker'[w].phase = "success"
  <2>1. HoldsJob(w, "email", j) /\ (worker'[w] = worker[w] \/ (Handles(w) /\ HandlerMove(w)))
    BY <1>0, <1>1, <1>4, HoldsStep DEF Unplaced
  <2>2. worker[w].phase = "success" /\ worker'[w] # Idle
    BY <1>4, <2>1 DEF SentOK, HoldsJob, Held, Idle
  <2> QED
    BY <1>0, <2>1, <2>2, SuccessMove
<1>5. j \in mailed'
  BY <1>0, HistoryGrows DEF SentOK
<1> QED
  BY <1>3, <1>4, <1>5 DEF SentOK

\* It was the only place of the job where its mail was sent.
LEMMA AchievedSent ==
  ASSUME Course, NEW w \in Workers, Handles(w), Achieves(w), NEW j, HoldsJob(w, "email", j)
  PROVE  SentOK(j)'
<1>0. IInv /\ j \in Jobs /\ OnePlace(j) /\ "email" \in Stage
  BY CourseFacts, Domains DEF Handles, Entry, HoldsJob, HeldJob
<1>1. w \in Working("email", j) /\ HandlerMove(w) /\ ~Forwards(w) /\ ~Schedules(w)
  BY DEF Achieves, Handles, Working, HoldsJob, Busy, HandlerMove, Forwards, Schedules
<1>2. worker'[w].phase = "success" /\ worker'[w].msg = worker[w].msg
  BY <1>0, GoesAt DEF Achieves
<1>3. ASSUME NEW s \in Stage PROVE Waiting(s, j)' = {} /\ Retrying(s, j)' = {} /\ Working(s, j)' = {}
  <2>1. Working(s, j) \subseteq {w} /\ Waiting(s, j) = {} /\ Retrying(s, j) = {}
    BY <1>0, <1>1, OnlyPlace
  <2>2. Waiting(s, j)' = Waiting(s, j) /\ Retrying(s, j)' = Retrying(s, j) /\ Working(s, j)' \subseteq Working(s, j)
    BY <1>0, <1>1, HandlerPlaces
  <2>3. w \notin Working(s, j)'
    BY <1>2 DEF Working, Busy, HoldsJob
  <2> QED
    BY <2>1, <2>2, <2>3
<1>4. ~HasPlace(j)'
  BY <1>3 DEF HasPlace
<1>5. \A v \in Workers : HoldsJob(v, "email", j)' => v = w
  BY CourseFacts DEF HoldsJob
<1>6. j \in mailed'
  BY DEF Achieves, HoldsJob
<1> QED
  BY <1>2, <1>4, <1>5, <1>6 DEF SentOK

LEMMA RecordedStep ==
  ASSUME Course, [Next]_vars, FaultlessMove, NEW j \in Jobs, Recorded(j)'
  PROVE  SentOK(j)'
<1>0. IInv /\ CourseOK(j) /\ db[j] \in UserRows /\ "email" \in Stage
  BY CourseFacts, Domains
<1>1. CASE Recorded(j)
  BY <1>0, <1>1, SentStep DEF CourseOK
<1>2. ASSUME NEW w \in Workers, HoldsJob(w, "email", j)', worker'[w].phase = "success", ~Recorded(j)
      PROVE  SentOK(j)'
  <2>1. worker'[w] # worker[w]
    BY <1>2 DEF Recorded, HoldsJob, Held, HeldJob
  <2>2. ~Takes(w)
    <3>1. ASSUME NEW e, TakesThe(w, e) PROVE FALSE
      <4>1. worker'[w] = Started(StageOf(w), e)
        BY <1>0, <3>1, Domains DEF TakesThe, Goes
      <4> QED
        BY <1>0, <1>2, <4>1, Domains, StartedFacts
    <3> QED
      BY <3>1 DEF Takes
  <2>3. Handles(w) /\ HandlerMove(w)
    BY <1>0, <2>1, <2>2, WorkerSame
  <2>4. worker'[w] # Idle
    BY <1>2 DEF Idle
  <2>5. worker'[w].msg = worker[w].msg
    BY <1>0, <2>3, <2>4, HandlerGoes
  <2>6. HoldsJob(w, "email", j) /\ worker[w].phase # "success" /\ StageOf(w) = "email"
    BY <1>2, <2>5 DEF Recorded, HoldsJob, Held, HeldJob
  <2>7. Achieves(w)
    <3>0. ASSUME NEW p, NEW c, Goes(w, At(worker[w], p, c)) PROVE p = "success"
      BY <1>0, <1>2, <3>0, GoesAt
    <3>1. ~Executes(w) /\ ~GivesUp(w) /\ ~DeadLetters(w) /\ ~Schedules(w) /\ ~Dies(w)
      BY <3>0 DEF Executes, GivesUp, DeadLetters, Schedules, Dies
    <3>2. ~Acknowledges(w) /\ ~Deletes(w) /\ ~Forwards(w)
      BY <2>6, <3>0 DEF Acknowledges, Deletes, Forwards
    <3>3. ~Finishes(w)
      BY <1>0, <2>4, <3>0, GoesFacts DEF Finishes, Goes
    <3> QED
      BY <2>3, <3>1, <3>2, <3>3 DEF HandlerMove
  <2> QED
    BY <2>3, <2>6, <2>7, AchievedSent
<1>3. ASSUME db'[j].emailJobs = {"completed"}, ~Recorded(j) PROVE FALSE
  <2>1. db'[j] # db[j] /\ db[j].emailJobs # {"completed"}
    BY <1>3 DEF Recorded
  <2>2. ASSUME NEW w \in Workers, HoldsJob(w, StageOf(w), j), Writes(w, j, db'[j]) PROVE FALSE
    <3> DEFINE status == StatusOf(worker[w].phase)
    <3>1. UploadStory(db[j]).emailJobs = db[j].emailJobs /\ UpdateStoryJob(db[j], status).emailJobs = db[j].emailJobs
      BY <1>0, StoreColumns, UpdateStoryColumns
    <3>2. SaveEmailJob(db[j]).emailJobs # {"completed"}
      BY <1>0, <2>1 DEF SaveEmailJob, UserRows
    <3>3. db'[j] = UpdateEmailJob(db[j], status) /\ worker[w].call = "Update" /\ StageOf(w) = "email"
      BY <1>3, <2>1, <2>2, <3>1, <3>2 DEF Writes
    <3>4. db'[j].emailJobs = IF db[j].emailJobs = {} THEN {} ELSE {status}
      BY <1>0, <3>3, UpdateEmailColumns
    <3>5. worker[w].phase \in {"success", "dlq", "failure"}
      BY <1>0, <3>3, WorkerFacts DEF InMethod, CallsOf
    <3>6. status = "completed"
      BY <1>3, <3>4
    <3>7. worker[w].phase = "success"
      BY <3>5, <3>6 DEF StatusOf
    <3> QED
      BY <1>3, <2>2, <3>3, <3>7 DEF Recorded
  <2> QED
    BY <1>0, <1>3, <2>1, <2>2, RowWrites DEF DeleteUserByID
<1> QED
  BY <1>1, <1>2, <1>3 DEF Recorded

-----------------------------------------------------------------------------
(* Between Add and ZRem of ReEnqueue.                                       *)

\* No place of the job is new, and its workers keep their message.
LEMMA NewerKept ==
  ASSUME NEW s, NEW j, NEW r, NewerThan(s, j, r),
         Waiting(s, j)' \subseteq Waiting(s, j), Retrying(s, j)' \subseteq Retrying(s, j),
         Working(s, j)' \subseteq Working(s, j), \A w \in Working(s, j)' : worker'[w].msg = worker[w].msg
  PROVE  NewerThan(s, j, r)'
BY DEF NewerThan

\* A handler does not change the message of a worker that goes on to work.
LEMMA HandlerMessages ==
  ASSUME IInv, NEW w \in Workers, Handles(w), HandlerMove(w), NEW s, NEW j, NEW v \in Working(s, j)'
  PROVE  worker'[v].msg = worker[v].msg
<1>1. v \in Workers /\ worker'[v].msg # None
  BY DEF Working, HoldsJob, Held
<1>2. worker'[v] # Idle
  BY <1>1 DEF Idle
<1> QED
  BY <1>1, <1>2, HandlerGoes

LEMMA NewerWorker ==
  ASSUME Course, NEW w \in Workers, Takes(w) \/ (Handles(w) /\ HandlerMove(w)),
         NEW s \in Stage, NEW j \in accepted[s], NEW r \in Nat, NewerThan(s, j, r)
  PROVE  NewerThan(s, j, r)'
<1> DEFINE t == StageOf(w)
<1>0. IInv /\ j \in Jobs /\ CourseOK(j) /\ t \in Stage
  BY CourseFacts, Domains
<1>1. ASSUME NEW e \in queue[t].entries, TakesThe(w, e) PROVE NewerThan(s, j, r)'
  <2>1. /\ Waiting(s, j)' = Waiting(s, j) \ IF s = t THEN {e} ELSE {}
        /\ Retrying(s, j)' = Retrying(s, j)
        /\ Working(s, j)' = Working(s, j) \cup IF s = t /\ e.job = j THEN {w} ELSE {}
    BY <1>0, <1>1, TakesPlaces
  <2>2. worker'[w] = Started(t, e) /\ worker[w].msg = None /\ \A v \in Workers \ {w} : worker'[v] = worker[v]
    BY <1>0, <1>1, Domains DEF TakesThe, Goes, Idle
  <2>3. worker'[w].msg = e
    BY <1>0, <2>2, StartedFacts
  <2>4. s = t /\ e.job = j => e \in Waiting(s, j)
    BY <1>1 DEF TakesThe, IsNext, Waiting
  <2>5. ASSUME NEW v \in Working(s, j)' PROVE worker'[v].msg.retry >= r
    <3>1. CASE v = w
      <4>1. w \notin Working(s, j)
        BY <2>2 DEF Working, HoldsJob, Held
      <4>2. e \in Waiting(s, j)
        BY <2>1, <2>4, <2>5, <3>1, <4>1
      <4> QED
        BY <2>3, <3>1, <4>2 DEF NewerThan
    <3>2. CASE v # w
      <4>1. v \in Working(s, j) /\ v \in Workers
        BY <2>1, <2>5, <3>2 DEF Working
      <4> QED
        BY <2>2, <3>2, <4>1 DEF NewerThan
    <3> QED
      BY <3>1, <3>2
  <2> QED
    BY <2>1, <2>5 DEF NewerThan
<1>2. CASE Handles(w) /\ Forwards(w)
  <2>1. HandlerMove(w)
    BY <1>2 DEF HandlerMove
  <2>2. ~(s = "email" /\ HeldJob(w) = j)
    BY <1>0, <1>2 DEF CourseOK, HandedOver, Forwards, Handles, HoldsJob
  <2>3. /\ Waiting(s, j)' = Waiting(s, j) \cup IF s = "email" /\ HeldJob(w) = j
                                                 THEN {Added(queue["email"], MemberOf(worker[w].msg))} ELSE {}
        /\ Retrying(s, j)' = Retrying(s, j) /\ Working(s, j)' = Working(s, j) \ {w}
    BY <1>0, <1>2, ForwardsPlaces
  <2>4. \A v \in Working(s, j)' : worker'[v].msg = worker[v].msg
    BY <1>0, <1>2, <2>1, HandlerMessages
  <2>5. Waiting(s, j)' \subseteq Waiting(s, j)
    BY <2>2, <2>3
  <2> QED
    BY <2>3, <2>4, <2>5, NewerKept
<1>3. CASE Handles(w) /\ Schedules(w)
  <2>1. HandlerMove(w)
    BY <1>3 DEF HandlerMove
  <2>2. /\ Waiting(s, j)' = Waiting(s, j)
        /\ Retrying(s, j)' \subseteq Retrying(s, j) \cup IF s = t /\ HeldJob(w) = j THEN {RetryOf(w)} ELSE {}
        /\ Working(s, j)' = Working(s, j) \ {w}
    BY <1>0, <1>3, SchedulesPlaces
  <2>3. \A v \in Working(s, j)' : worker'[v].msg = worker[v].msg
    BY <1>0, <1>3, <2>1, HandlerMessages
  <2>4. ASSUME s = t, HeldJob(w) = j PROVE RetryOf(w).retry > r
    <3>1. w \in Working(s, j)
      BY <1>3, <2>4 DEF Schedules, Handles, Working, HoldsJob, Busy
    <3>2. worker[w].msg.retry >= r /\ worker[w].msg.retry \in Nat
      BY <1>3, <3>1 DEF NewerThan, Handles, Entry
    <3> QED
      BY <3>2 DEF RetryOf
  <2>5. \A n \in Retrying(s, j)' : n.retry > r
    BY <2>2, <2>4 DEF NewerThan
  <2> QED
    BY <2>2, <2>3, <2>5 DEF NewerThan
<1>4. CASE Handles(w) /\ HandlerMove(w) /\ ~Forwards(w) /\ ~Schedules(w)
  <2>1. /\ Waiting(s, j)' = Waiting(s, j) /\ Retrying(s, j)' = Retrying(s, j)
        /\ Working(s, j)' \subseteq Working(s, j)
    BY <1>0, <1>4, HandlerPlaces
  <2>2. \A v \in Working(s, j)' : worker'[v].msg = worker[v].msg
    BY <1>0, <1>4, HandlerMessages
  <2> QED
    BY <2>1, <2>2, NewerKept
<1> QED
  BY <1>1, <1>2, <1>3, <1>4 DEF Takes

\* The member being removed stays the oldest there is of its job.
LEMMA RemovingStep ==
  ASSUME Course, [Next]_vars, FaultlessMove, NEW p \in Schedulers
  PROVE  RemovingOld(p)'
<1> DEFINE s == StageOf(p)
<1>0. IInv /\ RemovingOld(p) /\ s \in Stage
  BY CourseFacts, Domains
<1> SUFFICES ASSUME NEW m, m = scheduler'[p].removing, m # None
             PROVE  m.job \in accepted'[s] /\ NewerThan(s, m.job, m.retry)'
  BY DEF RemovingOld, NewerThan, Waiting, Retrying, Working, HoldsJob
<1>1. ASSUME m \in scheduler[p].batch, Readds(p, m) PROVE m.job \in accepted'[s] /\ NewerThan(s, m.job, m.retry)'
  <2>1. m \in Retrying(s, m.job) /\ m.job \in Jobs /\ m.job \in accepted[s] /\ m \in Member
    BY <1>1, BatchRetrying DEF Readds
  <2>2. OnePlace(m.job)
    BY <2>1, CourseFacts
  <2>3. Retrying(s, m.job) = {m} /\ Waiting(s, m.job) = {} /\ Working(s, m.job) = {}
    BY <1>0, <2>1, <2>2, OnlyPlace
  <2>4. /\ Waiting(s, m.job)' = Waiting(s, m.job) \cup IF s = s /\ m.job = m.job THEN {Added(queue[s], m)} ELSE {}
        /\ Retrying(s, m.job)' = Retrying(s, m.job) \ IF s = s THEN {m} ELSE {}
        /\ Working(s, m.job)' = Working(s, m.job)
    BY <1>0, <1>1, ReaddsPlaces
  <2>5. Added(queue[s], m).retry = m.retry /\ m.retry \in Nat
    BY <2>1 DEF Added, Member
  <2>6. NewerThan(s, m.job, m.retry)'
    BY <2>3, <2>4, <2>5 DEF NewerThan
  <2> QED
    BY <1>0, <2>1, <2>6, HistoryGrows
<1>2. ASSUME scheduler'[p].removing = scheduler[p].removing
      PROVE  m.job \in accepted'[s] /\ NewerThan(s, m.job, m.retry)'
  <2>1. m = scheduler[p].removing /\ m \in Member /\ m.retry \in Nat
    BY <1>0, <1>2, Domains DEF Scheduler, Member
  <2> DEFINE j == m.job
  <2>2. j \in accepted[s] /\ j \in Jobs /\ NewerThan(s, j, m.retry) /\ RequestedOnce(j) /\ faults = 0
    BY <1>0, <2>1, CourseFacts DEF RemovingOld, Member
  <2>3. ASSUME UNCHANGED worker, Waiting(s, j)' \subseteq Waiting(s, j), Retrying(s, j)' \subseteq Retrying(s, j),
               Working(s, j)' = Working(s, j)
        PROVE  NewerThan(s, j, m.retry)'
    BY <2>2, <2>3 DEF NewerThan
  <2>4. ASSUME NEW k \in Jobs, Asks(k) PROVE NewerThan(s, j, m.retry)'
    <3>1. ~(s = "story" /\ k = j)
      BY <2>2, <2>4 DEF Asks, RequestedOnce
    <3>2. /\ Waiting(s, j)' = Waiting(s, j) \cup IF s = "story" /\ k = j
                                                  THEN {Added(queue["story"], [job |-> k, retry |-> 0])} ELSE {}
          /\ Retrying(s, j)' = Retrying(s, j) /\ Working(s, j)' = Working(s, j)
      BY <1>0, <2>4, AsksPlaces
    <3>3. Waiting(s, j)' = Waiting(s, j) /\ Retrying(s, j)' = Retrying(s, j) /\ Working(s, j)' = Working(s, j)
      BY <3>1, <3>2
    <3>4. UNCHANGED worker
      BY <2>4 DEF Asks
    <3> QED
      BY <2>3, <3>3, <3>4
  <2>5. ASSUME RowStep PROVE NewerThan(s, j, m.retry)'
    BY <1>0, <2>3, <2>5, RowPlaces DEF RowStep
  <2>6. ASSUME NEW o \in Schedulers, Tick(o) \/ Removes(o) PROVE NewerThan(s, j, m.retry)'
    BY <1>0, <2>3, <2>6, TickPlaces, RemovesPlaces DEF Tick, Removes
  <2>7. ASSUME NEW o \in Schedulers, NEW n \in scheduler[o].batch, Readds(o, n) PROVE NewerThan(s, j, m.retry)'
    <3>1. s # StageOf(o)
      BY <2>1, <2>7, CourseFacts DEF Readds
    <3>2. Waiting(s, j)' = Waiting(s, j) /\ Retrying(s, j)' = Retrying(s, j) /\ Working(s, j)' = Working(s, j)
      BY <1>0, <2>7, <3>1, ReaddsPlaces
    <3> QED
      BY <2>3, <2>7, <3>2 DEF Readds
  <2>8. ASSUME NEW w \in Workers, Takes(w) \/ (Handles(w) /\ HandlerMove(w)) PROVE NewerThan(s, j, m.retry)'
    BY <1>0, <2>1, <2>2, <2>8, NewerWorker
  <2>9. NewerThan(s, j, m.retry)'
    BY <2>4, <2>5, <2>6, <2>7, <2>8 DEF FaultlessMove, SchedulerMove
  <2> QED
    BY <1>0, <2>2, <2>9, HistoryGrows
<1>3. scheduler'[p].removing = scheduler[p].removing \/ \E n \in scheduler[p].batch : Readds(p, n)
  <2>1. CASE ~SchedulerMove(p)
    BY <1>0, <2>1, SchedulerSame
  <2>2. CASE Tick(p)
    BY <1>0, <2>2, Domains DEF Tick, Scheduler
  <2>3. CASE Removes(p)
    BY <1>0, <2>3, Domains DEF Removes, Scheduler
  <2> QED
    BY <2>1, <2>2, <2>3 DEF SchedulerMove
<1>4. ASSUME NEW n \in scheduler[p].batch, Readds(p, n) PROVE m = n
  BY <1>0, <1>4, Domains DEF Readds
<1> QED
  BY <1>1, <1>2, <1>3, <1>4

-----------------------------------------------------------------------------
(* No job gets lost on the way, not even between two calls of a handler.    *)

\* That a mail was sent stays recorded, or will be.
LEMMA RecordedKept ==
  ASSUME Course, [Next]_vars, Calm', NEW j \in accepted["email"], Recorded(j), db'[j].user
  PROVE  Recorded(j)'
<1>0. IInv /\ j \in Jobs /\ db[j] \in UserRows /\ Done("story", j) /\ "email" \in Stage
  BY CourseFacts, Origins, Domains DEF IInv
<1>1. FaultlessMove /\ ~Fault
  <2>1. faults \in Nat
    BY <1>0 DEF IInv, TypeOK
  <2> QED
    BY <1>0, <2>1, CalmStep DEF Fault, Calm
<1>2. db[j].user
  BY <1>0, RowWrites
<1>3. CASE db[j].emailJobs = {"completed"}
  BY <1>0, <1>3, CompletedKept DEF Recorded
<1>4. ASSUME NEW w \in Workers, HoldsJob(w, "email", j), worker[w].phase = "success" PROVE Recorded(j)'
  <2>1. CASE worker'[w] = worker[w]
    BY <1>4, <2>1 DEF Recorded, HoldsJob, Held, HeldJob
  <2>2. CASE worker'[w] # worker[w]
    <3>1. WorkerStep(w) /\ Handles(w) /\ HandlerMove(w)
      BY <1>0, <1>1, <1>4, <2>2, WorkerSame DEF Takes, TakesThe, Idle
    <3>2. CASE worker'[w].phase = "success"
      <4>1. worker'[w] # Idle
        BY <3>2 DEF Idle
      <4>2. worker'[w].msg = worker[w].msg
        BY <1>0, <3>1, <4>1, HandlerGoes
      <4> QED
        BY <1>4, <3>2, <4>2 DEF Recorded, HoldsJob, Held, HeldJob
    <3>3. CASE worker'[w] = Idle
      <4>1. worker[w].call = "Update"
        BY <1>0, <3>1, <3>3, HandlerGoes DEF Idle
      <4>2. HeldJob(w) = j /\ StageOf(w) = "email" /\ StatusOf(worker[w].phase) = "completed"
        BY <1>4 DEF HoldsJob, StatusOf
      <4>3. db'[j] = UpdateEmailJob(db[j], "completed")
        BY <1>0, <1>1, <3>1, <4>1, <4>2, UpdateWrites
      <4>4. db[j].emailJobs # {}
        BY <1>0, <1>2 DEF Done, StoryReady
      <4>5. db'[j].emailJobs = {"completed"}
        BY <1>0, <4>3, <4>4, UpdateEmailColumns
      <4> QED
        BY <4>5 DEF Recorded
    <3> QED
      BY <1>0, <1>4, <3>1, <3>2, <3>3, SuccessMove
  <2> QED
    BY <2>1, <2>2
<1> QED
  BY <1>3, <1>4 DEF Recorded

\* A handler at work goes on to work, but for the four ways out.
LEMMA BusyKept ==
  ASSUME IInv, NEW w \in Workers, Handles(w), HandlerMove(w), Busy(w), ~Forwards(w), ~Schedules(w), ~Dies(w),
         Achieves(w) => StageOf(w) # "email"
  PROVE  Busy(w)' /\ worker'[w].msg = worker[w].msg
<1> DEFINE r == worker[w]
<1>0. StageOf(w) \in {"story", "email"}
  BY Domains DEF Stage
<1>1. ASSUME NEW p, NEW c, Goes(w, At(r, p, c))
      PROVE  worker'[w].phase = p /\ worker'[w].call = c /\ worker'[w].msg = r.msg
  BY <1>1, GoesAt
<1>2. CASE Executes(w) \/ GivesUp(w) \/ DeadLetters(w)
  BY <1>1, <1>2 DEF Executes, GivesUp, DeadLetters, Busy
<1>3. CASE Achieves(w)
  BY <1>0, <1>1, <1>3 DEF Achieves, Busy
<1>4. CASE Acknowledges(w)
  BY <1>1, <1>4 DEF Acknowledges, Busy
<1>5. CASE Deletes(w)
  BY <1>1, <1>5 DEF Deletes, Busy
<1>6. CASE Finishes(w)
  BY <1>1, <1>6 DEF Finishes, Busy
<1> QED
  BY <1>2, <1>3, <1>4, <1>5, <1>6 DEF HandlerMove

\* The member a worker schedules is not the one ReEnqueue is about to remove.
LEMMA ScheduledRetrying ==
  ASSUME Course, NEW w \in Workers, Handles(w), Schedules(w), NEW j, HoldsJob(w, StageOf(w), j)
  PROVE  RetryOf(w) \in Retrying(StageOf(w), j)'
<1> DEFINE t == StageOf(w)
           m == RetryOf(w)
<1>0. IInv /\ t \in Stage /\ m.job = j /\ m.retry = worker[w].msg.retry + 1 /\ worker[w].msg.retry \in Nat
  BY CourseFacts, Domains DEF RetryOf, Handles, Entry, HoldsJob
<1>1. m # None
  <2>1. m \in Member
    BY <1>0 DEF Handles, Entry, Member, RetryOf, HeldJob
  <2> QED
    BY <2>1, PoolsAssumption
<1>2. w \in Working(t, j)
  BY DEF Working, HoldsJob, Busy, Handles, Schedules
<1>3. ASSUME NEW p \in Schedulers, StageOf(p) = t, scheduler[p].removing = m PROVE FALSE
  <2>1. NewerThan(t, m.job, m.retry)
    BY <1>1, <1>3, CourseFacts DEF RemovingOld
  <2>2. worker[w].msg.retry >= m.retry
    BY <1>0, <1>2, <2>1 DEF NewerThan
  <2> QED
    BY <1>0, <2>2
<1>4. m \in queue'[t].retry
  BY <1>0, SchedulesPlaces
<1>5. UNCHANGED scheduler
  BY DEF Schedules, Goes
<1>6. \A p \in Schedulers : StageOf(p) = t => scheduler'[p].removing # m
  BY <1>3, <1>5
<1> QED
  BY <1>0, <1>4, <1>6 DEF Retrying

\* Where a job has a place it has one after the step, or has come to its end.
LEMMA PlaceKeptWorker ==
  ASSUME Course, NEW w \in Workers, Takes(w) \/ (Handles(w) /\ HandlerMove(w)), NEW j \in Jobs, HasPlace(j)
  PROVE  HasPlace(j)' \/ Ended(j)'
<1> DEFINE t == StageOf(w)
<1>0. IInv /\ t \in Stage /\ "email" \in Stage
  BY CourseFacts, Domains
<1>1. ASSUME NEW e \in queue[t].entries, TakesThe(w, e) PROVE HasPlace(j)'
  <2>1. ASSUME NEW s \in Stage
        PROVE  /\ Waiting(s, j)' = Waiting(s, j) \ IF s = t THEN {e} ELSE {}
               /\ Retrying(s, j)' = Retrying(s, j)
               /\ Working(s, j)' = Working(s, j) \cup IF s = t /\ e.job = j THEN {w} ELSE {}
    BY <1>0, <1>1, TakesPlaces
  <2>2. ASSUME NEW s \in Stage, NEW x \in Waiting(s, j) PROVE HasPlace(j)'
    <3>1. x.job = j
      BY <2>2 DEF Waiting
    <3>2. x \in Waiting(s, j)' \/ w \in Working(s, j)'
      BY <2>1, <2>2, <3>1
    <3> QED
      BY <3>2 DEF HasPlace
  <2>3. ASSUME NEW s \in Stage, Retrying(s, j) # {} \/ Working(s, j) # {} PROVE HasPlace(j)'
    <3>1. Retrying(s, j)' # {} \/ Working(s, j)' # {}
      BY <2>1, <2>3
    <3> QED
      BY <3>1 DEF HasPlace
  <2> QED
    BY <2>2, <2>3 DEF HasPlace
<1>2. CASE Handles(w) /\ HandlerMove(w)
  <2>1. ASSUME NEW s \in Stage PROVE Waiting(s, j) \subseteq Waiting(s, j)'
    <3>1. CASE Forwards(w)
      BY <1>0, <1>2, <3>1, ForwardsPlaces
    <3>2. CASE ~Forwards(w)
      <4>1. Undelivered(queue'[s]) = Undelivered(queue[s])
        BY <1>0, <1>2, <3>2, HandlerWaiting
      <4> QED
        BY <4>1 DEF Waiting
    <3> QED
      BY <3>1, <3>2
  <2>2. ASSUME NEW s \in Stage PROVE Retrying(s, j) \subseteq Retrying(s, j)'
    <3>1. CASE Schedules(w)
      BY <1>0, <1>2, <3>1, SchedulesPlaces
    <3>2. CASE ~Schedules(w)
      <4>1. queue'[s].retry = queue[s].retry /\ UNCHANGED scheduler
        BY <1>0, <1>2, <3>2, HandlerRetry, HandlerGoes
      <4> QED
        BY <4>1 DEF Retrying
    <3> QED
      BY <3>1, <3>2
  <2>3. ASSUME NEW s \in Stage, NEW v \in Working(s, j), v # w PROVE HasPlace(j)'
    <3>1. worker'[v] = worker[v]
      BY <1>0, <1>2, <2>3, HandlerGoes DEF Working
    <3>2. v \in Working(s, j)'
      BY <2>3, <3>1 DEF Working, HoldsJob, Held, HeldJob, Busy
    <3> QED
      BY <3>2 DEF HasPlace
  <2>4. ASSUME NEW s \in Stage, w \in Working(s, j) PROVE HasPlace(j)' \/ Ended(j)'
    <3>1. s = t /\ Held(w) /\ HeldJob(w) = j /\ Busy(w) /\ HoldsJob(w, t, j)
      BY <2>4 DEF Working, HoldsJob
    <3>2. CASE Forwards(w)
      <4>1. Added(queue["email"], MemberOf(worker[w].msg)) \in Waiting("email", j)'
        BY <1>0, <1>2, <3>1, <3>2, ForwardsPlaces
      <4> QED
        BY <1>0, <4>1 DEF HasPlace
    <3>3. CASE Schedules(w)
      <4>1. RetryOf(w) \in Retrying(t, j)'
        BY <1>2, <3>1, <3>3, ScheduledRetrying
      <4> QED
        BY <1>0, <4>1 DEF HasPlace
    <3>4. CASE Dies(w)
      <4>1. worker'[w].phase = "dead" /\ worker'[w].msg = worker[w].msg
        BY <1>0, <3>4, GoesAt DEF Dies
      <4>2. HoldsJob(w, t, j)'
        BY <3>1, <4>1 DEF HoldsJob, Held, HeldJob
      <4> QED
        BY <4>1, <4>2 DEF Ended, HoldsJob
    <3>5. CASE Achieves(w) /\ t = "email"
      <4>1. SentOK(j)'
        BY <1>2, <3>1, <3>5, AchievedSent
      <4>2. worker'[w].phase = "success" /\ worker'[w].msg = worker[w].msg
        BY <1>0, <3>5, GoesAt DEF Achieves
      <4>3. Recorded(j)'
        BY <3>1, <3>5, <4>2 DEF Recorded, HoldsJob, Held, HeldJob
      <4>4. j \in accepted'["email"]
        BY <1>0, <3>1, <3>5, Origins DEF Achieves
      <4> QED
        BY <4>1, <4>3, <4>4 DEF Ended, SentOK
    <3>6. CASE ~Forwards(w) /\ ~Schedules(w) /\ ~Dies(w) /\ ~(Achieves(w) /\ t = "email")
      <4>1. Busy(w)' /\ worker'[w].msg = worker[w].msg
        BY <1>0, <1>2, <3>1, <3>6, BusyKept
      <4>2. w \in Working(s, j)'
        BY <3>1, <4>1 DEF Working, HoldsJob, Held, HeldJob
      <4> QED
        BY <4>2 DEF HasPlace
    <3> QED
      BY <3>2, <3>3, <3>4, <3>5, <3>6
  <2>5. ASSUME NEW s \in Stage, Waiting(s, j) # {} \/ Retrying(s, j) # {} PROVE HasPlace(j)'
    <3>1. Waiting(s, j)' # {} \/ Retrying(s, j)' # {}
      BY <2>1, <2>2, <2>5
    <3> QED
      BY <3>1 DEF HasPlace
  <2>6. ASSUME NEW s \in Stage, NEW v \in Working(s, j) PROVE HasPlace(j)' \/ Ended(j)'
    BY <2>3, <2>4, <2>6
  <2> QED
    BY <2>5, <2>6 DEF HasPlace
<1> QED
  BY <1>1, <1>2 DEF Takes

LEMMA PlaceKept ==
  ASSUME Course, FaultlessMove, NEW j \in Jobs, HasPlace(j)
  PROVE  HasPlace(j)' \/ Ended(j)'
<1>0. IInv
  BY CourseFacts
<1>1. ASSUME \A s \in Stage : /\ Waiting(s, j) \subseteq Waiting(s, j)' /\ Retrying(s, j) \subseteq Retrying(s, j)'
                              /\ Working(s, j) \subseteq Working(s, j)'
      PROVE  HasPlace(j)'
  BY <1>1 DEF HasPlace
<1>2. ASSUME NEW k \in Jobs, Asks(k) PROVE HasPlace(j)'
  <2>1. ASSUME NEW s \in Stage
        PROVE  /\ Waiting(s, j) \subseteq Waiting(s, j)' /\ Retrying(s, j) \subseteq Retrying(s, j)'
               /\ Working(s, j) \subseteq Working(s, j)'
    <3>1. /\ Waiting(s, j)' = Waiting(s, j) \cup IF s = "story" /\ k = j
                                                  THEN {Added(queue["story"], [job |-> k, retry |-> 0])} ELSE {}
          /\ Retrying(s, j)' = Retrying(s, j) /\ Working(s, j)' = Working(s, j)
      BY <1>0, <1>2, AsksPlaces
    <3> QED
      BY <3>1
  <2> QED
    BY <1>1, <2>1
<1>3. ASSUME RowStep PROVE HasPlace(j)'
  BY <1>1, <1>3, RowPlaces
<1>4. ASSUME NEW p \in Schedulers, Tick(p) \/ Removes(p) PROVE HasPlace(j)'
  BY <1>0, <1>1, <1>4, TickPlaces, RemovesPlaces
<1>5. ASSUME NEW p \in Schedulers, NEW m \in scheduler[p].batch, Readds(p, m) PROVE HasPlace(j)'
  <2>1. ASSUME NEW s \in Stage
        PROVE  /\ Waiting(s, j)' = Waiting(s, j) \cup IF s = StageOf(p) /\ m.job = j THEN {Added(queue[s], m)} ELSE {}
               /\ Retrying(s, j)' = Retrying(s, j) \ IF s = StageOf(p) THEN {m} ELSE {}
               /\ Working(s, j)' = Working(s, j)
    BY <1>0, <1>5, ReaddsPlaces
  <2>2. ASSUME NEW s \in Stage, NEW n \in Retrying(s, j) PROVE HasPlace(j)'
    <3>1. n.job = j
      BY <2>2 DEF Retrying
    <3>2. n \in Retrying(s, j)' \/ Waiting(s, j)' # {}
      BY <2>1, <2>2, <3>1
    <3> QED
      BY <3>2 DEF HasPlace
  <2>3. ASSUME NEW s \in Stage, Waiting(s, j) # {} \/ Working(s, j) # {} PROVE HasPlace(j)'
    <3>1. Waiting(s, j)' # {} \/ Working(s, j)' # {}
      BY <2>1, <2>3
    <3> QED
      BY <3>1 DEF HasPlace
  <2> QED
    BY <2>2, <2>3 DEF HasPlace
<1> QED
  BY <1>2, <1>3, <1>4, <1>5, PlaceKeptWorker DEF FaultlessMove, SchedulerMove

LEMMA AccountedStep ==
  ASSUME Course, [Next]_vars, Calm', NEW j \in accepted'["story"]
  PROVE  Accounted(j)'
<1>0. IInv /\ FaultlessMove /\ "story" \in Stage /\ "email" \in Stage
  BY CourseFacts, Domains, CalmStep
<1>1. CASE j \notin accepted["story"]
  <2>1. PICK k \in Jobs : Asks(k)
    <3>1. accepted'["story"] # accepted["story"]
      BY <1>1
    <3>2. ASSUME NEW w \in Workers, Forwards(w) PROVE FALSE
      BY <1>0, <3>1, <3>2, Domains DEF Forwards
    <3>3. ASSUME accepted' = accepted PROVE FALSE
      BY <3>1, <3>3
    <3> QED
      BY <1>0, <3>2, <3>3 DEF FaultlessMove, RowStep, Takes, TakesThe, HandlerMove, Executes, Achieves, GivesUp,
         DeadLetters, Acknowledges, Deletes, Schedules, Dies, Finishes, SchedulerMove, Tick, Readds, Removes
  <2>2. k = j
    BY <1>0, <1>1, <2>1, Domains DEF Asks
  <2>3. Added(queue["story"], [job |-> k, retry |-> 0]) \in Waiting("story", j)'
    BY <1>0, <2>1, <2>2, AsksPlaces
  <2> QED
    BY <1>0, <2>3 DEF Accounted, HasPlace
<1>2. CASE j \in accepted["story"]
  <2>1. j \in Jobs /\ CourseOK(j) /\ Accounted(j)
    BY <1>2, CourseFacts, Origins DEF CourseOK
  <2>2. CASE HasPlace(j)
    BY <1>0, <2>1, <2>2, PlaceKept DEF Accounted
  <2>3. ASSUME NEW w \in Workers, Held(w), HeldJob(w) = j, worker[w].phase = "dead" PROVE Ended(j)'
    <3>1. worker'[w] = worker[w]
      BY <1>0, <2>3, WorkerSame DEF Takes, TakesThe, Idle, Handles, InMethod
    <3> QED
      BY <2>3, <3>1 DEF Ended, Held, HeldJob
  <2>4. ASSUME j \in accepted["email"], j \in mailed, Recorded(j) \/ ~db[j].user PROVE Ended(j)'
    <3>1. j \in accepted'["email"] /\ j \in mailed'
      BY <1>0, <2>4, HistoryGrows
    <3>2. CASE db'[j].user
      <4>1. db[j].user
        BY <1>0, <2>1, <3>2, RowWrites
      <4>2. Recorded(j)'
        BY <2>4, <3>2, <4>1, RecordedKept
      <4> QED
        BY <3>1, <4>2 DEF Ended
    <3> QED
      BY <3>1, <3>2 DEF Ended
  <2> QED
    BY <2>1, <2>2, <2>3, <2>4 DEF Accounted, Ended
<1> QED
  BY <1>1, <1>2

-----------------------------------------------------------------------------
(* FinalInv.                                                                *)

LEMMA FinalInit == Init => FinalInv
<1> SUFFICES ASSUME Init PROVE FinalInv
  OBVIOUS
<1>1. ASSUME NEW w \in Workers PROVE ForwardedOK(w)
  BY DEF Init, ForwardedOK, Idle
<1>2. ASSUME NEW p \in Schedulers PROVE RemovingOld(p)
  BY DEF Init, RemovingOld, IdleScheduler
<1>3. ASSUME NEW j \in Jobs PROVE CourseOK(j)
  <2>1. accepted["story"] = {} /\ accepted["email"] = {}
    BY DEF Init, Stage
  <2>2. db[j].storyJob = "absent" /\ db[j].emailJobs = {}
    BY DEF Init, VerifiedUser
  <2>3. ~Recorded(j)
    BY <2>2 DEF Init, Recorded, HoldsJob, Held, Idle
  <2> QED
    BY <2>1, <2>2, <2>3 DEF CourseOK
<1> QED
  BY <1>1, <1>2, <1>3 DEF FinalInv

LEMMA FinalStep ==
  ASSUME IInv, PlaceInv, FinalInv, [Next]_vars
  PROVE  FinalInv'
<1> SUFFICES ASSUME OneEach(Workers), OneEach(Schedulers), Calm'
             PROVE  /\ \A w \in Workers : ForwardedOK(w)'
                    /\ \A p \in Schedulers : RemovingOld(p)'
                    /\ \A j \in Jobs : CourseOK(j)'
  BY DEF FinalInv, OneEach
<1>1. Course /\ FaultlessMove
  BY CalmStep DEF Course
<1>2. ASSUME NEW j \in Jobs PROVE CourseOK(j)'
  <2>1. db'[j].storyJob = "completed" => j \in accepted'["email"]
    BY <1>1, CompletedStep
  <2>2. ASSUME j \in accepted'["email"] PROVE (HandedOver(j) /\ StoryStatusOK(j))'
    <3>1. CASE j \in accepted["email"]
      BY <1>1, <3>1, HandedOverStep, StoryStatusStep
    <3>2. CASE j \notin accepted["email"]
      BY <1>1, <2>2, <3>2, NewlyForwarded
    <3> QED
      BY <3>1, <3>2
  <2>3. Recorded(j)' => SentOK(j)'
    BY <1>1, RecordedStep
  <2>4. j \in accepted'["story"] => Accounted(j)'
    BY <1>1, AccountedStep
  <2> QED
    BY <2>1, <2>2, <2>3, <2>4 DEF CourseOK
<1> QED
  BY <1>1, <1>2, ForwardedStep, RemovingStep

\* With one worker and one scheduler per stage, no failed call and no restart: every
\* job that was taken in has a place where it goes on or has ended (mail sent or
\* dead-lettered) with the status columns that belong to its end, and what ZREM is
\* about to remove is older than any retry that was scheduled meanwhile.
THEOREM FinalInvariance == Spec => []FinalInv
BY Invariance, PlaceInvariance, FinalInit, FinalStep, PTL DEF Spec

\* With one worker and one scheduler per stage, no failed call and no restart, a
\* status "completed" of story_jobs or email_jobs stays for as long as the user
\* exists: no UpdateStoryJob or UpdateEmailJob of an earlier attempt comes after it.
THEOREM CompletedStays == Spec => CompletedIsFinal
<1>1. IInv /\ PlaceInv /\ FinalInv /\ [Next]_vars =>
        [OneEach(Workers) /\ OneEach(Schedulers) /\ Calm =>
           \A j \in Jobs : db'[j].user =>
             /\ db[j].storyJob = "completed" => db'[j].storyJob = "completed"
             /\ db[j].emailJobs = {"completed"} => db'[j].emailJobs = {"completed"}]_vars
  BY CompletedKept DEF Course
<1> QED
  BY <1>1, Invariance, PlaceInvariance, FinalInvariance, PTL DEF Spec, CompletedIsFinal

\* Under the same conditions, when nothing in Redis or in a worker is about a job
\* that was taken in, its mail was sent and both status columns say "completed".
THEOREM QuietCompleted == Spec => []QuietIsCompleted
<1>1. IInv /\ PlaceInv /\ FinalInv => QuietIsCompleted
  <2> SUFFICES ASSUME Course, NEW j \in accepted["story"], db[j].user, Quiet(j)
               PROVE  db[j].storyJob = "completed" /\ db[j].emailJobs = {"completed"} /\ j \in mailed
    BY DEF QuietIsCompleted, Course
  <2>1. IInv /\ j \in Jobs /\ CourseOK(j)
    BY CourseFacts, Origins
  <2>2. ASSUME NEW s \in Stage PROVE Unplaced(s, j)
    <3>1. queue[s] \in QueueState
      BY <2>1, Domains
    <3>2. \A e \in LiveEntries(queue[s]) \cup queue[s].retry : e.job = j => ~(e.retry >= 0)
      BY DEF Quiet, CarriedFrom, InStream, InRetrySet, CarriesFrom
    <3>3. \A e \in queue[s].entries \cup queue[s].retry : e.retry >= 0
      BY <3>1 DEF QueueState, Entry, Member
    <3>4. Waiting(s, j) = {} /\ Retrying(s, j) = {}
      BY <3>2, <3>3 DEF Waiting, Retrying, Undelivered, LiveEntries
    <3>5. Working(s, j) = {}
      BY DEF Quiet, Working, HoldsJob
    <3> QED
      BY <3>4, <3>5 DEF Unplaced
  <2>3. ~HasPlace(j)
    BY <2>2 DEF HasPlace, Unplaced
  <2>4. j \in accepted["email"] /\ j \in mailed /\ Recorded(j)
    BY <2>1, <2>3 DEF CourseOK, Accounted, Ended, Quiet
  <2>5. db[j].emailJobs = {"completed"}
    BY <2>4 DEF Recorded, HoldsJob, Quiet
  <2>6. db[j].storyJob = "completed"
    BY <2>1, <2>4 DEF CourseOK, StoryStatusOK, HoldsJob, Quiet
  <2> QED
    BY <2>4, <2>5, <2>6
<1> QED
  BY <1>1, Invariance, PlaceInvariance, FinalInvariance, PTL
=============================================================================
