------------------------------ MODULE JobPath ------------------------------
(***************************************************************************)
(* The way of one job through JobPipeline when no call fails: where it is, *)
(* and the invariants behind StrandedOnlyPastDLQ,                          *)
(* StoryExceededIsDeadLettered, NoConcurrentExecution, CompletedIsFinal    *)
(* and QuietIsCompleted. They tell about steps of several processes, so    *)
(* none of these properties is inductive by itself.                        *)
(***************************************************************************)
EXTENDS JobPipeline

-----------------------------------------------------------------------------
(* Past the limit: what has been retried more than MaxJobRetry times has    *)
(* been dead-lettered on the way.                                           *)

\* The retry count of an email job goes back to its story job (OnSuccess).
PastDLQ(s, j) == DeadLettered("story", j) \/ DeadLettered(s, j)

Exceeds(m) == m.retry > MaxJobRetry

\* A worker at the limit has dead-lettered its job when it gets to OnFailure.
HasExceeded(w) ==
  \/ Exceeds(worker[w].msg)
  \/ worker[w].msg.retry = MaxJobRetry /\ worker[w].phase \in {"failure", "dead"}

\* A job past the limit is in a dead-letter stream, wherever it is.
ExceededOK ==
  /\ \A s \in Stage : \A m \in queue[s].entries \cup queue[s].retry : Exceeds(m) => PastDLQ(s, m.job)
  /\ \A p \in Schedulers : \A m \in scheduler[p].batch : Exceeds(m) => PastDLQ(StageOf(p), m.job)
  /\ \A w \in Workers : Held(w) /\ HasExceeded(w) => PastDLQ(StageOf(w), HeldJob(w))

\* The backoff overflows past the limit only.
DeadOK(w) == worker[w].phase = "dead" => worker[w].msg.retry >= MaxJobRetry

\* From Delete on, what the worker holds is acknowledged.
AckedOK(w) ==
  worker[w].call \in {"Delete", "Forward", "Update"}
    => worker[w].msg.id \notin queue[StageOf(w)].pending

\* Every pending entry is the message of a worker.
PendingOK ==
  \A s \in Stage : \A id \in queue[s].pending :
    \E w \in Workers : StageOf(w) = s /\ Held(w) /\ worker[w].msg.id = id

\* The inductive invariant, together with IInv, of the dead-letter properties.
LimitInv ==
  faults = 0 =>
    /\ \A w \in Workers : DeadOK(w) /\ AckedOK(w)
    /\ ExceededOK
    /\ crashes = 0 => PendingOK

-----------------------------------------------------------------------------
(* The places of a job. It waits in a stream, it waits in a retry set and   *)
(* no scheduler has added it to the stream again, or a worker works on it.  *)

Waiting(s, j) == {e \in Undelivered(queue[s]) : e.job = j}

Retrying(s, j) ==
  {m \in queue[s].retry : m.job = j /\ \A p \in Schedulers : StageOf(p) = s => scheduler[p].removing # m}

\* A worker that has forwarded its job, scheduled its retry, or sent the mail has
\* calls left to make but the job is elsewhere, or at its end.
Busy(w) ==
  \/ worker[w].phase \in {"execute", "dlq"}
  \/ worker[w].phase = "failure" /\ worker[w].call = "ScheduleRetry"
  \/ worker[w].phase = "success" /\ worker[w].call \in {"Ack", "Delete", "Forward"} /\ StageOf(w) = "story"

Working(s, j) == {w \in Workers : HoldsJob(w, s, j) /\ Busy(w)}

\* A job is at one place at most: of a stage, in the stream, in the retry set or
\* with a worker.
OnePlace(j) ==
  /\ \A s, t \in Stage : \A e \in Waiting(s, j), f \in Waiting(t, j) : s = t /\ e = f
  /\ \A s, t \in Stage : \A m \in Retrying(s, j), n \in Retrying(t, j) : s = t /\ m = n
  /\ \A s, t \in Stage : \A v \in Working(s, j), w \in Working(t, j) : v = w
  /\ \A s, t \in Stage :
       /\ Waiting(s, j) = {} \/ Retrying(t, j) = {}
       /\ Waiting(s, j) = {} \/ Working(t, j) = {}
       /\ Retrying(s, j) = {} \/ Working(t, j) = {}

\* A story is requested once: the row of the first request refuses the second. A
\* job taken in has its row in story_jobs.
RequestedOnce(j) ==
  /\ api[j] # "idle" /\ faults = 0 => j \notin accepted["story"]
  /\ db[j].user /\ db[j].story = "absent" => api[j] = "idle" /\ j \notin accepted["story"]
  /\ db[j].user /\ (api[j] = "addToStream" \/ j \in accepted["story"]) => db[j].storyJob # "absent"

\* What a scheduler has still to add is in the retry set, and nothing it adds again.
BatchOK(p) ==
  /\ scheduler[p].batch \subseteq queue[StageOf(p)].retry
  /\ scheduler[p].removing \notin scheduler[p].batch

\* The inductive invariant, together with IInv, of NoConcurrentExecution.
PlaceInv ==
  /\ \A j \in Jobs : RequestedOnce(j)
  /\ OneEach(Schedulers) /\ Calm =>
       /\ \A p \in Schedulers : BatchOK(p)
       /\ \A j \in Jobs : OnePlace(j)

-----------------------------------------------------------------------------
(* The end of the way, with one worker and one scheduler per stage.         *)

HasPlace(j) ==
  \E s \in Stage : Waiting(s, j) # {} \/ Retrying(s, j) # {} \/ Working(s, j) # {}

\* The story stage has done with a job it has forwarded, but for its status.
HandedOver(j) ==
  /\ Waiting("story", j) = {} /\ Retrying("story", j) = {}
  /\ \A w \in Workers : HoldsJob(w, "story", j) => worker[w].phase = "success" /\ worker[w].call = "Update"

\* The mail is sent and its worker records that, or has done so.
Recorded(j) ==
  \/ \E w \in Workers : HoldsJob(w, "email", j) /\ worker[w].phase = "success"
  \/ db[j].emailJobs = {"completed"}

\* What is left of such a job: nothing that could change its status again.
SentOK(j) ==
  /\ j \in mailed
  /\ ~HasPlace(j)
  /\ \A w \in Workers : HoldsJob(w, "email", j) => worker[w].phase = "success"

\* The status of the story job follows, or the worker that will write it.
StoryStatusOK(j) ==
  db[j].storyJob = "completed" \/ ~db[j].user \/ \E w \in Workers : HoldsJob(w, "story", j)

\* What stage s has of job j was retried at least r times, and more in the retry set.
NewerThan(s, j, r) ==
  /\ \A e \in Waiting(s, j) : e.retry >= r
  /\ \A n \in Retrying(s, j) : n.retry > r
  /\ \A w \in Working(s, j) : worker[w].msg.retry >= r

\* What has been added again is older than what it stands for, so a retry that is
\* scheduled meanwhile is another member than the one about to be removed.
RemovingOld(p) ==
  LET s == StageOf(p)  m == scheduler[p].removing IN
  m # None => m.job \in accepted[s] /\ NewerThan(s, m.job, m.retry)

\* A job has a place until it has ended: with its mail, or with the worker it killed.
Ended(j) ==
  \/ \E w \in Workers : Held(w) /\ HeldJob(w) = j /\ worker[w].phase = "dead"
  \/ j \in accepted["email"] /\ j \in mailed /\ (Recorded(j) \/ ~db[j].user)

Accounted(j) == HasPlace(j) \/ Ended(j)

\* What OnSuccess of the story stage updates, it has forwarded.
ForwardedOK(w) ==
  StageOf(w) = "story" /\ worker[w].phase = "success" /\ worker[w].call = "Update"
    => HeldJob(w) \in accepted["email"]

\* A job that is completed, forwarded, or mailed has done with what came before.
CourseOK(j) ==
  /\ db[j].storyJob = "completed" => j \in accepted["email"]
  /\ j \in accepted["email"] => HandedOver(j) /\ StoryStatusOK(j)
  /\ Recorded(j) => SentOK(j)
  /\ j \in accepted["story"] => Accounted(j)

\* The inductive invariant, together with IInv and PlaceInv, of CompletedIsFinal and
\* QuietIsCompleted.
FinalInv ==
  OneEach(Workers) /\ OneEach(Schedulers) /\ Calm =>
    /\ \A w \in Workers : ForwardedOK(w)
    /\ \A p \in Schedulers : RemovingOld(p)
    /\ \A j \in Jobs : CourseOK(j)
=============================================================================
