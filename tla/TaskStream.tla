----------------------------- MODULE TaskStream -----------------------------
(***************************************************************************)
(* What Redis keeps for one kind of job, and the operations that           *)
(* internal/infrastructure/repository/redis/redis_job_queue.go performs on *)
(* it: a stream read by one consumer group, the sorted set "retry_<stream>"*)
(* of jobs waiting for their next attempt, and the dead-letter stream.     *)
(* Each operator maps the state before one Redis command to the state      *)
(* after it; Redis executes every command atomically.                      *)
(*                                                                         *)
(* A payload is cut down to the two fields the control depends on: the job *)
(* it is about and RetryCounts. The time scores of the sorted set are left *)
(* out: which members are due is chosen by the caller.                     *)
(***************************************************************************)
EXTENDS Integers

CONSTANT Jobs           \* the story jobs, one per user (see StoryStore)

Entry  == [id: Nat, job: Jobs, retry: Nat]    \* an entry of a stream
Member == [job: Jobs, retry: Nat]             \* a member of the sorted set

(***************************************************************************)
(* entries    the entries XADDed and not yet XDELed                        *)
(* last       the id of the newest entry, 0 before the first               *)
(* delivered  the group's last-delivered id                                *)
(* pending    ids delivered to some consumer and not acknowledged (the PEL)*)
(* retry      the members of the sorted set                                *)
(* dead       the jobs that were added to the dead-letter stream            *)
(***************************************************************************)
QueueState == [entries: SUBSET Entry, last: Nat, delivered: Nat,
               pending: SUBSET Nat, retry: SUBSET Member, dead: SUBSET Jobs]

\* CreateConsumerGroup with start id "0": the group will see every entry.
EmptyQueue == [entries |-> {}, last |-> 0, delivered |-> 0,
               pending |-> {}, retry |-> {}, dead |-> {}]

MemberOf(e) == [job |-> e.job, retry |-> e.retry]

XAdd(q, m) ==
  [q EXCEPT !.entries = @ \cup {[id |-> q.last + 1, job |-> m.job, retry |-> m.retry]},
            !.last = @ + 1]

\* XREADGROUP ... ">" returns the oldest entry no consumer was ever given;
\* entries that are pending, whoever holds them, are not read again.
Undelivered(q) == {e \in q.entries : e.id > q.delivered}
IsNext(q, e) == e \in Undelivered(q) /\ \A f \in Undelivered(q) : e.id <= f.id

\* Mutants: a read without a pending list (NOACK), and one that leaves the
\* group's cursor where it was.
ReadNoAck(q, e) == [q EXCEPT !.delivered = e.id]
ReadSameAgain(q, e) == [q EXCEPT !.pending = @ \cup {e.id}]

XReadGroup(q, e) == [q EXCEPT !.delivered = e.id, !.pending = @ \cup {e.id}]

XAck(q, id) == [q EXCEPT !.pending = @ \ {id}]
XDel(q, id) == [q EXCEPT !.entries = {e \in @ : e.id # id}]

\* ScheduleRetry and ReEnqueue. Equal payloads are one member: a second ZADD only changes its score.
ZAdd(q, m) == [q EXCEPT !.retry = @ \cup {m}]
ZRem(q, m) == [q EXCEPT !.retry = @ \ {m}]

\* Add on the dead-letter stream, which no group reads.
AddDead(q, m) == [q EXCEPT !.dead = @ \cup {m.job}]

\* The entries that still stand for work: not yet delivered, or unacknowledged.
LiveEntries(q) == {e \in q.entries : e.id > q.delivered \/ e.id \in q.pending}
=============================================================================
