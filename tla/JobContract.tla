---------------------------- MODULE JobContract ----------------------------
(***************************************************************************)
(* What the story pipeline promises of a job, whatever queues, retries,    *)
(* failed calls and restarts are behind it. Each stage takes a job in at   *)
(* most once, owes it its work from then on, and may forget it only when   *)
(* the job is settled there. The email stage takes in only jobs the story  *)
(* stage has settled.                                                      *)
(***************************************************************************)
CONSTANT Jobs

VARIABLE status   \* per stage and job: "new", "owed" or "settled"

Stages == {"story", "email"}

Init == status = [s \in Stages |-> [j \in Jobs |-> "new"]]

Becomes(s, j, value) == status' = [status EXCEPT ![s][j] = value]

\* A job whose user is already gone is settled as it is taken in.
TakeIn(s, j) ==
  /\ status[s][j] = "new"
  /\ s = "email" => status["story"][j] = "settled"
  /\ \E value \in {"owed", "settled"} : Becomes(s, j, value)

Settle(s, j) ==
  /\ status[s][j] = "owed"
  /\ Becomes(s, j, "settled")

Next == \E s \in Stages, j \in Jobs : TakeIn(s, j) \/ Settle(s, j)

Spec == Init /\ [][Next]_status
=============================================================================
