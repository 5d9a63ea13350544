---------------------------- MODULE VideoRecord ----------------------------
(***************************************************************************)
(* What the pipeline promises about a video, without handlers, workers,    *)
(* queues or retries: its record is inserted, claimed and finished once;   *)
(* its child jobs settle once each, after the claim; the verdict is what   *)
(* the children did; and only a verdict that is recorded is announced.     *)
(***************************************************************************)
CONSTANTS Videos, Children, Results, None

VARIABLES row,        \* status and verdict of each video
          work,       \* "open", "completed" or "failed": each child's outcome
          announced   \* the verdicts published

vars == <<row, work, announced>>

Unclaimed == {"absent", "pending"}

Init == /\ row = [v \in Videos |-> [status |-> "absent", result |-> None]]
        /\ work = [v \in Videos |-> [c \in Children |-> "open"]]
        /\ announced = {}

Insert(v) ==
    /\ row[v].status = "absent"
    /\ row' = [row EXCEPT ![v].status = "pending"]
    /\ UNCHANGED <<work, announced>>

Claim(v) ==
    /\ row[v].status = "pending"
    /\ row' = [row EXCEPT ![v].status = "in_progress"]
    /\ UNCHANGED <<work, announced>>

Settle(v, c, outcome) ==
    /\ row[v].status \notin Unclaimed
    /\ work[v][c] = "open"
    /\ work' = [work EXCEPT ![v][c] = outcome]
    /\ UNCHANGED <<row, announced>>

(* A verdict the outcomes of the children justify                           *)
Justified(v, result) ==
    \/ /\ result.status = "completed"
       /\ \A c \in Children : work[v][c] = "completed"
    \/ /\ result.status = "failed"
       /\ result.failures # {}
       /\ \A f \in result.failures : work[v][f.childKey] = "failed"

Finish(v, result) ==
    /\ row[v].status = "in_progress"
    /\ result.videoId = v
    /\ Justified(v, result)
    /\ row' = [row EXCEPT ![v] = [status |-> result.status, result |-> result]]
    /\ UNCHANGED <<work, announced>>

Announce(v) ==
    /\ row[v].status \in {"completed", "failed"}
    /\ announced' = announced \cup {row[v].result}
    /\ UNCHANGED <<row, work>>

Next == \E v \in Videos :
          \/ Insert(v)
          \/ Claim(v)
          \/ \E c \in Children, o \in {"completed", "failed"} : Settle(v, c, o)
          \/ \E result \in Results : Finish(v, result)
          \/ Announce(v)

Spec == Init /\ [][Next]_vars
=============================================================================
