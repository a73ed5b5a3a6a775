------------------------------- MODULE JobPool -------------------------------
(***************************************************************************)
(* What the background task system promises its callers, without saying    *)
(* how: a submitted job waits, works and finishes, in that order and once, *)
(* and no more than MaxConcurrent jobs work at the same time.  A job may   *)
(* finish without ever having worked (it was cancelled while it waited for *)
(* its turn).  TaskManager implements this specification.                  *)
(***************************************************************************)
EXTENDS Naturals, FiniteSets

CONSTANTS Jobs,            \* the jobs that may be submitted
          MaxConcurrent    \* how many of them may work at once

VARIABLE status            \* where each job is in its life

Working == {j \in Jobs : status[j] = "working"}

Init == status = [j \in Jobs |-> "new"]

Submit(j) == /\ status[j] = "new"
             /\ status' = [status EXCEPT ![j] = "waiting"]

Start(j) == /\ status[j] = "waiting"
            /\ Cardinality(Working) < MaxConcurrent
            /\ status' = [status EXCEPT ![j] = "working"]

Finish(j) == /\ status[j] = "working"
             /\ status' = [status EXCEPT ![j] = "finished"]

Next == \E j \in Jobs : Submit(j) \/ Start(j) \/ Finish(j)

Spec == Init /\ [][Next]_status
=============================================================================
