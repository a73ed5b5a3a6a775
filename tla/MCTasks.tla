------------------------------- MODULE MCTasks -------------------------------
(* The task pool, with three jobs over two permits of which job 1 reports     *)
(* through a forwarder; or two launches, of one instance or of both.  The two *)
(* share no state: a behaviour follows one of them.                           *)
EXTENDS TaskManager, LaunchControl

MCForwarded == {1}

VARIABLE subject  \* what the behaviour is about

allVars == <<vars, launchVars, subject>>

MCInit == subject \in {"pool", "launches"} /\ Init /\ LaunchInit

MCNext ==
  \/ subject = "pool" /\ Next /\ UNCHANGED <<launchVars, subject>>
  \/ subject = "launches" /\ LaunchNext /\ UNCHANGED <<vars, subject>>

\* The fairness of the two specifications, each where its machine runs.
InPool == subject = "pool" /\ UNCHANGED <<launchVars, subject>>
MCFairness ==
  /\ WF_allVars(Deliver /\ InPool)
  /\ \A j \in Jobs : /\ WF_allVars(Enqueue(j) /\ InPool)
                     /\ WF_allVars(Acquire(j) /\ InPool)
                     /\ WF_allVars(ObserveCancel(j) /\ InPool)
                     /\ SF_allVars(SendCompleted(j) /\ InPool)
  /\ WF_allVars(LaunchProgress /\ subject = "launches" /\ UNCHANGED <<vars, subject>>)

MCSpec == MCInit /\ [][MCNext]_allVars /\ MCFairness
=============================================================================
