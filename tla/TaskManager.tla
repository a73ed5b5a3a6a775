----------------------------- MODULE TaskManager -----------------------------
(***************************************************************************)
(* The bounded pool of background jobs (tasks/manager.rs) together with    *)
(* the channels its events travel on and the progress rows the terminal    *)
(* interface keeps for them (the Action::Task arms of tui/app.rs).         *)
(*                                                                         *)
(* Every job is a tokio task: it queues for a permit of a fair semaphore,  *)
(* then races its body against its cancellation token in a biased select.  *)
(* When the token wins, the body future is dropped at the await point it   *)
(* had reached and Completed{Err("Cancelled")} is sent in its place.       *)
(*                                                                         *)
(* A body reports progress on the manager's event channel, which also      *)
(* carries Completed, or, for the mod installs of tui/run.rs, on a channel *)
(* of its own that a forwarder task empties into the same action bus.      *)
(***************************************************************************)
EXTENDS Naturals, Sequences, FiniteSets

CONSTANTS MaxJobs,         \* bound on next_job_id: jobs 1..MaxJobs are issued
          MaxConcurrent,   \* permits of the semaphore
          EventCap,        \* capacity of the TaskEvent channel
          MaxProgress,     \* bound on the Progress events a body sends
          Forwarded        \* jobs that report progress through a forwarder

ASSUME MaxJobsAssumption == MaxJobs \in Nat
ASSUME MaxConcurrentAssumption == MaxConcurrent \in Nat \ {0}
ASSUME EventCapAssumption == EventCap \in Nat \ {0}
ASSUME MaxProgressAssumption == MaxProgress \in Nat
ASSUME ForwardedAssumption == Forwarded \subseteq 1..MaxJobs

Jobs == 1..MaxJobs

VARIABLES
  nextId,        \* the id next_job_id hands out next
  rootCancelled, \* root_token
  cancelled,     \* jobs whose side token was cancelled on its own
  pc,            \* where the spawned tokio task of a job is
  waiters,       \* FIFO of tasks waiting in acquire_owned
  permits,       \* available permits of the semaphore
  sent,          \* Progress events the body of a job has sent
  side,          \* Progress events in the own channel of a forwarded job
  events,        \* the bounded channel of TaskEvents
  rxOpen,        \* is its receiver (the pump) alive?
  rows           \* AppState.active_jobs

vars == <<nextId, rootCancelled, cancelled, pc, waiters, permits,
          sent, side, events, rxOpen, rows>>

Phases == {"none", "spawned", "queued", "granted", "body", "closing", "done"}

\* Tasks that own a permit: from the grant to the end of the task.
Holding == {j \in Jobs : pc[j] \in {"granted", "body", "closing"}}

TokenCancelled(j) == rootCancelled \/ j \in cancelled

EventType == [kind : {"progress", "completed"}, id : Jobs]

Init ==
  /\ nextId = 1
  /\ rootCancelled = FALSE
  /\ cancelled = {}
  /\ pc = [j \in Jobs |-> "none"]
  /\ waiters = <<>>
  /\ permits = MaxConcurrent
  /\ sent = [j \in Jobs |-> 0]
  /\ side = [j \in Jobs |-> 0]
  /\ events = <<>>
  /\ rxOpen = TRUE
  /\ rows = {}

-----------------------------------------------------------------------------
(* The callers of the manager. *)

\* next_job_id then spawn_task: the task exists but has not been polled yet.
SpawnTask ==
  /\ nextId \in Jobs
  /\ pc' = [pc EXCEPT ![nextId] = "spawned"]
  /\ nextId' = nextId + 1
  /\ UNCHANGED <<rootCancelled, cancelled, waiters, permits, sent,
                 side, events, rxOpen, rows>>

\* The holder of a job's side token cancels it.
Cancel(j) ==
  /\ pc[j] # "none"
  /\ ~TokenCancelled(j)
  /\ cancelled' = cancelled \cup {j}
  /\ UNCHANGED <<nextId, rootCancelled, pc, waiters, permits, sent,
                 side, events, rxOpen, rows>>

\* cancel_all: the root token cancels every side, those born later included.
CancelAll ==
  /\ ~rootCancelled
  /\ rootCancelled' = TRUE
  /\ UNCHANGED <<nextId, cancelled, pc, waiters, permits, sent,
                 side, events, rxOpen, rows>>

-----------------------------------------------------------------------------
(* The spawned task of one job. *)

\* First poll: acquire_owned joins the semaphore's queue.
Enqueue(j) ==
  /\ pc[j] = "spawned"
  /\ pc' = [pc EXCEPT ![j] = "queued"]
  /\ waiters' = Append(waiters, j)
  /\ UNCHANGED <<nextId, rootCancelled, cancelled, permits, sent,
                 side, events, rxOpen, rows>>

Grant(j, left, rest) ==
  /\ pc[j] = "queued"
  /\ permits' = left
  /\ waiters' = rest
  /\ pc' = [pc EXCEPT ![j] = "granted"]
  /\ UNCHANGED <<nextId, rootCancelled, cancelled, sent, side, events, rxOpen,
                 rows>>
AtHead(j) == waiters # <<>> /\ Head(waiters) = j

\* Plausible bug: a grant that does not take the permit it was given.
AcquireFree(j) == AtHead(j) /\ permits > 0 /\ Grant(j, permits, Tail(waiters))

\* The semaphore grants the waiter at the head; a cancelled one is no exception.
Acquire(j) == AtHead(j) /\ permits > 0 /\ Grant(j, permits - 1, Tail(waiters))

MoveTo(j, phase) ==
  /\ pc' = [pc EXCEPT ![j] = phase]
  /\ UNCHANGED <<nextId, rootCancelled, cancelled, waiters, permits, sent, side,
                 events, rxOpen, rows>>

\* First poll of the select, token not cancelled: the body starts.
StartBody(j) == pc[j] = "granted" /\ ~TokenCancelled(j) /\ MoveTo(j, "body")

\* Plausible bug: child tokens that are not children of the root token.
ObserveOwnCancel(j) ==
  pc[j] \in {"granted", "body"} /\ j \in cancelled /\ MoveTo(j, "closing")

\* A poll of the biased select sees the token cancelled: the body is dropped.
ObserveCancel(j) ==
  pc[j] \in {"granted", "body"} /\ TokenCancelled(j) /\ MoveTo(j, "closing")

\* The body returns, Ok or Err; a cancellation that lands during this poll comes too late.
BodyReturns(j) == pc[j] = "body" /\ MoveTo(j, "closing")

\* `let _ = tx.send(..)`: waits for room, or is lost when the receiver is gone.
Room == rxOpen => Len(events) < EventCap
Send(kind, j) ==
  /\ Room
  /\ events' = IF rxOpen THEN Append(events, [kind |-> kind, id |-> j])
                         ELSE events

ProgressIn(phases, j) ==
  /\ pc[j] \in phases
  /\ j \notin Forwarded
  /\ sent[j] < MaxProgress
  /\ sent' = [sent EXCEPT ![j] = @ + 1]
  /\ Send("progress", j)
  /\ UNCHANGED <<nextId, rootCancelled, cancelled, pc, waiters, permits, side,
                 rxOpen, rows>>

\* Plausible bug: the body is detached rather than dropped when the job ends.
ProgressDetached(j) == ProgressIn({"body", "closing", "done"}, j)

\* The body reports progress on the manager's channel.
Progress(j) == ProgressIn({"body"}, j)

\* The body reports progress on its own channel (never full below its 64 slots).
ProgressAside(j) ==
  /\ pc[j] = "body"
  /\ j \in Forwarded
  /\ sent[j] < MaxProgress
  /\ sent' = [sent EXCEPT ![j] = @ + 1]
  /\ side' = [side EXCEPT ![j] = @ + 1]
  /\ UNCHANGED <<nextId, rootCancelled, cancelled, pc, waiters, permits, events,
                 rxOpen, rows>>

\* The forwarder passes one on and update() applies it; it outlives the body
\* until its channel is empty, and what it sends is lost once the loop is over.
Forward(j) ==
  /\ side[j] > 0
  /\ side' = [side EXCEPT ![j] = @ - 1]
  /\ rows' = IF rxOpen THEN rows \cup {j} ELSE rows
  /\ UNCHANGED <<nextId, rootCancelled, cancelled, pc, waiters, permits, sent,
                 events, rxOpen>>

Announce(j, phase, left) ==
  /\ pc[j] = "closing"
  /\ Send("completed", j)
  /\ pc' = [pc EXCEPT ![j] = phase]
  /\ permits' = left
  /\ UNCHANGED <<nextId, rootCancelled, cancelled, waiters, sent, side, rxOpen,
                 rows>>

\* Plausible bug: the permit is forgotten.
SendCompletedLeak(j) == Announce(j, "done", permits)

\* The terminal event, after which the task ends and drops its permit.
SendCompleted(j) == Announce(j, "done", permits + 1)

-----------------------------------------------------------------------------
(* The pump and the interface. *)

\* The pump forwards one event and update() applies its Action::Task arm.
Deliver ==
  /\ rxOpen
  /\ events # <<>>
  /\ events' = Tail(events)
  /\ rows' = IF Head(events).kind = "progress"
               THEN rows \cup {Head(events).id}
               ELSE rows \ {Head(events).id}
  /\ UNCHANGED <<nextId, rootCancelled, cancelled, pc, waiters, permits,
                 sent, side, rxOpen>>

\* The event loop has ended: the pump stops and drops the receiver.
CloseReceiver ==
  /\ rxOpen
  /\ rxOpen' = FALSE
  /\ events' = <<>>
  /\ UNCHANGED <<nextId, rootCancelled, cancelled, pc, waiters, permits,
                 sent, side, rows>>

\* What one job's task does by itself.
TaskStep(j) ==
  \/ Enqueue(j)
  \/ Acquire(j)
  \/ StartBody(j)
  \/ ObserveCancel(j)
  \/ BodyReturns(j)
  \/ Progress(j)
  \/ ProgressAside(j)
  \/ Forward(j)
  \/ SendCompleted(j)

Next ==
  \/ SpawnTask
  \/ CancelAll
  \/ Deliver
  \/ CloseReceiver
  \/ \E j \in Jobs : Cancel(j) \/ TaskStep(j)

\* The runtime polls every ready task and the pump; it owes nothing to bodies,
\* which may run for ever (a game session does).
Fairness ==
  /\ WF_vars(Deliver)
  /\ \A j \in Jobs : /\ WF_vars(Enqueue(j))
                     /\ WF_vars(Acquire(j))
                     /\ WF_vars(ObserveCancel(j))
                     /\ SF_vars(SendCompleted(j))

Spec == Init /\ [][Next]_vars
FairSpec == Spec /\ Fairness

-----------------------------------------------------------------------------
(* Properties. *)

TypeOK ==
  /\ nextId \in 1..(MaxJobs + 1)
  /\ rootCancelled \in BOOLEAN
  /\ cancelled \subseteq Jobs
  /\ pc \in [Jobs -> Phases]
  /\ waiters \in Seq(Jobs)
  /\ permits \in 0..MaxConcurrent
  /\ sent \in [Jobs -> Nat]
  /\ side \in [Jobs -> Nat]
  /\ events \in Seq(EventType)
  /\ rxOpen \in BOOLEAN
  /\ rows \subseteq Jobs

\* No permit is lost or made up, however a job ends (manager.rs:14-15): the
\* free ones and the ones held by tasks always add up to MaxConcurrent.
PermitsConserved == permits + Cardinality(Holding) = MaxConcurrent

\* A job is announced as completed at most once, and only when its task is over.
IsCompleted(e, j) == e = [kind |-> "completed", id |-> j]
IsProgress(e, j) == e = [kind |-> "progress", id |-> j]
CompletedOnce ==
  \A j \in Jobs : \A i \in DOMAIN events :
    IsCompleted(events[i], j) =>
      /\ pc[j] = "done"
      /\ \A k \in DOMAIN events : IsCompleted(events[k], j) => k = i

\* Completed is the last event of a job that reports on the manager's channel:
\* no progress of it follows the announcement, there or in the rows.
Settled(j) ==
  /\ pc[j] = "done"
  /\ rxOpen
  /\ \A i \in DOMAIN events : ~IsCompleted(events[i], j)
NothingAfterCompleted(j) ==
  /\ \A i, k \in DOMAIN events :
       IsCompleted(events[i], j) /\ k > i => ~IsProgress(events[k], j)
  /\ Settled(j) =>
       /\ j \notin rows
       /\ \A i \in DOMAIN events : ~IsProgress(events[i], j)
CompletedIsLast == \A j \in Jobs \ Forwarded : NothingAfterCompleted(j)

\* After cancel_all every job, running, queued or not yet polled, ends and
\* gives back its permit, even though no body cooperates (manager.rs:59-65).
CancelAllDrains ==
  \A j \in Jobs : (rootCancelled /\ pc[j] # "none") ~> pc[j] = "done"

-----------------------------------------------------------------------------
(* The promise this implements. *)

StatusOf(j) ==
  CASE pc[j] = "none" -> "new"
    [] pc[j] \in {"spawned", "queued"} -> "waiting"
    [] pc[j] \in {"granted", "body", "closing"} -> "working"
    [] OTHER -> "finished"

Pool == INSTANCE JobPool WITH status <- [j \in Jobs |-> StatusOf(j)]

\* The manager implements the abstract pool: bounded work, one life per job.
ImplementsJobPool == Pool!Spec
=============================================================================
