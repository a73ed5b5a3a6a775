----------------------------- MODULE TasksProofs -----------------------------
(***************************************************************************)
(* Proofs for every value of the constants.  About TaskManager: the types, *)
(* the conservation of permits, that Completed is announced once and last, *)
(* and the implementation of JobPool.  About LaunchControl: the types, and *)
(* that a launch the interface has seen start stays tracked unless its     *)
(* instance was launched over a running job.                               *)
(***************************************************************************)
EXTENDS TaskManager, LaunchControl, FiniteSetTheorems, TLAPS

-----------------------------------------------------------------------------
(* TaskManager. *)

\* The tasks that hold a permit form a finite set, as all jobs do.
LEMMA HoldingFinite ==
  /\ IsFiniteSet(Holding)
  /\ Cardinality(Holding) \in Nat
<1>1. IsFiniteSet(Jobs)
  BY FS_Interval, MaxJobsAssumption DEF Jobs
<1>2. Holding \in SUBSET Jobs
  BY DEF Holding
<1> QED BY <1>1, <1>2, FS_Subset, FS_CardinalityType

\* How a step changes the set of permit holders: one task joins it, one task
\* leaves it, or nothing happens to it.
LEMMA HoldingChange ==
  ASSUME TypeOK, NEW j \in Jobs, NEW p \in Phases, pc' = [pc EXCEPT ![j] = p]
  PROVE  Holding' = IF p \in {"granted", "body", "closing"}
                      THEN Holding \cup {j} ELSE Holding \ {j}
BY DEF TypeOK, Holding, Phases

\* The type invariant and the conservation of permits are inductive together:
\* a release stays within MaxConcurrent because the releasing task held one.
\* Fresh is what lets SpawnTask reuse nothing: ids not yet handed out by
\* next_job_id belong to no task, so a spawn cannot orphan a permit.
Fresh == \A j \in Jobs : j >= nextId => pc[j] = "none"
PermitInv == TypeOK /\ Fresh /\ PermitsConserved

LEMMA PermitInit == Init => PermitInv
<1> SUFFICES ASSUME Init PROVE PermitInv
  OBVIOUS
<1>1. TypeOK
  <2>1. nextId \in 1..(MaxJobs + 1)
    BY MaxJobsAssumption DEF Init
  <2>2. permits \in 0..MaxConcurrent
    BY MaxConcurrentAssumption DEF Init
  <2>3. pc \in [Jobs -> Phases] /\ sent \in [Jobs -> Nat] /\ side \in [Jobs -> Nat]
    BY DEF Init, Phases
  <2>4. waiters \in Seq(Jobs) /\ events \in Seq(EventType)
    BY DEF Init
  <2> QED BY <2>1, <2>2, <2>3, <2>4 DEF Init, TypeOK
<1>2. Holding = {}
  BY DEF Init, Holding
<1>3. PermitsConserved
  BY <1>2, FS_EmptySet, MaxConcurrentAssumption DEF Init, PermitsConserved
<1> QED BY <1>1, <1>3 DEF PermitInv, Fresh, Init

\* A step that keeps every task where it is keeps the holders and the permits.
LEMMA SamePc ==
  ASSUME PermitInv, UNCHANGED <<pc, permits, nextId>>
  PROVE  PermitsConserved' /\ Fresh'
BY DEF PermitInv, PermitsConserved, Holding, Fresh

\* What can be sent: Send leaves a sequence of events behind.
LEMMA SendType ==
  ASSUME TypeOK, NEW j \in Jobs, NEW kind \in {"progress", "completed"},
         Send(kind, j)
  PROVE  events' \in Seq(EventType)
<1>1. [kind |-> kind, id |-> j] \in EventType
  BY DEF EventType
<1>2. events \in Seq(EventType)
  BY DEF TypeOK
<1> QED BY <1>1, <1>2 DEF Send

LEMMA PermitStep == PermitInv /\ [Next]_vars => PermitInv'
<1> SUFFICES ASSUME PermitInv, [Next]_vars PROVE PermitInv'
  OBVIOUS
<1> USE DEF PermitInv
<1>0. /\ Cardinality(Holding) \in Nat
      /\ IsFiniteSet(Holding)
  BY HoldingFinite
<1>1. CASE SpawnTask
  <2> PICK n \in Jobs : n = nextId
    BY <1>1 DEF SpawnTask
  <2>1. /\ pc' = [pc EXCEPT ![n] = "spawned"]
        /\ nextId' = n + 1
    BY <1>1 DEF SpawnTask
  <2>2. nextId' \in 1..(MaxJobs + 1)
    BY <2>1, MaxJobsAssumption DEF Jobs
  <2>3. pc' \in [Jobs -> Phases]
    BY <2>1 DEF TypeOK, Phases
  <2>4. TypeOK'
    BY <1>1, <2>2, <2>3 DEF SpawnTask, TypeOK
  <2>5. Fresh'
    <3> SUFFICES ASSUME NEW j \in Jobs, j >= nextId' PROVE pc'[j] = "none"
      BY DEF Fresh
    <3>1. j \in Int /\ n \in Int
      BY MaxJobsAssumption DEF Jobs
    <3>2. j >= n /\ j # n
      BY <2>1, <3>1
    <3>3. pc'[j] = pc[j]
      BY <2>1, <3>2 DEF TypeOK
    <3> QED BY <3>2, <3>3 DEF Fresh
  <2>6. n \notin Holding
    BY MaxJobsAssumption DEF Fresh, Holding, Jobs
  <2>7. Holding' = Holding \ {n}
    BY <2>1, HoldingChange DEF Phases
  <2> QED BY <1>1, <2>4, <2>5, <2>6, <2>7 DEF SpawnTask, PermitsConserved
<1>2. CASE CancelAll
  BY <1>2, SamePc DEF CancelAll, TypeOK
<1>3. CASE Deliver
  <2>1. events \in Seq(EventType) /\ events # <<>>
    BY <1>3 DEF Deliver, TypeOK
  <2>2. Head(events) \in EventType /\ Tail(events) \in Seq(EventType)
    BY <2>1
  <2>3. rows' \subseteq Jobs
    BY <1>3, <2>2 DEF Deliver, TypeOK, EventType
  <2> QED BY <1>3, <2>2, <2>3, SamePc DEF Deliver, TypeOK
<1>4. CASE CloseReceiver
  <2>1. events' \in Seq(EventType)
    BY <1>4 DEF CloseReceiver
  <2> QED BY <1>4, <2>1, SamePc DEF CloseReceiver, TypeOK
<1>5. ASSUME NEW j \in Jobs, Cancel(j) PROVE PermitInv'
  BY <1>5, SamePc DEF Cancel, TypeOK
<1>6. ASSUME NEW j \in Jobs, TaskStep(j) PROVE PermitInv'
  <2>0. ASSUME NEW p \in Phases, pc' = [pc EXCEPT ![j] = p], pc[j] # "none",
               nextId' = nextId
        PROVE  Fresh'
    BY <2>0 DEF Fresh, TypeOK
  <2>1. CASE Enqueue(j)
    <3>0. Fresh'
      BY <2>1, <2>0 DEF Enqueue, Phases
    <3>1. TypeOK'
      BY <2>1 DEF Enqueue, TypeOK, Phases
    <3>2. Holding' = Holding \ {j} /\ j \notin Holding
      BY <2>1, HoldingChange DEF Enqueue, Phases, Holding
    <3> QED BY <2>1, <3>0, <3>1, <3>2 DEF Enqueue, PermitsConserved
  <2>2. CASE Acquire(j)
    <3>0. Fresh'
      BY <2>2, <2>0 DEF Acquire, Grant, AtHead, Phases
    <3>1. TypeOK'
      BY <2>2, MaxConcurrentAssumption DEF Acquire, Grant, AtHead, TypeOK, Phases
    <3>2. Holding' = Holding \cup {j} /\ j \notin Holding
      BY <2>2, HoldingChange DEF Acquire, Grant, AtHead, Phases, Holding
    <3>3. Cardinality(Holding') = Cardinality(Holding) + 1
      BY <1>0, <3>2, FS_AddElement
    <3>4. permits' = permits - 1 /\ permits \in Nat
      BY <2>2, MaxConcurrentAssumption DEF Acquire, Grant, AtHead, TypeOK
    <3>5. PermitsConserved'
      BY <1>0, <3>3, <3>4 DEF PermitsConserved
    <3> QED BY <3>0, <3>1, <3>5
  <2>3. CASE StartBody(j)
    <3>0. Fresh'
      BY <2>3, <2>0 DEF StartBody, MoveTo, Phases
    <3>1. TypeOK'
      BY <2>3 DEF StartBody, MoveTo, TypeOK, Phases
    <3>2. Holding' = Holding \cup {j} /\ j \in Holding
      BY <2>3, HoldingChange DEF StartBody, MoveTo, Phases, Holding
    <3>3. Holding' = Holding
      BY <3>2
    <3> QED BY <2>3, <3>0, <3>1, <3>3 DEF StartBody, MoveTo, PermitsConserved
  <2>4. CASE ObserveCancel(j)
    <3>0. Fresh'
      BY <2>4, <2>0 DEF ObserveCancel, MoveTo, Phases
    <3>1. TypeOK'
      BY <2>4 DEF ObserveCancel, MoveTo, TypeOK, Phases
    <3>2. Holding' = Holding \cup {j} /\ j \in Holding
      BY <2>4, HoldingChange DEF ObserveCancel, MoveTo, Phases, Holding
    <3>3. Holding' = Holding
      BY <3>2
    <3> QED BY <2>4, <3>0, <3>1, <3>3 DEF ObserveCancel, MoveTo, PermitsConserved
  <2>5. CASE BodyReturns(j)
    <3>0. Fresh'
      BY <2>5, <2>0 DEF BodyReturns, MoveTo, Phases
    <3>1. TypeOK'
      BY <2>5 DEF BodyReturns, MoveTo, TypeOK, Phases
    <3>2. Holding' = Holding \cup {j} /\ j \in Holding
      BY <2>5, HoldingChange DEF BodyReturns, MoveTo, Phases, Holding
    <3>3. Holding' = Holding
      BY <3>2
    <3> QED BY <2>5, <3>0, <3>1, <3>3 DEF BodyReturns, MoveTo, PermitsConserved
  <2>6. CASE Progress(j)
    <3>1. events' \in Seq(EventType)
      BY <2>6, SendType DEF Progress, ProgressIn
    <3> QED BY <2>6, <3>1, SamePc DEF Progress, ProgressIn, TypeOK
  <2>7. CASE ProgressAside(j)
    BY <2>7, SamePc DEF ProgressAside, TypeOK
  <2>8. CASE Forward(j)
    <3>1. side' \in [Jobs -> Nat]
      BY <2>8 DEF Forward, TypeOK
    <3> QED BY <2>8, <3>1, SamePc DEF Forward, TypeOK
  <2>10. CASE SendCompleted(j)
    <3>0. Fresh'
      BY <2>10, <2>0 DEF SendCompleted, Announce, Phases
    <3>1. events' \in Seq(EventType)
      BY <2>10, SendType DEF SendCompleted, Announce
    <3>2. Holding' = Holding \ {j} /\ j \in Holding
      BY <2>10, HoldingChange DEF SendCompleted, Announce, Phases, Holding
    <3>3. Cardinality(Holding') = Cardinality(Holding) - 1
      BY <1>0, <3>2, FS_RemoveElement
    <3>4. Cardinality(Holding') \in Nat
      BY <1>0, <3>2, FS_RemoveElement, FS_CardinalityType
    <3>5. permits' \in 0..MaxConcurrent /\ PermitsConserved'
      BY <2>10, <1>0, <3>3, <3>4, MaxConcurrentAssumption
         DEF SendCompleted, Announce, PermitsConserved, TypeOK
    <3> QED BY <2>10, <3>0, <3>1, <3>5 DEF SendCompleted, Announce, TypeOK, Phases
  <2> QED BY <1>6, <2>1, <2>2, <2>3, <2>4, <2>5, <2>6, <2>7, <2>8, <2>10
          DEF TaskStep
<1>7. CASE UNCHANGED vars
  BY <1>7, SamePc DEF vars, TypeOK
<1> QED BY <1>1, <1>2, <1>3, <1>4, <1>5, <1>6, <1>7 DEF Next

\* The types and the accounting of permits hold in every reachable state.
LEMMA PermitInvariant == Spec => []PermitInv
BY PermitInit, PermitStep, PTL DEF Spec

\* Every variable keeps its type, whatever the jobs do (tasks/manager.rs).
THEOREM TypeCorrect == Spec => []TypeOK
<1>1. PermitInv => TypeOK
  BY DEF PermitInv
<1> QED BY <1>1, PermitInvariant, PTL

\* No way for a job to end (return, cancellation while it waits, runs or has
\* just been granted, a receiver that went away) leaks or duplicates a permit.
THEOREM PermitsNeverLeak == Spec => []PermitsConserved
<1>1. PermitInv => PermitsConserved
  BY DEF PermitInv
<1> QED BY <1>1, PermitInvariant, PTL

-----------------------------------------------------------------------------
(* Refinement: the manager implements JobPool. *)

\* The tasks at work in the abstract pool are exactly the permit holders.
LEMMA WorkingIsHolding == ASSUME TypeOK PROVE Pool!Working = Holding
BY DEF TypeOK, Phases, Holding, Pool!Working, StatusOf

LEMMA PoolInit == Init => Pool!Init
BY DEF Init, Pool!Init, StatusOf

\* A step that moves one task's pc maps to a step of that job's status.
LEMMA StatusMove ==
  ASSUME TypeOK, NEW j \in Jobs, NEW p \in Phases, pc' = [pc EXCEPT ![j] = p]
  PROVE  [k \in Jobs |-> StatusOf(k)]'
           = [[k \in Jobs |-> StatusOf(k)] EXCEPT ![j] = StatusOf(j)']
<1>1. \A k \in Jobs \ {j} : StatusOf(k)' = StatusOf(k)
  BY DEF TypeOK, StatusOf
<1> QED BY <1>1

LEMMA PoolStep ==
  PermitInv /\ [Next]_vars => [Pool!Next]_([j \in Jobs |-> StatusOf(j)])
<1> SUFFICES ASSUME PermitInv, [Next]_vars
             PROVE  Pool!Next \/ UNCHANGED [j \in Jobs |-> StatusOf(j)]
  OBVIOUS
<1> USE DEF PermitInv
<1>0. TypeOK
  OBVIOUS
<1>1. CASE UNCHANGED pc
  BY <1>1 DEF StatusOf
<1>2. CASE SpawnTask
  <2> PICK n \in Jobs : n = nextId
    BY <1>2 DEF SpawnTask
  <2>1. pc' = [pc EXCEPT ![n] = "spawned"] /\ pc[n] = "none"
    BY <1>2, MaxJobsAssumption DEF SpawnTask, Fresh, Jobs
  <2>2. StatusOf(n) = "new" /\ StatusOf(n)' = "waiting"
    BY <1>0, <2>1 DEF StatusOf, TypeOK
  <2>3. Pool!Submit(n)
    BY <1>0, <2>1, <2>2, StatusMove DEF Pool!Submit, Phases
  <2> QED BY <2>3 DEF Pool!Next
<1>3. ASSUME NEW j \in Jobs, TaskStep(j)
      PROVE  Pool!Next \/ UNCHANGED [k \in Jobs |-> StatusOf(k)]
  <2>1. ASSUME NEW p \in Phases, pc' = [pc EXCEPT ![j] = p], StatusOf(j)' = StatusOf(j)
        PROVE  UNCHANGED [k \in Jobs |-> StatusOf(k)]
    <3>1. \A k \in Jobs : StatusOf(k)' = StatusOf(k)
      BY <1>0, <2>1 DEF TypeOK, StatusOf
    <3> QED BY <3>1
  <2>2. CASE Enqueue(j)
    <3>1. pc' = [pc EXCEPT ![j] = "queued"] /\ StatusOf(j)' = StatusOf(j)
      BY <1>0, <2>2 DEF Enqueue, StatusOf, TypeOK
    <3> QED BY <2>1, <3>1 DEF Phases
  <2>3. CASE Acquire(j)
    <3>1. /\ pc' = [pc EXCEPT ![j] = "granted"]
          /\ StatusOf(j) = "waiting" /\ StatusOf(j)' = "working"
      BY <1>0, <2>3 DEF Acquire, Grant, AtHead, StatusOf, TypeOK
    <3>2. Cardinality(Pool!Working) < MaxConcurrent
      BY <1>0, <2>3, WorkingIsHolding, HoldingFinite, MaxConcurrentAssumption
         DEF Acquire, Grant, AtHead, PermitsConserved, TypeOK
    <3>3. [k \in Jobs |-> StatusOf(k)]'
            = [[k \in Jobs |-> StatusOf(k)] EXCEPT ![j] = "working"]
      BY <1>0, <3>1, StatusMove DEF Phases
    <3>4. Pool!Start(j)
      BY <3>1, <3>2, <3>3 DEF Pool!Start, Pool!Cardinality, Cardinality
    <3> QED BY <3>4 DEF Pool!Next
  <2>4. CASE StartBody(j)
    <3>1. pc' = [pc EXCEPT ![j] = "body"] /\ StatusOf(j)' = StatusOf(j)
      BY <1>0, <2>4 DEF StartBody, MoveTo, StatusOf, TypeOK
    <3> QED BY <2>1, <3>1 DEF Phases
  <2>5. CASE ObserveCancel(j)
    <3>1. pc' = [pc EXCEPT ![j] = "closing"] /\ StatusOf(j)' = StatusOf(j)
      BY <1>0, <2>5 DEF ObserveCancel, MoveTo, StatusOf, TypeOK
    <3> QED BY <2>1, <3>1 DEF Phases
  <2>6. CASE BodyReturns(j)
    <3>1. pc' = [pc EXCEPT ![j] = "closing"] /\ StatusOf(j)' = StatusOf(j)
      BY <1>0, <2>6 DEF BodyReturns, MoveTo, StatusOf, TypeOK
    <3> QED BY <2>1, <3>1 DEF Phases
  <2>7. CASE SendCompleted(j)
    <3>1. /\ pc' = [pc EXCEPT ![j] = "done"]
          /\ StatusOf(j) = "working" /\ StatusOf(j)' = "finished"
      BY <1>0, <2>7 DEF SendCompleted, Announce, StatusOf, TypeOK
    <3>2. Pool!Finish(j)
      BY <1>0, <3>1, StatusMove DEF Pool!Finish, Phases
    <3> QED BY <3>2 DEF Pool!Next
  <2> QED BY <1>1, <1>3, <2>2, <2>3, <2>4, <2>5, <2>6, <2>7
          DEF TaskStep, Progress, ProgressIn, ProgressAside, Forward
<1> QED BY <1>1, <1>2, <1>3 DEF Next, CancelAll, Deliver, CloseReceiver, Cancel, vars

\* Every behaviour of the manager is one of the abstract pool: at most
\* MaxConcurrent jobs work at once and each job lives exactly one life.
THEOREM RefinesJobPool == Spec => ImplementsJobPool
BY PoolInit, PoolStep, PermitInvariant, PTL
   DEF Spec, ImplementsJobPool, Pool!Spec

-----------------------------------------------------------------------------
(* Completed is announced once, and last. *)

\* The strengthening: a job that reports on the manager's channel has nothing
\* in a forwarder that could reach the rows behind its announcement.
NothingAside == \A j \in Jobs \ Forwarded : side[j] = 0
OrderInv == CompletedOnce /\ CompletedIsLast /\ NothingAside

\* What a successful send does to the channel.
LEMMA SendAppends ==
  ASSUME TypeOK, NEW j \in Jobs, NEW kind \in {"progress", "completed"},
         Send(kind, j)
  PROVE  \/ ~rxOpen /\ events' = events
         \/ /\ rxOpen
            /\ DOMAIN events' = 1..(Len(events) + 1)
            /\ DOMAIN events = 1..Len(events)
            /\ Len(events) \in Nat
            /\ events'[Len(events) + 1] = [kind |-> kind, id |-> j]
            /\ \A i \in DOMAIN events : events'[i] = events[i]
<1>1. events \in Seq(EventType) /\ [kind |-> kind, id |-> j] \in EventType
  BY DEF TypeOK, EventType
<1> QED BY <1>1 DEF Send

\* Progress of a job that is not over breaks nothing.
LEMMA ProgressKeepsOrder ==
  ASSUME TypeOK, OrderInv, NEW j \in Jobs, Send("progress", j),
         pc[j] # "done",
         pc' = pc, rxOpen' = rxOpen, rows' = rows
  PROVE  CompletedOnce' /\ CompletedIsLast'
<1>1. CASE events' = events
  BY <1>1 DEF OrderInv, CompletedOnce, CompletedIsLast, NothingAfterCompleted,
              Settled, IsCompleted, IsProgress
<1>2. CASE events' # events
  <2> DEFINE n == Len(events) + 1
  <2>1. /\ DOMAIN events' = 1..n
        /\ DOMAIN events = 1..(n - 1)
        /\ n \in Nat /\ n > 0
        /\ events'[n] = [kind |-> "progress", id |-> j]
        /\ \A i \in DOMAIN events : events'[i] = events[i]
    <3>1. /\ DOMAIN events' = 1..(Len(events) + 1)
          /\ DOMAIN events = 1..Len(events)
          /\ Len(events) \in Nat
          /\ events'[Len(events) + 1] = [kind |-> "progress", id |-> j]
          /\ \A i \in DOMAIN events : events'[i] = events[i]
      BY <1>2, SendAppends
    <3>2. Len(events) = n - 1
      BY <3>1
    <3> QED BY <3>1, <3>2
  <2> HIDE DEF n
  <2>2. \A i \in DOMAIN events' : i = n \/ i \in DOMAIN events
    BY <2>1
  <2>3. \A k \in Jobs : ~IsCompleted(events'[n], k)
    BY <2>1 DEF IsCompleted
  <2>4. CompletedOnce'
    BY <2>1, <2>2, <2>3 DEF OrderInv, CompletedOnce, IsCompleted
  <2>5. ASSUME NEW k \in Jobs \ Forwarded PROVE NothingAfterCompleted(k)'
    <3>1. NothingAfterCompleted(k)
      BY DEF OrderInv, CompletedIsLast
    <3>2. CASE k # j
      <4>1. ~IsProgress(events'[n], k)
        BY <2>1, <3>2 DEF IsProgress
      <4>2. \A i \in DOMAIN events : i < n
        BY <2>1
      <4> QED BY <2>1, <2>2, <2>3, <3>1, <4>1, <4>2
              DEF NothingAfterCompleted, Settled, IsProgress, IsCompleted
    <3>3. CASE k = j
      <4>1. pc[k] # "done"
        BY <3>3
      <4>2. \A i \in DOMAIN events : ~IsCompleted(events[i], k)
        BY <4>1 DEF OrderInv, CompletedOnce
      <4>3. \A i \in DOMAIN events' : ~IsCompleted(events'[i], k)
        BY <2>1, <2>2, <2>3, <4>2 DEF IsCompleted
      <4> QED BY <4>1, <4>3 DEF NothingAfterCompleted, Settled, IsCompleted
    <3> QED BY <3>2, <3>3
  <2> QED BY <2>4, <2>5 DEF CompletedIsLast
<1> QED BY <1>1, <1>2

\* A step of a task that neither sends nor ends keeps the order.
LEMMA QuietKeepsOrder ==
  ASSUME OrderInv, UNCHANGED <<events, rxOpen, rows>>,
         \A j \in Jobs : pc'[j] = "done" <=> pc[j] = "done"
  PROVE  CompletedOnce' /\ CompletedIsLast'
BY DEF OrderInv, CompletedOnce, CompletedIsLast, NothingAfterCompleted,
       Settled, IsCompleted, IsProgress

\* The pump takes the oldest event; the row it closes is never opened again.
LEMMA DeliverKeepsOrder ==
  ASSUME TypeOK, OrderInv, Deliver
  PROVE  CompletedOnce' /\ CompletedIsLast'
<1> DEFINE n == Len(events)
<1>1. /\ DOMAIN events = 1..n
      /\ n \in Nat /\ n > 0
      /\ DOMAIN events' = 1..(n - 1)
      /\ \A i \in DOMAIN events' : events'[i] = events[i + 1]
      /\ Head(events) = events[1]
      /\ events[1] \in EventType
  BY DEF Deliver, TypeOK
<1> HIDE DEF n
<1>2. \A i \in DOMAIN events' : i + 1 \in DOMAIN events /\ i \in Int
  BY <1>1
<1>3. CompletedOnce'
  <2> SUFFICES ASSUME NEW j \in Jobs, NEW i \in DOMAIN events',
                      IsCompleted(events'[i], j)
               PROVE  /\ pc'[j] = "done"
                      /\ \A k \in DOMAIN events' :
                           IsCompleted(events'[k], j) => k = i
    BY DEF CompletedOnce, IsCompleted
  <2>1. i + 1 \in DOMAIN events /\ IsCompleted(events[i + 1], j)
    BY <1>1, <1>2 DEF IsCompleted
  <2>2. pc[j] = "done"
    BY <2>1 DEF OrderInv, CompletedOnce
  <2>3. ASSUME NEW k \in DOMAIN events', IsCompleted(events'[k], j) PROVE k = i
    <3>1. k + 1 \in DOMAIN events /\ IsCompleted(events[k + 1], j)
      BY <1>1, <1>2, <2>3 DEF IsCompleted
    <3>2. k + 1 = i + 1
      BY <2>1, <3>1 DEF OrderInv, CompletedOnce
    <3> QED BY <1>2, <3>2
  <2> QED BY <2>2, <2>3 DEF Deliver
<1>4. ASSUME NEW j \in Jobs \ Forwarded PROVE NothingAfterCompleted(j)'
  <2>1. NothingAfterCompleted(j)
    BY DEF OrderInv, CompletedIsLast
  <2>2. ASSUME NEW i \in DOMAIN events', NEW k \in DOMAIN events',
               IsCompleted(events'[i], j), k > i
        PROVE  ~IsProgress(events'[k], j)
    <3>1. /\ i + 1 \in DOMAIN events /\ k + 1 \in DOMAIN events
          /\ k + 1 > i + 1
      BY <1>2, <2>2
    <3>2. IsCompleted(events[i + 1], j)
      BY <1>1, <2>2 DEF IsCompleted
    <3>3. ~IsProgress(events[k + 1], j)
      BY <2>1, <3>1, <3>2 DEF NothingAfterCompleted
    <3> QED BY <1>1, <3>3 DEF IsProgress
  <2>3. ASSUME Settled(j)'
        PROVE  /\ j \notin rows'
               /\ \A i \in DOMAIN events' : ~IsProgress(events'[i], j)
    <3>1. pc[j] = "done" /\ rxOpen
      BY <2>3 DEF Settled, Deliver
    <3>2. \A i \in DOMAIN events \ {1} : i - 1 \in DOMAIN events' /\ events[i] = events'[i - 1]
      BY <1>1
    <3>3. \A i \in DOMAIN events \ {1} : ~IsCompleted(events[i], j)
      BY <2>3, <3>2 DEF Settled, IsCompleted
    <3>4. CASE IsCompleted(events[1], j)
      <4>1. \A k \in DOMAIN events : k > 1 => ~IsProgress(events[k], j)
        BY <1>1, <2>1, <3>4 DEF NothingAfterCompleted
      <4>2. \A i \in DOMAIN events' : i + 1 > 1
        BY <1>1
      <4>3. \A i \in DOMAIN events' : ~IsProgress(events'[i], j)
        BY <1>1, <1>2, <4>1, <4>2 DEF IsProgress
      <4>4. j \notin rows'
        BY <1>1, <3>4 DEF Deliver, IsCompleted
      <4> QED BY <4>3, <4>4
    <3>5. CASE ~IsCompleted(events[1], j)
      <4>1. Settled(j)
        BY <3>1, <3>3, <3>5 DEF Settled
      <4>2. j \notin rows /\ \A i \in DOMAIN events : ~IsProgress(events[i], j)
        BY <2>1, <4>1 DEF NothingAfterCompleted
      <4>3. \A i \in DOMAIN events' : ~IsProgress(events'[i], j)
        BY <1>1, <1>2, <4>2 DEF IsProgress
      <4>4. events[1].kind = "progress" => events[1].id # j
        BY <1>1, <4>2 DEF IsProgress, EventType
      <4>5. j \notin rows'
        BY <1>1, <4>2, <4>4 DEF Deliver
      <4> QED BY <4>3, <4>5
    <3> QED BY <3>4, <3>5
  <2> QED BY <2>2, <2>3 DEF NothingAfterCompleted, Settled, IsCompleted, IsProgress
<1> QED BY <1>3, <1>4 DEF CompletedIsLast

\* The announcement of a task that is about to end is the first of that job.
LEMMA AnnouncementKeepsOrder ==
  ASSUME TypeOK, OrderInv, NEW j \in Jobs, SendCompleted(j)
  PROVE  CompletedOnce' /\ CompletedIsLast'
<1>1. /\ pc[j] = "closing" /\ pc' = [pc EXCEPT ![j] = "done"]
      /\ rxOpen' = rxOpen /\ rows' = rows
  BY DEF SendCompleted, Announce
<1>2. \A k \in Jobs : pc'[k] = IF k = j THEN "done" ELSE pc[k]
  BY <1>1 DEF TypeOK
<1>3. \A i \in DOMAIN events : ~IsCompleted(events[i], j)
  BY <1>1 DEF OrderInv, CompletedOnce
<1>4. CASE ~rxOpen /\ events' = events
  BY <1>1, <1>2, <1>3, <1>4
     DEF OrderInv, CompletedOnce, CompletedIsLast, NothingAfterCompleted,
         Settled, IsCompleted, IsProgress
<1>5. CASE ~(~rxOpen /\ events' = events)
  <2> DEFINE n == Len(events) + 1
  <2>1. /\ DOMAIN events' = 1..n
        /\ DOMAIN events = 1..(n - 1)
        /\ n \in Nat /\ n > 0
        /\ events'[n] = [kind |-> "completed", id |-> j]
        /\ \A i \in DOMAIN events : events'[i] = events[i]
    <3>1. /\ DOMAIN events' = 1..(Len(events) + 1)
          /\ DOMAIN events = 1..Len(events)
          /\ Len(events) \in Nat
          /\ events'[Len(events) + 1] = [kind |-> "completed", id |-> j]
          /\ \A i \in DOMAIN events : events'[i] = events[i]
      BY <1>5, SendAppends DEF SendCompleted, Announce
    <3>2. Len(events) = n - 1
      BY <3>1
    <3> QED BY <3>1, <3>2
  <2> HIDE DEF n
  <2>2. \A i \in DOMAIN events' : i = n \/ i \in DOMAIN events
    BY <2>1
  <2>3. \A k \in Jobs : /\ ~IsProgress(events'[n], k)
                        /\ IsCompleted(events'[n], k) <=> k = j
    BY <2>1 DEF IsProgress, IsCompleted
  <2>4. CompletedOnce'
    <3> SUFFICES ASSUME NEW k \in Jobs, NEW i \in DOMAIN events',
                        IsCompleted(events'[i], k)
                 PROVE  /\ pc'[k] = "done"
                        /\ \A m \in DOMAIN events' :
                             IsCompleted(events'[m], k) => m = i
      BY DEF CompletedOnce, IsCompleted
    <3>1. CASE k = j
      BY <1>2, <1>3, <2>1, <2>2, <2>3, <3>1 DEF IsCompleted
    <3>2. CASE k # j
      <4>1. i \in DOMAIN events /\ IsCompleted(events[i], k)
        BY <2>1, <2>2, <2>3, <3>2 DEF IsCompleted
      <4>2. pc[k] = "done" /\ \A m \in DOMAIN events : IsCompleted(events[m], k) => m = i
        BY <4>1 DEF OrderInv, CompletedOnce
      <4> QED BY <1>2, <2>1, <2>2, <2>3, <3>2, <4>2 DEF IsCompleted
    <3> QED BY <3>1, <3>2
  <2>5. ASSUME NEW k \in Jobs \ Forwarded PROVE NothingAfterCompleted(k)'
    <3>1. NothingAfterCompleted(k)
      BY DEF OrderInv, CompletedIsLast
    <3>2. ASSUME NEW i \in DOMAIN events', NEW m \in DOMAIN events',
                 IsCompleted(events'[i], k), m > i
          PROVE  ~IsProgress(events'[m], k)
      <4>1. m # n => i \in DOMAIN events /\ m \in DOMAIN events
        BY <2>1, <2>2, <3>2
      <4> QED BY <2>1, <2>3, <3>1, <3>2, <4>1
              DEF NothingAfterCompleted, IsCompleted, IsProgress
    <3>3. ASSUME Settled(k)'
          PROVE  /\ k \notin rows'
                 /\ \A i \in DOMAIN events' : ~IsProgress(events'[i], k)
      <4>1. k # j /\ pc[k] = "done" /\ rxOpen
        BY <1>1, <1>2, <2>1, <2>3, <3>3 DEF Settled, IsCompleted
      <4>2. \A i \in DOMAIN events : ~IsCompleted(events[i], k)
        BY <2>1, <3>3 DEF Settled, IsCompleted
      <4>3. Settled(k)
        BY <4>1, <4>2 DEF Settled
      <4> QED BY <1>1, <2>1, <2>2, <2>3, <3>1, <4>3
              DEF NothingAfterCompleted, IsProgress
    <3> QED BY <3>2, <3>3 DEF NothingAfterCompleted, Settled, IsCompleted, IsProgress
  <2> QED BY <2>4, <2>5 DEF CompletedIsLast
<1> QED BY <1>4, <1>5

LEMMA OrderInit == Init => OrderInv
BY DEF Init, OrderInv, CompletedOnce, CompletedIsLast, NothingAfterCompleted,
       Settled, NothingAside, IsCompleted, IsProgress

LEMMA OrderStep == PermitInv /\ OrderInv /\ [Next]_vars => OrderInv'
<1> SUFFICES ASSUME PermitInv, OrderInv, [Next]_vars PROVE OrderInv'
  OBVIOUS
<1>0. TypeOK
  BY DEF PermitInv
<1>1. NothingAside'
  BY <1>0 DEF OrderInv, NothingAside, Next, TaskStep, SpawnTask, CancelAll,
     Deliver, CloseReceiver, Cancel, Enqueue, Acquire, Grant, StartBody, MoveTo,
     ObserveCancel, BodyReturns, Progress, ProgressIn, ProgressAside, Forward,
     SendCompleted, Announce, vars, TypeOK
<1>2. CASE SpawnTask
  <2> PICK n \in Jobs : n = nextId
    BY <1>2 DEF SpawnTask
  <2>1. pc[n] = "none" /\ pc' = [pc EXCEPT ![n] = "spawned"]
    BY <1>2, MaxJobsAssumption DEF SpawnTask, PermitInv, Fresh, Jobs
  <2>2. \A j \in Jobs : pc'[j] = "done" <=> pc[j] = "done"
    BY <1>0, <2>1 DEF TypeOK
  <2> QED BY <1>1, <1>2, <2>2, QuietKeepsOrder DEF SpawnTask, OrderInv
<1>3. CASE Deliver
  BY <1>0, <1>1, <1>3, DeliverKeepsOrder DEF OrderInv
<1>4. CASE CloseReceiver
  BY <1>1, <1>4 DEF CloseReceiver, OrderInv, CompletedOnce, CompletedIsLast,
                    NothingAfterCompleted, Settled, IsCompleted, IsProgress
<1>5. CASE UNCHANGED <<pc, events, rxOpen, rows>>
  BY <1>1, <1>5, QuietKeepsOrder DEF OrderInv
<1>6. ASSUME NEW j \in Jobs, TaskStep(j) PROVE OrderInv'
  <2>1. CASE Enqueue(j) \/ Acquire(j) \/ StartBody(j) \/ ObserveCancel(j) \/ BodyReturns(j)
    <3>1. \A k \in Jobs : pc'[k] = "done" <=> pc[k] = "done"
      BY <1>0, <2>1 DEF TypeOK, Enqueue, Acquire, Grant, StartBody, MoveTo, ObserveCancel, BodyReturns
    <3>2. UNCHANGED <<events, rxOpen, rows>>
      BY <2>1 DEF Enqueue, Acquire, Grant, StartBody, MoveTo, ObserveCancel, BodyReturns
    <3> QED BY <1>1, <3>1, <3>2, QuietKeepsOrder DEF OrderInv
  <2>2. CASE Progress(j)
    BY <1>0, <1>1, <2>2, ProgressKeepsOrder DEF Progress, ProgressIn, OrderInv
  <2>3. CASE ProgressAside(j)
    BY <1>5, <2>3 DEF ProgressAside
  <2>4. CASE Forward(j)
    <3>1. j \in Forwarded
      BY <2>4 DEF Forward, OrderInv, NothingAside
    <3>2. \A k \in Jobs \ Forwarded : k \in rows' <=> k \in rows
      BY <2>4, <3>1 DEF Forward
    <3>3. UNCHANGED <<pc, events, rxOpen>>
      BY <2>4 DEF Forward
    <3> QED BY <1>1, <3>2, <3>3
            DEF OrderInv, CompletedOnce, CompletedIsLast, NothingAfterCompleted,
                Settled, IsCompleted, IsProgress
  <2>5. CASE SendCompleted(j)
    BY <1>0, <1>1, <2>5, AnnouncementKeepsOrder DEF OrderInv
  <2> QED BY <1>6, <2>1, <2>2, <2>3, <2>4, <2>5 DEF TaskStep
<1> QED BY <1>2, <1>3, <1>4, <1>5, <1>6 DEF Next, CancelAll, Cancel, vars

\* A job is announced as completed at most once, and never before its end.
THEOREM AnnouncedOnce == Spec => []CompletedOnce
<1>1. OrderInv => CompletedOnce
  BY DEF OrderInv
<1> QED BY <1>1, OrderInit, OrderStep, PermitInvariant, PTL DEF Spec

\* For a job that reports on the manager's channel the announcement is the last word: no
\* progress follows it and the row it closes stays closed.
THEOREM AnnouncedLast == Spec => []CompletedIsLast
<1>1. OrderInv => CompletedIsLast
  BY DEF OrderInv
<1> QED BY <1>1, OrderInit, OrderStep, PermitInvariant, PTL DEF Spec

-----------------------------------------------------------------------------
(* LaunchControl. *)

MsgType == {"started", "exited", "failed"} \X Launches

\* Launches get their numbers in turn; one that has begun is for an instance.
Begun ==
  \A j \in Launches : /\ j >= next => reached[j] = "none"
                      /\ reached[j] # "none" => slug[j] \in Slugs

\* What an action in the channel says of its launch is so.
Truthful ==
  \A i \in 1..Len(chan) : /\ reached[chan[i][2]] \notin {"none", "queued"}
                          /\ chan[i][1] # "started" => reached[chan[i][2]] = "done"

\* An instance that was never launched over a job has one job at most.
Alone ==
  \A j, k \in Launches :
    (j # k /\ slug[j] = slug[k] /\ InFlight(j) /\ InFlight(k)) => slug[j] \in overlapped

Working(j) == reached[j] \in {"preparing", "playing", "ending"}

\* The announcement of a job comes after all that was sent about earlier
\* launches of its instance: what is left of those is received before it.
Behind ==
  \A j \in Launches, i \in 1..Len(chan) :
    (/\ Working(j) /\ slug[j] \notin overlapped
     /\ chan[i][2] # j /\ slug[chan[i][2]] = slug[j]) =>
       \E n \in (i + 1)..Len(chan) : chan[n] = <<"started", j>>

IInv == LaunchTypeOK /\ Begun /\ Truthful /\ Alone /\ Behind /\ TrackedUnlessOverlapped

\* The members of the channel are actions about launches.
LEMMA ChanFields ==
  ASSUME LaunchTypeOK, NEW i \in 1..Len(chan)
  PROVE  /\ chan[i] \in MsgType
         /\ chan[i][1] \in {"started", "exited", "failed"}
         /\ chan[i][2] \in Launches
         /\ chan[i] = <<chan[i][1], chan[i][2]>>
<1>1. chan \in Seq(MsgType)
  BY DEF LaunchTypeOK, MsgType
<1>2. chan[i] \in MsgType
  BY <1>1
<1> QED BY <1>2 DEF MsgType

LEMMA InitIInv == LaunchInit => IInv
<1> SUFFICES ASSUME LaunchInit PROVE IInv
  OBVIOUS
<1>1. LaunchTypeOK
  <2>1. next \in 1..(MaxLaunches + 1)
    BY LaunchAssumption DEF LaunchInit
  <2>2. chan \in Seq({"started", "exited", "failed"} \X Launches)
    BY DEF LaunchInit
  <2>3. slug \in [Launches -> Slugs \cup {None}] /\ reached \in [Launches -> Stages]
    BY DEF LaunchInit, Stages
  <2>4. running \in [Slugs -> Launches \cup {None}] /\ confirm \in Slugs \cup {None}
    BY DEF LaunchInit
  <2> QED BY <2>1, <2>2, <2>3, <2>4 DEF LaunchInit, LaunchTypeOK
<1>2. Begun /\ Alone
  BY DEF LaunchInit, Begun, Alone, InFlight
<1>3. Truthful /\ Behind
  BY DEF LaunchInit, Truthful, Behind
<1>4. TrackedUnlessOverlapped
  BY DEF LaunchInit, TrackedUnlessOverlapped, Announced
<1> QED BY <1>1, <1>2, <1>3, <1>4 DEF IInv

\* A step that only touches what the interface shows keeps the invariant.
LEMMA ShowStep ==
  ASSUME IInv, UNCHANGED <<next, slug, reached, stopped, alive, chan, running, overlapped>>,
         confirm' \in Slugs \cup {None}, failed' \in BOOLEAN,
         shown' \subseteq Slugs, disk' \subseteq Slugs
  PROVE  IInv'
<1> USE DEF IInv
<1>1. LaunchTypeOK'
  BY DEF LaunchTypeOK
<1>2. Begun' /\ Truthful' /\ Alone' /\ Behind'
  BY DEF Begun, Truthful, Alone, Behind, InFlight, Working
<1>3. TrackedUnlessOverlapped'
  BY DEF TrackedUnlessOverlapped, Announced, Tracked
<1> QED BY <1>1, <1>2, <1>3

\* A key of the list that launches an instance keeps the invariant.
LEMMA LaunchKeyStep ==
  ASSUME IInv, NEW s \in Slugs, LaunchKey(s)
  PROVE  IInv'
<1> USE DEF IInv
<1> PICK n \in Launches : n = next
  BY DEF LaunchKey
<1>1. /\ reached[n] = "none" /\ n \in Nat
      /\ reached' = [reached EXCEPT ![n] = "queued"] /\ slug' = [slug EXCEPT ![n] = s]
      /\ next' = n + 1 /\ n + 1 \in 1..(MaxLaunches + 1)
      /\ UNCHANGED <<stopped, alive, chan, running, confirm, failed, shown, disk>>
  BY LaunchAssumption DEF LaunchKey, Begun, Launches
<1>2. overlapped \subseteq overlapped' /\ overlapped' \subseteq Slugs
  BY DEF LaunchKey, LaunchTypeOK
<1>3. \A j \in Launches : InFlight(j) /\ slug[j] = s => s \in overlapped'
  BY DEF LaunchKey
<1>4. LaunchTypeOK'
  BY <1>1, <1>2 DEF LaunchTypeOK, Stages
<1>5. Begun'
  BY <1>1 DEF Begun, LaunchTypeOK, Launches
<1>6. \A i \in 1..Len(chan) : chan[i][2] \in Launches /\ chan[i][2] # n
  BY <1>1, ChanFields DEF Truthful
<1>7. Truthful'
  BY <1>1, <1>6 DEF Truthful, LaunchTypeOK
<1>8. Alone'
  <2> SUFFICES ASSUME NEW j \in Launches, NEW k \in Launches, j # k,
                      slug'[j] = slug'[k], InFlight(j)', InFlight(k)'
               PROVE  slug'[j] \in overlapped'
    BY DEF Alone
  <2>1. CASE j # n /\ k # n
    BY <1>1, <1>2, <2>1 DEF Alone, InFlight, LaunchTypeOK
  <2>2. CASE j = n
    BY <1>1, <1>3, <2>2 DEF InFlight, LaunchTypeOK
  <2>3. CASE k = n
    BY <1>1, <1>3, <2>3 DEF InFlight, LaunchTypeOK
  <2> QED BY <2>1, <2>2, <2>3
<1>9. Behind'
  BY <1>1, <1>2, <1>6 DEF Behind, Working, LaunchTypeOK
<1>10. TrackedUnlessOverlapped'
  <2> SUFFICES ASSUME NEW j \in Launches, Announced(j)', j \notin stopped',
                      slug'[j] \notin overlapped'
               PROVE  Tracked(j)'
    BY DEF TrackedUnlessOverlapped
  <2>1. j # n
    BY <1>1 DEF Announced, LaunchTypeOK
  <2>2. Announced(j) /\ j \notin stopped /\ slug[j] \notin overlapped /\ slug'[j] = slug[j]
    BY <1>1, <1>2, <2>1 DEF Announced, LaunchTypeOK
  <2> QED BY <1>1, <2>2 DEF TrackedUnlessOverlapped, Tracked
<1> QED BY <1>4, <1>5, <1>7, <1>8, <1>9, <1>10

\* A launch that is stopped is taken out and cancelled in one step, and nothing
\* else of its instance is tracked.
LEMMA StopKeyStep ==
  ASSUME IInv, NEW s \in Slugs, StopKey(s)
  PROVE  IInv'
<1> USE DEF IInv
<1>1. /\ running[s] \in Launches
      /\ running' = [running EXCEPT ![s] = None]
      /\ stopped' = stopped \cup {running[s]}
      /\ UNCHANGED <<next, slug, reached, alive, chan, confirm, failed, shown, disk, overlapped>>
  BY DEF StopKey, LaunchTypeOK
<1>2. LaunchTypeOK'
  BY <1>1 DEF LaunchTypeOK
<1>3. Begun' /\ Truthful' /\ Alone' /\ Behind'
  BY <1>1 DEF Begun, Truthful, Alone, Behind, InFlight, Working
<1>4. TrackedUnlessOverlapped'
  <2> SUFFICES ASSUME NEW j \in Launches, Announced(j)', j \notin stopped',
                      slug'[j] \notin overlapped'
               PROVE  Tracked(j)'
    BY DEF TrackedUnlessOverlapped
  <2>1. Announced(j) /\ j \notin stopped /\ slug[j] \notin overlapped
    BY <1>1 DEF Announced
  <2>2. running[slug[j]] = j /\ j # running[s]
    BY <1>1, <2>1 DEF TrackedUnlessOverlapped, Tracked
  <2> QED BY <1>1, <2>2 DEF Tracked, LaunchTypeOK
<1> QED BY <1>2, <1>3, <1>4

\* A job that goes on or ends without sending anything keeps the invariant.
LEMMA QuietMove ==
  ASSUME IInv, NEW j \in Launches, NEW stage \in {"playing", "ending", "done"},
         Working(j), Move(j, stage), UNCHANGED chan,
         alive' \subseteq Launches,
         \A k \in alive' : \/ k # j /\ k \in alive
                           \/ k = j /\ stage = "playing"
                           \/ k = j /\ stage = "done" /\ j \in stopped
  PROVE  IInv'
<1> USE DEF IInv, Move
<1>1. LaunchTypeOK'
  BY DEF LaunchTypeOK, Stages
<1>2. Begun'
  BY DEF Begun, LaunchTypeOK, Working
<1>3. Truthful'
  <2> SUFFICES ASSUME NEW i \in 1..Len(chan)
               PROVE  /\ reached'[chan[i][2]] \notin {"none", "queued"}
                      /\ chan[i][1] # "started" => reached'[chan[i][2]] = "done"
    BY DEF Truthful
  <2>1. chan[i][2] \in Launches
    BY ChanFields
  <2> QED BY <2>1 DEF Truthful, LaunchTypeOK, Working
<1>4. Alone'
  BY DEF Alone, InFlight, LaunchTypeOK, Working
<1>5. Behind'
  BY DEF Behind, LaunchTypeOK, Working
<1>6. TrackedUnlessOverlapped'
  <2> SUFFICES ASSUME NEW k \in Launches, Announced(k)', k \notin stopped',
                      slug'[k] \notin overlapped'
               PROVE  Tracked(k)'
    BY DEF TrackedUnlessOverlapped
  <2>1. Announced(k)
    BY DEF Announced, LaunchTypeOK, Working
  <2> QED BY <2>1 DEF TrackedUnlessOverlapped, Tracked
<1> QED BY <1>1, <1>2, <1>3, <1>4, <1>5, <1>6

\* A job that sends an action as it moves on keeps the invariant: it announces
\* itself once it has its permit, or reports its end as its last act.
LEMMA SendingMove ==
  ASSUME IInv, NEW j \in Launches, NEW kind \in {"started", "exited", "failed"},
         NEW stage \in {"preparing", "done"},
         chan' = Append(chan, <<kind, j>>), Move(j, stage), UNCHANGED alive,
         \/ kind = "started" /\ stage = "preparing" /\ reached[j] = "queued"
         \/ kind # "started" /\ stage = "done" /\ reached[j] = "ending"
  PROVE  IInv'
<1> USE DEF IInv, Move
<1>1. chan \in Seq(MsgType) /\ <<kind, j>> \in MsgType
  BY DEF LaunchTypeOK, MsgType
<1>2. /\ chan' \in Seq(MsgType) /\ Len(chan) \in Nat /\ Len(chan') = Len(chan) + 1
      /\ chan'[Len(chan) + 1] = <<kind, j>>
      /\ \A i \in 1..Len(chan) : chan'[i] = chan[i]
  BY <1>1
<1>3. \A i \in 1..Len(chan') : i \in 1..Len(chan) \/ i = Len(chan) + 1
  BY <1>2
<1>4. LaunchTypeOK'
  <2>1. alive' \subseteq {k \in Launches : \/ reached'[k] = "playing"
                                           \/ reached'[k] = "done" /\ k \in stopped'}
    BY DEF LaunchTypeOK
  <2>2. reached' \in [Launches -> Stages]
    BY DEF LaunchTypeOK, Stages
  <2> QED BY <1>2, <2>1, <2>2 DEF LaunchTypeOK, MsgType
<1>5. Begun'
  BY DEF Begun, LaunchTypeOK
<1>6. Truthful'
  <2> SUFFICES ASSUME NEW i \in 1..Len(chan')
               PROVE  /\ reached'[chan'[i][2]] \notin {"none", "queued"}
                      /\ chan'[i][1] # "started" => reached'[chan'[i][2]] = "done"
    BY DEF Truthful
  <2>1. CASE i \in 1..Len(chan)
    <3>1. chan'[i] = chan[i] /\ chan[i][2] \in Launches
      BY <1>2, <2>1, ChanFields
    <3>2. /\ reached[chan[i][2]] \notin {"none", "queued"}
          /\ chan[i][1] # "started" => reached[chan[i][2]] = "done"
      BY <2>1 DEF Truthful
    <3> QED BY <3>1, <3>2 DEF LaunchTypeOK
  <2>2. CASE i = Len(chan) + 1
    BY <1>2, <2>2 DEF LaunchTypeOK
  <2> QED BY <1>3, <2>1, <2>2
<1>7. Alone'
  BY DEF Alone, InFlight, LaunchTypeOK
<1>8. Behind'
  <2> SUFFICES ASSUME NEW k \in Launches, NEW i \in 1..Len(chan'),
                      Working(k)', slug'[k] \notin overlapped',
                      chan'[i][2] # k, slug'[chan'[i][2]] = slug'[k]
               PROVE  \E n \in (i + 1)..Len(chan') : chan'[n] = <<"started", k>>
    BY DEF Behind
  <2>1. CASE k = j
    <3>1. kind = "started"
      BY <2>1 DEF Working, LaunchTypeOK
    <3>2. i \in 1..Len(chan)
      BY <1>2, <1>3, <2>1
    <3> QED BY <1>2, <2>1, <3>1, <3>2
  <2>2. CASE k # j
    <3>1. Working(k)
      BY <2>2 DEF Working, LaunchTypeOK
    <3>2. InFlight(j) /\ InFlight(k)
      BY <3>1 DEF InFlight, Working
    <3>3. slug[j] # slug[k]
      BY <2>2, <3>2 DEF Alone
    <3>4. i \in 1..Len(chan) /\ chan'[i] = chan[i]
      BY <1>2, <1>3, <3>3
    <3>5. PICK n \in (i + 1)..Len(chan) : chan[n] = <<"started", k>>
      BY <3>1, <3>4 DEF Behind
    <3> QED BY <1>2, <3>4, <3>5
  <2> QED BY <2>1, <2>2
<1>9. TrackedUnlessOverlapped'
  <2> SUFFICES ASSUME NEW k \in Launches, Announced(k)', k \notin stopped',
                      slug'[k] \notin overlapped'
               PROVE  Tracked(k)'
    BY DEF TrackedUnlessOverlapped
  <2>1. k # j
    <3>1. CASE kind = "started"
      BY <1>2, <3>1 DEF Announced
    <3>2. CASE kind # "started"
      BY <3>2 DEF Announced, LaunchTypeOK
    <3> QED BY <3>1, <3>2
  <2>2. Announced(k)
    BY <1>2, <2>1 DEF Announced, LaunchTypeOK
  <2> QED BY <2>2 DEF TrackedUnlessOverlapped, Tracked
<1> QED BY <1>4, <1>5, <1>6, <1>7, <1>8, <1>9

\* The steps of a job keep the invariant.
LEMMA JobStep ==
  ASSUME IInv, NEW j \in Launches, Job(j)
  PROVE  IInv'
<1> USE DEF IInv
<1>1. CASE AnnounceLaunch(j)
  BY <1>1, SendingMove DEF AnnounceLaunch
<1>2. CASE Spawn(j)
  BY <1>2, QuietMove DEF Spawn, LaunchTypeOK, Working
<1>3. CASE FailEarly(j)
  BY <1>3, QuietMove DEF FailEarly, LaunchTypeOK, Working
<1>4. CASE GameEnds(j)
  BY <1>4, QuietMove DEF GameEnds, LaunchTypeOK, Working
<1>5. CASE Drop(j)
  BY <1>5, QuietMove DEF Drop, LaunchTypeOK, Working
<1>6. CASE Kill(j)
  <2>1. /\ alive' \subseteq alive
        /\ UNCHANGED <<next, slug, reached, stopped, chan, running, confirm, failed, shown,
                       disk, overlapped>>
    BY <1>6 DEF Kill
  <2>2. LaunchTypeOK'
    BY <2>1 DEF LaunchTypeOK
  <2> QED BY <2>1, <2>2 DEF Begun, Truthful, Alone, Behind, InFlight, Working,
                            TrackedUnlessOverlapped, Announced, Tracked
<1>7. ASSUME NEW kind \in {"exited", "failed"}, Report(j, kind) PROVE IInv'
  BY <1>7, SendingMove DEF Report
<1> QED BY <1>1, <1>2, <1>3, <1>4, <1>5, <1>6, <1>7 DEF Job

\* The interface takes the first action off the channel.  If it ends a launch,
\* no other launch of that instance is tracked: Behind says so.
LEMMA ReceiveStep ==
  ASSUME IInv, Receive
  PROVE  IInv'
<1> USE DEF IInv
<1>1. chan \in Seq(MsgType) /\ chan # <<>>
  BY DEF LaunchTypeOK, MsgType, Receive
<1>2. /\ Len(chan) \in Nat /\ Len(chan) > 0 /\ Head(chan) = chan[1]
      /\ Tail(chan) \in Seq(MsgType) /\ Len(Tail(chan)) = Len(chan) - 1
      /\ \A i \in 1..Len(Tail(chan)) : Tail(chan)[i] = chan[i + 1]
  BY <1>1
<1> PICK kind \in {"started", "exited", "failed"}, j \in Launches : chan[1] = <<kind, j>>
  BY <1>2, ChanFields
<1>3. /\ chan' = Tail(chan)
      /\ UNCHANGED <<next, slug, reached, stopped, alive, shown, disk, overlapped>>
      /\ failed' \in BOOLEAN /\ confirm' \in Slugs \cup {None}
  BY DEF Receive, LaunchTypeOK
<1>4. running' = [running EXCEPT ![slug[j]] = IF kind = "started" THEN j ELSE None]
  <2>1. Head(chan)[1] = kind /\ Head(chan)[2] = j
    BY <1>2
  <2>2. running' = After(kind, j)
    BY <2>1 DEF Receive
  <2>3. CASE kind = "started"
    BY <2>2, <2>3 DEF After
  <2>4. CASE kind # "started"
    BY <2>2, <2>4 DEF After
  <2> QED BY <2>3, <2>4
<1>5. LaunchTypeOK'
  BY <1>2, <1>3, <1>4 DEF LaunchTypeOK, MsgType
<1>6. Begun' /\ Alone'
  BY <1>3 DEF Begun, Alone, InFlight
<1>7. Truthful'
  <2> SUFFICES ASSUME NEW i \in 1..Len(chan')
               PROVE  /\ reached[chan'[i][2]] \notin {"none", "queued"}
                      /\ chan'[i][1] # "started" => reached[chan'[i][2]] = "done"
    BY <1>3 DEF Truthful
  <2>1. i + 1 \in 1..Len(chan) /\ chan'[i] = chan[i + 1]
    BY <1>2, <1>3
  <2> QED BY <2>1 DEF Truthful
<1>8. Behind'
  <2> SUFFICES ASSUME NEW k \in Launches, NEW i \in 1..Len(chan'),
                      Working(k), slug[k] \notin overlapped,
                      chan'[i][2] # k, slug[chan'[i][2]] = slug[k]
               PROVE  \E n \in (i + 1)..Len(chan') : chan'[n] = <<"started", k>>
    BY <1>3 DEF Behind, Working
  <2>1. i \in Nat /\ i + 1 \in 1..Len(chan) /\ chan'[i] = chan[i + 1]
    BY <1>2, <1>3
  <2>2. PICK n \in ((i + 1) + 1)..Len(chan) : chan[n] = <<"started", k>>
    BY <2>1 DEF Behind
  <2>3. n - 1 \in (i + 1)..Len(chan') /\ chan'[n - 1] = chan[(n - 1) + 1] /\ (n - 1) + 1 = n
    BY <1>2, <1>3, <2>1
  <2> QED BY <2>2, <2>3
<1>9. TrackedUnlessOverlapped'
  <2> SUFFICES ASSUME NEW k \in Launches, Announced(k)', k \notin stopped,
                      slug[k] \notin overlapped
               PROVE  running'[slug[k]] = k
    BY <1>3 DEF TrackedUnlessOverlapped, Tracked
  <2>1. Working(k)
    BY <1>3 DEF Announced, Working
  <2>2. slug[k] \in Slugs
    BY <2>1 DEF Begun, Working
  <2>3. \A i \in 2..Len(chan) : chan[i] # <<"started", k>>
    <3> SUFFICES ASSUME NEW i \in 2..Len(chan) PROVE chan[i] # <<"started", k>>
      OBVIOUS
    <3>1. i - 1 \in 1..Len(chan') /\ chan'[i - 1] = chan[(i - 1) + 1] /\ (i - 1) + 1 = i
      BY <1>2, <1>3
    <3>2. chan'[i - 1] # <<"started", k>>
      BY <3>1 DEF Announced
    <3> QED BY <3>1, <3>2
  <2>4. CASE k = j
    <3>1. kind = "started"
      BY <1>2, <2>1, <2>4 DEF Truthful, Working
    <3> QED BY <1>4, <2>2, <2>4, <3>1 DEF LaunchTypeOK
  <2>5. CASE k # j
    <3>1. slug[j] # slug[k]
      <4> SUFFICES ASSUME slug[j] = slug[k] PROVE FALSE
        OBVIOUS
      <4>1. 1 \in 1..Len(chan) /\ chan[1][2] = j
        BY <1>2
      <4>2. \E n \in (1 + 1)..Len(chan) : chan[n] = <<"started", k>>
        BY <2>1, <2>5, <4>1 DEF Behind
      <4> QED BY <2>3, <4>2
    <3>2. Announced(k)
      <4>1. chan[1] # <<"started", k>>
        BY <2>5
      <4>2. \A i \in 1..Len(chan) : i = 1 \/ i \in 2..Len(chan)
        BY <1>2
      <4> QED BY <2>1, <2>3, <4>1, <4>2 DEF Announced, Working
    <3>3. running[slug[k]] = k
      BY <3>2 DEF TrackedUnlessOverlapped, Tracked
    <3> QED BY <1>4, <2>2, <3>1, <3>3 DEF LaunchTypeOK
  <2> QED BY <2>4, <2>5
<1> QED BY <1>5, <1>6, <1>7, <1>8, <1>9

LEMMA StepIInv == IInv /\ [LaunchNext]_launchVars => IInv'
<1> SUFFICES ASSUME IInv, [LaunchNext]_launchVars PROVE IInv'
  OBVIOUS
<1>1. CASE UNCHANGED launchVars
  <2>1. LaunchTypeOK'
    BY <1>1 DEF launchVars, IInv, LaunchTypeOK
  <2> QED BY <1>1, <2>1 DEF launchVars, IInv, Begun, Truthful, Alone, Behind, InFlight, Working,
                            TrackedUnlessOverlapped, Announced, Tracked
<1>2. CASE CloseModal \/ ConfirmDelete
  <2>1. disk' \subseteq Slugs
    BY <1>2 DEF CloseModal, ConfirmDelete, IInv, LaunchTypeOK
  <2>2. shown' \subseteq Slugs /\ confirm' = None /\ failed' \in BOOLEAN
    BY <1>2 DEF CloseModal, ConfirmDelete, Dialog, IInv, LaunchTypeOK
  <2>3. UNCHANGED <<next, slug, reached, stopped, alive, chan, running, overlapped>>
    BY <1>2 DEF CloseModal, ConfirmDelete, Dialog
  <2> QED BY <2>1, <2>2, <2>3, ShowStep
<1>3. ASSUME NEW s \in Slugs, DeleteKey(s) PROVE IInv'
  BY <1>3, ShowStep DEF DeleteKey, Dialog, AtList, IInv, LaunchTypeOK
<1>4. ASSUME NEW s \in Slugs, LaunchKey(s) PROVE IInv'
  BY <1>4, LaunchKeyStep
<1>5. ASSUME NEW s \in Slugs, StopKey(s) PROVE IInv'
  BY <1>5, StopKeyStep
<1>6. CASE Receive
  BY <1>6, ReceiveStep
<1>7. CASE Refresh
  BY <1>7, ShowStep DEF Refresh, IInv, LaunchTypeOK
<1>8. ASSUME NEW j \in Launches, Job(j) PROVE IInv'
  BY <1>8, JobStep
<1> QED BY <1>1, <1>2, <1>3, <1>4, <1>5, <1>6, <1>7, <1>8 DEF LaunchNext, Keys

\* The invariant is inductive, so it holds in every reachable state.
THEOREM Invariant == LaunchSpec => []IInv
BY InitIInv, StepIInv, PTL DEF LaunchSpec

\* Every variable keeps its type: in particular a game is alive only while its
\* job waits for it or was just dropped.
THEOREM LaunchTypeCorrect == LaunchSpec => []LaunchTypeOK
<1>1. IInv => LaunchTypeOK
  BY DEF IInv
<1> QED BY <1>1, Invariant, PTL

\* A launch the interface has seen start can be stopped until it ends, for any
\* number of instances and launches, unless its instance was launched over it.
THEOREM LaunchesTracked == LaunchSpec => []TrackedUnlessOverlapped
<1>1. IInv => TrackedUnlessOverlapped
  BY DEF IInv
<1> QED BY <1>1, Invariant, PTL
===============================================================================
