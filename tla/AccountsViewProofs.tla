--------------------------- MODULE AccountsViewProofs ---------------------------
(***************************************************************************)
(* Proofs about AccountsView for every set of accounts and any number of   *)
(* logins, detached tasks and keys: the types, that the accounts shown are *)
(* the ones on disk when all is quiet and no launch has undone a change,   *)
(* that Esc reaches the login whose code is shown, and that a code shown   *)
(* can still be used.                                                      *)
(***************************************************************************)
EXTENDS AccountsView, TLAPS

Stages == {"none", "asking", "polling", "chain", "saving", "added", "failed", "closed", "told"}
Ways == {"none", "sent", "received"}
Works == [kind : {"none", "remove", "activate", "refresh", "fetch"}, id : Ids \cup {None},
          stage : {"none", "change", "save", "read", "tell"}, seen : SUBSET Ids,
          first : Ids \cup {None}]
Saves == [id : Ids \cup {None}, seen : SUBSET Ids, first : Ids \cup {None}]

TypeOK ==
  /\ view \in {At("instances"), At("accounts"), At("failed")} \cup {Code(f) : f \in Logins}
  /\ shown \subseteq Ids /\ active \in Ids \cup {None}
  /\ handle \in Logins \cup {None}
  /\ pc \in [Logins -> Stages]
  /\ token \in [Logins -> Ways] /\ code \in [Logins -> Ways]
  /\ cancelled \subseteq Logins
  /\ list \subseteq Ids /\ chosen \in Ids \cup {None}
  /\ task \in [Tasks -> Works]
  /\ keys \in 0..MaxKeys
  /\ behind \in BOOLEAN
  /\ who \in [Logins -> Saves]
  /\ crossed \subseteq Logins /\ late \subseteq Logins /\ dead \subseteq Logins

-----------------------------------------------------------------------------
(* What the invariants of the properties say beyond them. *)

\* A login has an account once it is saved.
Named == \A f \in Logins : pc[f] \in {"saving", "added"} => who[f].id \in Ids

\* What a task may be doing: a launch is never asked to tell.
Doing ==
  \A t \in Tasks :
    /\ task[t].kind \in {"none", "refresh"} => task[t].stage \notin {"read", "tell"}
    /\ task[t].kind \in {"remove", "activate"} => task[t].id \in Ids

\* Logins start in their order, each sends its handle at once, and the handles
\* are received in that order.
InOrder ==
  \A f, g \in Logins :
    /\ pc[f] = "none" <=> token[f] = "none"
    /\ f < g /\ pc[g] # "none" => pc[f] # "none"
    /\ f < g /\ token[g] = "received" => token[f] = "received"

\* A login that was started while an earlier one was under way has crossed it.
AloneUnlessCrossed ==
  \A f, g \in Logins : f < g /\ pc[g] # "none" /\ UnderWay(f) =>
    f \in crossed /\ (UnderWay(g) => g \in crossed)

\* The one place for a handle has that of a login that is alone, until it is cancelled.
HandleKept ==
  \A f \in Logins \ crossed :
    UnderWay(f) /\ token[f] = "received" => handle = f \/ f \in cancelled

\* A code is shown only after it has been asked for and the handle and the code have
\* been received; one that comes after the end of its login is late, or the login has died.
CodeAfterToken ==
  \A f \in Logins : /\ pc[f] \in {"none", "asking"} => code[f] = "none"
                    /\ view = Code(f) => code[f] = "received"
                    /\ code[f] = "received" => token[f] = "received"
                    /\ code[f] = "sent" /\ pc[f] = "told" => f \in late \cup dead

LoginInv == InOrder /\ AloneUnlessCrossed /\ HandleKept /\ CodeAfterToken /\ CodeShownIsLive

-----------------------------------------------------------------------------
(* Types. *)

TypeInv == TypeOK /\ Named /\ Doing

LEMMA WorksTyped ==
  /\ Idle \in Works /\ Idle.kind = "none" /\ Idle.stage = "none"
  /\ Fetch \in Works /\ Fetch.kind = "fetch" /\ Fetch.stage = "read"
  /\ Refresh \in Works /\ Refresh.kind = "refresh" /\ Refresh.stage = "change"
  /\ \A id \in Ids, kind \in {"remove", "activate"} :
       Work(kind, id) \in Works /\ Work(kind, id).kind = kind /\ Work(kind, id).id = id
BY DEF Idle, Fetch, Refresh, Work, Works

\* A step of one task.
LEMMA ProceedTyped ==
  ASSUME TypeOK, Doing, NEW t \in Tasks, NEW next \in Works, Proceed(t, next),
         next.kind \in {"none", "refresh"} => next.stage \notin {"read", "tell"},
         next.kind \in {"remove", "activate"} => next.id \in Ids
  PROVE  task' \in [Tasks -> Works] /\ Doing' /\ task'[t] = next
BY DEF TypeOK, Doing, Proceed

\* A task that has been started is there.
LEMMA StartTyped ==
  ASSUME TypeOK, Doing, NEW work \in Works, Start(work),
         work.kind \in {"none", "refresh"} => work.stage \notin {"read", "tell"},
         work.kind \in {"remove", "activate"} => work.id \in Ids
  PROVE  /\ task' \in [Tasks -> Works] /\ Doing'
         /\ \E t \in Tasks : task'[t] = work
BY DEF TypeOK, Doing, Start

LEMMA InitType == Init => TypeInv
<1> SUFFICES ASSUME Init PROVE TypeInv
  OBVIOUS
<1>1. view = At("instances") /\ list \subseteq Ids /\ chosen \in Ids \cup {None}
  BY DEF Init
<1>2. task \in [Tasks -> Works] /\ keys \in 0..MaxKeys /\ Doing
  BY WorksTyped, BoundsAssumption DEF Init, Doing
<1>3. pc \in [Logins -> Stages] /\ token \in [Logins -> Ways] /\ code \in [Logins -> Ways] /\ Named
  BY DEF Init, Stages, Ways, Named
<1>4. who \in [Logins -> Saves]
  BY DEF Init, NoOne, Saves
<1> QED BY <1>1, <1>2, <1>3, <1>4 DEF Init, TypeInv, TypeOK

LEMMA KeysType == TypeInv /\ Keys => TypeInv'
<1> SUFFICES ASSUME TypeInv, Keys PROVE TypeInv'
  OBVIOUS
<1> USE DEF TypeInv
<1>1. CASE DismissFailure
  BY <1>1 DEF DismissFailure, TypeOK, Named, Doing, picture, login, files
<1>2. CASE OpenAccounts
  <2>1. task' \in [Tasks -> Works] /\ Doing'
    BY <1>2, WorksTyped, StartTyped DEF OpenAccounts
  <2> QED BY <1>2, <2>1, BoundsAssumption DEF OpenAccounts, TypeOK, Named, picture, login, files
<1>3. CASE LaunchInstance
  <2>1. task' \in [Tasks -> Works] /\ Doing'
    BY <1>3, WorksTyped, StartTyped DEF LaunchInstance
  <2> QED BY <1>3, <2>1, BoundsAssumption DEF LaunchInstance, TypeOK, Named, picture, login, files
<1>4. CASE Escape
  BY <1>4 DEF Escape, TakeHandle, TypeOK, Named, Doing, picture, files
<1>5. ASSUME NEW f \in Logins, AddAccount(f) PROVE TypeInv'
  <2>1. pc' \in [Logins -> Stages] /\ token' \in [Logins -> Ways] /\ Named'
    BY <1>5 DEF AddAccount, TypeOK, Stages, Ways, Named
  <2>2. crossed' \subseteq Logins
    BY <1>5 DEF AddAccount, OtherLogins, TypeOK
  <2> QED BY <1>5, <2>1, <2>2, BoundsAssumption DEF AddAccount, TypeOK, Doing, picture, files
<1>6. ASSUME NEW id \in Ids, RemoveAccount(id) PROVE TypeInv'
  <2>1. task' \in [Tasks -> Works] /\ Doing'
    BY <1>6, WorksTyped, StartTyped DEF RemoveAccount
  <2> QED BY <1>6, <2>1, BoundsAssumption DEF RemoveAccount, TypeOK, Named, login, files
<1>7. ASSUME NEW id \in Ids, ActivateAccount(id) PROVE TypeInv'
  <2>1. task' \in [Tasks -> Works] /\ Doing'
    BY <1>7, WorksTyped, StartTyped DEF ActivateAccount
  <2> QED BY <1>7, <2>1, BoundsAssumption DEF ActivateAccount, TypeOK, Named, login, files
<1> QED BY <1>1, <1>2, <1>3, <1>4, <1>5, <1>6, <1>7 DEF Keys

\* What a task becomes that has read the list and changed it.
LEMMA ChangeTyped ==
  ASSUME TypeInv, NEW t \in Tasks, NEW seen \in SUBSET Ids, NEW first \in Ids \cup {None},
         Change(t, seen, first)
  PROVE  TypeInv'
<1> USE DEF TypeInv
<1>1. task[t] \in Works
  BY DEF TypeOK
<1>2. PICK next : next = [task[t] EXCEPT !.stage = "save", !.seen = seen, !.first = first]
  OBVIOUS
<1>3. /\ next \in Works /\ next.kind = task[t].kind /\ next.stage = "save" /\ next.id = task[t].id
  BY <1>1, <1>2 DEF Works
<1>4. Proceed(t, next)
  BY <1>2 DEF Change
<1>5. task' \in [Tasks -> Works] /\ Doing'
  BY <1>3, <1>4, ProceedTyped DEF Doing
<1> QED BY <1>5 DEF Change, Untold, TypeOK, Named, picture, login, files

LEMMA TaskType == ASSUME TypeInv, NEW t \in Tasks, TaskStep(t) PROVE TypeInv'
<1> USE DEF TypeInv
<1>1. task[t] \in Works
  BY DEF TypeOK
<1>2. CASE LoadAccounts(t)
  <2>1. PICK id : id = task[t].id
    OBVIOUS
  <2>2. \/ Change(t, list \ {id}, IF chosen = id THEN None ELSE chosen)
        \/ id \in list /\ Change(t, list, id)
        \/ Change(t, list, chosen)
    BY <1>2, <2>1 DEF LoadAccounts
  <2>3. list \ {id} \subseteq Ids /\ (IF chosen = id THEN None ELSE chosen) \in Ids \cup {None}
        /\ list \subseteq Ids /\ chosen \in Ids \cup {None}
    BY DEF TypeOK
  <2> QED BY <2>2, <2>3, ChangeTyped
<1>3. CASE SaveAccounts(t) \/ RefreshSaved(t)
  <2>1. task' \in [Tasks -> Works] /\ Doing'
    BY <1>3, WorksTyped, ProceedTyped DEF SaveAccounts, RefreshSaved
  <2>2. list' \subseteq Ids /\ chosen' \in Ids \cup {None}
    BY <1>1, <1>3 DEF SaveAccounts, RefreshSaved, Works
  <2>3. behind' \in BOOLEAN
    BY <1>3 DEF SaveAccounts, RefreshSaved, TypeOK
  <2> QED BY <1>3, <2>1, <2>2, <2>3 DEF SaveAccounts, RefreshSaved, Untold, TypeOK, Named, picture, login
<1>4. CASE ChangeFails(t)
  <2>1. task' \in [Tasks -> Works] /\ Doing'
    BY <1>4, WorksTyped, ProceedTyped DEF ChangeFails
  <2> QED BY <1>4, <2>1 DEF ChangeFails, Untold, TypeOK, Named, picture, login, files
<1>5. CASE Read(t)
  <2>1. PICK next : next = [task[t] EXCEPT !.stage = "tell", !.seen = list, !.first = chosen]
    OBVIOUS
  <2>2. list \in SUBSET Ids /\ chosen \in Ids \cup {None}
    BY DEF TypeOK
  <2>3. next \in Works /\ next.kind = task[t].kind /\ next.id = task[t].id
    BY <1>1, <2>1, <2>2 DEF Works
  <2>4. task[t].stage = "read" /\ Proceed(t, next)
    BY <1>5, <2>1 DEF Read
  <2>5. task' \in [Tasks -> Works] /\ Doing'
    <3>1. /\ next.kind \notin {"none", "refresh"}
          /\ next.kind \in {"remove", "activate"} => next.id \in Ids
      BY <2>3, <2>4 DEF Doing
    <3> QED BY <2>3, <2>4, <3>1, ProceedTyped
  <2> QED BY <1>5, <2>5 DEF Read, Untold, TypeOK, Named, picture, login, files
<1>6. CASE ReadFails(t)
  <2>1. task' \in [Tasks -> Works] /\ Doing'
    BY <1>6, WorksTyped, ProceedTyped DEF ReadFails
  <2> QED BY <1>6, <2>1 DEF ReadFails, Untold, TypeOK, Named, picture, login, files
<1>7. CASE AccountsLoaded(t)
  <2>1. shown' \subseteq Ids /\ active' \in Ids \cup {None}
    BY <1>1, <1>7 DEF AccountsLoaded, Works
  <2>2. task' \in [Tasks -> Works] /\ Doing'
    BY <1>7, WorksTyped, ProceedTyped DEF AccountsLoaded
  <2> QED BY <1>7, <2>1, <2>2 DEF AccountsLoaded, TypeOK, Named, login, files
<1> QED BY <1>2, <1>3, <1>4, <1>5, <1>6, <1>7 DEF TaskStep

LEMMA LoginType ==
  ASSUME TypeInv, NEW f \in Logins, LoginStep(f) \/ Approved(f) PROVE TypeInv'
<1> USE DEF TypeInv
<1>1. CASE CodeRequested(f) \/ Approved(f) \/ LoginFails(f) \/ CancelSeen(f) \/ Dies(f)
  <2>1. pc' \in [Logins -> Stages] /\ code' \in [Logins -> Ways] /\ Named'
    BY <1>1 DEF CodeRequested, Approved, LoginFails, CancelSeen, Dies, Go, Quietly, TypeOK, Named,
      Stages, Ways
  <2> QED BY <1>1, <2>1 DEF CodeRequested, Approved, LoginFails, CancelSeen, Dies, Quietly, Calmly,
    TypeOK, Doing, picture, files
<1>2. ASSUME NEW id \in Ids, Known(f, id) PROVE TypeInv'
  <2>1. PICK save : save = [id |-> id, seen |-> list \cup {id}, first |-> IF list = {} THEN id ELSE chosen]
    OBVIOUS
  <2>2. save \in Saves /\ save.id = id
    BY <2>1 DEF Saves, TypeOK
  <2>3. who' = [who EXCEPT ![f] = save] /\ pc' = [pc EXCEPT ![f] = "saving"]
    BY <1>2, <2>1 DEF Known, Go
  <2>4. who' \in [Logins -> Saves] /\ pc' \in [Logins -> Stages] /\ Named'
    BY <2>2, <2>3 DEF TypeOK, Named, Stages
  <2> QED BY <1>2, <2>4 DEF Known, Calmly, TypeOK, Doing, picture, files
<1>3. CASE Persist(f)
  <2>1. /\ who' = [who EXCEPT ![f].seen = {}] /\ pc' = [pc EXCEPT ![f] = "added"] /\ pc[f] = "saving"
        /\ list' = who[f].seen /\ chosen' = who[f].first /\ who[f] \in Saves
    BY <1>3 DEF Persist, Go, TypeOK
  <2>2. list' \subseteq Ids /\ chosen' \in Ids \cup {None}
    BY <2>1 DEF Saves
  <2>3. who' \in [Logins -> Saves] /\ who'[f].id = who[f].id /\ \A g \in Logins \ {f} : who'[g] = who[g]
    BY <2>1 DEF TypeOK, Saves
  <2>4. pc' \in [Logins -> Stages] /\ Named'
    BY <2>1, <2>3 DEF TypeOK, Named, Stages
  <2> QED BY <1>3, <2>2, <2>3, <2>4 DEF Persist, Calmly, TypeOK, Doing, picture
<1> QED BY <1>1, <1>2, <1>3 DEF LoginStep

LEMMA ToldType == ASSUME TypeInv, NEW f \in Logins, Told(f) PROVE TypeInv'
<1> USE DEF TypeInv
<1>1. CASE TokenCreated(f) \/ AuthStarted(f)
  BY <1>1 DEF TokenCreated, AuthStarted, TypeOK, Named, Doing, Ways, picture, files
<1>2. ASSUME NEW end \in Stages, Tells(f, end)
      PROVE  /\ pc' \in [Logins -> Stages] /\ late' \subseteq Logins
             /\ who' \in [Logins -> Saves] /\ Named'
  <2>1. NoOne \in Saves
    BY DEF NoOne, Saves
  <2> QED BY <1>2, <2>1 DEF Tells, Go, TypeOK, Named, Stages
<1>3. CASE AccountAdded(f)
  <2>1. task' \in [Tasks -> Works] /\ Doing'
    BY <1>3, WorksTyped, StartTyped DEF AccountAdded
  <2>2. shown' \subseteq Ids /\ active' \in Ids \cup {None}
    BY <1>3 DEF AccountAdded, Tells, Go, Named, TypeOK
  <2>3. /\ pc' \in [Logins -> Stages] /\ late' \subseteq Logins
        /\ who' \in [Logins -> Saves] /\ Named'
    BY <1>2, <1>3 DEF AccountAdded, Stages
  <2> QED BY <1>3, <2>1, <2>2, <2>3 DEF AccountAdded, Tells, TypeOK, files
<1>4. CASE AccountAuthFailed(f)
  <2>1. /\ pc' \in [Logins -> Stages] /\ late' \subseteq Logins
        /\ who' \in [Logins -> Saves] /\ Named'
    BY <1>2, <1>4 DEF AccountAuthFailed, Stages
  <2> QED BY <1>4, <2>1 DEF AccountAuthFailed, Tells, TypeOK, Doing, picture, files
<1>5. CASE LoginClosed(f)
  <2>1. /\ pc' \in [Logins -> Stages] /\ late' \subseteq Logins
        /\ who' \in [Logins -> Saves] /\ Named'
    BY <1>2, <1>5 DEF LoginClosed, Stages
  <2> QED BY <1>5, <2>1 DEF LoginClosed, TakeHandle, Tells, TypeOK, Doing, picture, files
<1> QED BY <1>1, <1>3, <1>4, <1>5 DEF Told

LEMMA NextType == TypeInv /\ [Next]_vars => TypeInv'
<1>1. TypeInv /\ UNCHANGED vars => TypeInv'
  BY DEF vars, TypeInv, TypeOK, Named, Doing
<1> QED BY <1>1, KeysType, TaskType, LoginType, ToldType DEF Next

\* Every variable keeps its type, and a login that is saved has an account.
THEOREM TypeCorrect == Spec => []TypeOK
<1>1. Spec => []TypeInv
  BY InitType, NextType, PTL DEF Spec
<1>2. TypeInv => TypeOK
  BY DEF TypeInv
<1> QED BY <1>1, <1>2, PTL

-----------------------------------------------------------------------------
(* What is shown is what is on disk. *)

\* A step that leaves tasks, saved logins and what is shown and stored alone.
LEMMA NothingShown ==
  ASSUME AccountsAreCurrent, UNCHANGED <<picture, files, task, behind>>,
         \A f \in Logins : pc[f] = "added" => pc'[f] = "added"
  PROVE  AccountsAreCurrent'
BY DEF AccountsAreCurrent, Quiet, picture, files

\* A task that will tell keeps the list from being taken for the last.
LEMMA NotQuiet ==
  ASSUME NEW t \in Tasks, task'[t].kind \notin {"none", "refresh"}
  PROVE  AccountsAreCurrent'
BY DEF AccountsAreCurrent, Quiet

\* The list that is told makes the picture current or behind; every other step
\* that changes the picture or the file leaves somebody who will tell.
LEMMA NextCurrent ==
  TypeInv /\ TypeInv' /\ AccountsAreCurrent /\ [Next]_vars => AccountsAreCurrent'
<1> SUFFICES ASSUME TypeInv, TypeInv', AccountsAreCurrent, [Next]_vars PROVE AccountsAreCurrent'
  OBVIOUS
<1> USE DEF TypeInv
<1>1. CASE DismissFailure \/ Escape \/ \E f \in Logins : AddAccount(f)
  BY <1>1, NothingShown DEF DismissFailure, Escape, AddAccount, TypeOK, login
<1>2. ASSUME NEW work \in Works, work.kind \in {"remove", "activate"} => work.id \in Ids,
             work.kind \notin {"none", "refresh"}, Start(work)
      PROVE  AccountsAreCurrent'
  BY <1>2, StartTyped, NotQuiet
<1>3. CASE OpenAccounts
  BY <1>2, <1>3, WorksTyped DEF OpenAccounts
<1>4. ASSUME NEW id \in Ids, RemoveAccount(id) \/ ActivateAccount(id) PROVE AccountsAreCurrent'
  BY <1>2, <1>4, WorksTyped DEF RemoveAccount, ActivateAccount
<1>5. \* A launch begins, goes on or ends: nobody is told, but who was to tell still is.
      ASSUME UNCHANGED <<picture, files, behind, pc>>,
             \A t \in Tasks : task[t].kind \notin {"none", "refresh"} =>
                                task'[t].kind \notin {"none", "refresh"}
      PROVE  AccountsAreCurrent'
  BY <1>5 DEF AccountsAreCurrent, Quiet, picture, files
<1>6. CASE LaunchInstance
  <2>1. \A t \in Tasks : task'[t] = task[t] \/ task[t].kind = "none"
    BY <1>6, WorksTyped DEF LaunchInstance, Start, Free, TypeOK
  <2> QED BY <1>5, <1>6, <2>1 DEF LaunchInstance, login
<1>7. ASSUME NEW t \in Tasks, TaskStep(t) PROVE AccountsAreCurrent'
  <2>1. task[t] \in Works /\ task \in [Tasks -> Works]
    BY DEF TypeOK
  <2>2. CASE LoadAccounts(t)
    <3>1. PICK seen, first : Change(t, seen, first)
      BY <2>2 DEF LoadAccounts
    <3>2. \A u \in Tasks : task'[u].kind = task[u].kind
      BY <2>1, <3>1 DEF Change, Proceed, Works
    <3> QED BY <1>5, <3>1, <3>2 DEF Change, Untold, login, files
  <2>3. CASE SaveAccounts(t)
    BY <2>1, <2>3, WorksTyped, NotQuiet DEF SaveAccounts, Proceed
  <2>4. CASE RefreshSaved(t)
    <3>1. \A u \in Tasks : task[u].kind \notin {"none", "refresh"} => task'[u] = task[u]
      BY <2>1, <2>4 DEF RefreshSaved, Proceed
    <3>2. ~behind' => UNCHANGED <<files, behind>>
      BY <2>4 DEF RefreshSaved, TypeOK
    <3>3. ~behind' => AccountsAreCurrent'
      BY <1>5, <2>4, <3>1, <3>2 DEF RefreshSaved, Untold, login
    <3> QED BY <3>3 DEF AccountsAreCurrent
  <2>5. CASE ChangeFails(t)
    <3>1. CASE task[t].kind # "refresh"
      BY <2>1, <2>5, <3>1, WorksTyped, NotQuiet DEF ChangeFails, Proceed
    <3>2. CASE task[t].kind = "refresh"
      <4>1. \A u \in Tasks : task[u].kind # "refresh" => task'[u] = task[u]
        BY <2>1, <2>5, <3>2 DEF ChangeFails, Proceed
      <4> QED BY <1>5, <2>5, <4>1 DEF ChangeFails, Untold, login
    <3> QED BY <3>1, <3>2
  <2>6. CASE Read(t)
    <3>1. \A u \in Tasks : task'[u].kind = task[u].kind
      BY <2>1, <2>6 DEF Read, Proceed, Works
    <3> QED BY <1>5, <2>6, <3>1 DEF Read, Untold, login, files
  <2>7. CASE ReadFails(t)
    BY <2>7 DEF ReadFails, AccountsAreCurrent
  <2>8. CASE AccountsLoaded(t)
    BY <2>8 DEF AccountsLoaded, AccountsAreCurrent, files
  <2> QED BY <1>7, <2>2, <2>3, <2>4, <2>5, <2>6, <2>7, <2>8 DEF TaskStep
<1>8. ASSUME NEW f \in Logins, LoginStep(f) \/ Approved(f) PROVE AccountsAreCurrent'
  <2>1. CASE Persist(f)
    BY <2>1 DEF Persist, Go, AccountsAreCurrent, Quiet, TypeOK
  <2>2. CASE CodeRequested(f) \/ Approved(f) \/ LoginFails(f) \/ CancelSeen(f) \/ Dies(f)
             \/ \E id \in Ids : Known(f, id)
    BY <2>2, NothingShown DEF CodeRequested, Approved, LoginFails, CancelSeen, Dies, Known, Quietly,
      Calmly, Go, TypeOK
  <2> QED BY <1>8, <2>1, <2>2 DEF LoginStep
<1>9. ASSUME NEW f \in Logins, Told(f) PROVE AccountsAreCurrent'
  <2>1. CASE AccountAdded(f)
    BY <1>2, <2>1, WorksTyped DEF AccountAdded
  <2>2. CASE TokenCreated(f) \/ AuthStarted(f) \/ AccountAuthFailed(f) \/ LoginClosed(f)
    BY <2>2, NothingShown DEF TokenCreated, AuthStarted, AccountAuthFailed, LoginClosed, Tells, Go, TypeOK
  <2> QED BY <1>9, <2>1, <2>2 DEF Told
<1>10. CASE UNCHANGED vars
  BY <1>10, NothingShown DEF vars, picture, files
<1> QED BY <1>1, <1>3, <1>4, <1>6, <1>7, <1>8, <1>9, <1>10 DEF Next, Keys

\* When nothing is under way but launches, the accounts shown, and the active one, are
\* those on disk, unless the last list told was out of date or could not be read, or a
\* launch has since undone a change (resolve_msa_tokens_for_launch).
THEOREM ShownIsStored == Spec => []AccountsAreCurrent
<1>1. Init => AccountsAreCurrent
  <2> SUFFICES ASSUME Init PROVE ~Quiet
    BY DEF AccountsAreCurrent
  <2>1. 1 \in Tasks /\ task[1] = Fetch
    BY BoundsAssumption DEF Init, Tasks
  <2> QED BY <2>1, WorksTyped DEF Quiet
<1>2. Spec => []TypeInv
  BY InitType, NextType, PTL DEF Spec
<1> QED BY <1>1, <1>2, NextCurrent, PTL DEF Spec

-----------------------------------------------------------------------------
(* The handle and the code. *)

\* The views differ, and so do those of two codes.
LEMMA ViewsDiffer ==
  /\ \A f, g \in Logins : Code(f) = Code(g) => f = g
  /\ \A f \in Logins, v \in {"instances", "accounts", "failed"} : Code(f) # At(v)
BY DEF Code, At

\* The steps that leave the handles, the codes and the view alone: a login may go on,
\* as long as it does not start, nor end with its code on its way.
LEMMA GoesOn ==
  ASSUME LoginInv, pc \in [Logins -> Stages],
         UNCHANGED <<view, handle, token, code, cancelled, crossed>>,
         late \subseteq late', dead \subseteq dead',
         \A f \in Logins : \/ pc'[f] = pc[f]
                           \/ UnderWay(f) /\ pc'[f] \notin {"none", "asking"} /\ (pc'[f] = "told" => f \in dead')
  PROVE  LoginInv'
<1>1. \A f \in Logins : /\ UnderWay(f)' => UnderWay(f)
                        /\ pc'[f] = "none" <=> pc[f] = "none"
                        /\ pc'[f] \in {"none", "asking"} => pc'[f] = pc[f]
                        /\ pc'[f] = "told" => pc[f] = "told" \/ f \in dead'
  BY DEF UnderWay
<1>2. InOrder'
  BY <1>1 DEF LoginInv, InOrder
<1>3. AloneUnlessCrossed'
  BY <1>1 DEF LoginInv, AloneUnlessCrossed
<1>4. HandleKept'
  BY <1>1 DEF LoginInv, HandleKept
<1>5. CodeAfterToken' /\ CodeShownIsLive'
  BY <1>1 DEF LoginInv, CodeAfterToken, CodeShownIsLive, Code
<1> QED BY <1>2, <1>3, <1>4, <1>5 DEF LoginInv

\* The view may change to any but a code.
LEMMA ViewLeft ==
  ASSUME LoginInv, UNCHANGED <<handle, pc, token, code, cancelled, crossed, late, dead>>,
         view' \in {At("instances"), At("accounts"), At("failed")} \/ view' = view
  PROVE  LoginInv'
BY ViewsDiffer DEF LoginInv, InOrder, AloneUnlessCrossed, HandleKept, CodeAfterToken, CodeShownIsLive,
  UnderWay, Code, At

\* Two different logins, of which one ends: it is not the other's handle that is
\* given up, unless they have crossed.
LEMMA OthersCrossed ==
  ASSUME LoginInv, NEW f \in Logins, NEW g \in Logins \ crossed, f # g, UnderWay(f), UnderWay(g)
  PROVE  FALSE
<1>1. f < g \/ g < f
  BY BoundsAssumption DEF Logins
<1> QED BY <1>1 DEF LoginInv, AloneUnlessCrossed, UnderWay

LEMMA KeysLogin == TypeInv /\ LoginInv /\ Keys => LoginInv'
<1> SUFFICES ASSUME TypeInv, LoginInv, Keys PROVE LoginInv'
  OBVIOUS
<1> USE DEF TypeInv
<1>1. CASE DismissFailure \/ OpenAccounts \/ LaunchInstance
  BY <1>1, ViewLeft DEF DismissFailure, OpenAccounts, LaunchInstance, login
<1>2. ASSUME NEW id \in Ids, RemoveAccount(id) \/ ActivateAccount(id) PROVE LoginInv'
  BY <1>2, ViewLeft DEF RemoveAccount, ActivateAccount, login
<1>3. CASE Escape
  <2>1. /\ UNCHANGED <<pc, token, code, crossed, late, dead>>
        /\ view' \in {At("instances"), At("accounts")}
        /\ handle \in Logins => handle \in cancelled'
        /\ cancelled \subseteq cancelled'
    BY <1>3, BoundsAssumption DEF Escape, TakeHandle, Logins
  <2>2. InOrder' /\ AloneUnlessCrossed'
    BY <2>1 DEF LoginInv, InOrder, AloneUnlessCrossed, UnderWay
  <2>3. HandleKept'
    BY <2>1 DEF LoginInv, HandleKept, UnderWay
  <2>4. CodeAfterToken' /\ CodeShownIsLive'
    BY <2>1, ViewsDiffer DEF LoginInv, CodeAfterToken, CodeShownIsLive, Code, At
  <2> QED BY <2>2, <2>3, <2>4 DEF LoginInv
<1>4. ASSUME NEW f \in Logins, AddAccount(f) PROVE LoginInv'
  <2>1. /\ pc[f] = "none" /\ token[f] = "none"
        /\ \A g \in Logins : g < f => pc[g] # "none"
        /\ \A g \in Logins : f < g => pc[g] = "none"
    BY <1>4 DEF AddAccount, LoginInv, InOrder
  <2>2. /\ pc'[f] = "asking" /\ token'[f] = "sent"
        /\ \A g \in Logins \ {f} : pc'[g] = pc[g] /\ token'[g] = token[g]
        /\ UNCHANGED <<view, handle, code, cancelled, late, dead>>
        /\ crossed \subseteq crossed'
        /\ \A g \in Logins \ {f} : UnderWay(g) => f \in crossed' /\ g \in crossed'
    BY <1>4 DEF AddAccount, TypeOK, OtherLogins
  <2>3. InOrder'
    BY <2>1, <2>2, BoundsAssumption DEF LoginInv, InOrder, Logins
  <2>4. AloneUnlessCrossed'
    BY <2>1, <2>2, BoundsAssumption DEF LoginInv, AloneUnlessCrossed, UnderWay, Logins
  <2>5. HandleKept'
    BY <2>2 DEF LoginInv, HandleKept, UnderWay
  <2>6. CodeAfterToken' /\ CodeShownIsLive'
    BY <2>1, <2>2 DEF LoginInv, CodeAfterToken, CodeShownIsLive, Code
  <2> QED BY <2>3, <2>4, <2>5, <2>6 DEF LoginInv
<1> QED BY <1>1, <1>2, <1>3, <1>4 DEF Keys

LEMMA LoginStepLogin ==
  ASSUME TypeInv, LoginInv, NEW f \in Logins, LoginStep(f) \/ Approved(f) PROVE LoginInv'
<1> USE DEF TypeInv
<1>1. CASE CodeRequested(f)
  <2>1. /\ pc[f] = "asking" /\ pc'[f] = "polling" /\ code'[f] = "sent"
        /\ \A g \in Logins \ {f} : pc'[g] = pc[g] /\ code'[g] = code[g]
        /\ UNCHANGED <<view, handle, token, cancelled, crossed, late, dead>>
    BY <1>1 DEF CodeRequested, Go, Quietly, Calmly, TypeOK
  <2>2. view # Code(f) /\ code[f] = "none"
    BY <2>1 DEF LoginInv, CodeAfterToken
  <2>3. InOrder' /\ AloneUnlessCrossed' /\ HandleKept'
    BY <2>1 DEF LoginInv, InOrder, AloneUnlessCrossed, HandleKept, UnderWay
  <2>4. CodeAfterToken' /\ CodeShownIsLive'
    BY <2>1, <2>2 DEF LoginInv, CodeAfterToken, CodeShownIsLive, Code
  <2> QED BY <2>3, <2>4 DEF LoginInv
<1>2. CASE \/ Approved(f) \/ LoginFails(f) \/ CancelSeen(f) \/ Dies(f) \/ Persist(f)
           \/ \E id \in Ids : Known(f, id)
  <2>1. /\ UNCHANGED <<view, handle, token, code, cancelled, crossed, late>>
        /\ dead \subseteq dead' /\ UnderWay(f)
        /\ \A g \in Logins \ {f} : pc'[g] = pc[g]
        /\ pc'[f] \notin {"none", "asking"} /\ (pc'[f] = "told" => f \in dead')
    BY <1>2 DEF Approved, LoginFails, CancelSeen, Dies, Known, Persist, Go, Quietly, Calmly, TypeOK, UnderWay
  <2> QED BY <2>1, GoesOn DEF TypeOK
<1> QED BY <1>1, <1>2 DEF LoginStep

LEMMA ToldLogin == ASSUME TypeInv, LoginInv, NEW f \in Logins, Told(f) PROVE LoginInv'
<1> USE DEF TypeInv
<1>1. CASE TokenCreated(f)
  <2>1. /\ token[f] = "sent" /\ token'[f] = "received" /\ handle' = f
        /\ \A g \in Logins : g < f => token[g] # "sent"
        /\ \A g \in Logins \ {f} : token'[g] = token[g]
        /\ UNCHANGED <<view, pc, code, cancelled, crossed, late, dead>>
    BY <1>1 DEF TokenCreated, TypeOK
  <2>2. pc[f] # "none" /\ \A g \in Logins : g < f => token[g] = "received"
    BY <2>1 DEF LoginInv, InOrder, TypeOK, Ways
  <2>3. InOrder'
    BY <2>1, <2>2 DEF LoginInv, InOrder
  <2>4. AloneUnlessCrossed'
    BY <2>1 DEF LoginInv, AloneUnlessCrossed, UnderWay
  <2>5. ASSUME NEW g \in Logins \ crossed, g # f, UnderWay(g), token[g] = "received" PROVE FALSE
    <3>1. CASE g < f
      BY <2>2, <2>5, <3>1 DEF LoginInv, AloneUnlessCrossed
    <3>2. CASE f < g
      BY <2>1, <2>5, <3>2 DEF LoginInv, InOrder
    <3> QED BY <2>5, <3>1, <3>2, BoundsAssumption DEF Logins
  <2>6. HandleKept'
    BY <2>1, <2>5 DEF HandleKept, UnderWay
  <2>7. CodeAfterToken' /\ CodeShownIsLive'
    BY <2>1 DEF LoginInv, CodeAfterToken, CodeShownIsLive, Code
  <2> QED BY <2>3, <2>4, <2>6, <2>7 DEF LoginInv
<1>2. CASE AuthStarted(f)
  <2>1. /\ token[f] = "received" /\ code[f] = "sent" /\ code'[f] = "received"
        /\ \A g \in Logins \ {f} : code'[g] = code[g]
        /\ view' = Code(f)
        /\ UNCHANGED <<handle, pc, token, cancelled, crossed, late, dead>>
    BY <1>2 DEF AuthStarted, TypeOK
  <2>2. InOrder' /\ AloneUnlessCrossed' /\ HandleKept'
    BY <2>1 DEF LoginInv, InOrder, AloneUnlessCrossed, HandleKept, UnderWay
  <2>3. \A g \in Logins : view' = Code(g)' => g = f
    BY <2>1, ViewsDiffer DEF Code
  <2>4. CodeAfterToken' /\ CodeShownIsLive'
    BY <2>1, <2>3 DEF LoginInv, CodeAfterToken, CodeShownIsLive
  <2> QED BY <2>2, <2>4 DEF LoginInv
<1>3. CASE AccountAdded(f) \/ AccountAuthFailed(f) \/ LoginClosed(f)
  <2>1. /\ UnderWay(f) /\ pc'[f] = "told" /\ (code[f] = "sent" => f \in late')
        /\ \A g \in Logins \ {f} : pc'[g] = pc[g]
        /\ view' \in {At("instances"), At("accounts"), At("failed")}
        /\ late \subseteq late' /\ cancelled \subseteq cancelled'
        /\ UNCHANGED <<token, code, crossed, dead>>
    BY <1>3 DEF AccountAdded, AccountAuthFailed, LoginClosed, Tells, TakeHandle, Go, UnderWay, TypeOK
  <2>2. InOrder' /\ AloneUnlessCrossed'
    BY <2>1 DEF LoginInv, InOrder, AloneUnlessCrossed, UnderWay
  <2>3. HandleKept'
    BY <2>1, OthersCrossed DEF HandleKept, UnderWay
  <2>4. \A g \in Logins : view' # Code(g)'
    BY <2>1, ViewsDiffer DEF Code
  <2>5. CodeAfterToken' /\ CodeShownIsLive'
    BY <2>1, <2>4 DEF LoginInv, CodeAfterToken, CodeShownIsLive
  <2> QED BY <2>2, <2>3, <2>5 DEF LoginInv
<1> QED BY <1>1, <1>2, <1>3 DEF Told

LEMMA NextLogin == TypeInv /\ LoginInv /\ [Next]_vars => LoginInv'
<1>1. ASSUME TypeInv, LoginInv, NEW t \in Tasks, TaskStep(t) PROVE LoginInv'
  BY <1>1, ViewLeft DEF TaskStep, LoadAccounts, Change, SaveAccounts, RefreshSaved, ChangeFails, Read,
    ReadFails, AccountsLoaded, Untold, login
<1>2. TypeInv /\ LoginInv /\ UNCHANGED vars => LoginInv'
  BY ViewLeft DEF vars
<1> QED BY <1>1, <1>2, KeysLogin, LoginStepLogin, ToldLogin DEF Next

LEMMA LoginInvariant == Spec => []LoginInv
<1>1. Init => LoginInv
  BY ViewsDiffer DEF Init, LoginInv, InOrder, AloneUnlessCrossed, HandleKept, CodeAfterToken,
    CodeShownIsLive, UnderWay
<1>2. Spec => []TypeInv
  BY InitType, NextType, PTL DEF Spec
<1> QED BY <1>1, <1>2, NextLogin, PTL DEF Spec

\* Esc in the dialogue reaches the login whose code is shown: a login that no other
\* has crossed has its own handle in the one place for it, or is cancelled already.
THEOREM EscReachesItsLogin == Spec => []EscReaches
<1>1. LoginInv => EscReaches
  BY DEF LoginInv, EscReaches, HandleKept, CodeAfterToken, UnderWay
<1> QED BY <1>1, LoginInvariant, PTL

\* A code that is shown can still be used, unless the end of its login has overtaken
\* it or the login has died.
THEOREM ShownCodeIsLive == Spec => []CodeShownIsLive
<1>1. LoginInv => CodeShownIsLive
  BY DEF LoginInv
<1> QED BY <1>1, LoginInvariant, PTL
===============================================================================
