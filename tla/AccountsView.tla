------------------------------ MODULE AccountsView ------------------------------
(***************************************************************************)
(* The accounts as the interface shows them (the account arms of update,   *)
(* tui/app.rs, and their effects, tui/run.rs) and the login dialogue with  *)
(* the device code (auth/service.rs, auth/device_code.rs).                 *)
(*                                                                         *)
(* Every key starts a detached task and changes what is shown at once; the *)
(* task's answer, the whole list, replaces it.  A login is a task of its   *)
(* own: it asks for a code, polls until the user has entered it (the only  *)
(* place where its token is looked at), goes through the services and      *)
(* saves the account.  There is one handle, add_account_cancel, for all    *)
(* logins.  The code travels through a forwarder, so that the end of a     *)
(* login may overtake it.  A message is sent and received in one step,     *)
(* except for the handle, which the event loop sends to itself.            *)
(*                                                                         *)
(* Whoever changes accounts.json reads it, and writes it back later with   *)
(* its change: the tasks, a login that saves its account, and a launch     *)
(* that refreshes the token of the active account, of which the interface  *)
(* is told nothing.  AccountStore has the tokens and their two places.     *)
(***************************************************************************)
EXTENDS Naturals

CONSTANTS Ids,        \* accounts
          MaxLogins,  \* bound on the logins of a behaviour
          MaxTasks,   \* bound on the detached tasks under way
          MaxKeys,    \* bound on the keys that start a task
          None

\* There is a place for the fetch the program starts with, and None is neither an
\* account nor a login.
ASSUME BoundsAssumption ==
  /\ MaxLogins \in Nat /\ MaxKeys \in Nat /\ MaxTasks \in Nat \ {0}
  /\ None \notin Ids \cup (1..MaxLogins)

Logins == 1..MaxLogins
Tasks == 1..MaxTasks

VARIABLES
  view,      \* the active view, and the login whose code it shows or 0
  shown,     \* the ids in AppState.accounts
  active,    \* active_account_id
  handle,    \* add_account_cancel
  pc,        \* how far a login has got
  token,     \* its handle: not sent, on its way, received
  code,      \* its code: not sent, with the forwarder, received
  cancelled, \* logins whose token is cancelled
  list,      \* accounts.json
  chosen,    \* its active account
  task,      \* the detached tasks, and the launches
  keys,      \* (of the model) keys pressed that start a task
  behind,    \* (of the model) the last list received was out of date, or did not come, or
             \* a launch has put back since then a list that was out of date
  crossed,   \* (of the model) logins that were under way together
  who,       \* the account a login saves, and the list it writes
  late,      \* (of the model) logins whose end overtook their code
  dead       \* (of the model) logins that ended without a word

vars == <<view, shown, active, handle, pc, token, code, cancelled, list, chosen,
          task, keys, behind, crossed, who, late, dead>>
files == <<list, chosen>>
picture == <<shown, active>>
login == <<handle, pc, token, code, cancelled, crossed, who, late, dead>>

Idle == [kind |-> "none", id |-> None, stage |-> "none", seen |-> {}, first |-> None]
Work(kind, id) == [Idle EXCEPT !.kind = kind, !.id = id, !.stage = "change"]
Refresh == Work("refresh", None)
Fetch == [Idle EXCEPT !.kind = "fetch", !.stage = "read"]
NoOne == [id |-> None, seen |-> {}, first |-> None]

At(name) == <<name, 0>>
Code(f) == <<"code", f>>
UnderWay(f) == pc[f] \notin {"none", "told"}
OtherLogins(f) == {g \in Logins \ {f} : UnderWay(g)}

\* An effect is spawned, at the first free place.
Free(t) == task[t] = Idle
Start(work) == \E t \in Tasks : /\ Free(t) /\ \A u \in Tasks : u < t => ~Free(u)
                                /\ task' = [task EXCEPT ![t] = work]

Init ==
  /\ view = At("instances")
  /\ shown = {} /\ active = None /\ handle = None
  /\ pc = [f \in Logins |-> "none"]
  /\ token = [f \in Logins |-> "none"] /\ code = [f \in Logins |-> "none"]
  /\ cancelled = {}
  /\ list \in SUBSET Ids /\ chosen \in list \cup {None}
  /\ task = [t \in Tasks |-> IF t = 1 THEN Fetch ELSE Idle]
  /\ keys = 0
  /\ who = [f \in Logins |-> NoOne]
  /\ behind = FALSE /\ crossed = {} /\ late = {} /\ dead = {}

-----------------------------------------------------------------------------
(* Keys. *)

\* CloseModal.  The other views are taken for the list of instances.
DismissFailure ==
  /\ view = At("failed") /\ view' = At("instances")
  /\ UNCHANGED <<picture, login, files, task, keys, behind>>

OpenAccounts ==
  /\ view = At("instances")
  /\ view' = At("accounts")
  /\ Start(Fetch)
  /\ keys < MaxKeys /\ keys' = keys + 1
  /\ UNCHANGED <<picture, login, files, behind>>

\* A launch as the account shown to be active; one without leaves the list alone.
LaunchInstance ==
  /\ view = At("instances") /\ active # None /\ keys < MaxKeys
  /\ Start(Refresh)
  /\ keys' = keys + 1
  /\ UNCHANGED <<view, picture, login, files, behind>>

TakeHandle ==
  /\ cancelled' = cancelled \cup ({handle} \ {None})
  /\ handle' = None

\* CloseAccounts, as a key of the list; and CancelAddAccount, of the dialogue.
Escape ==
  /\ \/ view = At("accounts") /\ view' = At("instances")
     \/ view \in {Code(f) : f \in Logins} /\ view' = At("accounts")
  /\ TakeHandle
  /\ UNCHANGED <<picture, pc, token, code, crossed, who, late, dead, files, task, keys, behind>>

\* The effect sends the handle from the loop before it spawns the login.  The
\* list stays until the code comes: the key can be pressed again.
AddAccount(f) ==
  /\ view = At("accounts")
  /\ pc[f] = "none" /\ \A g \in Logins : g < f => pc[g] # "none"
  /\ pc' = [pc EXCEPT ![f] = "asking"]
  /\ token' = [token EXCEPT ![f] = "sent"]
  /\ crossed' = IF OtherLogins(f) = {} THEN crossed ELSE crossed \cup {f} \cup OtherLogins(f)
  /\ keys < MaxKeys /\ keys' = keys + 1
  /\ UNCHANGED <<view, picture, handle, code, cancelled, who, late, dead, files, task, behind>>

RemoveAccount(id) ==
  /\ view = At("accounts") /\ id \in shown /\ keys < MaxKeys
  /\ shown' = shown \ {id}
  /\ active' = IF active = id THEN None ELSE active
  /\ Start(Work("remove", id))
  /\ keys' = keys + 1
  /\ UNCHANGED <<view, login, files, behind>>

ActivateAccount(id) ==
  /\ view = At("accounts") /\ id \in shown /\ keys < MaxKeys
  /\ active' = id
  /\ Start(Work("activate", id))
  /\ keys' = keys + 1
  /\ UNCHANGED <<view, shown, login, files, behind>>

-----------------------------------------------------------------------------
(* Detached tasks: read the file, write it back changed or fail to, read it, tell. *)

Proceed(t, next) == task' = [task EXCEPT ![t] = next]
Untold == UNCHANGED <<view, picture, login, keys>>

\* Plausible bug: a change that has failed leaves the list to the next fetch.
ChangeUntold(t) ==
  /\ task[t].stage \in {"change", "save"}
  /\ Proceed(t, Idle)
  /\ Untold /\ UNCHANGED <<files, behind>>

\* The list as it will be written.
Change(t, seen, first) ==
  /\ task[t].stage = "change"
  /\ Proceed(t, [task[t] EXCEPT !.stage = "save", !.seen = seen, !.first = first])
  /\ Untold /\ UNCHANGED <<files, behind>>

LoadAccounts(t) ==
  LET id == task[t].id
  IN  \/ /\ task[t].kind = "remove"
         /\ Change(t, list \ {id}, IF chosen = id THEN None ELSE chosen)
      \/ task[t].kind = "activate" /\ id \in list /\ Change(t, list, id)
      \/ task[t].kind = "refresh" /\ Change(t, list, chosen)

SaveAccounts(t) ==
  /\ task[t].stage = "save" /\ task[t].kind # "refresh"
  /\ list' = task[t].seen /\ chosen' = task[t].first
  /\ Proceed(t, Fetch)
  /\ Untold /\ UNCHANGED behind

\* resolve_msa_tokens_for_launch changes the times in an entry and writes them all.
RefreshSaved(t) ==
  /\ task[t].stage = "save" /\ task[t].kind = "refresh"
  /\ list' = task[t].seen /\ chosen' = task[t].first
  /\ behind' = (behind \/ files' # files)
  /\ Proceed(t, Idle)
  /\ Untold

\* An account that is not there, a file that cannot be read or written, a token that
\* is not refreshed, a launch that is dropped.
ChangeFails(t) ==
  /\ task[t].stage \in {"change", "save"}
  /\ \/ task[t].kind # "refresh" /\ Proceed(t, Fetch)
     \/ task[t].kind = "refresh" /\ Proceed(t, Idle)
  /\ Untold /\ UNCHANGED <<files, behind>>

Read(t) ==
  /\ task[t].stage = "read"
  /\ Proceed(t, [task[t] EXCEPT !.stage = "tell", !.seen = list, !.first = chosen])
  /\ Untold /\ UNCHANGED <<files, behind>>

\* A list that cannot be read is not told.
ReadFails(t) ==
  /\ task[t].stage = "read"
  /\ Proceed(t, Idle)
  /\ behind' = TRUE
  /\ Untold /\ UNCHANGED files

\* AccountsLoaded.
AccountsLoaded(t) ==
  /\ task[t].stage = "tell"
  /\ shown' = task[t].seen
  /\ active' = task[t].first
  /\ Proceed(t, Idle)
  /\ behind' = (<<task[t].seen, task[t].first>> # files)
  /\ UNCHANGED <<view, login, files, keys>>

-----------------------------------------------------------------------------
(* A login. *)

Go(f, from, to) == pc[f] = from /\ pc' = [pc EXCEPT ![f] = to]
Calmly == UNCHANGED <<view, picture, handle, token, cancelled, crossed, late, task, keys, behind>>
Quietly == Calmly /\ UNCHANGED who

CodeRequested(f) ==
  /\ Go(f, "asking", "polling")
  /\ code' = [code EXCEPT ![f] = "sent"]
  /\ Quietly /\ UNCHANGED <<files, dead>>

\* The user enters the code; the answer counts even if Esc came after the request.
Approved(f) == Go(f, "polling", "chain") /\ Quietly /\ UNCHANGED <<code, files, dead>>

\* No code, refused, expired, a service that fails, an account that is not saved.
LoginFails(f) ==
  /\ \E stage \in {"asking", "polling", "chain", "saving"} : Go(f, stage, "failed")
  /\ Quietly /\ UNCHANGED <<code, files, dead>>

\* Plausible bug: the token is looked at only where a poll has been answered.
CancelMissed(f) == FALSE /\ UNCHANGED vars

\* The wait between two polls ends when the token is cancelled.
CancelSeen(f) ==
  f \in cancelled /\ Go(f, "polling", "closed") /\ Quietly /\ UNCHANGED <<code, files, dead>>

\* The list is read: a known account stays active if it was, and the first one is.
Known(f, id) ==
  /\ Go(f, "chain", "saving")
  /\ who' = [who EXCEPT ![f] = [id |-> id, seen |-> list \cup {id},
                                first |-> IF list = {} THEN id ELSE chosen]]
  /\ Calmly /\ UNCHANGED <<code, files, dead>>

\* The account is saved.
Persist(f) ==
  /\ Go(f, "saving", "added")
  /\ list' = who[f].seen /\ chosen' = who[f].first
  /\ who' = [who EXCEPT ![f].seen = {}]
  /\ Calmly /\ UNCHANGED <<code, dead>>

\* Cutting the text of an error inside a character panics (auth/xbox.rs): the
\* task is gone without a message.
Dies(f) ==
  /\ Go(f, "chain", "told")
  /\ dead' = dead \cup {f}
  /\ Quietly /\ UNCHANGED <<code, files>>

\* Plausible bug: a handle is kept until it has been used.
KeepHandle(f) ==
  /\ token[f] = "sent" /\ \A g \in Logins : g < f => token[g] # "sent"
  /\ token' = [token EXCEPT ![f] = "received"]
  /\ handle' = IF handle = None THEN f ELSE handle
  /\ UNCHANGED <<view, picture, pc, code, cancelled, crossed, who, late, dead, files, task, keys, behind>>

\* AddAccountTokenCreated.
TokenCreated(f) ==
  /\ token[f] = "sent" /\ \A g \in Logins : g < f => token[g] # "sent"
  /\ token' = [token EXCEPT ![f] = "received"]
  /\ handle' = f
  /\ UNCHANGED <<view, picture, pc, code, cancelled, crossed, who, late, dead, files, task, keys, behind>>

\* AccountAuthStarted: the dialogue opens, whatever is being looked at.
AuthStarted(f) ==
  /\ code[f] = "sent" /\ token[f] = "received"
  /\ code' = [code EXCEPT ![f] = "received"]
  /\ view' = Code(f)
  /\ UNCHANGED <<picture, handle, pc, token, cancelled, crossed, who, late, dead, files, task, keys, behind>>

Tells(f, end) ==
  /\ token[f] = "received"
  /\ Go(f, end, "told")
  /\ late' = IF code[f] = "sent" THEN late \cup {f} ELSE late
  /\ who' = [who EXCEPT ![f] = NoOne]
  /\ UNCHANGED <<token, code, crossed, dead, files, keys, behind>>

\* AccountAdded: shown at once, and the list is fetched.
AccountAdded(f) ==
  /\ Tells(f, "added")
  /\ handle' = None /\ cancelled' = cancelled
  /\ shown' = shown \cup {who[f].id}
  /\ active' = IF who[f].first = who[f].id THEN who[f].id ELSE active
  /\ view' = At("accounts")
  /\ Start(Fetch)

\* Plausible bug: the failure is left to the dialogue, which does not close.
FailedUnseen(f) ==
  /\ Tells(f, "failed")
  /\ handle' = None /\ cancelled' = cancelled
  /\ UNCHANGED <<view, picture, task>>

AccountAuthFailed(f) ==
  /\ Tells(f, "failed")
  /\ handle' = None /\ cancelled' = cancelled
  /\ view' = At("failed")
  /\ UNCHANGED <<picture, task>>

\* A cancelled login answers with CloseAccounts, which takes the handle there is.
LoginClosed(f) ==
  /\ Tells(f, "closed")
  /\ TakeHandle
  /\ view' = At("instances")
  /\ UNCHANGED <<picture, task>>

Keys ==
  \/ DismissFailure \/ OpenAccounts \/ LaunchInstance \/ Escape
  \/ \E f \in Logins : AddAccount(f)
  \/ \E id \in Ids : RemoveAccount(id) \/ ActivateAccount(id)
TaskStep(t) ==
  \/ LoadAccounts(t) \/ SaveAccounts(t) \/ RefreshSaved(t) \/ ChangeFails(t)
  \/ Read(t) \/ ReadFails(t) \/ AccountsLoaded(t)
LoginStep(f) ==
  \/ CodeRequested(f) \/ LoginFails(f) \/ CancelSeen(f) \/ Dies(f) \/ Persist(f)
  \/ \E id \in Ids : Known(f, id)
Told(f) ==
  TokenCreated(f) \/ AuthStarted(f) \/ AccountAdded(f) \/ AccountAuthFailed(f) \/ LoginClosed(f)

Next ==
  \/ Keys
  \/ \E t \in Tasks : TaskStep(t)
  \/ \E f \in Logins : LoginStep(f) \/ Approved(f) \/ Told(f)

Spec == Init /\ [][Next]_vars

\* Requests are answered and messages received; a cancelled poll is woken.  The
\* user need not enter the code, nor press a key.  What these steps do is finite
\* for a finite number of keys, so that none of them can hold up another.
Progress ==
  \/ \E t \in Tasks : TaskStep(t)
  \/ \E f \in Logins : \/ CodeRequested(f) \/ CancelSeen(f) \/ Told(f)
                       \/ pc[f] \in {"chain", "saving"} /\ LoginStep(f)
Fairness == WF_vars(Progress)

FairSpec == Spec /\ Fairness

-----------------------------------------------------------------------------
(* Properties. *)

\* Nothing is under way that the interface will be told of.
Quiet == /\ \A t \in Tasks : task[t].kind \in {"none", "refresh"}
         /\ \A f \in Logins : pc[f] # "added"

\* When nothing is under way but launches, the accounts shown, and the one a launch
\* would log in with, are the ones on disk, unless the last list was read before the
\* last change and told after it, or could not be read, or a launch has since undone a
\* change made while it refreshed its token.
AccountsAreCurrent ==
  Quiet /\ ~behind => shown = list /\ active = chosen

\* Esc in the dialogue reaches the login whose code is shown, unless two logins
\* were under way at a time (app.rs:435 knows of one "currently-active" login).
EscReaches ==
  \A f \in Logins \ crossed :
    view = Code(f) /\ pc[f] = "polling" => handle = f \/ f \in cancelled

\* A code that is shown can still be used: its login has not ended, but for the
\* ones whose end overtook the code and those that died.
CodeShownIsLive ==
  \A f \in Logins \ (late \cup dead) : view = Code(f) => pc[f] # "told"

\* A cancelled login ends, and so does its task.
CancelledLoginEnds == \A f \in Logins : (f \in cancelled) ~> (pc[f] = "told")

\* run.rs:1104 says that a cancelled login returns to the list of accounts.
CancelReturnsToList ==
  [][\A f \in Logins : LoginClosed(f) => view' = At("accounts")]_vars
=============================================================================
