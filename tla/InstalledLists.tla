---------------------------- MODULE InstalledLists ----------------------------
(***************************************************************************)
(* What the interface knows of the mods and packs of an instance: the list *)
(* it shows, the set of installed ids it keeps, and the marks it puts on   *)
(* search results (tui/app.rs), against the ledger on disk, which detached *)
(* tasks read and change and whose answers come in any order (tui/run.rs). *)
(*                                                                         *)
(* A list is the mods, the resource packs or the shader packs of an        *)
(* instance.  A change of the ledger is one step: it happens under the     *)
(* ledger's lock (ModLedger).  A task that has done its work and its       *)
(* answer are the same here: between them nothing can be told apart.       *)
(***************************************************************************)
EXTENDS FiniteSets

CONSTANTS Lists,     \* the lists there are
          ModLists,  \* those of mods; the others are of packs
          Shaders,   \* those of shader packs, which cannot be toggled
          CycleTo,   \* the list the tab key goes to
          Items,     \* ids of mods and packs
          Own,       \* those that may be in a list
          Slots,     \* bounds the tasks under way at a time
          None       \* no task, no item, no list

\* What the constants have to be.
ASSUME ListsAssumption ==
  /\ ModLists \cup Shaders \subseteq Lists /\ ModLists \cap Shaders = {}
  /\ CycleTo \in [Lists -> Lists] /\ Own \in [Lists -> SUBSET Items]
  /\ \A l, m \in Lists : l # m => Own[l] \cap Own[m] = {}
  /\ None \notin Items \cup Lists

VARIABLES
  ledger,     \* the rows of each list, on disk
  task,       \* the tasks under way
  running,    \* running_mod_jobs
  installed,  \* installed_mod_project_ids, installed_pack_project_ids
  at, of,     \* the view shown, and the list it is about
  rows,       \* the rows of the list shown
  marked,     \* the results marked as installed, of those shown
  hits,       \* whether the browser has results
  loading,    \* fetch_state of the browser
  pick,       \* the item the confirmation is about
  back,       \* return_to of the failure shown
  behind      \* (of the model) lists the interface was told wrongly of

vars == <<ledger, task, running, installed, at, of, rows, marked, hits, loading,
          pick, back, behind>>
view == <<at, of, rows, marked, hits, loading, pick, back>>

Row == {"absent", "off", "on"}
Nothing == [i \in Items |-> "absent"]
Ids(rs) == {i \in Items : rs[i] # "absent"}
Flip(row) == IF row = "on" THEN "off" ELSE "on"

Task == [op : {"fetch", "search", "toggle", "uninstall", "install", "drop"},
         list : Lists, item : Items \cup {None}, want : Row,
         rows : [Items -> Row], left : SUBSET Items,
         stage : {"asked", "begun", "checked", "done", "failed"},
         crossed : BOOLEAN]   \* (of the model) another task changed the item meanwhile
ASSUME NoTaskIsNone == None \notin Task
Job(op, l, i, want, left) ==
  [op |-> op, list |-> l, item |-> i, want |-> want, rows |-> Nothing, left |-> left,
   stage |-> "asked", crossed |-> FALSE]
Fetch(l) == Job("fetch", l, None, "absent", {})
Search(l) == Job("search", l, None, "absent", {})

\* Tasks that are going to change an item of the same list as x does.
Touches(x) == {x.item} \cup x.left
Rivals(x) ==
  {s \in Slots : /\ task[s] # None /\ task[s].list = x.list
                 /\ task[s].op \notin {"fetch", "search"} /\ task[s].stage \notin {"done", "failed"}
                 /\ Touches(task[s]) \cap Touches(x) # {}}
Quiet(l) == \A s \in Slots : task[s] # None => task[s].list # l

Init ==
  /\ ledger \in [Lists -> [Items -> {"absent", "on"}]]
  /\ \A l \in Lists : Ids(ledger[l]) \subseteq Own[l]
  /\ task = [s \in Slots |-> None] /\ running = {}
  /\ installed = [l \in Lists |-> {}]
  /\ at = "away" /\ of = None /\ rows = Nothing
  /\ marked = {} /\ hits = FALSE /\ loading = FALSE /\ pick = None /\ back = "list"
  /\ behind = Lists

-----------------------------------------------------------------------------
(* Tasks and views. *)

Ask(x) == \E s \in Slots : task[s] = None /\ task' = [task EXCEPT ![s] = x]
AskBoth(x, y) ==
  \E s, t \in Slots :
    s # t /\ task[s] = None /\ task[t] = None /\ task' = [task EXCEPT ![s] = x, ![t] = y]

\* A task that changes items of a list begins in slot s.
Begun(x, s) ==
  [r \in Slots |-> IF r = s THEN [x EXCEPT !.crossed = Rivals(x) # {}]
                   ELSE IF r \in Rivals(x) THEN [task[r] EXCEPT !.crossed = TRUE] ELSE task[r]]
Begin(x) == \E s \in Slots : task[s] = None /\ task' = Begun(x, s)

Away == at' = "away" /\ rows' = Nothing /\ marked' = {} /\ hits' = FALSE
        /\ loading' = FALSE /\ pick' = None /\ back' = "list" /\ of' = None

\* InstalledModsList, InstalledPacksList: empty until it is told.
ShowList(l) == at' = "list" /\ of' = l /\ rows' = Nothing /\ marked' = {} /\ hits' = FALSE
               /\ loading' = FALSE /\ pick' = None /\ back' = "list"

\* ModBrowser, PackBrowser: no results, loading.
ShowBrowser(l) ==
  at' = "browser" /\ of' = l /\ rows' = Nothing /\ marked' = {} /\ hits' = FALSE
  /\ loading' = TRUE /\ pick' = None /\ back' = "list"

-----------------------------------------------------------------------------
(* The keys. *)

still == <<ledger, running, installed, behind>>

OpenInstalledMods(l) ==
  /\ at = "away" /\ l \in ModLists
  /\ ShowList(l) /\ Ask(Fetch(l)) /\ UNCHANGED still

OpenBrowser(l) ==
  /\ at = "away" /\ l \notin running
  /\ ShowBrowser(l) /\ AskBoth(Search(l), Fetch(l)) /\ UNCHANGED still

Close == at \in {"list", "browser"} /\ Away /\ UNCHANGED <<still, task>>

InstalledPacksCycleKind ==
  /\ at = "list"
  /\ ShowList(CycleTo[of]) /\ Ask(Fetch(CycleTo[of])) /\ UNCHANGED still

\* Any key that changes the query; the results stay until the answer comes.  Leaving
\* the query does not set fetch_state.
TypeSearch ==
  /\ at = "browser" /\ Ask(Search(of))
  /\ loading' \in {loading, TRUE}
  /\ UNCHANGED <<still, at, of, rows, marked, hits, pick, back>>

\* Mods are asked for the opposite of what is shown, packs for the opposite of
\* what will be there.
Toggle(i) ==
  /\ at = "list" /\ of \notin Shaders /\ rows[i] # "absent"
  /\ Begin(Job("toggle", of, i, Flip(rows[i]), {})) /\ UNCHANGED <<still, view>>

OpenUninstallConfirm(i) ==
  /\ at = "list" /\ rows[i] # "absent"
  /\ at' = "confirm" /\ pick' = i /\ rows' = Nothing
  /\ UNCHANGED <<still, task, of, marked, hits, loading, back>>

\* The removal and the fetch of what is left start together.
ConfirmUninstall ==
  /\ at = "confirm"
  /\ \E s, t \in Slots :
       /\ s # t /\ task[s] = None /\ task[t] = None
       /\ task' = [Begun(Job("uninstall", of, pick, "absent", {}), s) EXCEPT ![t] = Fetch(of)]
  /\ ShowList(of) /\ UNCHANGED still

CancelUninstall ==
  /\ at = "confirm" /\ Ask(Fetch(of)) /\ ShowList(of) /\ UNCHANGED still

\* A mod may bring others along; the dialogues in between are those of ModBrowsing.
Install(i) ==
  /\ at = "browser" /\ hits /\ i \in Own[of]
  /\ \E left \in SUBSET Own[of] :
       /\ i \in left /\ (of \notin ModLists => left = {i})
       /\ Begin(Job("install", of, i, "on", left))
  /\ UNCHANGED <<still, view>>

PackDropPathOpen ==
  /\ at = "browser" /\ of \notin ModLists
  /\ at' = "drop" /\ marked' = {} /\ hits' = FALSE /\ loading' = FALSE
  /\ UNCHANGED <<still, task, of, rows, pick, back>>

\* The browser comes back without a search.
PackDropPathSubmit(i) ==
  /\ at = "drop" /\ i \in Own[of]
  /\ ShowBrowser(of) /\ Begin(Job("drop", of, i, "on", {i})) /\ UNCHANGED still

PackDropPathCancel ==
  /\ at = "drop" /\ ShowBrowser(of) /\ Ask(Search(of)) /\ UNCHANGED still

DismissInstallFailed ==
  /\ at = "failed"
  /\ IF back = "browser" THEN ShowBrowser(of) /\ Ask(Search(of))
                         ELSE ShowList(of) /\ Ask(Fetch(of))
  /\ UNCHANGED still

-----------------------------------------------------------------------------
(* The tasks. *)

ui == <<running, installed, behind>>

Is(s, op, stage) == task[s] # None /\ task[s].op = op /\ task[s].stage = stage
Stage(s, to) == task' = [task EXCEPT ![s].stage = to]
Over(s) == task' = [task EXCEPT ![s] = None]

\* The ledger is read: all of it by a fetch, the ids by a search.
Read(s) ==
  /\ Is(s, "fetch", "asked") \/ Is(s, "search", "asked")
  /\ task' = [task EXCEPT ![s].stage = "done", ![s].rows = ledger[task[s].list]]
  /\ UNCHANGED <<ledger, ui, view>>

\* A fetch of mods that fails answers as if there were none, one of packs does not
\* answer; a search fails, or answers without marks when only the ledger is the trouble.
ReadFails(s) ==
  LET l == task[s].list IN
  /\ \/ Is(s, "fetch", "asked") /\ l \in ModLists /\ Stage(s, "done") /\ UNCHANGED behind
     \/ Is(s, "search", "asked") /\ Stage(s, "done") /\ UNCHANGED behind
     \/ Is(s, "fetch", "asked") /\ l \notin ModLists /\ Over(s) /\ behind' = behind \cup {l}
     \/ Is(s, "search", "asked") /\ Stage(s, "failed") /\ UNCHANGED behind
  /\ UNCHANGED <<ledger, running, installed, view>>

SetRow(l, i, row) == ledger' = [ledger EXCEPT ![l][i] = row]

\* Plausible bug: the mod is turned without a look at what it is.
CheckNothing(s) ==
  LET l == task[s].list IN
  /\ Is(s, "toggle", "asked") /\ l \in ModLists
  /\ IF ledger[l][task[s].item] = "absent" THEN Over(s) ELSE Stage(s, "checked")
  /\ UNCHANGED <<ledger, ui, view>>

\* enable_mod and disable_mod look first, without the lock.
Check(s) ==
  LET l == task[s].list  row == ledger[l][task[s].item] IN
  /\ Is(s, "toggle", "asked") /\ l \in ModLists
  /\ IF row = "absent" THEN Over(s) ELSE Stage(s, IF row = task[s].want THEN "done" ELSE "checked")
  /\ UNCHANGED <<ledger, ui, view>>

\* toggle_enabled, toggle_pack_enabled: the row is turned, whatever it was.
Turn(s) ==
  LET l == task[s].list  i == task[s].item  row == ledger[l][i] IN
  /\ Is(s, "toggle", IF l \in ModLists THEN "checked" ELSE "asked") /\ row # "absent"
  /\ task' = [task EXCEPT ![s].stage = "done", ![s].want = IF l \in ModLists THEN @ ELSE Flip(row)]
  /\ SetRow(l, i, Flip(row))
  /\ UNCHANGED <<ui, view>>

Remove(s) ==
  /\ Is(s, "uninstall", "asked") /\ ledger[task[s].list][task[s].item] # "absent"
  /\ Stage(s, "done") /\ SetRow(task[s].list, task[s].item, "absent")
  /\ UNCHANGED <<ui, view>>

\* A toggle or a removal that fails changes nothing and the interface does not
\* hear of it, but for a line of status.
ChangeFails(s) ==
  /\ \E stage \in {"asked", "checked"} : Is(s, "toggle", stage) \/ Is(s, "uninstall", stage)
  /\ Over(s)
  /\ UNCHANGED <<ledger, ui, view>>

Installing(s) ==
  task[s] # None /\ (Is(s, "drop", "asked") \/ Is(s, "install", IF task[s].list \in ModLists THEN "begun" ELSE "asked"))

\* One row after another; its file is renamed after it, which may fail.  A dropped
\* file comes before its row.  Nothing cancels an install but the end of the program.
AddRow(s) ==
  /\ Installing(s)
  /\ \E i \in task[s].left :
       /\ \E stage \in {IF task[s].left = {i} THEN "done" ELSE task[s].stage, "failed"} :
            /\ task[s].op = "drop" => stage = "done"
            /\ task' = [task EXCEPT ![s].left = @ \ {i}, ![s].stage = stage]
       /\ SetRow(task[s].list, i, "on")
  /\ UNCHANGED <<ui, view>>

InstallFails(s) ==
  /\ Installing(s)
  /\ Stage(s, "failed") /\ UNCHANGED <<ledger, ui, view>>

-----------------------------------------------------------------------------
(* The interface is told. *)

Listing(l) == at = "list" /\ of = l
Browsing(l) == at = "browser" /\ of = l
Told(l, right) == behind' = IF right THEN behind ELSE behind \cup {l}

\* Plausible bug: an answer is taken for the list shown, whatever it is about.
LoadedAnywhere(s) ==
  LET l == task[s].list  rs == task[s].rows IN
  /\ Is(s, "fetch", "done") /\ Over(s)
  /\ installed' = [installed EXCEPT ![l] = Ids(rs)]
  /\ rows' = IF at = "list" THEN rs ELSE rows
  /\ marked' = IF Browsing(l) /\ hits THEN marked \cup Ids(rs) ELSE marked
  /\ behind' = IF rs # ledger[l] THEN behind \cup {l}
               ELSE IF Browsing(l) /\ ~(marked \subseteq Ids(rs)) THEN behind ELSE behind \ {l}
  /\ UNCHANGED <<ledger, running, at, of, hits, loading, pick, back>>

\* InstalledModsLoaded, InstalledPacksLoaded: marks are added, never taken back.
Loaded(s) ==
  LET l == task[s].list  rs == task[s].rows IN
  /\ Is(s, "fetch", "done") /\ Over(s)
  /\ installed' = [installed EXCEPT ![l] = Ids(rs)]
  /\ rows' = IF Listing(l) THEN rs ELSE rows
  /\ marked' = IF Browsing(l) /\ hits THEN marked \cup Ids(rs) ELSE marked
  /\ behind' = IF rs # ledger[l] THEN behind \cup {l}
               ELSE IF Browsing(l) /\ ~(marked \subseteq Ids(rs)) THEN behind ELSE behind \ {l}
  /\ UNCHANGED <<ledger, running, at, of, hits, loading, pick, back>>

\* Results bear the marks of the ledger as the search read it, and of the set.
SearchLoaded(s) ==
  LET l == task[s].list  marks == Ids(task[s].rows) \cup installed[l] IN
  /\ Is(s, "search", "done") /\ Over(s)
  /\ IF Browsing(l)
       THEN /\ marked' = marks /\ hits' = TRUE /\ loading' = FALSE
            /\ Told(l, marks = Ids(ledger[l]))
       ELSE UNCHANGED <<marked, hits, loading, behind>>
  /\ UNCHANGED <<ledger, running, installed, at, of, rows, pick, back>>

SearchFailed(s) ==
  /\ Is(s, "search", "failed") /\ Over(s)
  /\ loading' = IF Browsing(task[s].list) THEN FALSE ELSE loading
  /\ UNCHANGED <<ledger, ui, at, of, rows, marked, hits, pick, back>>

\* ModToggled, PackToggled.
Toggled(s) ==
  LET l == task[s].list  i == task[s].item  shown == Listing(l) /\ rows[i] # "absent" IN
  /\ Is(s, "toggle", "done") /\ Over(s)
  /\ rows' = IF shown THEN [rows EXCEPT ![i] = task[s].want] ELSE rows
  /\ Told(l, shown => task[s].want = ledger[l][i])
  /\ UNCHANGED <<ledger, running, installed, at, of, marked, hits, loading, pick, back>>

Forget(l, i) ==
  /\ installed' = [installed EXCEPT ![l] = @ \ {i}]
  /\ marked' = IF Browsing(l) THEN marked \ {i} ELSE marked
  /\ Told(l, ledger[l][i] = "absent")

\* A mod leaves the list; packs are fetched again.
Uninstalled(s) ==
  LET l == task[s].list  i == task[s].item IN
  /\ Is(s, "uninstall", "done") /\ Forget(l, i)
  /\ IF l \in ModLists
       THEN Over(s) /\ rows' = IF Listing(l) THEN [rows EXCEPT ![i] = "absent"] ELSE rows
       ELSE task' = [task EXCEPT ![s] = Fetch(l)] /\ UNCHANGED rows
  /\ UNCHANGED <<ledger, running, at, of, hits, loading, pick, back>>

\* ModInstallStarted brings the browser back, whatever is shown.
ModInstallStarted(s) ==
  LET l == task[s].list IN
  /\ Is(s, "install", "asked") /\ l \in ModLists
  /\ \E t \in Slots : task[t] = None /\ task' = [task EXCEPT ![s].stage = "begun", ![t] = Search(l)]
  /\ running' = running \cup {l}
  /\ ShowBrowser(l)
  /\ UNCHANGED <<ledger, installed, behind>>

\* ModInstalled tells of the mod asked for, not of those it brought along, and
\* does not touch a list that is shown.
ModInstalled(s) ==
  LET l == task[s].list  i == task[s].item IN
  /\ Is(s, "install", "done") /\ l \in ModLists /\ Over(s)
  /\ running' = running \ {l}
  /\ installed' = [installed EXCEPT ![l] = @ \cup {i}]
  /\ marked' = IF Browsing(l) /\ hits THEN marked \cup {i} ELSE marked
  /\ Told(l, ~Listing(l) /\ installed'[l] = Ids(ledger[l]) /\ (Browsing(l) /\ hits => marked' = installed'[l]))
  /\ UNCHANGED <<ledger, at, of, rows, hits, loading, pick, back>>

\* Plausible bug: the packs are not read again.
PackInstalledOnly(s) ==
  /\ Is(s, "install", "done") \/ Is(s, "drop", "done")
  /\ task[s].list \notin ModLists /\ Over(s)
  /\ UNCHANGED <<ledger, ui, view>>

PackInstalled(s) ==
  /\ Is(s, "install", "done") \/ Is(s, "drop", "done")
  /\ task[s].list \notin ModLists
  /\ task' = [task EXCEPT ![s] = Fetch(task[s].list)]
  /\ UNCHANGED <<ledger, ui, view>>

\* ModInstallFailed, PackInstallFailed take the place of whatever is shown; where
\* they return to depends on that, the list on the install.
InstallFailed(s) ==
  LET l == task[s].list IN
  /\ Is(s, "install", "failed") /\ Over(s)
  /\ running' = IF l \in ModLists THEN running \ {l} ELSE running
  /\ at' = "failed" /\ of' = l /\ rows' = Nothing /\ marked' = {} /\ hits' = FALSE
  /\ loading' = FALSE /\ pick' = None
  /\ back' = IF at = "browser" /\ (of \in ModLists <=> l \in ModLists) THEN "browser" ELSE "list"
  /\ Told(l, installed[l] = Ids(ledger[l]))
  /\ UNCHANGED <<ledger, installed>>

\* PackDropFailed is a line of status at most.
PackDropFailed(s) == Is(s, "drop", "failed") /\ Over(s) /\ UNCHANGED <<ledger, ui, view>>

Keys ==
  \/ \E l \in Lists : OpenInstalledMods(l) \/ OpenBrowser(l)
  \/ Close \/ InstalledPacksCycleKind \/ TypeSearch
  \/ \E i \in Items : Toggle(i) \/ OpenUninstallConfirm(i) \/ Install(i) \/ PackDropPathSubmit(i)
  \/ ConfirmUninstall \/ CancelUninstall \/ PackDropPathOpen \/ PackDropPathCancel
  \/ DismissInstallFailed

Work(s) ==
  \/ Read(s) \/ ReadFails(s) \/ Check(s) \/ Turn(s) \/ Remove(s) \/ ChangeFails(s)
  \/ AddRow(s) \/ InstallFails(s)

Answer(s) ==
  \/ Loaded(s) \/ SearchLoaded(s) \/ SearchFailed(s) \/ Toggled(s) \/ Uninstalled(s)
  \/ ModInstallStarted(s) \/ ModInstalled(s) \/ PackInstalled(s)
  \/ InstallFailed(s) \/ PackDropFailed(s)

Next == Keys \/ \E s \in Slots : Work(s) \/ Answer(s)

Spec == Init /\ [][Next]_vars

-----------------------------------------------------------------------------
(* Properties. *)

\* The types of the variables; a view is about a list unless no list is shown, and a
\* confirmation names what it removes.
TypeOK ==
  /\ ledger \in [Lists -> [Items -> Row]] /\ task \in [Slots -> Task \cup {None}]
  /\ running \subseteq ModLists /\ installed \in [Lists -> SUBSET Items]
  /\ at \in {"away", "list", "confirm", "browser", "drop", "failed"}
  /\ IF at = "away" THEN of = None ELSE of \in Lists
  /\ rows \in [Items -> Row] /\ marked \subseteq Items
  /\ hits \in BOOLEAN /\ loading \in BOOLEAN
  /\ pick \in Items \cup {None} /\ (at = "confirm" => pick # None) /\ back \in {"list", "browser"}
  /\ behind \subseteq Lists

\* The list shown agrees with the ledger when no task of the list is under way,
\* unless the last answer about it was out of date or untrue when it came
\* (InstalledModsLoaded, ModToggled and ModUninstalled patch what is shown, and an
\* answer for another list, or from before a view was left, must not touch it).
ListIsCurrent ==
  at = "list" /\ Quiet(of) /\ of \notin behind => rows = ledger[of]

\* The set of installed ids that stamps search results, and the marks of the results
\* shown, agree with the ledger under the same conditions, although marks come from
\* three places: the ledger as the search read it, the set, and each answer.
MarksAreCurrent ==
  \A l \in Lists \ behind : Quiet(l) =>
    /\ installed[l] = Ids(ledger[l])
    /\ Browsing(l) /\ hits => marked = installed[l]

\* Enabling or disabling a mod gives it the state asked for, even when the list the
\* key was pressed on is out of date: enable_mod and disable_mod look before they
\* turn it.  Only another change of the mod at the same time can come between.
WantKept ==
  [][\A s \in Slots :
       Turn(s) /\ task[s].list \in ModLists /\ ~task[s].crossed =>
         ledger'[task[s].list][task[s].item] = task[s].want]_vars

=============================================================================
