------------------------------ MODULE ModBrowsing ------------------------------
(***************************************************************************)
(* Looking for a mod and installing it: the browsers, pickers and modals   *)
(* of Modrinth and CurseForge (tui/app.rs, their key maps, and the effects *)
(* of tui/run.rs that ask the services).                                   *)
(*                                                                         *)
(* Every question to a service is a detached tokio task that sends one     *)
(* action back; nothing orders the answers, and nothing but the instance   *)
(* (at most) ties an answer to the view it finds.  An install is a job     *)
(* that sends its start and its end; both are taken here at the moment the *)
(* interface handles them.  running_mod_jobs is the lock of an instance.   *)
(* FetchInstalledMods and the icons, which change no view of this module,  *)
(* are left out, and so is fetch_state.                                    *)
(***************************************************************************)
EXTENDS Naturals, Sequences, FiniteSets, Bags

CONSTANTS Slugs,     \* instances
          Projects,  \* mods
          Queries,   \* a search text together with the filters
          Empty,     \* the query of a browser just opened
          Hits,      \* what a service finds for a query
          Slots,     \* bound: install jobs at a time
          MaxAsked,  \* bound: questions on their way
          MaxLoad,   \* bound: questions on their way and installs, together
          None

ASSUME BrowsingAssumption ==
  /\ Empty \in Queries
  /\ Hits \in [Queries -> Seq(Projects)]
  /\ MaxAsked \in Nat /\ MaxLoad \in Nat
  /\ None \notin Slugs /\ None \notin Queries /\ None \notin Projects

\* key is a query, or the mod asked about; of is the mod whose version was picked.
Requests ==
  [kind : {"search", "cf_search"}, slug : Slugs, key : Queries, of : {None}]
    \cup [kind : {"versions", "cf_detail", "cf_files"}, slug : Slugs,
          key : Projects, of : {None}]
    \cup [kind : {"deps"}, slug : Slugs, key : Projects, of : Projects]

Request(kind, s, key, of) == [kind |-> kind, slug |-> s, key |-> key, of |-> of]

VARIABLES
  view,        \* active_view
  asked,       \* the questions on their way, a bag
  job,         \* the install jobs
  locked,      \* running_mod_jobs
  mixed,       \* (of the model) instances with the versions of two mods asked for at once
  overlapped   \* (of the model) instances with a lock taken or given back for another
               \* install, until no install is in flight

vars == <<view, asked, job, locked, mixed, overlapped>>

Idle == [st |-> "idle", slug |-> None, from |-> "modrinth"]
Busy(s) == \E j \in Slots : job[j].slug = s
Installing(s) == \E j \in Slots : job[j].slug = s /\ job[j].st = "installing"

\* A view: where it is, its instance, the query or mod it is about, the question
\* whose answer it shows, the highlighted row, and a flag (is_searching of a browser,
\* has_conflict of the confirmation, a return to the browser of the failure modal).
View(at, s, key) ==
  [at |-> at, slug |-> s, key |-> key, rows |-> None, sel |-> 0, flag |-> FALSE]

Home == View("InstanceList", None, None)
Places == {"InstanceList", "ModBrowser", "ModVersionPickerModal", "DepConfirmModal",
           "ModInstallFailedModal", "InstalledModsList", "CfBrowser",
           "CfFilePickerModal", "CfInstallFailedModal"}
Browsers == {"ModBrowser", "CfBrowser"}
Found(v) == IF v.at \in Browsers /\ v.rows # None THEN Hits[v.rows.key] ELSE <<>>

Init ==
  /\ view = Home
  /\ asked = EmptyBag
  /\ job = [j \in Slots |-> Idle]
  /\ locked = {} /\ mixed = {} /\ overlapped = {}

-----------------------------------------------------------------------------
(* Questions, answers and the view they find. *)

HasRoom == BagCardinality(asked) + Cardinality({j \in Slots : job[j] # Idle}) < MaxLoad

Ask(r) ==
  /\ BagCardinality(asked) < MaxAsked /\ HasRoom
  /\ asked' = asked (+) SetToBag({r})

Answered(r) == asked' = asked (-) SetToBag({r})

Quiet == UNCHANGED <<job, locked, mixed, overlapped>>

\* A browser opens on the empty query and asks for it.
Browse(s) ==
  /\ view' = View("ModBrowser", s, Empty)
  /\ Ask(Request("search", s, Empty, None))

\* An edit of the query, or of a filter, keeps the rows and searches again.
Search(at, kind, q, searching) ==
  /\ view.at = at
  /\ view' = [view EXCEPT !.key = q, !.flag = searching]
  /\ Ask(Request(kind, view.slug, q, None))
  /\ Quiet

\* The rows of an answer; the highlight moves to the last row when it is beyond it.
ShowRows(r) ==
  LET n == Len(Hits[r.key])
  IN  view' = [view EXCEPT !.rows = r,
                           !.sel = IF n = 0 THEN 0 ELSE IF @ < n THEN @ ELSE n - 1]

\* The arrows move the highlight within the rows.
MoveIn(at) ==
  /\ view.at = at
  /\ \E i \in {view.sel - 1, view.sel + 1} \cap (0..(Len(Found(view)) - 1)) :
       view' = [view EXCEPT !.sel = i]
  /\ Quiet /\ UNCHANGED asked

Goto(v) == view' = v /\ Quiet /\ UNCHANGED asked

-----------------------------------------------------------------------------
(* Modrinth: the browser. *)

\* The mod key opens the browser unless an install is known to run.
OpenModBrowser(s) ==
  view.at = "InstanceList" /\ s \notin locked /\ Browse(s) /\ Quiet

ModBrowserBeginSearch ==
  view.at = "ModBrowser" /\ ~view.flag /\ Goto([view EXCEPT !.flag = TRUE])

ModBrowserTypeSearch ==
  view.flag /\ \E q \in Queries \ {view.key} : Search("ModBrowser", "search", q, TRUE)

ModBrowserBackspaceSearch ==
  view.flag /\ \E q \in Queries : Search("ModBrowser", "search", q, TRUE)

ModBrowserPasteSearch ==
  \E q \in Queries \ {view.key} : Search("ModBrowser", "search", q, TRUE)

ToggleModMcFilter ==
  ~view.flag /\ \E q \in Queries \ {view.key} : Search("ModBrowser", "search", q, FALSE)

ToggleModLoaderFilter ==
  ~view.flag /\ \E q \in Queries \ {view.key} : Search("ModBrowser", "search", q, FALSE)

\* Escape in search mode empties the query, and searches again if it was not empty.
ModBrowserExitSearch ==
  /\ view.at = "ModBrowser" /\ view.flag
  /\ IF view.key = Empty THEN Goto([view EXCEPT !.flag = FALSE])
                         ELSE Search("ModBrowser", "search", Empty, FALSE)

ModBrowserCancel == view.at = "ModBrowser" /\ ~view.flag /\ Goto(Home)

ModBrowserMove == MoveIn("ModBrowser")

\* The last answer is shown, whatever the query has become.
ModBrowserSearchLoaded(r) ==
  /\ r.kind = "search"
  /\ Answered(r)
  /\ IF view.at = "ModBrowser" /\ view.slug = r.slug THEN ShowRows(r) ELSE UNCHANGED view
  /\ Quiet

ModBrowserSearchFailed(r) ==
  r.kind = "search" /\ Answered(r) /\ Quiet /\ UNCHANGED view

-----------------------------------------------------------------------------
(* Modrinth: the version picker and the confirmation. *)

\* Both ways to the picker empty it and ask for the versions.
PickVersion(s, p) ==
  /\ view' = View("ModVersionPickerModal", s, p)
  /\ Ask(Request("versions", s, p, None))
  /\ mixed' = IF \E r \in BagToSet(asked) : r.kind = "versions" /\ r.slug = s /\ r.key # p
                THEN mixed \cup {s} ELSE mixed
  /\ UNCHANGED <<job, locked, overlapped>>

ModBrowserOpenVersions ==
  /\ view.at = "ModBrowser"
  /\ view.sel < Len(Found(view))
  /\ PickVersion(view.slug, Found(view)[view.sel + 1])

\* The versions fill any picker of the instance; a failure sends an empty list.
ModVersionsLoaded(r) ==
  /\ r.kind = "versions"
  /\ Answered(r)
  /\ IF view.at = "ModVersionPickerModal" /\ view.slug = r.slug
       THEN \E rows \in {r, None} : view' = [view EXCEPT !.rows = rows]
       ELSE UNCHANGED view
  /\ Quiet

\* The picker stays until the dependencies are resolved.
ModVersionPickerSelect ==
  /\ view.at = "ModVersionPickerModal" /\ view.rows # None
  /\ Ask(Request("deps", view.slug, view.key, view.rows.key))
  /\ Quiet /\ UNCHANGED view

ModVersionPickerCancel ==
  view.at = "ModVersionPickerModal" /\ Browse(view.slug) /\ Quiet

\* Plausible bug: the confirmation takes its mod from the view it replaces.
ModDepsResolvedFromView(r) ==
  /\ r.kind = "deps"
  /\ Answered(r)
  /\ \E conflict \in BOOLEAN :
       view' = [View("DepConfirmModal", r.slug,
                     IF view.at = "ModVersionPickerModal" THEN view.key ELSE r.key)
                  EXCEPT !.rows = r, !.flag = conflict]
  /\ Quiet

\* The confirmation takes the place of whatever is shown.
ModDepsResolved(r) ==
  /\ r.kind = "deps"
  /\ Answered(r)
  /\ \E conflict \in BOOLEAN :
       view' = [View("DepConfirmModal", r.slug, r.key)
                  EXCEPT !.rows = r, !.flag = conflict]
  /\ Quiet

FailedModal(s) ==
  view' = [View("ModInstallFailedModal", s, None) EXCEPT !.flag = view.at = "ModBrowser"]

\* Dependencies that cannot be resolved are reported as a failed install, which
\* gives back the lock of the instance.
ModDepsFailed(r) ==
  /\ r.kind = "deps"
  /\ Answered(r)
  /\ FailedModal(r.slug)
  /\ locked' = locked \ {r.slug}
  /\ overlapped' = IF Busy(r.slug) THEN overlapped \cup {r.slug} ELSE overlapped
  /\ UNCHANGED <<job, mixed>>

\* A confirmed install is spawned; the modal stays until the job says it started.
Spawn(s, from) ==
  /\ HasRoom
  /\ \E j \in Slots : /\ job[j] = Idle
                      /\ job' = [job EXCEPT ![j] = [st |-> "spawned", slug |-> s,
                                                    from |-> from]]
  /\ overlapped' = IF Busy(s) THEN overlapped \cup {s} ELSE overlapped
  /\ UNCHANGED <<view, asked, locked, mixed>>

ConfirmModInstall ==
  view.at = "DepConfirmModal" /\ ~view.flag /\ Spawn(view.slug, "modrinth")

CancelModInstall ==
  view.at = "DepConfirmModal" /\ PickVersion(view.slug, view.key)

-----------------------------------------------------------------------------
(* Modrinth: the job. *)

Announce(j, from) ==
  /\ job[j].st = "spawned" /\ job[j].from = from
  /\ job' = [job EXCEPT ![j].st = "installing"]
  /\ locked' = locked \cup {job[j].slug}
  /\ UNCHANGED <<mixed, overlapped>>

\* The job ends and its message gives back the lock of the instance.
Finish(j, from) ==
  /\ job[j].st = "installing" /\ job[j].from = from
  /\ job' = [job EXCEPT ![j] = Idle]
  /\ locked' = locked \ {job[j].slug}
  /\ overlapped' = IF \E k \in Slots \ {j} : job[k].slug = job[j].slug
                     THEN overlapped ELSE overlapped \ {job[j].slug}
  /\ UNCHANGED <<asked, mixed>>

ModInstallStarted(j) == Announce(j, "modrinth") /\ Browse(job[j].slug)

ModInstalled(j) == Finish(j, "modrinth") /\ UNCHANGED view

ModInstallFailed(j) == Finish(j, "modrinth") /\ FailedModal(job[j].slug)

\* The failure modal goes back to the browser it covered, or to the installed mods.
DismissModInstallFailed ==
  /\ view.at = "ModInstallFailedModal"
  /\ IF view.flag THEN Browse(view.slug)
                  ELSE view' = View("InstalledModsList", view.slug, None) /\ UNCHANGED asked
  /\ Quiet

OpenInstalledMods(s) ==
  view.at = "InstanceList" /\ Goto(View("InstalledModsList", s, None))

-----------------------------------------------------------------------------
(* CurseForge. *)

\* The CurseForge key (an API key is configured).
OpenCfBrowser(s) ==
  /\ view.at = "InstanceList" /\ s \notin locked
  /\ view' = View("CfBrowser", s, Empty)
  /\ Ask(Request("cf_search", s, Empty, None))
  /\ Quiet

CfBrowserTypeSearch ==
  \E q \in Queries \ {view.key} : Search("CfBrowser", "cf_search", q, FALSE)

CfBrowserPasteSearch ==
  \E q \in Queries \ {view.key} : Search("CfBrowser", "cf_search", q, FALSE)

CfBrowserBackspaceSearch ==
  \E q \in Queries : Search("CfBrowser", "cf_search", q, FALSE)

CfBrowserToggleMcFilter ==
  \E q \in Queries \ {view.key} : Search("CfBrowser", "cf_search", q, FALSE)

\* An instance without a loader has no filter to toggle.
CfBrowserToggleLoaderFilter ==
  \E q \in Queries : Search("CfBrowser", "cf_search", q, FALSE)

CfBrowserMoveSelection == MoveIn("CfBrowser")

CfBrowserSearchLoaded(r) ==
  /\ r.kind = "cf_search"
  /\ Answered(r)
  /\ IF view.at = "CfBrowser" /\ view.slug = r.slug THEN ShowRows(r) ELSE UNCHANGED view
  /\ Quiet

\* A failure at any of the three questions is shown by the browser only.
CfBrowserSearchFailed(r) ==
  r.kind \in {"cf_search", "cf_detail", "cf_files"} /\ Answered(r) /\ Quiet /\ UNCHANGED view

CfBrowserOpenDetail ==
  /\ view.at = "CfBrowser"
  /\ view.sel < Len(Found(view))
  /\ Ask(Request("cf_detail", view.slug, Found(view)[view.sel + 1], None))
  /\ Quiet /\ UNCHANGED view

\* The detail asks for the files, whatever is shown by then.
CfBrowserDetailLoaded(r) ==
  /\ r.kind = "cf_detail"
  /\ asked' = (asked (-) SetToBag({r}))
                (+) SetToBag({Request("cf_files", r.slug, r.key, None)})
  /\ Quiet /\ UNCHANGED view

\* The files open the picker, whatever is shown by then.
CfFilePickerLoaded(r) ==
  /\ r.kind = "cf_files"
  /\ Answered(r)
  /\ view' = [View("CfFilePickerModal", r.slug, r.key) EXCEPT !.rows = r]
  /\ Quiet

CfFilePickerConfirm ==
  /\ view.at = "CfFilePickerModal"
  /\ view.slug \notin locked
  /\ Spawn(view.slug, "curseforge")

CfModInstallStarted(j) == Announce(j, "curseforge") /\ UNCHANGED <<view, asked>>

\* Plausible bug: away from the picker the end of the install is ignored.
CfModInstalledInPicker(j) ==
  /\ job[j].st = "installing" /\ job[j].from = "curseforge"
  /\ IF view.at = "CfFilePickerModal" /\ view.slug = job[j].slug
       THEN Finish(j, "curseforge") /\ view' = Home
       ELSE /\ job' = [job EXCEPT ![j] = Idle]
            /\ UNCHANGED <<view, asked, locked, mixed, overlapped>>

\* Leaves the file picker if it is still the one of the instance.
CfModInstalled(j) ==
  /\ Finish(j, "curseforge")
  /\ view' = IF view.at = "CfFilePickerModal" /\ view.slug = job[j].slug THEN Home ELSE view

CfModInstallFailed(j) ==
  Finish(j, "curseforge") /\ view' = View("CfInstallFailedModal", job[j].slug, None)

CfDismissInstallFailed == view.at = "CfInstallFailedModal" /\ Goto(Home)

\* Escape in the views that have no arm of their own for it.
CloseModal ==
  view.at \in {"CfBrowser", "CfFilePickerModal", "InstalledModsList"} /\ Goto(Home)

-----------------------------------------------------------------------------
Keys ==
  \/ \E s \in Slugs : OpenModBrowser(s) \/ OpenCfBrowser(s) \/ OpenInstalledMods(s)
  \/ ModBrowserBeginSearch \/ ModBrowserTypeSearch \/ ModBrowserBackspaceSearch
  \/ ModBrowserPasteSearch \/ ModBrowserExitSearch \/ ModBrowserCancel \/ ModBrowserMove
  \/ ToggleModMcFilter \/ ToggleModLoaderFilter \/ ModBrowserOpenVersions
  \/ ModVersionPickerSelect \/ ModVersionPickerCancel
  \/ ConfirmModInstall \/ CancelModInstall \/ DismissModInstallFailed
  \/ CfBrowserTypeSearch \/ CfBrowserPasteSearch \/ CfBrowserBackspaceSearch
  \/ CfBrowserToggleMcFilter \/ CfBrowserToggleLoaderFilter \/ CfBrowserMoveSelection
  \/ CfBrowserOpenDetail \/ CfFilePickerConfirm \/ CfDismissInstallFailed \/ CloseModal

Answer(r) ==
  \/ ModBrowserSearchLoaded(r) \/ ModBrowserSearchFailed(r)
  \/ ModVersionsLoaded(r) \/ ModDepsResolved(r) \/ ModDepsFailed(r)
  \/ CfBrowserSearchLoaded(r) \/ CfBrowserSearchFailed(r)
  \/ CfBrowserDetailLoaded(r) \/ CfFilePickerLoaded(r)

Start(j) == ModInstallStarted(j) \/ CfModInstallStarted(j)

End(j) ==
  \/ ModInstalled(j) \/ ModInstallFailed(j)
  \/ CfModInstalled(j) \/ CfModInstallFailed(j)

Next ==
  \/ Keys
  \/ \E r \in BagToSet(asked) : Answer(r)
  \/ \E j \in Slots : Start(j) \/ End(j)

Spec == Init /\ [][Next]_vars

-----------------------------------------------------------------------------
(* Properties. *)

\* Types; in a browser with rows the highlighted row is one of them.
TypeOK ==
  /\ view \in [at : Places, slug : Slugs \cup {None}, rows : Requests \cup {None},
               key : Queries \cup Projects \cup {None}, sel : Nat, flag : BOOLEAN]
  /\ Found(view) # <<>> => view.sel < Len(Found(view))
  /\ IsABag(asked) /\ BagToSet(asked) \subseteq Requests
  /\ job \in [Slots -> [st : {"idle", "spawned", "installing"},
                        slug : Slugs \cup {None}, from : {"modrinth", "curseforge"}]]
  /\ locked \subseteq Slugs /\ mixed \subseteq Slugs /\ overlapped \subseteq Slugs

\* The versions a picker offers, and the version a confirmation installs, are those
\* of the mod it names - as long as the versions of two mods of the instance have
\* never been asked for at once (an answer carries the instance, not the mod).
VersionOfTheMod ==
  view.rows # None /\ view.slug \notin mixed =>
    /\ view.at = "ModVersionPickerModal" => view.rows.key = view.key
    /\ view.at = "DepConfirmModal" => view.rows.of = view.key

\* A lock has an install behind it - however an install ends, the mod keys are not
\* dead for the rest of the session - and an install that has started holds the
\* lock of its instance unless another one of that instance has interfered.
LockTracksInstalls ==
  \A s \in Slugs : /\ s \in locked => Installing(s)
                   /\ Installing(s) /\ s \notin overlapped => s \in locked
===============================================================================
