--------------------------- MODULE BrowsingProofs ----------------------------
(***************************************************************************)
(* Proofs for every value of the constants.  About ModBrowsing: the types, *)
(* that the lock of an instance has an install behind it, and that the     *)
(* versions offered and installed are those of the mod that is named.      *)
(* About ModpackImport: the types, that the one place for a token has the  *)
(* token of an import that is alone, and that an import leaves a whole     *)
(* instance or none.                                                       *)
(***************************************************************************)
EXTENDS ModBrowsing, ModpackImport, TLAPS

-----------------------------------------------------------------------------
(* ModBrowsing. *)

\* Each view has what its keys need of it.
Placed ==
  /\ view.at # "InstanceList" => view.slug \in Slugs
  /\ view.at \in {"ModVersionPickerModal", "DepConfirmModal"} => view.key \in Projects
  /\ view.at \in Browsers /\ view.rows # None => view.rows.key \in Queries
  /\ view.at = "ModVersionPickerModal" /\ view.rows # None => view.rows.key \in Projects

\* A slot that is not idle has the instance of its install.
Worked == \A j \in Slots : /\ job[j].st = "idle" => job[j].slug = None
                           /\ job[j].st # "idle" => job[j].slug \in Slugs

BrowsingTyped == TypeOK /\ Placed /\ Worked

\* Two installs of one instance have interfered.
OneEach ==
  \A j, k \in Slots : j # k /\ job[j].slug = job[k].slug /\ job[j].slug # None
    => job[j].slug \in overlapped

LockInv == OneEach /\ LockTracksInstalls

\* While a picker is open, the versions asked for its instance are those of its mod;
\* the version whose dependencies are asked for is one of the mod.
PickerAsks ==
  view.at = "ModVersionPickerModal" /\ view.slug \notin mixed =>
    \A r \in BagToSet(asked) : r.kind = "versions" /\ r.slug = view.slug => r.key = view.key
DepsAsked ==
  \A r \in BagToSet(asked) : r.kind = "deps" /\ r.slug \notin mixed => r.of = r.key

VersionInv == PickerAsks /\ DepsAsked /\ VersionOfTheMod

-----------------------------------------------------------------------------
(* Bags of questions. *)

LEMMA BagWithOneMore ==
  ASSUME NEW B, IsABag(B), NEW r
  PROVE  /\ IsABag(B (+) SetToBag({r}))
         /\ BagToSet(B (+) SetToBag({r})) = BagToSet(B) \cup {r}
BY DEF IsABag, BagToSet, SetToBag, (+)

LEMMA BagWithOneLess ==
  ASSUME NEW B, IsABag(B), NEW r
  PROVE  /\ IsABag(B (-) SetToBag({r}))
         /\ BagToSet(B (-) SetToBag({r})) \subseteq BagToSet(B)
BY DEF IsABag, BagToSet, SetToBag, (-)

-----------------------------------------------------------------------------
(* Questions and views. *)

LEMMA RequestFields ==
  /\ \A r \in Requests : /\ r.slug \in Slugs
                         /\ r.kind \in {"search", "cf_search"} => r.key \in Queries
                         /\ r.kind \notin {"search", "cf_search"} => r.key \in Projects
  /\ \A s \in Slugs, q \in Queries :
       Request("search", s, q, None) \in Requests /\ Request("cf_search", s, q, None) \in Requests
  /\ \A s \in Slugs, p \in Projects, v \in Projects :
       /\ Request("versions", s, p, None) \in Requests
       /\ Request("cf_detail", s, p, None) \in Requests
       /\ Request("cf_files", s, p, None) \in Requests
       /\ Request("deps", s, p, v) \in Requests
BY DEF Requests, Request

ViewType == [at : Places, slug : Slugs \cup {None}, rows : Requests \cup {None},
             key : Queries \cup Projects \cup {None}, sel : Nat, flag : BOOLEAN]
SelOK == Found(view) # <<>> => view.sel < Len(Found(view))
ViewOK == view \in ViewType /\ SelOK /\ Placed

\* A view has just been opened, with what it shows and its flag.
Opened(at, s, key, rows, flag) ==
  \/ view' = View(at, s, key) /\ rows = None /\ flag = FALSE
  \/ view' = [View(at, s, key) EXCEPT !.flag = flag] /\ rows = None
  \/ view' = [View(at, s, key) EXCEPT !.rows = rows] /\ flag = FALSE
  \/ view' = [View(at, s, key) EXCEPT !.rows = rows, !.flag = flag]

LEMMA OpenedOK ==
  ASSUME NEW at \in Places, NEW s \in Slugs \cup {None},
         NEW key \in Queries \cup Projects \cup {None}, NEW rows \in Requests \cup {None},
         NEW flag \in BOOLEAN, Opened(at, s, key, rows, flag),
         at # "InstanceList" => s \in Slugs,
         at \in {"ModVersionPickerModal", "DepConfirmModal"} => key \in Projects,
         at \in Browsers \cup {"ModVersionPickerModal"} => rows = None
  PROVE  /\ view'.at = at /\ view'.slug = s /\ view'.key = key /\ view'.rows = rows
         /\ ViewOK'
<1>1. View(at, s, key) \in ViewType
  BY DEF View, ViewType
<1>2. /\ view'.at = at /\ view'.slug = s /\ view'.key = key /\ view'.rows = rows
      /\ view' \in ViewType
  <2>1. CASE view' = View(at, s, key) /\ rows = None /\ flag = FALSE
    BY <1>1, <2>1 DEF View
  <2>2. CASE view' = [View(at, s, key) EXCEPT !.flag = flag] /\ rows = None
    BY <1>1, <2>2 DEF View, ViewType
  <2>3. CASE view' = [View(at, s, key) EXCEPT !.rows = rows] /\ flag = FALSE
    BY <1>1, <2>3 DEF View, ViewType
  <2>4. CASE view' = [View(at, s, key) EXCEPT !.rows = rows, !.flag = flag]
    BY <1>1, <2>4 DEF View, ViewType
  <2> QED BY <2>1, <2>2, <2>3, <2>4 DEF Opened
<1>3. Found(view') = <<>>
  BY <1>2 DEF Found
<1> QED BY <1>2, <1>3 DEF ViewOK, SelOK, Placed, Browsers

LEMMA HomeOK ==
  ASSUME view' = Home
  PROVE  ViewOK' /\ view'.at = "InstanceList"
<1>1. Opened("InstanceList", None, None, None, FALSE)
  BY DEF Home, Opened
<1> QED BY <1>1, OpenedOK DEF Places, Browsers

LEMMA SameViewOK == ASSUME ViewOK, view' = view PROVE ViewOK'
BY DEF ViewOK, SelOK, Placed

\* The rows a browser has found are mods.
LEMMA FoundAreProjects ==
  ASSUME ViewOK
  PROVE  /\ Found(view) \in Seq(Projects)
         /\ \A i \in Nat : i < Len(Found(view)) => Found(view)[i + 1] \in Projects
<1>1. Found(view) \in Seq(Projects)
  BY BrowsingAssumption DEF ViewOK, Placed, Found
<1> QED BY <1>1

\* What the keys and the answers change of a view that stays.
LEMMA EditOK ==
  ASSUME ViewOK, view.at \in Browsers, NEW b \in BOOLEAN,
         \/ \E q \in Queries : view' = [view EXCEPT !.key = q, !.flag = b]
         \/ view' = [view EXCEPT !.flag = b]
  PROVE  ViewOK'
<1>1. /\ view' \in ViewType
      /\ view'.at = view.at /\ view'.slug = view.slug /\ view'.rows = view.rows
      /\ view'.sel = view.sel
  BY DEF ViewOK, ViewType
<1>2. Found(view') = Found(view)
  BY <1>1 DEF Found
<1> QED BY <1>1, <1>2 DEF ViewOK, SelOK, Placed, Browsers

LEMMA MoveOK ==
  ASSUME ViewOK, NEW i \in 0..(Len(Found(view)) - 1), view' = [view EXCEPT !.sel = i]
  PROVE  ViewOK'
<1>1. /\ i \in Nat /\ i < Len(Found(view))
  BY FoundAreProjects
<1>2. /\ view' \in ViewType
      /\ view'.at = view.at /\ view'.slug = view.slug /\ view'.rows = view.rows
      /\ view'.key = view.key /\ view'.sel = i
  BY <1>1 DEF ViewOK, ViewType
<1>3. Found(view') = Found(view)
  BY <1>2 DEF Found
<1> QED BY <1>1, <1>2, <1>3 DEF ViewOK, SelOK, Placed

LEMMA ShowRowsOK ==
  ASSUME ViewOK, view.at \in Browsers, NEW r \in Requests, r.kind \in {"search", "cf_search"},
         ShowRows(r)
  PROVE  ViewOK'
<1> DEFINE n == Len(Hits[r.key])
           at(i) == IF n = 0 THEN 0 ELSE IF i < n THEN i ELSE n - 1
<1>1. r.key \in Queries /\ Hits[r.key] \in Seq(Projects) /\ n \in Nat
  BY RequestFields, BrowsingAssumption
<1>2. view.sel \in Nat
  BY DEF ViewOK, ViewType
<1>3. at(view.sel) \in Nat /\ (n # 0 => at(view.sel) < n)
  BY <1>1, <1>2
<1>4. view' = [view EXCEPT !.rows = r, !.sel = at(view.sel)]
  BY DEF ShowRows
<1> HIDE DEF at, n
<1>5. /\ view' \in ViewType /\ view'.at = view.at /\ view'.slug = view.slug
      /\ view'.key = view.key /\ view'.rows = r /\ view'.sel = at(view.sel)
  BY <1>3, <1>4 DEF ViewOK, ViewType
<1>6. Found(view') = Hits[r.key] \/ Found(view') = <<>>
  BY <1>5 DEF Found
<1>7. SelOK'
  BY <1>1, <1>3, <1>5, <1>6 DEF SelOK, n
<1> QED BY <1>1, <1>5, <1>7 DEF ViewOK, Placed, Browsers

LEMMA PickerRowsOK ==
  ASSUME ViewOK, view.at = "ModVersionPickerModal", NEW r \in Requests, r.kind = "versions",
         NEW rows \in {r, None}, view' = [view EXCEPT !.rows = rows]
  PROVE  ViewOK'
<1>1. /\ view' \in ViewType /\ view'.at = view.at /\ view'.slug = view.slug
      /\ view'.key = view.key /\ view'.rows = rows
  BY DEF ViewOK, ViewType
<1>2. Found(view') = <<>>
  BY <1>1 DEF Found, Browsers
<1>3. r.key \in Projects
  BY RequestFields
<1> QED BY <1>1, <1>2, <1>3 DEF ViewOK, SelOK, Placed, Browsers

-----------------------------------------------------------------------------
(* Types. *)

Searching ==
  \E at \in Browsers, kind \in {"search", "cf_search"}, q \in Queries, b \in BOOLEAN :
    Search(at, kind, q, b)

\* The keys, by what they do.
LEMMA KeysByKind ==
  ASSUME ViewOK, Keys
  PROVE  \/ Searching
         \/ \E s \in Slugs : OpenModBrowser(s) \/ OpenCfBrowser(s) \/ OpenInstalledMods(s)
         \/ view.at \in Browsers /\ \E b \in BOOLEAN : Goto([view EXCEPT !.flag = b])
         \/ Goto(Home)
         \/ MoveIn("ModBrowser") \/ MoveIn("CfBrowser")
         \/ ModBrowserOpenVersions \/ CancelModInstall \/ ModVersionPickerSelect
         \/ ModVersionPickerCancel \/ CfBrowserOpenDetail \/ DismissModInstallFailed
         \/ ConfirmModInstall \/ CfFilePickerConfirm
<1>1. CASE ModBrowserTypeSearch \/ ModBrowserBackspaceSearch \/ ModBrowserPasteSearch
           \/ ToggleModMcFilter \/ ToggleModLoaderFilter
           \/ CfBrowserTypeSearch \/ CfBrowserPasteSearch \/ CfBrowserBackspaceSearch
           \/ CfBrowserToggleMcFilter \/ CfBrowserToggleLoaderFilter
  <2>1. Searching
    BY <1>1 DEF Searching, Browsers, ModBrowserTypeSearch, ModBrowserBackspaceSearch,
      ModBrowserPasteSearch, ToggleModMcFilter, ToggleModLoaderFilter, CfBrowserTypeSearch,
      CfBrowserPasteSearch, CfBrowserBackspaceSearch, CfBrowserToggleMcFilter,
      CfBrowserToggleLoaderFilter
  <2> QED BY <2>1
<1>2. CASE ModBrowserExitSearch
  <2>1. Search("ModBrowser", "search", Empty, FALSE) => Searching
    BY BrowsingAssumption DEF Searching, Browsers
  <2> QED BY <1>2, <2>1 DEF ModBrowserExitSearch, Browsers
<1>3. CASE ModBrowserBeginSearch \/ ModBrowserCancel \/ ModBrowserMove \/ CfBrowserMoveSelection
           \/ CfDismissInstallFailed \/ CloseModal
  BY <1>3 DEF ModBrowserBeginSearch, ModBrowserCancel, ModBrowserMove, CfBrowserMoveSelection,
    CfDismissInstallFailed, CloseModal, Browsers
<1> QED BY <1>1, <1>2, <1>3 DEF Keys

\* Opening a browser, and leaving the failure modal of an install.
LEMMA BrowseOK == ASSUME NEW s \in Slugs, Browse(s) PROVE ViewOK' /\ view'.at = "ModBrowser"
<1>1. Opened("ModBrowser", s, Empty, None, FALSE)
  BY DEF Browse, Opened
<1> QED BY <1>1, OpenedOK, BrowsingAssumption DEF Places

LEMMA FailedModalOK ==
  ASSUME NEW s \in Slugs, FailedModal(s) PROVE ViewOK' /\ view'.at = "ModInstallFailedModal"
<1>1. PICK b \in BOOLEAN : Opened("ModInstallFailedModal", s, None, None, b)
  BY DEF FailedModal, Opened
<1> QED BY <1>1, OpenedOK DEF Places, Browsers

LEMMA PickVersionOK ==
  ASSUME NEW s \in Slugs, NEW p \in Projects, PickVersion(s, p)
  PROVE  /\ ViewOK' /\ view'.at = "ModVersionPickerModal" /\ view'.slug = s
         /\ view'.key = p /\ view'.rows = None
<1>1. Opened("ModVersionPickerModal", s, p, None, FALSE)
  BY DEF PickVersion, Opened
<1>2. "ModVersionPickerModal" \in Places /\ p \in Queries \cup Projects \cup {None}
  BY DEF Places
<1> QED BY <1>1, <1>2, OpenedOK DEF Browsers

\* Both ways to a version picker have an instance and a mod.
LEMMA PickersPick ==
  ASSUME ViewOK, ModBrowserOpenVersions \/ CancelModInstall
  PROVE  \E s \in Slugs, p \in Projects : PickVersion(s, p)
<1>1. CASE ModBrowserOpenVersions
  <2>1. view.slug \in Slugs
    BY <1>1 DEF ModBrowserOpenVersions, ViewOK, Placed
  <2>2. Found(view)[view.sel + 1] \in Projects
    BY <1>1, FoundAreProjects DEF ModBrowserOpenVersions, ViewOK, ViewType
  <2> QED BY <1>1, <2>1, <2>2 DEF ModBrowserOpenVersions
<1>2. CASE CancelModInstall
  BY <1>2 DEF CancelModInstall, ViewOK, Placed
<1> QED BY <1>1, <1>2

LEMMA KeysView == ASSUME ViewOK, Keys PROVE ViewOK'
<1>1. CASE Searching
  BY <1>1, EditOK DEF Searching, Search
<1>2. ASSUME NEW s \in Slugs, OpenModBrowser(s) \/ OpenCfBrowser(s) \/ OpenInstalledMods(s)
      PROVE  ViewOK'
  <2>1. CASE OpenModBrowser(s)
    BY <2>1, BrowseOK DEF OpenModBrowser
  <2>2. CASE OpenCfBrowser(s)
    <3>1. Opened("CfBrowser", s, Empty, None, FALSE)
      BY <2>2 DEF OpenCfBrowser, Opened
    <3> QED BY <3>1, OpenedOK, BrowsingAssumption DEF Places
  <2>3. CASE OpenInstalledMods(s)
    <3>1. Opened("InstalledModsList", s, None, None, FALSE)
      BY <2>3 DEF OpenInstalledMods, Goto, Opened
    <3> QED BY <3>1, OpenedOK DEF Places, Browsers
  <2> QED BY <1>2, <2>1, <2>2, <2>3
<1>3. CASE view.at \in Browsers /\ \E b \in BOOLEAN : Goto([view EXCEPT !.flag = b])
  BY <1>3, EditOK DEF Goto
<1>4. CASE Goto(Home)
  BY <1>4, HomeOK DEF Goto
<1>5. CASE MoveIn("ModBrowser") \/ MoveIn("CfBrowser")
  BY <1>5, MoveOK DEF MoveIn
<1>6. CASE ModBrowserOpenVersions \/ CancelModInstall
  BY <1>6, PickersPick, PickVersionOK
<1>7. CASE ModVersionPickerSelect \/ CfBrowserOpenDetail \/ ConfirmModInstall
           \/ CfFilePickerConfirm
  BY <1>7, SameViewOK DEF ModVersionPickerSelect, CfBrowserOpenDetail, ConfirmModInstall,
    CfFilePickerConfirm, Spawn
<1>8. CASE ModVersionPickerCancel \/ DismissModInstallFailed
  <2>1. view.slug \in Slugs
    BY <1>8 DEF ModVersionPickerCancel, DismissModInstallFailed, ViewOK, Placed
  <2>2. CASE Browse(view.slug)
    BY <2>1, <2>2, BrowseOK
  <2>3. CASE view' = View("InstalledModsList", view.slug, None)
    <3>1. Opened("InstalledModsList", view.slug, None, None, FALSE)
      BY <2>3 DEF Opened
    <3> QED BY <2>1, <3>1, OpenedOK DEF Places, Browsers
  <2> QED BY <1>8, <2>2, <2>3 DEF ModVersionPickerCancel, DismissModInstallFailed
<1> QED BY <1>1, <1>2, <1>3, <1>4, <1>5, <1>6, <1>7, <1>8, KeysByKind

LEMMA AnswerView == ASSUME ViewOK, NEW r \in Requests, Answer(r) PROVE ViewOK'
<1>1. CASE UNCHANGED view
  BY <1>1, SameViewOK
<1>2. CASE (ModBrowserSearchLoaded(r) \/ CfBrowserSearchLoaded(r)) /\ ~UNCHANGED view
  BY <1>2, ShowRowsOK DEF ModBrowserSearchLoaded, CfBrowserSearchLoaded, Browsers
<1>3. CASE ModVersionsLoaded(r) /\ ~UNCHANGED view
  BY <1>3, PickerRowsOK DEF ModVersionsLoaded
<1>4. CASE ModDepsResolved(r)
  <2>1. PICK c \in BOOLEAN : Opened("DepConfirmModal", r.slug, r.key, r, c)
    BY <1>4 DEF ModDepsResolved, Opened
  <2>2. r.slug \in Slugs /\ r.key \in Projects
    BY <1>4, RequestFields DEF ModDepsResolved
  <2> QED BY <2>1, <2>2, OpenedOK DEF Places, Browsers
<1>5. CASE ModDepsFailed(r)
  BY <1>5, FailedModalOK, RequestFields DEF ModDepsFailed
<1>6. CASE CfFilePickerLoaded(r)
  <2>1. Opened("CfFilePickerModal", r.slug, r.key, r, FALSE)
    BY <1>6 DEF CfFilePickerLoaded, Opened
  <2>2. r.slug \in Slugs /\ r.key \in Projects
    BY <1>6, RequestFields DEF CfFilePickerLoaded
  <2> QED BY <2>1, <2>2, OpenedOK DEF Places, Browsers
<1> QED BY <1>1, <1>2, <1>3, <1>4, <1>5, <1>6 DEF Answer, ModBrowserSearchFailed,
  CfBrowserSearchFailed, CfBrowserDetailLoaded

LEMMA InstallView == ASSUME ViewOK, Worked, NEW j \in Slots, Start(j) \/ End(j) PROVE ViewOK'
<1>1. job[j].slug \in Slugs
  BY DEF Worked, Start, End, ModInstallStarted, CfModInstallStarted, Announce, ModInstalled,
    ModInstallFailed, CfModInstalled, CfModInstallFailed, Finish
<1>2. CASE UNCHANGED view \/ view' = Home
  BY <1>2, SameViewOK, HomeOK
<1>3. CASE ModInstallStarted(j)
  BY <1>1, <1>3, BrowseOK DEF ModInstallStarted
<1>4. CASE ModInstallFailed(j)
  BY <1>1, <1>4, FailedModalOK DEF ModInstallFailed
<1>5. CASE CfModInstallFailed(j)
  <2>1. Opened("CfInstallFailedModal", job[j].slug, None, None, FALSE)
    BY <1>5 DEF CfModInstallFailed, Opened
  <2> QED BY <1>1, <2>1, OpenedOK DEF Places, Browsers
<1> QED BY <1>2, <1>3, <1>4, <1>5 DEF Start, End, CfModInstallStarted, ModInstalled, CfModInstalled

\* A question that was not on its way before: for the versions of the mod that has
\* just been picked, for the dependencies of the version picked, or for neither.
NewQuestion(r) ==
  \/ r.kind \notin {"versions", "deps"}
  \/ \E s \in Slugs, p \in Projects : PickVersion(s, p) /\ r = Request("versions", s, p, None)
  \/ ModVersionPickerSelect /\ r = Request("deps", view.slug, view.key, view.rows.key)

AskedOK == IsABag(asked) /\ BagToSet(asked) \subseteq Requests

LEMMA Asking ==
  ASSUME AskedOK, NEW q \in Requests, Ask(q)
  PROVE  AskedOK' /\ BagToSet(asked') = BagToSet(asked) \cup {q}
<1>1. asked' = asked (+) SetToBag({q})
  BY DEF Ask
<1>2. PICK b : b = asked
  OBVIOUS
<1>3. PICK c : c = asked'
  OBVIOUS
<1>4. IsABag(c) /\ BagToSet(c) = BagToSet(b) \cup {q}
  <2>1. IsABag(b) /\ c = b (+) SetToBag({q})
    BY <1>1, <1>2, <1>3 DEF AskedOK
  <2> QED BY <2>1, BagWithOneMore
<1>5. IsABag(asked') /\ BagToSet(asked') = BagToSet(asked) \cup {q}
  BY <1>2, <1>3, <1>4
<1> QED BY <1>5 DEF AskedOK

LEMMA BeingAnswered ==
  ASSUME AskedOK, NEW q, Answered(q)
  PROVE  AskedOK' /\ BagToSet(asked') \subseteq BagToSet(asked)
<1>1. asked' = asked (-) SetToBag({q})
  BY DEF Answered
<1>2. PICK b : b = asked
  OBVIOUS
<1>3. PICK c : c = asked'
  OBVIOUS
<1>4. IsABag(c) /\ BagToSet(c) \subseteq BagToSet(b)
  <2>1. IsABag(b) /\ c = b (-) SetToBag({q})
    BY <1>1, <1>2, <1>3 DEF AskedOK
  <2> QED BY <2>1, BagWithOneLess
<1>5. IsABag(asked') /\ BagToSet(asked') \subseteq BagToSet(asked)
  BY <1>2, <1>3, <1>4
<1> QED BY <1>5 DEF AskedOK

LEMMA NextAsked ==
  ASSUME AskedOK, ViewOK, Worked, Next
  PROVE  AskedOK' /\ \A r \in BagToSet(asked') : r \in BagToSet(asked) \/ NewQuestion(r)
<1> DEFINE Goal == AskedOK' /\ \A r \in BagToSet(asked') : r \in BagToSet(asked) \/ NewQuestion(r)
<1>1. CASE UNCHANGED asked
  BY <1>1 DEF AskedOK
<1>2. ASSUME NEW s \in Slugs, NEW key \in Queries, NEW kind \in {"search", "cf_search"},
             Ask(Request(kind, s, key, None))
      PROVE  Goal
  <2>1. Request(kind, s, key, None) \in Requests /\ Request(kind, s, key, None).kind = kind
    BY RequestFields DEF Request
  <2> QED BY <1>2, <2>1, Asking DEF NewQuestion
<1>3. ASSUME NEW s \in Slugs, Browse(s) PROVE Goal
  BY <1>2, <1>3, BrowsingAssumption DEF Browse
<1>4. ASSUME NEW s \in Slugs, NEW p \in Projects, PickVersion(s, p) PROVE Goal
  <2>1. Request("versions", s, p, None) \in Requests
    BY RequestFields
  <2> QED BY <1>4, <2>1, Asking DEF PickVersion, NewQuestion
<1>5. ASSUME Keys, ~UNCHANGED asked PROVE Goal
  <2>1. CASE Searching
    <3>1. view.slug \in Slugs
      BY <2>1 DEF Searching, Search, Browsers, ViewOK, Placed
    <3> QED BY <1>2, <2>1, <3>1 DEF Searching, Search
  <2>2. CASE \E s \in Slugs : OpenModBrowser(s) \/ OpenCfBrowser(s)
    BY <1>2, <1>3, <2>2, BrowsingAssumption DEF OpenModBrowser, OpenCfBrowser
  <2>3. CASE ModBrowserOpenVersions \/ CancelModInstall
    BY <1>4, <2>3, PickersPick
  <2>4. CASE ModVersionPickerSelect
    <3>1. Request("deps", view.slug, view.key, view.rows.key) \in Requests
      BY <2>4, RequestFields DEF ModVersionPickerSelect, ViewOK, Placed
    <3> QED BY <2>4, <3>1, Asking DEF ModVersionPickerSelect, NewQuestion
  <2>5. CASE CfBrowserOpenDetail
    <3> DEFINE q == Request("cf_detail", view.slug, Found(view)[view.sel + 1], None)
    <3>1. view.slug \in Slugs /\ Found(view)[view.sel + 1] \in Projects
      BY <2>5, FoundAreProjects DEF CfBrowserOpenDetail, ViewOK, ViewType, Placed
    <3>2. q \in Requests /\ q.kind = "cf_detail"
      BY <3>1, RequestFields DEF Request
    <3>3. Ask(q)
      BY <2>5 DEF CfBrowserOpenDetail
    <3> QED BY <3>2, <3>3, Asking DEF NewQuestion
  <2>6. CASE ModVersionPickerCancel \/ DismissModInstallFailed
    <3>1. view.slug \in Slugs
      BY <2>6 DEF ModVersionPickerCancel, DismissModInstallFailed, ViewOK, Placed
    <3> QED BY <1>3, <1>5, <2>6, <3>1 DEF ModVersionPickerCancel, DismissModInstallFailed
  <2> QED BY <1>5, <2>1, <2>2, <2>3, <2>4, <2>5, <2>6, KeysByKind
    DEF Goto, MoveIn, OpenInstalledMods, ConfirmModInstall, CfFilePickerConfirm, Spawn
<1>6. ASSUME NEW r \in BagToSet(asked), Answer(r) PROVE Goal
  <2>1. CASE Answered(r)
    BY <2>1, BeingAnswered
  <2>2. CASE CfBrowserDetailLoaded(r)
    <3> DEFINE q == Request("cf_files", r.slug, r.key, None)
               left == asked (-) SetToBag({r})
    <3>1. q \in Requests /\ q.kind = "cf_files"
      BY <2>2, RequestFields DEF CfBrowserDetailLoaded, AskedOK, Request
    <3>2. IsABag(left) /\ BagToSet(left) \subseteq BagToSet(asked)
      BY BagWithOneLess DEF AskedOK
    <3>3. IsABag(left (+) SetToBag({q}))
          /\ BagToSet(left (+) SetToBag({q})) = BagToSet(left) \cup {q}
      BY <3>2, BagWithOneMore
    <3>4. asked' = left (+) SetToBag({q})
      BY <2>2 DEF CfBrowserDetailLoaded
    <3> QED BY <3>1, <3>2, <3>3, <3>4 DEF AskedOK, NewQuestion
  <2> QED BY <1>6, <2>1, <2>2 DEF Answer, ModBrowserSearchLoaded, ModBrowserSearchFailed,
    ModVersionsLoaded, ModDepsResolved, ModDepsFailed, CfBrowserSearchLoaded,
    CfBrowserSearchFailed, CfFilePickerLoaded
<1>7. ASSUME NEW j \in Slots, Start(j) \/ End(j) PROVE Goal
  <2>1. CASE ModInstallStarted(j)
    <3>1. job[j].slug \in Slugs
      BY <2>1 DEF ModInstallStarted, Announce, Worked
    <3> QED BY <1>3, <2>1, <3>1 DEF ModInstallStarted
  <2> QED BY <1>1, <1>7, <2>1 DEF Start, End, CfModInstallStarted, ModInstalled,
    ModInstallFailed, CfModInstalled, CfModInstallFailed, Finish
<1> QED BY <1>1, <1>5, <1>6, <1>7 DEF Next

-----------------------------------------------------------------------------
(* The installs and their locks. *)

JobType == [st : {"idle", "spawned", "installing"}, slug : Slugs \cup {None},
            from : {"modrinth", "curseforge"}]
JobsTyped == job \in [Slots -> JobType] /\ locked \subseteq Slugs /\ overlapped \subseteq Slugs

\* The lock of an instance given back for dependencies that could not be resolved.
GivenBack(s) ==
  /\ locked' = locked \ {s}
  /\ overlapped' = IF Busy(s) THEN overlapped \cup {s} ELSE overlapped
  /\ UNCHANGED job

\* What a step may do to the installs and their locks.
LEMMA NextJobs ==
  ASSUME AskedOK, ViewOK, Next
  PROVE  \/ UNCHANGED <<job, locked, overlapped>>
         \/ \E s \in Slugs, from \in {"modrinth", "curseforge"} : Spawn(s, from)
         \/ \E j \in Slots, from \in {"modrinth", "curseforge"} : Announce(j, from) \/ Finish(j, from)
         \/ \E s \in Slugs : GivenBack(s)
<1>1. CASE Keys
  <2>1. CASE ConfirmModInstall \/ CfFilePickerConfirm
    BY <2>1 DEF ConfirmModInstall, CfFilePickerConfirm, ViewOK, Placed
  <2>2. CASE ModBrowserOpenVersions \/ CancelModInstall
    BY <2>2, PickersPick DEF PickVersion
  <2> QED BY <1>1, <2>1, <2>2, KeysByKind DEF Searching, Search, OpenModBrowser, OpenCfBrowser,
    OpenInstalledMods, Goto, MoveIn, ModVersionPickerSelect, ModVersionPickerCancel,
    CfBrowserOpenDetail, DismissModInstallFailed, Quiet
<1>2. ASSUME NEW r \in BagToSet(asked), Answer(r), ~UNCHANGED <<job, locked, overlapped>>
      PROVE  \E s \in Slugs : GivenBack(s)
  <2>1. r.slug \in Slugs
    BY RequestFields DEF AskedOK
  <2>2. ModDepsFailed(r)
    BY <1>2 DEF Answer, ModBrowserSearchLoaded, ModBrowserSearchFailed, ModVersionsLoaded,
      ModDepsResolved, CfBrowserSearchLoaded, CfBrowserSearchFailed, CfBrowserDetailLoaded,
      CfFilePickerLoaded, Quiet
  <2> QED BY <2>1, <2>2 DEF ModDepsFailed, GivenBack
<1>3. ASSUME NEW j \in Slots, Start(j) \/ End(j)
      PROVE  \E from \in {"modrinth", "curseforge"} : Announce(j, from) \/ Finish(j, from)
  BY <1>3 DEF Start, End, ModInstallStarted, CfModInstallStarted, ModInstalled,
    ModInstallFailed, CfModInstalled, CfModInstallFailed
<1> QED BY <1>1, <1>2, <1>3 DEF Next

\* The installs keep their types, and what the locks say of them stays true.
LEMMA LockStep ==
  ASSUME JobsTyped, Worked,
         \/ UNCHANGED <<job, locked, overlapped>>
         \/ \E s \in Slugs, from \in {"modrinth", "curseforge"} : Spawn(s, from)
         \/ \E j \in Slots, from \in {"modrinth", "curseforge"} : Announce(j, from) \/ Finish(j, from)
         \/ \E s \in Slugs : GivenBack(s)
  PROVE  JobsTyped' /\ Worked' /\ (LockInv => LockInv')
<1>0. None \notin Slugs /\ Idle \in JobType /\ Idle.st = "idle" /\ Idle.slug = None
  BY BrowsingAssumption DEF Idle, JobType
<1>1. CASE UNCHANGED <<job, locked, overlapped>>
  BY <1>1 DEF JobsTyped, Worked, LockInv, OneEach, LockTracksInstalls, Installing
<1>2. ASSUME NEW s \in Slugs, NEW from \in {"modrinth", "curseforge"}, Spawn(s, from)
      PROVE  JobsTyped' /\ Worked' /\ (LockInv => LockInv')
  <2>1. PICK j \in Slots : /\ job[j] = Idle
                           /\ job' = [job EXCEPT ![j] = [st |-> "spawned", slug |-> s,
                                                         from |-> from]]
    BY <1>2 DEF Spawn
  <2>2. /\ job'[j].st = "spawned" /\ job'[j].slug = s
        /\ \A k \in Slots \ {j} : job'[k] = job[k]
        /\ locked' = locked /\ overlapped \subseteq overlapped'
        /\ \A k \in Slots \ {j} : job[k].slug = s => s \in overlapped'
    BY <1>2, <2>1 DEF Spawn, JobsTyped, Busy
  <2>3. JobsTyped'
    <3>1. [st |-> "spawned", slug |-> s, from |-> from] \in JobType
      BY DEF JobType
    <3> QED BY <1>2, <2>1, <3>1 DEF Spawn, JobsTyped
  <2>4. Worked'
    BY <2>2 DEF Worked
  <2>5. LockInv => OneEach'
    BY <2>2 DEF LockInv, OneEach
  <2>6. \A r \in Slugs : Installing(r)' <=> Installing(r)
    BY <1>0, <2>1, <2>2 DEF Installing
  <2> QED BY <2>2, <2>3, <2>4, <2>5, <2>6 DEF LockInv, LockTracksInstalls
<1>3. ASSUME NEW j \in Slots, NEW from \in {"modrinth", "curseforge"}, Announce(j, from)
      PROVE  JobsTyped' /\ Worked' /\ (LockInv => LockInv')
  <2>1. /\ job[j].st = "spawned" /\ job[j].slug \in Slugs
        /\ job' = [job EXCEPT ![j] = [job[j] EXCEPT !.st = "installing"]]
        /\ locked' = locked \cup {job[j].slug} /\ overlapped' = overlapped
    BY <1>3 DEF Announce, Worked, JobsTyped
  <2>2. [job[j] EXCEPT !.st = "installing"] \in JobType
    BY DEF JobsTyped, JobType
  <2>3. /\ job' \in [Slots -> JobType]
        /\ job'[j].st = "installing" /\ job'[j].slug = job[j].slug
        /\ \A k \in Slots \ {j} : job'[k] = job[k]
    BY <2>1, <2>2 DEF JobsTyped, JobType
  <2>4. JobsTyped' /\ Worked'
    BY <2>1, <2>3 DEF JobsTyped, Worked
  <2>5. LockInv => OneEach'
    BY <2>1, <2>3 DEF LockInv, OneEach
  <2>6. \A r \in Slugs : Installing(r)' <=> Installing(r) \/ r = job[j].slug
    BY <2>1, <2>3 DEF Installing
  <2> QED BY <2>1, <2>4, <2>5, <2>6 DEF LockInv, LockTracksInstalls
<1>4. ASSUME NEW j \in Slots, NEW from \in {"modrinth", "curseforge"}, Finish(j, from)
      PROVE  JobsTyped' /\ Worked' /\ (LockInv => LockInv')
  <2>0. PICK s \in Slugs : s = job[j].slug
    BY <1>4 DEF Finish, Worked
  <2>1. /\ job[j].st = "installing" /\ s \in Slugs /\ job' = [job EXCEPT ![j] = Idle]
        /\ locked' = locked \ {s}
        /\ overlapped' = IF \E k \in Slots \ {j} : job[k].slug = s
                           THEN overlapped ELSE overlapped \ {s}
    BY <1>4, <2>0 DEF Finish
  <2>2. /\ job' \in [Slots -> JobType] /\ job'[j] = Idle
        /\ \A k \in Slots \ {j} : job'[k] = job[k]
    BY <1>0, <2>1 DEF JobsTyped
  <2>3. JobsTyped' /\ Worked'
    BY <1>0, <2>1, <2>2 DEF JobsTyped, Worked
  <2>4. LockInv => OneEach'
    BY <1>0, <2>0, <2>1, <2>2 DEF LockInv, OneEach
  <2>5. \A r \in Slugs : Installing(r)' => Installing(r)
    BY <1>0, <2>2 DEF Installing
  <2>6. \A r \in Slugs \ {s} : Installing(r) => Installing(r)'
    BY <2>0, <2>2 DEF Installing
  <2>7. LockInv /\ Installing(s)' => s \in overlapped'
    BY <1>0, <2>0, <2>1, <2>2 DEF Installing, LockInv, OneEach
  <2> QED BY <2>1, <2>3, <2>4, <2>5, <2>6, <2>7 DEF LockInv, LockTracksInstalls
<1>5. ASSUME NEW s \in Slugs, GivenBack(s)
      PROVE  JobsTyped' /\ Worked' /\ (LockInv => LockInv')
  <2>1. Installing(s) => s \in overlapped'
    BY <1>5 DEF GivenBack, Busy, Installing
  <2>2. \A r \in Slugs : Installing(r)' <=> Installing(r)
    BY <1>5 DEF GivenBack, Installing
  <2>3. overlapped \subseteq overlapped' /\ overlapped' \subseteq overlapped \cup {s}
    BY <1>5 DEF GivenBack
  <2> QED BY <1>5, <2>1, <2>2, <2>3 DEF GivenBack, JobsTyped, Worked, LockInv, OneEach,
    LockTracksInstalls
<1> QED BY <1>1, <1>2, <1>3, <1>4, <1>5

\* The marks of the model only grow.
LEMMA NextMixed ==
  ASSUME ViewOK, mixed \subseteq Slugs, Next
  PROVE  mixed \subseteq mixed' /\ mixed' \subseteq Slugs
<1>1. CASE \E s \in Slugs, p \in Projects : PickVersion(s, p)
  BY <1>1 DEF PickVersion
<1>2. CASE Keys /\ ~(ModBrowserOpenVersions \/ CancelModInstall)
  BY <1>2, KeysByKind DEF Searching, Search, OpenModBrowser, OpenCfBrowser,
    OpenInstalledMods, Goto, MoveIn, ModVersionPickerSelect, ModVersionPickerCancel,
    CfBrowserOpenDetail, DismissModInstallFailed, ConfirmModInstall, CfFilePickerConfirm,
    Spawn, Quiet
<1>3. ASSUME NEW r \in BagToSet(asked), Answer(r) PROVE mixed' = mixed
  BY <1>3 DEF Answer, ModBrowserSearchLoaded, ModBrowserSearchFailed, ModVersionsLoaded,
      ModDepsResolved, ModDepsFailed, CfBrowserSearchLoaded, CfBrowserSearchFailed,
      CfBrowserDetailLoaded, CfFilePickerLoaded, Quiet
<1>4. ASSUME NEW j \in Slots, Start(j) \/ End(j) PROVE mixed' = mixed
  BY <1>4 DEF Start, End, ModInstallStarted, CfModInstallStarted, ModInstalled,
    ModInstallFailed, CfModInstalled, CfModInstallFailed, Announce, Finish
<1> QED BY <1>1, <1>2, <1>3, <1>4, PickersPick DEF Next

LEMMA TypedParts ==
  BrowsingTyped <=> ViewOK /\ AskedOK /\ JobsTyped /\ Worked /\ mixed \subseteq Slugs
BY DEF BrowsingTyped, TypeOK, ViewOK, ViewType, SelOK, AskedOK, JobsTyped, JobType

LEMMA TypedInit == Init => BrowsingTyped /\ LockInv /\ VersionInv
<1> SUFFICES ASSUME Init PROVE BrowsingTyped /\ LockInv /\ VersionInv
  OBVIOUS
<1>1. ViewOK /\ view.at = "InstanceList" /\ view.rows = None
  BY DEF Init, Home, View, ViewOK, ViewType, SelOK, Found, Placed, Places, Browsers
<1>2. AskedOK /\ BagToSet(asked) = {}
  BY DEF Init, AskedOK, EmptyBag, SetToBag, IsABag, BagToSet
<1>3. JobsTyped /\ Worked
  BY DEF Init, JobsTyped, JobType, Worked, Idle
<1>4. BrowsingTyped
  BY <1>1, <1>2, <1>3, TypedParts DEF Init
<1>5. LockInv
  BY DEF Init, Idle, LockInv, OneEach, LockTracksInstalls, Installing
<1> QED BY <1>1, <1>2, <1>4, <1>5 DEF VersionInv, PickerAsks, DepsAsked, VersionOfTheMod

LEMMA TypedStep == BrowsingTyped /\ [Next]_vars => BrowsingTyped' /\ (LockInv => LockInv')
<1>1. CASE UNCHANGED vars
  BY <1>1 DEF vars, BrowsingTyped, TypeOK, Placed, Worked, LockInv, OneEach, LockTracksInstalls,
    Installing
<1>2. ASSUME BrowsingTyped, Next PROVE BrowsingTyped' /\ (LockInv => LockInv')
  <2>1. ViewOK /\ AskedOK /\ JobsTyped /\ Worked /\ mixed \subseteq Slugs
    BY <1>2, TypedParts
  <2>2. ViewOK'
    BY <1>2, <2>1, KeysView, AnswerView, InstallView DEF Next, AskedOK
  <2>3. AskedOK' /\ JobsTyped' /\ Worked' /\ mixed' \subseteq Slugs
    BY <1>2, <2>1, NextAsked, NextJobs, LockStep, NextMixed
  <2> QED BY <1>2, <2>1, <2>2, <2>3, NextJobs, LockStep DEF BrowsingTyped, TypeOK, ViewOK,
    ViewType, SelOK, AskedOK, JobsTyped, JobType
<1> QED BY <1>1, <1>2

LEMMA TypedInvariant == Spec => [](BrowsingTyped /\ LockInv)
<1>1. BrowsingTyped /\ LockInv /\ [Next]_vars => (BrowsingTyped /\ LockInv)'
  BY TypedStep
<1> QED BY <1>1, TypedInit, PTL DEF Spec

\* Every variable keeps its type; the highlighted row of a browser is one of those
\* it has found.
THEOREM TypeCorrect == Spec => []TypeOK
<1>1. BrowsingTyped => TypeOK
  BY DEF BrowsingTyped
<1> QED BY <1>1, TypedInvariant, PTL

\* A lock has an install behind it, and an install that has started holds its lock
\* unless another one of its instance has interfered.
THEOREM LocksTrackInstalls == Spec => []LockTracksInstalls
<1>1. LockInv => LockTracksInstalls
  BY DEF LockInv
<1> QED BY <1>1, TypedInvariant, PTL

-----------------------------------------------------------------------------
(* The versions of the mod. *)

\* How a version picker and a confirmation come to be shown.
StaysPicker ==
  /\ view.at = "ModVersionPickerModal" /\ view'.slug = view.slug /\ view'.key = view.key
  /\ \/ view'.rows = view.rows
     \/ view'.rows = None
     \/ \E r \in BagToSet(asked) :
          r.kind = "versions" /\ r.slug = view.slug /\ view'.rows = r
ShowsPicker == StaysPicker \/ \E s \in Slugs, p \in Projects : PickVersion(s, p)
ShowsConfirmation ==
  \/ view' = view
  \/ \E r \in BagToSet(asked) :
       r.kind = "deps" /\ view'.slug = r.slug /\ view'.key = r.key /\ view'.rows = r

LEMMA NextShows ==
  ASSUME AskedOK, ViewOK, Worked, Next
  PROVE  /\ view'.at = "ModVersionPickerModal" => ShowsPicker
         /\ view'.at = "DepConfirmModal" => ShowsConfirmation
<1> DEFINE Elsewhere == view'.at \notin {"ModVersionPickerModal", "DepConfirmModal"}
           Goal == /\ view'.at = "ModVersionPickerModal" => ShowsPicker
                   /\ view'.at = "DepConfirmModal" => ShowsConfirmation
<1>1. CASE view' = view
  BY <1>1 DEF ShowsPicker, StaysPicker, ShowsConfirmation
<1>2. CASE view' = Home
  BY <1>2, HomeOK
<1>3. ASSUME NEW s \in Slugs, Browse(s) \/ FailedModal(s) PROVE Elsewhere
  BY <1>3, BrowseOK, FailedModalOK
<1>4. ASSUME NEW s \in Slugs, NEW p \in Projects, PickVersion(s, p) PROVE Goal
  BY <1>4, PickVersionOK DEF ShowsPicker
<1>5. ASSUME NEW at \in {"CfBrowser", "InstalledModsList", "CfInstallFailedModal",
                         "CfFilePickerModal"},
             NEW s, NEW key, NEW rows,
             view' = View(at, s, key) \/ view' = [View(at, s, key) EXCEPT !.rows = rows]
      PROVE  Elsewhere
  BY <1>5 DEF View
<1>6. CASE view.at \in Browsers /\ view'.at = view.at
  BY <1>6 DEF Browsers
<1>7. CASE Keys
  <2>1. CASE Searching \/ MoveIn("ModBrowser") \/ MoveIn("CfBrowser")
    <3>1. view.at \in Browsers /\ view'.at = view.at
      BY <2>1 DEF Searching, Search, MoveIn, Browsers, ViewOK, ViewType
    <3> QED BY <1>6, <3>1
  <2>2. CASE view.at \in Browsers /\ \E b \in BOOLEAN : Goto([view EXCEPT !.flag = b])
    <3>1. view'.at = view.at
      BY <2>2 DEF Goto, ViewOK, ViewType
    <3> QED BY <1>6, <2>2, <3>1
  <2>3. ASSUME NEW s \in Slugs, OpenModBrowser(s) \/ OpenCfBrowser(s) \/ OpenInstalledMods(s)
        PROVE  Elsewhere
    BY <1>3, <1>5, <2>3 DEF OpenModBrowser, OpenCfBrowser, OpenInstalledMods, Goto
  <2>4. CASE ModBrowserOpenVersions \/ CancelModInstall
    BY <1>4, <2>4, PickersPick
  <2>5. CASE ModVersionPickerSelect \/ CfBrowserOpenDetail \/ ConfirmModInstall
             \/ CfFilePickerConfirm
    BY <1>1, <2>5 DEF ModVersionPickerSelect, CfBrowserOpenDetail, ConfirmModInstall,
      CfFilePickerConfirm, Spawn
  <2>6. CASE ModVersionPickerCancel \/ DismissModInstallFailed
    <3>1. view.slug \in Slugs
      BY <2>6 DEF ModVersionPickerCancel, DismissModInstallFailed, ViewOK, Placed
    <3> QED BY <1>3, <1>5, <2>6, <3>1 DEF ModVersionPickerCancel, DismissModInstallFailed
  <2> QED BY <1>2, <1>7, <2>1, <2>2, <2>3, <2>4, <2>5, <2>6, KeysByKind DEF Goto
<1>8. ASSUME NEW r \in BagToSet(asked), Answer(r) PROVE Goal
  <2>1. CASE (ModBrowserSearchLoaded(r) \/ CfBrowserSearchLoaded(r)) /\ view' # view
    <3>1. view.at \in Browsers /\ view'.at = view.at
      BY <2>1 DEF ModBrowserSearchLoaded, CfBrowserSearchLoaded, ShowRows, Browsers, ViewOK,
        ViewType
    <3> QED BY <1>6, <3>1
  <2>2. CASE ModVersionsLoaded(r) /\ view' # view
    <3>1. PICK rows \in {r, None} : /\ view.at = "ModVersionPickerModal" /\ view.slug = r.slug
                                    /\ r.kind = "versions"
                                    /\ view' = [view EXCEPT !.rows = rows]
      BY <2>2 DEF ModVersionsLoaded
    <3>2. /\ view'.at = view.at /\ view'.slug = view.slug /\ view'.key = view.key
          /\ view'.rows = rows
      BY <3>1 DEF ViewOK, ViewType
    <3> QED BY <3>1, <3>2 DEF ShowsPicker, StaysPicker
  <2>3. CASE ModDepsResolved(r)
    <3>1. PICK c \in BOOLEAN :
            view' = [View("DepConfirmModal", r.slug, r.key) EXCEPT !.rows = r, !.flag = c]
      BY <2>3 DEF ModDepsResolved
    <3>2. /\ view'.at = "DepConfirmModal" /\ view'.slug = r.slug /\ view'.key = r.key
          /\ view'.rows = r
      BY <3>1 DEF View
    <3> QED BY <2>3, <3>2 DEF ModDepsResolved, ShowsConfirmation
  <2>4. CASE ModDepsFailed(r)
    BY <1>3, <2>4, RequestFields DEF ModDepsFailed, AskedOK
  <2>5. CASE CfFilePickerLoaded(r)
    BY <1>5, <2>5 DEF CfFilePickerLoaded
  <2> QED BY <1>1, <1>8, <2>1, <2>2, <2>3, <2>4, <2>5 DEF Answer, ModBrowserSearchFailed,
    CfBrowserSearchFailed, CfBrowserDetailLoaded
<1>9. ASSUME NEW j \in Slots, Start(j) \/ End(j) PROVE Goal
  <2>1. CASE ModInstallStarted(j) \/ ModInstallFailed(j)
    <3>1. job[j].slug \in Slugs
      BY <2>1 DEF ModInstallStarted, ModInstallFailed, Announce, Finish, Worked
    <3> QED BY <1>3, <2>1, <3>1 DEF ModInstallStarted, ModInstallFailed
  <2>2. CASE CfModInstallFailed(j)
    BY <1>5, <2>2 DEF CfModInstallFailed
  <2> QED BY <1>1, <1>2, <1>9, <2>1, <2>2 DEF Start, End, CfModInstallStarted, ModInstalled,
    CfModInstalled
<1> QED BY <1>7, <1>8, <1>9 DEF Next

LEMMA VersionStep ==
  ASSUME BrowsingTyped, VersionInv, Next
  PROVE  VersionInv'
<1>0. AskedOK /\ ViewOK /\ Worked /\ mixed \subseteq mixed'
  BY TypedParts, NextMixed
<1>1. \A r \in BagToSet(asked') : r \in BagToSet(asked) \/ NewQuestion(r)
  BY <1>0, NextAsked
<1>2. ASSUME NEW s \in Slugs, NEW p \in Projects, PickVersion(s, p)
      PROVE  PickerAsks' /\ VersionOfTheMod'
  <2>1. /\ view'.at = "ModVersionPickerModal" /\ view'.slug = s
        /\ view'.key = p /\ view'.rows = None
    BY <1>2, PickVersionOK
  <2>2. BagToSet(asked') = BagToSet(asked) \cup {Request("versions", s, p, None)}
    <3>1. Ask(Request("versions", s, p, None)) /\ Request("versions", s, p, None) \in Requests
      BY <1>2, RequestFields DEF PickVersion
    <3> QED BY <1>0, <3>1, Asking
  <2>3. Request("versions", s, p, None).key = p
    BY DEF Request
  <2>4. s \notin mixed' =>
          \A r \in BagToSet(asked) : r.kind = "versions" /\ r.slug = s => r.key = p
    BY <1>2 DEF PickVersion
  <2> QED BY <2>1, <2>2, <2>3, <2>4 DEF PickerAsks, VersionOfTheMod
<1>3. DepsAsked'
  <2> SUFFICES ASSUME NEW r \in BagToSet(asked'), r.kind = "deps", r.slug \notin mixed'
               PROVE  r.of = r.key
    BY DEF DepsAsked
  <2>1. CASE r \in BagToSet(asked)
    BY <1>0, <2>1 DEF VersionInv, DepsAsked
  <2>2. CASE NewQuestion(r)
    <3>1. ModVersionPickerSelect /\ r = Request("deps", view.slug, view.key, view.rows.key)
      BY <2>2 DEF NewQuestion, Request
    <3>2. r.of = view.rows.key /\ r.key = view.key /\ r.slug = view.slug
      BY <3>1 DEF Request
    <3> QED BY <1>0, <3>1, <3>2 DEF ModVersionPickerSelect, VersionInv, VersionOfTheMod
  <2> QED BY <1>1, <2>1, <2>2
<1>4. PickerAsks'
  <2> SUFFICES ASSUME view'.at = "ModVersionPickerModal", view'.slug \notin mixed',
                      ~\E s \in Slugs, p \in Projects : PickVersion(s, p),
                      NEW r \in BagToSet(asked'), r.kind = "versions", r.slug = view'.slug
               PROVE  r.key = view'.key
    BY <1>2 DEF PickerAsks
  <2>1. StaysPicker
    BY <1>0, NextShows DEF ShowsPicker
  <2>2. r \in BagToSet(asked)
    <3>1. r = Request("deps", view.slug, view.key, view.rows.key) => r.kind = "deps"
      BY DEF Request
    <3> QED BY <1>1, <3>1 DEF NewQuestion
  <2> QED BY <1>0, <2>1, <2>2 DEF StaysPicker, VersionInv, PickerAsks
<1>5. VersionOfTheMod'
  <2> SUFFICES ASSUME view'.rows # None, view'.slug \notin mixed',
                      ~\E s \in Slugs, p \in Projects : PickVersion(s, p)
               PROVE  /\ view'.at = "ModVersionPickerModal" => view'.rows.key = view'.key
                      /\ view'.at = "DepConfirmModal" => view'.rows.of = view'.key
    BY <1>2 DEF VersionOfTheMod
  <2>1. ASSUME view'.at = "ModVersionPickerModal" PROVE view'.rows.key = view'.key
    <3>1. StaysPicker
      BY <1>0, <2>1, NextShows DEF ShowsPicker
    <3> QED BY <1>0, <3>1 DEF StaysPicker, VersionInv, PickerAsks, VersionOfTheMod
  <2>2. ASSUME view'.at = "DepConfirmModal" PROVE view'.rows.of = view'.key
    <3>1. ShowsConfirmation
      BY <1>0, <2>2, NextShows
    <3> QED BY <1>0, <2>2, <3>1 DEF ShowsConfirmation, VersionInv, DepsAsked, VersionOfTheMod
  <2> QED BY <2>1, <2>2
<1> QED BY <1>3, <1>4, <1>5 DEF VersionInv

\* What a picker offers and a confirmation installs is of the mod it names, unless
\* the versions of two mods of the instance were asked for at once.
THEOREM VersionsAreOfTheMod == Spec => []VersionOfTheMod
<1>1. BrowsingTyped /\ VersionInv /\ [Next]_vars => VersionInv'
  <2>1. ASSUME VersionInv, UNCHANGED vars PROVE VersionInv'
    BY <2>1 DEF vars, VersionInv, PickerAsks, DepsAsked, VersionOfTheMod
  <2> QED BY <2>1, VersionStep
<1>2. VersionInv => VersionOfTheMod
  BY DEF VersionInv
<1> QED BY <1>1, <1>2, TypedInit, TypedInvariant, PTL DEF Spec

-----------------------------------------------------------------------------
(* ModpackImport. *)

MessageKinds == {"Started", "Imported", "Cancelled", "Failed"}
Rooted == {"rollback", "final"} \cup Inner   \* the stages that have a directory
Counting == {"download", "rows", "rename"}   \* those that deal with one file at a time

-----------------------------------------------------------------------------
(* What the invariants of the two properties say beyond them. *)

\* An import that has nobody to share the interface with: nothing else is under way
\* or announced, and what is on its way from it is its own start.
Active(i) == UnderWay(i) \/ ~Heard(i)
Alone(i) ==
  /\ \A j \in Imports \ {i} : ~Active(j)
  /\ UnderWay(i) => /\ \A n \in DOMAIN chan : chan[n] = <<"Started", i>>
                    /\ Len(chan) <= 1
Unheard == \A i \in Imports : stage[i] \in {"none", "queued"} => Heard(i)
AloneUnlessCrossed == \A i \in Imports \ crossed : Active(i) => Alone(i)

TokenInv == Unheard /\ AloneUnlessCrossed /\ TokenKept

\* The files an import has dealt with are among those it wants.
HandledOK ==
  \A i \in Imports : /\ handled[i] \subseteq Wanted(i)
                     /\ stage[i] \notin Counting => handled[i] = {}

\* A directory nobody owns is no directory; one that an import owns was made by it.
OwnersOK ==
  \A s \in Dirs :
    /\ inst[s].home = Nil => inst[s] = NoDir
    /\ \A i \in Imports : inst[s].home = i =>
         /\ stage[i] \notin {"none", "queued", "create", "named"}
         /\ stage[i] \in Rooted => slug[i] = s

\* What the directory d of an import holds at each of its stages.
Contents(i, d) ==
  /\ stage[i] = "download" => d.tmp = handled[i] /\ d.jars = {} /\ d.rows = {}
  /\ stage[i] = "rows" => d.tmp = Wanted(i) /\ d.jars = {} /\ d.rows = handled[i]
  /\ stage[i] = "rename" =>
       d.tmp = Wanted(i) \ handled[i] /\ d.jars = handled[i] /\ d.rows = Wanted(i)
  /\ stage[i] \in {"overrides", "loader", "final"} => d.jars = Wanted(i) /\ d.rows = Wanted(i)
  /\ stage[i] \in {"loader", "final"} => d.overrides
  /\ stage[i] \in Counting \cup {"overrides", "loader"} => ~d.loader
  /\ stage[i] = "loader" => pack[i].loader
  /\ stage[i] = "final" => d.loader = pack[i].loader

\* As long as its directory has not been deleted under it, an import has it to
\* itself, and finds there what it has put there.
KeepsItsDir ==
  \A i \in Imports : stage[i] \in Rooted /\ slug[i] \notin reused =>
    Of(i).home = i /\ Of(i).listed /\ Contents(i, Of(i))

\* The instance of the modpack of i, complete.
IsWhole(i, d) ==
  d.jars = Wanted(i) /\ d.rows = Wanted(i) /\ d.overrides /\ d.loader = pack[i].loader
WholeAtTheEnd ==
  \A s \in Dirs \ reused : \A i \in Imports \ cut :
    inst[s].home = i /\ stage[i] \in {"report", "ended"} => IsWhole(i, inst[s])

DiskInv == HandledOK /\ OwnersOK /\ KeepsItsDir /\ WholeAtTheEnd

-----------------------------------------------------------------------------
(* Types. *)

Message == MessageKinds \X Imports
Directory == [home : Imports \cup {Nil}, listed : BOOLEAN,
              tmp : SUBSET Files, jars : SUBSET Files, rows : SUBSET Files,
              overrides : BOOLEAN, loader : BOOLEAN]

\* An import that is about to report, or to remove its directory, knows what to report.
Decided == \A i \in Imports : stage[i] \in {"rollback", "report"} => outcome[i] # "none"
TypeInv == ImportTypeOK /\ Decided

LEMMA NoDirIsDirectory == NoDir \in Directory
BY DEF NoDir, Directory

\* Ending some imports keeps what is known of them typed.
LEMMA EndingTyped ==
  ASSUME ImportTypeOK, NEW ending \in SUBSET Imports, EndImports(ending)
  PROVE  /\ stage' \in [Imports -> ImportStages]
         /\ outcome' \in [Imports -> {"none", "Imported", "Cancelled", "Failed"}]
         /\ slug' \in [Imports -> Dirs \cup {Nil}] /\ handled' \in [Imports -> SUBSET Files]
         /\ \A i \in Imports : stage'[i] \in {"named"} \cup Rooted => slug'[i] \in Dirs
BY DEF ImportTypeOK, EndImports, ImportStages, Rooted, Inner

\* The oldest message, and what is left of the channel without it.
LEMMA ReceiveTyped ==
  ASSUME ImportTypeOK, NEW kind, Receive(kind)
  PROVE  /\ chan' \in Seq(Message) /\ Head(chan)[2] \in Imports
         /\ Head(chan) = <<kind, Head(chan)[2]>>
<1>1. chan \in Seq(Message) /\ chan # <<>>
  BY DEF ImportTypeOK, Message, MessageKinds, Receive
<1>2. Head(chan) \in Message /\ Tail(chan) \in Seq(Message)
  BY <1>1
<1> QED BY <1>2 DEF Receive, Message

LEMMA InitType == ImportInit => ImportTypeOK
<1> SUFFICES ASSUME ImportInit PROVE ImportTypeOK
  OBVIOUS
<1>1. inst \in [Dirs -> Directory]
  BY NoDirIsDirectory DEF ImportInit
<1>2. chan \in Seq(Message)
  BY DEF ImportInit
<1> QED BY <1>1, <1>2, ModpacksAssumption
  DEF ImportInit, ImportTypeOK, Directory, Message, MessageKinds, ImportStages, Views, Inner

\* The steps of one import.
LEMMA StepType == ASSUME TypeInv, NEW i \in Imports, ImportStep(i) PROVE ImportTypeOK'
<1> USE DEF TypeInv
<1>0. /\ NoDir \in Directory /\ inst \in [Dirs -> Directory]
      /\ chan \in Seq(Message)
  BY NoDirIsDirectory DEF ImportTypeOK, Directory, Message, MessageKinds
<1>1. CASE StartImport(i)
  <2>1. chan' \in Seq(Message)
    BY <1>0, <1>1 DEF StartImport, Message, MessageKinds
  <2> QED BY <1>1, <2>1 DEF StartImport, Advance, ImportTypeOK, ImportStages, Inner, importDisk, ui,
    Message, MessageKinds
<1>2. CASE Choose(i)
  BY <1>2 DEF Choose, Advance, ImportTypeOK, ImportStages, Inner, ui
<1>10. CASE Create(i)
  <2>0. PICK s \in Dirs : s = slug[i]
    BY <1>10 DEF Create, Advance, ImportTypeOK
  <2>1. inst[s] \in Directory
    BY <1>0
  <2>2. inst' = [inst EXCEPT ![s] = [inst[s] EXCEPT !.listed = TRUE,
                                       !.home = IF inst[s].home = Nil THEN i ELSE inst[s].home]]
    BY <1>0, <1>10, <2>0, <2>1 DEF Create, Directory
  <2>3. inst'[s] \in Directory /\ inst' \in [Dirs -> Directory]
    BY <1>0, <2>1, <2>2 DEF Directory
  <2>4. reused' \subseteq Dirs
    BY <1>10, <2>0 DEF Create, ImportTypeOK
  <2> QED BY <1>10, <2>0, <2>3, <2>4 DEF Create, Advance, ImportTypeOK, ImportStages, Inner, ui, Directory
<1>3. ASSUME NEW f \in Files, Fetch(i, f) \/ UpsertRow(i, f) \/ RenameJar(i, f)
      PROVE  ImportTypeOK'
  <2>1. stage[i] \in Rooted /\ slug[i] \in Dirs
    BY <1>3 DEF Fetch, UpsertRow, RenameJar, Each, Rooted, Inner, ImportTypeOK
  <2>2. Of(i) \in Directory /\ Site(i) \in Directory
    BY <1>0, <2>1 DEF Of, Site, Directory
  <2>3. \E d \in Directory : WriteDir(i, d)
    <3>1. [Site(i) EXCEPT !.tmp = @ \cup {f}] \in Directory
      BY <2>2 DEF Directory
    <3>2. [Site(i) EXCEPT !.rows = @ \cup {f}] \in Directory
      BY <2>2 DEF Directory
    <3>3. [Of(i) EXCEPT !.tmp = @ \ {f}, !.jars = @ \cup {f}] \in Directory
      BY <2>2 DEF Directory
    <3> QED BY <1>3, <3>1, <3>2, <3>3 DEF Fetch, UpsertRow, RenameJar
  <2>4. inst' \in [Dirs -> Directory]
    BY <1>0, <2>3 DEF WriteDir
  <2>5. handled' \in [Imports -> SUBSET Files]
    BY <1>3 DEF Fetch, UpsertRow, RenameJar, Each, ImportTypeOK
  <2>6. UNCHANGED <<pack, stage, outcome, slug, chan, ui, cut, reused>>
    BY <1>3 DEF Fetch, UpsertRow, RenameJar, Each
  <2> QED BY <2>4, <2>5, <2>6 DEF ImportTypeOK, ui, Directory
<1>4. CASE Fetched(i) \/ RowsDone(i) \/ Renamed(i)
  BY <1>4 DEF Fetched, RowsDone, Renamed, All, Advance, ImportTypeOK, ImportStages, Inner, ui
<1>5. CASE Overrides(i) \/ Loader(i)
  <2>1. stage[i] \in Rooted /\ slug[i] \in Dirs
    BY <1>5 DEF Overrides, Loader, Advance, Rooted, Inner, ImportTypeOK
  <2>2. Of(i) \in Directory /\ Site(i) \in Directory
    BY <1>0, <2>1 DEF Of, Site, Directory
  <2>3. \E d \in Directory : WriteDir(i, d)
    <3>1. [Site(i) EXCEPT !.overrides = TRUE] \in Directory
      BY <2>2 DEF Directory
    <3>2. [Of(i) EXCEPT !.loader = TRUE] \in Directory
      BY <2>2 DEF Directory
    <3> QED BY <1>5, <3>1, <3>2 DEF Overrides, Loader
  <2>4. inst' \in [Dirs -> Directory]
    BY <1>0, <2>3 DEF WriteDir
  <2> QED BY <1>5, <2>4 DEF Overrides, Loader, Advance, ImportTypeOK, ImportStages, Inner, ui,
    Directory
<1>6. CASE FinalWrite(i) \/ FinalWriteFails(i) \/ StepFails(i)
  <2>1. /\ stage' \in [Imports -> ImportStages]
        /\ \A j \in Imports : stage'[j] \in Rooted => stage[j] \in Rooted
    BY <1>6 DEF FinalWrite, FinalWriteFails, StepFails, Advance, ImportTypeOK, ImportStages,
      Rooted, Inner
  <2>2. outcome' \in [Imports -> {"none", "Imported", "Cancelled", "Failed"}]
    BY <1>6 DEF FinalWrite, FinalWriteFails, StepFails, Decide, ImportTypeOK
  <2>3. /\ handled' \in [Imports -> SUBSET Files]
        /\ UNCHANGED <<pack, slug, inst, chan, ui, cut, reused>>
    BY <1>6 DEF FinalWrite, FinalWriteFails, StepFails, ImportTypeOK, importDisk
  <2>4. \A j \in Imports : stage'[j] \in {"named"} \cup Rooted =>
          stage[j] \in {"named"} \cup Rooted
    BY <1>6 DEF FinalWrite, FinalWriteFails, StepFails, Advance, Rooted, Inner, ImportTypeOK
  <2> QED BY <2>1, <2>2, <2>3, <2>4 DEF ImportTypeOK, Rooted, ui
<1>7. CASE Rollback(i)
  <2>1. inst' \in [Dirs -> Directory]
    BY <1>0, <1>7 DEF Rollback, WriteDir
  <2> QED BY <1>7, <2>1 DEF Rollback, Advance, ImportTypeOK, ImportStages, Inner, ui, Directory
<1>8. CASE Report(i)
  <2>1. <<outcome[i], i>> \in Message
    BY <1>8 DEF Report, ImportTypeOK, Decided, Message, MessageKinds
  <2>2. chan' \in Seq(Message)
    BY <1>0, <1>8, <2>1 DEF Report
  <2> QED BY <1>8, <2>2, EndingTyped DEF Report, ImportTypeOK, ui, Rooted, Message, MessageKinds
<1>9. CASE Drop(i)
  BY <1>9, EndingTyped DEF Drop, ImportTypeOK, ui, Rooted
<1> QED BY <1>1, <1>2, <1>3, <1>4, <1>5, <1>6, <1>7, <1>8, <1>9, <1>10 DEF ImportStep

\* The keys, what the interface receives, and a crash.
LEMMA OthersType ==
  ASSUME ImportTypeOK, ImportKeys \/ ImportListen \/ CrashImports PROVE ImportTypeOK'
<1>0. NoDir \in Directory /\ inst \in [Dirs -> Directory]
  BY NoDirIsDirectory DEF ImportTypeOK, Directory
<1>1. ASSUME NEW i \in Imports, ImportPathSubmit(i) PROVE ImportTypeOK'
  BY <1>1 DEF ImportPathSubmit, Advance, ImportTypeOK, ImportStages, Inner, importJob, importDisk
<1>2. ASSUME NEW s \in Dirs, DeleteInstance(s) PROVE ImportTypeOK'
  <2>1. inst' \in [Dirs -> Directory]
    BY <1>0, <1>2 DEF DeleteInstance
  <2> QED BY <1>2, <2>1 DEF DeleteInstance, ImportTypeOK, ui, Directory
<1>3. CASE OpenModpackImport \/ ImportPathCancel \/ CancelModpackImport
           \/ DismissModpackImportFailed \/ OtherReport
  BY <1>3 DEF OpenModpackImport, ImportPathCancel, CancelModpackImport,
    DismissModpackImportFailed, OtherReport, ImportTypeOK, Views, importJob, importDisk
<1>4. CASE ModpackImportStarted \/ ModpackImported \/ ModpackImportCancelled
           \/ ModpackImportFailed
  <2>1. chan' \in Seq(Message) /\ Head(chan)[2] \in Imports
    BY <1>4, ReceiveTyped DEF ModpackImportStarted, ModpackImported, ModpackImportCancelled,
      ModpackImportFailed
  <2> QED BY <1>4, <2>1 DEF ModpackImportStarted, ModpackImported, ModpackImportCancelled,
    ModpackImportFailed, ImportTypeOK, Views, importJob, importDisk, Message, MessageKinds
<1>5. CASE CrashImports
  <2>1. chan' \in Seq(Message)
    BY <1>5 DEF CrashImports
  <2> QED BY <1>5, <2>1, EndingTyped DEF CrashImports, ImportTypeOK, Views, Rooted, Message,
    MessageKinds
<1> QED BY <1>1, <1>2, <1>3, <1>4, <1>5 DEF ImportKeys, ImportListen

LEMMA NextDecided == ImportTypeOK /\ Decided /\ [ImportNext]_importVars => Decided'
<1> SUFFICES ASSUME ImportTypeOK, Decided, [ImportNext]_importVars, NEW i \in Imports,
                    stage'[i] \in {"rollback", "report"}
             PROVE  outcome'[i] # "none"
  BY DEF Decided
<1>1. CASE UNCHANGED importVars
  BY <1>1 DEF importVars, Decided
<1>2. ASSUME NEW j \in Imports, ImportStep(j) PROVE outcome'[i] # "none"
  <2>1. CASE \E f \in Files : Fetch(j, f) \/ UpsertRow(j, f) \/ RenameJar(j, f)
    BY <2>1 DEF Fetch, UpsertRow, RenameJar, Each, Decided
  <2>2. CASE StartImport(j) \/ Choose(j) \/ Create(j) \/ Fetched(j) \/ RowsDone(j) \/ Renamed(j)
             \/ Overrides(j) \/ Loader(j) \/ Rollback(j)
    BY <2>2 DEF StartImport, Choose, Create, Fetched, RowsDone, Renamed, All, Overrides, Loader,
      Rollback, Advance, Decided, ImportTypeOK, importDisk, ui
  <2>3. CASE FinalWrite(j) \/ FinalWriteFails(j) \/ StepFails(j)
    BY <2>3 DEF FinalWrite, FinalWriteFails, StepFails, Advance, Decide, Decided, ImportTypeOK
  <2>4. CASE Report(j) \/ Drop(j)
    BY <2>4 DEF Report, Drop, EndImports, Decided, ImportTypeOK
  <2> QED BY <1>2, <2>1, <2>2, <2>3, <2>4 DEF ImportStep
<1>3. CASE ImportKeys \/ ImportListen
  BY <1>3 DEF ImportKeys, ImportListen, OpenModpackImport, ImportPathCancel, CancelModpackImport,
    DismissModpackImportFailed, ImportPathSubmit, Advance, DeleteInstance, ModpackImportStarted,
    ModpackImported, ModpackImportCancelled, ModpackImportFailed, OtherReport, importJob,
    Decided, ImportTypeOK
<1>4. CASE CrashImports
  BY <1>4 DEF CrashImports, EndImports, Decided, ImportTypeOK
<1> QED BY <1>1, <1>2, <1>3, <1>4 DEF ImportNext

LEMMA NextType == TypeInv /\ [ImportNext]_importVars => TypeInv'
<1>1. ASSUME ImportTypeOK, UNCHANGED importVars PROVE ImportTypeOK'
  BY <1>1 DEF importVars, ImportTypeOK
<1> QED BY <1>1, StepType, OthersType, NextDecided DEF ImportNext, TypeInv

LEMMA TypeInvariant == ImportSpec => []TypeInv
<1>1. ImportInit => TypeInv
  BY InitType DEF ImportInit, TypeInv, Decided
<1> QED BY <1>1, NextType, PTL DEF ImportSpec

\* Every variable keeps its type, and a stage that fills or removes a directory has one.
THEOREM ImportTypeCorrect == ImportSpec => []ImportTypeOK
<1>1. TypeInv => ImportTypeOK
  BY DEF TypeInv
<1> QED BY <1>1, TypeInvariant, PTL

-----------------------------------------------------------------------------
(* The one place for a token. *)

\* What is on its way after a message has been sent, and after one was received.
LEMMA SentIsHeard ==
  ASSUME chan \in Seq(Message), NEW i \in Imports, NEW kind \in MessageKinds,
         chan' = Append(chan, <<kind, i>>)
  PROVE  /\ \A j \in Imports : Heard(j)' <=> Heard(j) /\ j # i
         /\ kind = "Started" => Announcing(i)'
<1>1. /\ DOMAIN chan = 1..Len(chan) /\ DOMAIN chan' = 1..(Len(chan) + 1)
      /\ Len(chan) \in Nat /\ chan'[Len(chan) + 1] = <<kind, i>>
      /\ \A n \in 1..Len(chan) : chan'[n] = chan[n]
  BY DEF Message, MessageKinds
<1> QED BY <1>1 DEF Heard, Announcing

LEMMA ReceivedIsHeard ==
  ASSUME chan \in Seq(Message), chan # <<>>, chan' = Tail(chan)
  PROVE  /\ \A n \in DOMAIN chan' : \E m \in DOMAIN chan : chan'[n] = chan[m]
         /\ Len(chan') <= Len(chan) /\ Head(chan) = chan[1] /\ 1 \in DOMAIN chan
         /\ Len(chan) <= 1 => DOMAIN chan' = {}
<1>1. /\ DOMAIN chan = 1..Len(chan) /\ Len(chan) \in Nat \ {0}
      /\ DOMAIN chan' = 1..(Len(chan) - 1) /\ Len(chan') = Len(chan) - 1
      /\ \A n \in 1..(Len(chan) - 1) : chan'[n] = chan[n + 1]
  BY DEF Message
<1> QED BY <1>1

\* An import that is alone stays so as long as nothing more is under way or sent.
LEMMA AloneByLess ==
  ASSUME AloneUnlessCrossed, crossed \subseteq crossed',
         \A j \in Imports : UnderWay(j)' => UnderWay(j),
         \A n \in DOMAIN chan' : \E m \in DOMAIN chan : chan'[n] = chan[m],
         Len(chan') <= Len(chan), Len(chan) \in Nat, Len(chan') \in Nat
  PROVE  AloneUnlessCrossed'
<1>1. \A j \in Imports : Active(j)' => Active(j)
  BY DEF Active, Heard
<1> QED BY <1>1 DEF AloneUnlessCrossed, Alone

\* Every step of an import but its first and its last sends nothing, and none is
\* taken by an import that another one, alone, would have met.
LEMMA AStep ==
  ASSUME TypeInv, NEW j \in Imports, ImportStep(j)
  PROVE  /\ UnderWay(j) /\ UNCHANGED <<dialog, running, cancelled, crossed>>
         /\ \A i \in Imports \ {j} : stage'[i] = stage[i]
         /\ StartImport(j) \/ Report(j) \/ (UNCHANGED chan /\ (UnderWay(j)' => stage[j] # "queued"))
<1>1. ASSUME NEW f \in Files, Fetch(j, f) \/ UpsertRow(j, f) \/ RenameJar(j, f)
      PROVE  /\ UnderWay(j) /\ UNCHANGED <<dialog, running, cancelled, crossed>>
             /\ UNCHANGED <<stage, chan>> /\ stage[j] # "queued"
  BY <1>1 DEF Fetch, UpsertRow, RenameJar, Each, UnderWay, ui
<1>2. CASE Choose(j) \/ Create(j) \/ Fetched(j) \/ RowsDone(j) \/ Renamed(j) \/ Overrides(j) \/ Loader(j)
           \/ FinalWrite(j) \/ FinalWriteFails(j) \/ StepFails(j) \/ Rollback(j)
  BY <1>2 DEF Choose, Create, Fetched, RowsDone, Renamed, All, Overrides, Loader, FinalWrite,
    FinalWriteFails, StepFails, Rollback, Advance, UnderWay, ui, TypeInv, ImportTypeOK, Inner
<1>3. CASE StartImport(j) \/ Report(j) \/ Drop(j)
  BY <1>3 DEF StartImport, Report, Drop, Advance, EndImports, UnderWay, ui, TypeInv, ImportTypeOK
<1> QED BY <1>1, <1>2, <1>3 DEF ImportStep

\* What the keys, what the interface receives, and a crash do to the channel.
LEMMA AnInput ==
  ASSUME TypeInv, ImportKeys \/ ImportListen \/ CrashImports,
         ~(\E j \in Imports : ImportPathSubmit(j))
  PROVE  /\ \A j \in Imports : UnderWay(j)' => UnderWay(j) /\ stage'[j] = stage[j]
         /\ crossed' = crossed
         /\ chan' = chan \/ (chan # <<>> /\ chan' = Tail(chan)) \/ chan' = <<>>
<1>1. CASE ImportKeys \/ OtherReport
  BY <1>1 DEF ImportKeys, OpenModpackImport, ImportPathCancel, CancelModpackImport, OtherReport,
    DismissModpackImportFailed, DeleteInstance, importJob, UnderWay, ui
<1>2. CASE ImportListen /\ ~OtherReport
  BY <1>2 DEF ImportListen, ModpackImportStarted, ModpackImported, ModpackImportCancelled,
    ModpackImportFailed, Receive, importJob, UnderWay
<1>3. CASE CrashImports
  BY <1>3 DEF CrashImports, EndImports, UnderWay
<1> QED BY <1>1, <1>2, <1>3

LEMMA NextUnheard ==
  ASSUME TypeInv, Unheard, [ImportNext]_importVars
  PROVE  Unheard'
<1>0. chan \in Seq(Message)
  BY DEF TypeInv, ImportTypeOK, Message, MessageKinds
<1>1. ASSUME NEW j \in Imports, ImportStep(j) PROVE Unheard'
  <2>1. CASE StartImport(j)
    <3>1. \A k \in Imports : Heard(k)' <=> Heard(k) /\ k # j
      BY <1>0, <2>1, SentIsHeard DEF StartImport, MessageKinds
    <3> QED BY <2>1, <3>1 DEF StartImport, Advance, Unheard, TypeInv, ImportTypeOK
  <2>2. CASE Report(j)
    <3>1. outcome[j] \in MessageKinds
      BY <2>2 DEF Report, TypeInv, Decided, ImportTypeOK, MessageKinds
    <3>2. \A k \in Imports : Heard(k)' <=> Heard(k) /\ k # j
      BY <1>0, <2>2, <3>1, SentIsHeard DEF Report
    <3> QED BY <2>2, <3>2 DEF Report, EndImports, Unheard, TypeInv, ImportTypeOK
  <2>3. CASE UNCHANGED chan
    <3>1. stage'[j] \notin {"none", "queued"}
      BY <1>1, <2>3 DEF ImportStep, StartImport, Choose, Create, Fetch, UpsertRow, RenameJar,
        Each, Fetched, RowsDone, Renamed, All, Overrides, Loader, FinalWrite, FinalWriteFails,
        StepFails, Rollback, Report, Drop, EndImports, Advance, TypeInv, ImportTypeOK, Inner
    <3> QED BY <1>1, <2>3, <3>1, AStep DEF Unheard, Heard
  <2> QED BY <1>1, <2>1, <2>2, <2>3, AStep
<1>2. ASSUME NEW j \in Imports, ImportPathSubmit(j) PROVE Unheard'
  BY <1>2 DEF ImportPathSubmit, Advance, Unheard, Heard, TypeInv, ImportTypeOK, importJob
<1>3. CASE (ImportKeys \/ ImportListen \/ CrashImports) /\ ~(\E j \in Imports : ImportPathSubmit(j))
  <2>1. \A j \in Imports : Heard(j) => Heard(j)'
    BY <1>0, <1>3, AnInput, ReceivedIsHeard DEF Heard
  <2>2. \A j \in Imports : stage'[j] \in {"none", "queued"} => stage[j] \in {"none", "queued"}
    BY <1>3 DEF ImportKeys, ImportListen, OpenModpackImport, ImportPathCancel, CancelModpackImport,
      OtherReport, DismissModpackImportFailed, DeleteInstance, importJob, ModpackImportStarted,
      ModpackImported, ModpackImportCancelled, ModpackImportFailed, CrashImports, EndImports
  <2> QED BY <2>1, <2>2 DEF Unheard
<1>4. CASE UNCHANGED importVars
  BY <1>4 DEF importVars, Unheard, Heard
<1> QED BY <1>1, <1>2, <1>3, <1>4 DEF ImportNext

LEMMA NextAlone ==
  ASSUME TypeInv, Unheard, AloneUnlessCrossed, [ImportNext]_importVars
  PROVE  AloneUnlessCrossed'
<1>0. chan \in Seq(Message) /\ Len(chan) \in Nat /\ DOMAIN chan = 1..Len(chan)
  BY DEF TypeInv, ImportTypeOK, Message, MessageKinds
<1>1. ASSUME NEW j \in Imports, ImportStep(j) PROVE AloneUnlessCrossed'
  <2>0. \A i \in Imports \ crossed : i # j => ~Active(i)
    BY <1>1, AStep DEF AloneUnlessCrossed, Alone, Active
  <2>1. CASE StartImport(j)
    <3>1. /\ \A k \in Imports : Heard(k)' <=> Heard(k) /\ k # j
          /\ chan' = Append(chan, <<"Started", j>>) /\ stage[j] = "queued"
      BY <1>0, <2>1, SentIsHeard DEF StartImport, MessageKinds, Advance
    <3>2. j \notin crossed => Len(chan) = 0
      <4>1. ASSUME j \notin crossed, NEW n \in DOMAIN chan PROVE FALSE
        <5>1. chan[n] = <<"Started", j>>
          BY <3>1, <4>1 DEF AloneUnlessCrossed, Alone, Active, UnderWay
        <5> QED BY <3>1, <4>1, <5>1 DEF Unheard, Heard
      <4> QED BY <1>0, <4>1
    <3>3. j \notin crossed => Len(chan') = 1 /\ DOMAIN chan' = {1} /\ chan'[1] = <<"Started", j>>
      BY <1>0, <3>1, <3>2
    <3>4. \A i \in Imports \ {j} : Active(i)' => Active(i)
      BY <1>1, <3>1, AStep DEF Active, UnderWay
    <3> QED BY <1>1, <2>0, <3>1, <3>3, <3>4, AStep DEF AloneUnlessCrossed, Alone, Active, UnderWay
  <2>2. CASE Report(j)
    <3>1. outcome[j] \in MessageKinds
      BY <2>2 DEF Report, TypeInv, Decided, ImportTypeOK, MessageKinds
    <3>2. \A k \in Imports : Heard(k)' <=> Heard(k) /\ k # j
      BY <1>0, <2>2, <3>1, SentIsHeard DEF Report
    <3>3. \A i \in Imports \ {j} : Active(i)' => Active(i)
      BY <1>1, <3>2, AStep DEF Active, UnderWay
    <3>4. ~UnderWay(j)'
      BY <2>2 DEF Report, EndImports, UnderWay, TypeInv, ImportTypeOK
    <3>5. crossed' = crossed /\ UnderWay(j)
      BY <1>1, AStep
    <3> QED BY <2>0, <3>3, <3>4, <3>5 DEF AloneUnlessCrossed, Alone, Active
  <2>3. CASE UNCHANGED chan
    BY <1>0, <1>1, <2>3, AStep, AloneByLess DEF UnderWay
  <2> QED BY <1>1, <2>1, <2>2, <2>3, AStep
<1>2. ASSUME NEW j \in Imports, ImportPathSubmit(j) PROVE AloneUnlessCrossed'
  <2> DEFINE others == {k \in Imports \ {j} : UnderWay(k) \/ ~Heard(k)}
  <2>1. /\ chan' = chan /\ stage[j] = "none" /\ Heard(j)
        /\ \A i \in Imports \ {j} : stage'[i] = stage[i]
        /\ crossed' = IF others = {} THEN crossed ELSE crossed \cup others \cup {j}
    BY <1>2 DEF ImportPathSubmit, Advance, Unheard, TypeInv, ImportTypeOK, importJob
  <2>2. \A i \in Imports \ {j} : Active(i)' <=> i \in others
    BY <2>1 DEF Active, UnderWay, Heard
  <2>3. SUFFICES ASSUME NEW i \in Imports \ crossed', Active(i)' PROVE Alone(i)'
    BY DEF AloneUnlessCrossed
  <2>4. i = j /\ others = {}
    BY <2>1, <2>2, <2>3 DEF AloneUnlessCrossed, Alone, Active
  <2>5. DOMAIN chan = {}
    <3>1. ASSUME NEW n \in DOMAIN chan PROVE FALSE
      <4>1. chan[n] \in Message
        BY <1>0, <3>1
      <4>2. chan[n][2] \in Imports
        BY <4>1 DEF Message
      <4> QED BY <2>1, <2>4, <3>1, <4>2 DEF Heard
    <3> QED BY <3>1
  <2> QED BY <1>0, <2>1, <2>2, <2>4, <2>5 DEF Alone
<1>3. CASE (ImportKeys \/ ImportListen \/ CrashImports) /\ ~(\E j \in Imports : ImportPathSubmit(j))
  <2>1. /\ \A j \in Imports : UnderWay(j)' => UnderWay(j)
        /\ crossed' = crossed
        /\ chan' = chan \/ (chan # <<>> /\ chan' = Tail(chan)) \/ chan' = <<>>
    BY <1>3, AnInput
  <2>2. chan' \in Seq(Message)
    <3>1. <<>> \in Seq(Message)
      OBVIOUS
    <3>2. chan # <<>> => Tail(chan) \in Seq(Message)
      BY <1>0
    <3> QED BY <1>0, <2>1, <3>1, <3>2
  <2>3. Len(chan') \in Nat
    BY <2>2
  <2>4. CASE chan' = <<>>
    BY <1>0, <2>1, <2>4, AloneByLess
  <2> QED BY <1>0, <2>1, <2>3, <2>4, ReceivedIsHeard, AloneByLess
<1>4. CASE UNCHANGED importVars
  BY <1>4 DEF importVars, AloneUnlessCrossed, Alone, Active, UnderWay, Heard
<1> QED BY <1>1, <1>2, <1>3, <1>4 DEF ImportNext

LEMMA NextToken ==
  ASSUME TypeInv, AloneUnlessCrossed, TokenKept, [ImportNext]_importVars
  PROVE  TokenKept'
<1>0. chan \in Seq(Message) /\ Len(chan) \in Nat /\ DOMAIN chan = 1..Len(chan)
  BY DEF TypeInv, ImportTypeOK, Message, MessageKinds
<1> SUFFICES ASSUME NEW i \in Imports \ (crossed' \cup cancelled'), UnderWay(i)',
                    stage'[i] # "queued", ~Announcing(i)'
             PROVE  running' = i /\ (dialog' \in Imports => dialog' = i)
  BY DEF TokenKept
<1>1. ASSUME NEW j \in Imports, ImportStep(j)
      PROVE  running' = i /\ (dialog' \in Imports => dialog' = i)
  <2>1. j = i
    BY <1>1, AStep DEF AloneUnlessCrossed, Alone, Active, UnderWay
  <2>2. ~StartImport(j)
    BY <1>0, <2>1, SentIsHeard DEF StartImport, MessageKinds
  <2>3. ~Report(j)
    BY <2>1 DEF Report, EndImports, UnderWay, TypeInv, ImportTypeOK
  <2> QED BY <1>1, <2>1, <2>2, <2>3, AStep DEF TokenKept, Announcing, UnderWay
<1>2. ASSUME NEW j \in Imports, ImportPathSubmit(j)
      PROVE  running' = i /\ (dialog' \in Imports => dialog' = i)
  <2>1. i # j
    BY <1>2 DEF ImportPathSubmit, Advance, TypeInv, ImportTypeOK
  <2>2. UnderWay(i)
    BY <1>2, <2>1 DEF ImportPathSubmit, Advance, UnderWay, TypeInv, ImportTypeOK
  <2> QED BY <1>2, <2>1, <2>2 DEF ImportPathSubmit
<1>3. ASSUME (ImportKeys \/ ImportListen \/ CrashImports)
             /\ ~(\E j \in Imports : ImportPathSubmit(j))
      PROVE  running' = i /\ (dialog' \in Imports => dialog' = i)
  <2>1. UnderWay(i) /\ stage[i] # "queued" /\ i \notin crossed /\ Alone(i)
    BY <1>3, AnInput DEF AloneUnlessCrossed, Active
  <2>2. ASSUME NEW kind, Receive(kind) PROVE kind = "Started" /\ Head(chan)[2] = i
    <3>1. Head(chan) = chan[1] /\ 1 \in DOMAIN chan
      BY <1>0, <2>2 DEF Receive
    <3> QED BY <2>1, <2>2, <3>1 DEF Receive, Alone
  <2>3. CASE ImportListen /\ ~OtherReport
    BY <2>2, <2>3 DEF ImportListen, ModpackImportStarted, ModpackImported,
      ModpackImportCancelled, ModpackImportFailed
  <2>4. CASE ImportKeys \/ OtherReport
    <3>1. ~Announcing(i) /\ i \notin cancelled
      BY <1>3, <2>4 DEF ImportKeys, OpenModpackImport, ImportPathCancel, CancelModpackImport,
        OtherReport, DismissModpackImportFailed, DeleteInstance, importJob, ui, Announcing
    <3>2. running = i /\ (dialog \in Imports => dialog = i)
      BY <2>1, <3>1 DEF TokenKept
    <3>3. ~CancelModpackImport
      BY <3>2, ModpacksAssumption DEF CancelModpackImport
    <3> QED BY <1>3, <2>4, <3>2, <3>3, ModpacksAssumption DEF ImportKeys, OpenModpackImport,
      ImportPathCancel, OtherReport, DismissModpackImportFailed, DeleteInstance, importJob, ui
  <2>5. ~CrashImports
    BY <2>1 DEF CrashImports, EndImports, UnderWay
  <2> QED BY <1>3, <2>3, <2>4, <2>5
<1>4. CASE UNCHANGED importVars
  BY <1>4 DEF importVars, TokenKept, Announcing, UnderWay
<1> QED BY <1>1, <1>2, <1>3, <1>4 DEF ImportNext

\* An import that is alone can be cancelled, and nothing else can be in its place.
THEOREM TokenIsKept == ImportSpec => []TokenKept
<1>1. ImportInit => TokenInv
  BY DEF ImportInit, TokenInv, Unheard, AloneUnlessCrossed, TokenKept, Active, Heard, UnderWay
<1>2. TypeInv /\ TokenInv /\ [ImportNext]_importVars => TokenInv'
  BY NextUnheard, NextAlone, NextToken DEF TokenInv
<1>3. TokenInv => TokenKept
  BY DEF TokenInv
<1> QED BY <1>1, <1>2, <1>3, TypeInvariant, PTL DEF ImportSpec

-----------------------------------------------------------------------------
(* The directory of an import. *)

Rootless == {"none", "queued", "create", "named"}   \* the stages before there is a directory

\* An import that stays where it has a directory, writes there and nowhere else, and
\* finds there what it should.
LEMMA FillStep ==
  ASSUME TypeInv, TypeInv', DiskInv, NEW i \in Imports,
         stage[i] \in Rooted, stage'[i] \in Rooted,
         \A j \in Imports \ {i} : stage'[j] = stage[j] /\ handled'[j] = handled[j],
         UNCHANGED <<pack, slug, cut, reused>>,
         \A s \in Dirs \ {slug[i]} : inst'[s] = inst[s],
         handled'[i] \subseteq Wanted(i), stage'[i] \notin Counting => handled'[i] = {},
         Of(i)'.home = Of(i).home \/ (Of(i).home = Nil /\ Of(i)'.home = i),
         Of(i)'.home = Nil => Of(i)' = NoDir,
         Of(i).listed => Of(i)'.listed,
         slug[i] \notin reused => Contents(i, Of(i))'
  PROVE  DiskInv'
<1>0. slug[i] \in Dirs /\ Nil \notin Imports /\ slug' = slug /\ Of(i)' = inst'[slug[i]]
  BY ModpacksAssumption DEF TypeInv, ImportTypeOK, Rooted, Of
<1>1. HandledOK'
  BY DEF DiskInv, HandledOK, Wanted
<1>2. OwnersOK'
  <2> SUFFICES ASSUME NEW s \in Dirs
               PROVE  /\ inst'[s].home = Nil => inst'[s] = NoDir
                      /\ \A j \in Imports : inst'[s].home = j =>
                           /\ stage'[j] \notin {"none", "queued", "create", "named"}
                           /\ stage'[j] \in Rooted => slug'[j] = s
    BY DEF OwnersOK, NoDir
  <2>1. CASE s = slug[i]
    BY <1>0, <2>1 DEF DiskInv, OwnersOK, Of, Rooted, Inner
  <2>2. CASE s # slug[i]
    BY <1>0, <2>2 DEF DiskInv, OwnersOK
  <2> QED BY <2>1, <2>2
<1>3. ASSUME NEW j \in Imports \ {i}, stage[j] \in Rooted, slug[j] \notin reused
      PROVE  slug[j] # slug[i]
  BY <1>3 DEF DiskInv, KeepsItsDir, Of
<1>4. KeepsItsDir'
  <2> SUFFICES ASSUME NEW j \in Imports, stage'[j] \in Rooted, slug[j] \notin reused
               PROVE  (Of(j).home = j /\ Of(j).listed /\ Contents(j, Of(j)))'
    BY <1>0 DEF KeepsItsDir
  <2>1. CASE j = i
    BY <1>0, <2>1 DEF DiskInv, KeepsItsDir
  <2>2. CASE j # i
    <3>1. /\ Of(j).home = j /\ Of(j).listed /\ Contents(j, Of(j))
          /\ slug[j] \in Dirs \ {slug[i]}
      BY <1>3, <2>2 DEF DiskInv, KeepsItsDir, TypeInv, ImportTypeOK, Rooted
    <3>2. Of(j)' = Of(j)
      BY <1>0, <3>1 DEF Of
    <3> QED BY <2>2, <3>1, <3>2 DEF Contents, Wanted
  <2> QED BY <2>1, <2>2
<1>5. WholeAtTheEnd'
  <2> SUFFICES ASSUME NEW s \in Dirs \ reused, NEW j \in Imports \ cut, inst'[s].home = j,
                      stage'[j] \in {"report", "ended"}
               PROVE  IsWhole(j, inst[s])'
    BY DEF WholeAtTheEnd
  <2>1. j # i /\ stage[j] \in {"report", "ended"}
    BY DEF Rooted, Inner
  <2>2. s # slug[i]
    BY <1>0, <2>1 DEF DiskInv, KeepsItsDir, Of
  <2> QED BY <2>1, <2>2 DEF DiskInv, WholeAtTheEnd, IsWhole, Wanted
<1> QED BY <1>1, <1>2, <1>4, <1>5 DEF DiskInv

\* Imports that move where they have no directory, leaving a whole one or being cut.
LEMMA LeaveStep ==
  ASSUME TypeInv, DiskInv, UNCHANGED <<pack, inst, reused>>, cut \subseteq cut',
         \A j \in Imports :
           \/ stage'[j] = stage[j] /\ slug'[j] = slug[j] /\ handled'[j] = handled[j]
           \/ /\ stage'[j] \notin Rooted /\ handled'[j] = {}
              /\ stage'[j] \in Rootless => stage[j] \in Rootless
              /\ stage'[j] \in {"report", "ended"} =>
                   j \in cut' \/ stage[j] \in Rootless \cup {"final", "report", "ended"}
  PROVE  DiskInv'
<1>1. HandledOK'
  BY DEF DiskInv, HandledOK, Wanted, Rooted, Inner, Counting
<1>2. OwnersOK'
  BY DEF DiskInv, OwnersOK, NoDir, Rootless
<1>3. KeepsItsDir'
  <2> SUFFICES ASSUME NEW j \in Imports, stage'[j] \in Rooted, slug'[j] \notin reused
               PROVE  (Of(j).home = j /\ Of(j).listed /\ Contents(j, Of(j)))'
    BY DEF KeepsItsDir
  <2>1. stage'[j] = stage[j] /\ slug'[j] = slug[j] /\ handled'[j] = handled[j]
    OBVIOUS
  <2>2. Of(j).home = j /\ Of(j).listed /\ Contents(j, Of(j))
    BY <2>1 DEF DiskInv, KeepsItsDir
  <2> QED BY <2>1, <2>2 DEF Of, Contents, Wanted
<1>4. WholeAtTheEnd'
  <2> SUFFICES ASSUME NEW s \in Dirs \ reused, NEW j \in Imports \ cut', inst[s].home = j,
                      stage'[j] \in {"report", "ended"}
               PROVE  IsWhole(j, inst[s])
    BY DEF WholeAtTheEnd, IsWhole, Wanted
  <2>1. stage[j] \notin Rootless
    BY DEF DiskInv, OwnersOK, Rootless
  <2>2. CASE stage[j] \in {"report", "ended"}
    BY <2>2 DEF DiskInv, WholeAtTheEnd
  <2>3. CASE stage[j] = "final"
    <3>1. slug[j] = s
      BY <2>3 DEF DiskInv, OwnersOK, Rooted
    <3>2. Contents(j, inst[s])
      BY <2>3, <3>1 DEF DiskInv, KeepsItsDir, Rooted, Of
    <3> QED BY <2>3, <3>2 DEF Contents, IsWhole
  <2> QED BY <2>1, <2>2, <2>3
<1> QED BY <1>1, <1>2, <1>3, <1>4 DEF DiskInv

LEMMA StepDisk ==
  ASSUME TypeInv, TypeInv', DiskInv, NEW i \in Imports, ImportStep(i)
  PROVE  DiskInv'
<1>0. /\ inst \in [Dirs -> Directory] /\ inst' \in [Dirs -> Directory]
      /\ stage \in [Imports -> ImportStages] /\ handled \in [Imports -> SUBSET Files]
      /\ slug \in [Imports -> Dirs \cup {Nil}] /\ Nil \notin Imports
      /\ outcome \in [Imports -> {"none", "Imported", "Cancelled", "Failed"}]
  BY ModpacksAssumption DEF TypeInv, ImportTypeOK, Directory
<1>1. stage[i] \in Rooted => /\ slug[i] \in Dirs /\ Of(i) \in Directory
                             /\ Of(i).home = Nil => Of(i) = NoDir
                             /\ slug[i] \notin reused =>
                                  Of(i).home = i /\ Of(i).listed /\ Contents(i, Of(i))
  BY <1>0 DEF TypeInv, ImportTypeOK, Rooted, DiskInv, OwnersOK, KeepsItsDir, Of
<1>2. ASSUME NEW f \in Files, Fetch(i, f) \/ UpsertRow(i, f) \/ RenameJar(i, f)
      PROVE  DiskInv'
  <2>1. /\ stage[i] \in Rooted \cap Counting /\ f \in Wanted(i) \ handled[i]
        /\ handled' = [handled EXCEPT ![i] = @ \cup {f}]
        /\ UNCHANGED <<pack, stage, slug, cut, reused>>
    BY <1>2 DEF Fetch, UpsertRow, RenameJar, Each, Rooted, Inner, Counting
  <2>2. /\ Site(i) \in Directory /\ Site(i).home = IF Of(i).home = Nil THEN i ELSE Of(i).home
        /\ Of(i).home # Nil => Site(i) = Of(i)
    BY <1>0, <1>1, <2>1, NoDirIsDirectory DEF Site, Directory
  <2>3. \A s \in Dirs \ {slug[i]} : inst'[s] = inst[s]
    BY <1>0, <1>2 DEF Fetch, UpsertRow, RenameJar, WriteDir
  <2>4. /\ Of(i)'.home = Site(i).home /\ Of(i)'.listed = Site(i).listed
        /\ slug[i] \notin reused => Contents(i, Of(i))'
    <3>1. CASE Fetch(i, f)
      <4>1. /\ Of(i)' = [Site(i) EXCEPT !.tmp = @ \cup {f}]
            /\ stage[i] = "download"
        BY <1>0, <1>1, <2>1, <3>1 DEF Fetch, Each, WriteDir, Of
      <4>2. handled'[i] = handled[i] \cup {f} /\ stage'[i] = "download" /\ pack' = pack
        BY <1>0, <2>1, <4>1
      <4> QED BY <1>0, <1>1, <2>1, <2>2, <4>1, <4>2 DEF Contents, Directory, Wanted, Counting
    <3>2. CASE UpsertRow(i, f)
      <4>1. /\ Of(i)' = [Site(i) EXCEPT !.rows = @ \cup {f}]
            /\ stage[i] = "rows"
        BY <1>0, <1>1, <2>1, <3>2 DEF UpsertRow, Each, WriteDir, Of
      <4>2. handled'[i] = handled[i] \cup {f} /\ stage'[i] = "rows" /\ pack' = pack
        BY <1>0, <2>1, <4>1
      <4> QED BY <1>0, <1>1, <2>1, <2>2, <4>1, <4>2 DEF Contents, Directory, Wanted, Counting
    <3>3. CASE RenameJar(i, f)
      <4>1. /\ Of(i)' = [Of(i) EXCEPT !.tmp = @ \ {f}, !.jars = @ \cup {f}]
            /\ stage[i] = "rename" /\ f \in Of(i).tmp
        BY <1>0, <1>1, <2>1, <3>3 DEF RenameJar, Each, WriteDir, Of
      <4>2. handled'[i] = handled[i] \cup {f} /\ stage'[i] = "rename" /\ pack' = pack
        BY <1>0, <2>1, <4>1
      <4>3. Of(i).home # Nil
        BY <1>1, <2>1, <4>1 DEF NoDir
      <4> QED BY <1>0, <1>1, <2>1, <2>2, <4>1, <4>2, <4>3 DEF Contents, Directory, Wanted, Counting
    <3> QED BY <1>2, <3>1, <3>2, <3>3
  <2>5. Of(i)'.home # Nil
    BY <1>0, <2>2, <2>4
  <2>6. Of(i).listed => Of(i)'.listed
    BY <1>1, <2>1, <2>2, <2>4 DEF NoDir
  <2>7. handled'[i] \subseteq Wanted(i) /\ \A j \in Imports \ {i} : handled'[j] = handled[j]
    BY <1>0, <2>1 DEF DiskInv, HandledOK
  <2> QED BY <2>1, <2>2, <2>3, <2>4, <2>5, <2>6, <2>7, FillStep
<1>3. ASSUME NEW from, NEW to, All(i, from, to),
             <<from, to>> \in {<<"download", "rows">>, <<"rows", "rename">>,
                               <<"rename", "overrides">>}
      PROVE  DiskInv'
  <2>1. /\ stage[i] = from /\ from \in Rooted \cap Counting /\ to \in Rooted
        /\ handled[i] = Wanted(i)
        /\ stage' = [stage EXCEPT ![i] = to] /\ handled' = [handled EXCEPT ![i] = {}]
        /\ UNCHANGED <<pack, slug, inst, cut, reused>>
    BY <1>3 DEF All, Advance, Rooted, Inner, Counting
  <2>2. /\ stage'[i] = to /\ handled'[i] = {} /\ Of(i)' = Of(i)
        /\ \A j \in Imports \ {i} : stage'[j] = stage[j] /\ handled'[j] = handled[j]
    BY <1>0, <2>1 DEF Of
  <2>3. slug[i] \notin reused => Contents(i, Of(i))'
    BY <1>1, <1>3, <2>1, <2>2 DEF Contents, Wanted, Counting
  <2> QED BY <1>1, <2>1, <2>2, <2>3, FillStep
<1>4. CASE Overrides(i) \/ Loader(i)
  <2>1. /\ stage[i] \in {"overrides", "loader"} /\ stage'[i] \in {"loader", "final"}
        /\ \A j \in Imports \ {i} : stage'[j] = stage[j]
        /\ UNCHANGED <<pack, slug, handled, cut, reused>>
    BY <1>0, <1>4 DEF Overrides, Loader, Advance
  <2>2. stage[i] \in Rooted /\ stage'[i] \in Rooted /\ handled[i] = {}
    BY <2>1 DEF Rooted, Inner, DiskInv, HandledOK, Counting
  <2>3. /\ Site(i) \in Directory /\ Site(i).home = IF Of(i).home = Nil THEN i ELSE Of(i).home
        /\ Of(i).home # Nil => Site(i) = Of(i)
    BY <1>0, <1>1, <2>2, NoDirIsDirectory DEF Site, Directory
  <2>4. \A s \in Dirs \ {slug[i]} : inst'[s] = inst[s]
    BY <1>0, <1>4 DEF Overrides, Loader, WriteDir
  <2>5. /\ Of(i)'.home = Site(i).home /\ Of(i)'.listed = Site(i).listed
        /\ slug[i] \notin reused => Contents(i, Of(i))'
    <3>1. CASE Overrides(i)
      <4>1. /\ Of(i)' = [Site(i) EXCEPT !.overrides = TRUE]
            /\ stage[i] = "overrides"
            /\ stage'[i] = IF pack[i].loader THEN "loader" ELSE "final"
        BY <1>0, <1>1, <2>1, <2>2, <3>1 DEF Overrides, Advance, WriteDir, Of
      <4>2. pack[i].loader \in BOOLEAN
        BY ModpacksAssumption DEF TypeInv, ImportTypeOK
      <4>3. /\ Of(i)'.home = Site(i).home /\ Of(i)'.listed = Site(i).listed
            /\ Of(i)'.jars = Site(i).jars /\ Of(i)'.rows = Site(i).rows
            /\ Of(i)'.overrides /\ Of(i)'.loader = Site(i).loader /\ Site(i).loader \in BOOLEAN
        BY <2>3, <4>1 DEF Directory
      <4> QED BY <1>0, <1>1, <2>1, <2>2, <2>3, <4>1, <4>2, <4>3 DEF Contents, Wanted, Counting
    <3>2. CASE Loader(i)
      <4>1. /\ Of(i)' = [Of(i) EXCEPT !.loader = TRUE] /\ Of(i).listed
            /\ stage[i] = "loader" /\ stage'[i] = "final"
        BY <1>0, <1>1, <2>1, <2>2, <3>2 DEF Loader, Advance, WriteDir, Of
      <4>2. Of(i).home # Nil
        BY <1>1, <2>2, <4>1 DEF NoDir
      <4> QED BY <1>0, <1>1, <2>1, <2>2, <2>3, <4>1, <4>2 DEF Contents, Directory, Wanted, Counting
    <3> QED BY <1>4, <3>1, <3>2
  <2>6. Of(i)'.home # Nil
    BY <1>0, <2>3, <2>5
  <2>7. Of(i).listed => Of(i)'.listed
    BY <1>1, <2>2, <2>3, <2>5 DEF NoDir
  <2> QED BY <2>1, <2>2, <2>3, <2>4, <2>5, <2>6, <2>7, FillStep
<1>5. CASE StepFails(i) /\ stage[i] \in Inner
  <2>1. /\ stage'[i] = "rollback" /\ handled'[i] = {} /\ Of(i)' = Of(i)
        /\ \A j \in Imports \ {i} : stage'[j] = stage[j] /\ handled'[j] = handled[j]
        /\ UNCHANGED <<pack, slug, inst, cut, reused>>
    BY <1>0, <1>5 DEF StepFails, Of
  <2>2. stage[i] \in Rooted /\ stage'[i] \in Rooted /\ Contents(i, Of(i))'
    BY <1>5, <2>1 DEF Rooted, Contents, Counting
  <2> QED BY <1>1, <2>1, <2>2, FillStep
<1>6. CASE Create(i)
  <2>0. PICK s \in Dirs : s = slug[i]
    BY <1>6 DEF Create, Advance, TypeInv, ImportTypeOK
  <2>1. /\ stage[i] = "named" /\ stage' = [stage EXCEPT ![i] = "download"]
        /\ UNCHANGED <<pack, slug, handled, cut>> /\ handled[i] = {}
        /\ reused' = IF inst[s].home = Nil THEN reused ELSE reused \cup {s}
    BY <1>6, <2>0 DEF Create, Advance, DiskInv, HandledOK, Counting
  <2>2. /\ inst'[s] = [inst[s] EXCEPT !.listed = TRUE, !.home = IF @ = Nil THEN i ELSE @]
        /\ \A r \in Dirs \ {s} : inst'[r] = inst[r]
    BY <1>0, <1>6, <2>0 DEF Create
  <2>3. /\ inst'[s].home # Nil
        /\ inst[s].home # Nil => inst'[s].home = inst[s].home /\ s \in reused'
        /\ inst[s].home = Nil => /\ inst'[s].home = i /\ inst'[s].listed
                               /\ inst'[s].tmp = {} /\ inst'[s].jars = {}
                               /\ inst'[s].rows = {} /\ ~inst'[s].loader
    <3>1. inst[s].home = Nil => inst[s] = NoDir
      BY DEF DiskInv, OwnersOK
    <3> QED BY <1>0, <2>1, <2>2, <3>1 DEF Directory, NoDir
  <2>4. /\ stage'[i] = "download" /\ reused \subseteq reused'
        /\ \A j \in Imports \ {i} : stage'[j] = stage[j]
        /\ \A r \in Dirs : inst[r].home # i
    BY <1>0, <2>1 DEF DiskInv, OwnersOK
  <2>5. HandledOK'
    BY <2>1, <2>4 DEF DiskInv, HandledOK, Wanted
  <2>6. OwnersOK'
    <3> SUFFICES ASSUME NEW r \in Dirs
                 PROVE  /\ inst'[r].home = Nil => inst'[r] = NoDir
                        /\ \A j \in Imports : inst'[r].home = j =>
                             /\ stage'[j] \notin {"none", "queued", "create", "named"}
                             /\ stage'[j] \in Rooted => slug'[j] = r
      BY DEF OwnersOK, NoDir
    <3>1. CASE r = s /\ inst[s].home = Nil
      BY <1>0, <2>0, <2>1, <2>3, <2>4, <3>1
    <3>2. CASE r # s \/ inst[s].home # Nil
      <4>1. /\ inst'[r].home = inst[r].home
            /\ inst'[r].home = Nil => r # s
        BY <2>2, <2>3, <3>2
      <4>2. /\ inst[r].home = Nil => inst[r] = NoDir
            /\ \A j \in Imports : inst[r].home = j =>
                 /\ stage[j] \notin {"none", "queued", "create", "named"}
                 /\ stage[j] \in Rooted => slug[j] = r
        BY DEF DiskInv, OwnersOK
      <4>3. ASSUME NEW j \in Imports, inst'[r].home = j
            PROVE  /\ stage'[j] \notin {"none", "queued", "create", "named"}
                   /\ stage'[j] \in Rooted => slug'[j] = r
        <5>1. j # i
          BY <2>4, <4>1, <4>3
        <5> QED BY <2>1, <2>4, <4>1, <4>2, <4>3, <5>1
      <4> QED BY <2>2, <4>1, <4>2, <4>3 DEF NoDir
    <3> QED BY <3>1, <3>2
  <2>7. KeepsItsDir'
    <3> SUFFICES ASSUME NEW j \in Imports, stage'[j] \in Rooted, slug[j] \notin reused'
                 PROVE  (Of(j).home = j /\ Of(j).listed /\ Contents(j, Of(j)))'
      BY <2>1 DEF KeepsItsDir
    <3>1. CASE j = i
      <4>1. inst[s].home = Nil /\ Of(j)' = inst'[s]
        BY <2>0, <2>1, <2>3, <3>1 DEF Of
      <4> QED BY <2>1, <2>3, <2>4, <3>1, <4>1 DEF Contents, Counting
    <3>2. CASE j # i
      <4>1. /\ Of(j).home = j /\ Of(j).listed /\ Contents(j, Of(j))
            /\ slug[j] \in Dirs
        BY <2>4, <3>2 DEF DiskInv, KeepsItsDir, TypeInv, ImportTypeOK, Rooted
      <4>2. slug[j] # s
        BY <1>0, <2>3, <4>1 DEF Of
      <4>3. Of(j)' = Of(j)
        BY <2>1, <2>2, <4>1, <4>2 DEF Of
      <4> QED BY <2>1, <2>4, <3>2, <4>1, <4>3 DEF Contents, Wanted
    <3> QED BY <3>1, <3>2
  <2>8. WholeAtTheEnd'
    <3> SUFFICES ASSUME NEW r \in Dirs \ reused', NEW j \in Imports \ cut, inst'[r].home = j,
                        stage'[j] \in {"report", "ended"}
                 PROVE  IsWhole(j, inst[r])'
      BY <2>1 DEF WholeAtTheEnd
    <3>1. j # i /\ r # s
      BY <2>3, <2>4
    <3> QED BY <2>1, <2>2, <2>4, <3>1 DEF DiskInv, WholeAtTheEnd, IsWhole, Wanted
  <2> QED BY <2>5, <2>6, <2>7, <2>8 DEF DiskInv
<1>11. CASE Choose(i)
  <2>1. /\ stage'[i] = "named" /\ stage[i] = "create" /\ handled'[i] = {} /\ cut' = cut
        /\ \A j \in Imports \ {i} :
             stage'[j] = stage[j] /\ handled'[j] = handled[j] /\ slug'[j] = slug[j]
        /\ UNCHANGED <<pack, inst, reused>>
    BY <1>0, <1>11 DEF Choose, Advance, DiskInv, HandledOK, Counting
  <2> QED BY <2>1, LeaveStep DEF Rooted, Inner, Rootless
<1>7. CASE Rollback(i) /\ WriteDir(i, NoDir)
  <2>1. /\ stage[i] = "rollback" /\ stage'[i] = "report" /\ handled[i] = {}
        /\ \A j \in Imports \ {i} : stage'[j] = stage[j]
        /\ UNCHANGED <<pack, slug, handled, reused>> /\ cut \subseteq cut'
    BY <1>0, <1>7 DEF Rollback, Advance, DiskInv, HandledOK, Counting
  <2>2. /\ slug[i] \in Dirs /\ inst'[slug[i]] = NoDir
        /\ \A r \in Dirs \ {slug[i]} : inst'[r] = inst[r] /\ inst[r].home # i
    BY <1>0, <1>1, <1>7, <2>1 DEF WriteDir, Rooted, DiskInv, OwnersOK
  <2>3. HandledOK'
    BY <2>1 DEF DiskInv, HandledOK, Wanted, Counting
  <2>4. OwnersOK'
    BY <1>0, <2>1, <2>2 DEF DiskInv, OwnersOK, NoDir
  <2>5. KeepsItsDir'
    <3> SUFFICES ASSUME NEW j \in Imports, stage'[j] \in Rooted, slug[j] \notin reused
                 PROVE  (Of(j).home = j /\ Of(j).listed /\ Contents(j, Of(j)))'
      BY <2>1 DEF KeepsItsDir
    <3>1. j # i
      BY <2>1 DEF Rooted, Inner
    <3>2. /\ Of(j).home = j /\ Of(j).listed /\ Contents(j, Of(j))
          /\ slug[j] \in Dirs /\ slug[j] # slug[i]
      BY <1>1, <2>1, <3>1 DEF DiskInv, KeepsItsDir, TypeInv, ImportTypeOK, Rooted, Of
    <3>3. Of(j)' = Of(j)
      BY <2>1, <2>2, <3>2 DEF Of
    <3> QED BY <2>1, <3>1, <3>2, <3>3 DEF Contents, Wanted
  <2>6. WholeAtTheEnd'
    BY <1>0, <2>1, <2>2 DEF DiskInv, WholeAtTheEnd, IsWhole, Wanted, NoDir
  <2> QED BY <2>3, <2>4, <2>5, <2>6 DEF DiskInv
<1>8. CASE StartImport(i) \/ FinalWrite(i) \/ FinalWriteFails(i)
           \/ (StepFails(i) /\ stage[i] \notin Inner)
  <2>1. /\ stage[i] \in {"queued", "create", "named", "final"} /\ stage'[i] \in {"create", "report"}
        /\ stage'[i] = "create" => stage[i] = "queued"
        /\ handled'[i] = {}
        /\ \A j \in Imports \ {i} : stage'[j] = stage[j] /\ handled'[j] = handled[j]
        /\ UNCHANGED <<pack, slug, inst, cut, reused>>
    BY <1>0, <1>8 DEF StartImport, FinalWrite, FinalWriteFails, StepFails, Advance, importDisk,
      DiskInv, HandledOK, Counting
  <2> QED BY <2>1, LeaveStep DEF Rooted, Inner, Rootless
<1>9. CASE Rollback(i) /\ cut' = cut \cup {i} /\ UNCHANGED inst
  <2>1. /\ stage'[i] = "report" /\ handled'[i] = {} /\ i \in cut' /\ cut \subseteq cut'
        /\ \A j \in Imports \ {i} : stage'[j] = stage[j] /\ handled'[j] = handled[j]
        /\ UNCHANGED <<pack, slug, inst, reused>>
    BY <1>0, <1>9 DEF Rollback, Advance, DiskInv, HandledOK, Counting
  <2> QED BY <2>1, LeaveStep DEF Rooted, Inner, Rootless
<1>10. CASE Report(i) \/ Drop(i)
  <2>1. /\ stage'[i] = "ended" /\ handled'[i] = {} /\ (i \in cut' \/ stage[i] = "report")
        /\ cut \subseteq cut'
        /\ \A j \in Imports \ {i} :
             stage'[j] = stage[j] /\ handled'[j] = handled[j] /\ slug'[j] = slug[j]
        /\ UNCHANGED <<pack, inst, reused>>
    <3>1. CASE Report(i)
      BY <3>1 DEF Report, EndImports
    <3>2. CASE Drop(i)
      BY <3>2 DEF Drop, EndImports
    <3> QED BY <1>10, <3>1, <3>2
  <2> QED BY <2>1, LeaveStep DEF Rooted, Inner, Rootless
<1> QED BY <1>2, <1>3, <1>4, <1>5, <1>6, <1>7, <1>8, <1>9, <1>10, <1>11
  DEF ImportStep, Fetched, RowsDone, Renamed, Rollback

LEMMA NextDisk ==
  ASSUME TypeInv, TypeInv', DiskInv, [ImportNext]_importVars
  PROVE  DiskInv'
<1>1. ASSUME NEW s \in Dirs, DeleteInstance(s) PROVE DiskInv'
  <2>1. /\ inst'[s] = NoDir /\ \A r \in Dirs \ {s} : inst'[r] = inst[r]
        /\ UNCHANGED <<pack, stage, slug, handled>>
        /\ cut \subseteq cut' /\ reused \subseteq reused'
        /\ \A j \in Imports : stage[j] \in Rooted /\ slug[j] = s => s \in reused'
    <3>1. /\ inst' = [inst EXCEPT ![s] = NoDir] /\ UNCHANGED <<pack, stage, slug, handled>>
          /\ cut \subseteq cut' /\ reused \subseteq reused'
      BY <1>1 DEF DeleteInstance
    <3>2. \A j \in Imports : stage[j] \in Rooted /\ slug[j] = s => s \in reused'
      BY <1>1 DEF DeleteInstance, UnderWay, Rooted, Inner
    <3>3. inst'[s] = NoDir /\ \A r \in Dirs \ {s} : inst'[r] = inst[r]
      BY <3>1 DEF TypeInv, ImportTypeOK
    <3> QED BY <3>1, <3>2, <3>3
  <2>2. HandledOK'
    BY <2>1 DEF DiskInv, HandledOK, Wanted
  <2>3. OwnersOK'
    <3>1. inst'[s].home = Nil /\ Nil \notin Imports
      BY <2>1, ModpacksAssumption DEF NoDir
    <3>2. UNCHANGED <<stage, slug>> /\ NoDir' = NoDir
      BY <2>1 DEF NoDir
    <3> QED BY <2>1, <3>1, <3>2 DEF DiskInv, OwnersOK
  <2>4. KeepsItsDir'
    <3> SUFFICES ASSUME NEW j \in Imports, stage[j] \in Rooted, slug[j] \notin reused'
                 PROVE  (Of(j).home = j /\ Of(j).listed /\ Contents(j, Of(j)))'
      BY <2>1 DEF KeepsItsDir
    <3>1. /\ Of(j).home = j /\ Of(j).listed /\ Contents(j, Of(j))
          /\ slug[j] \in Dirs \ {s}
      BY <2>1 DEF DiskInv, KeepsItsDir, TypeInv, ImportTypeOK, Rooted, Inner, UnderWay
    <3>2. Of(j)' = Of(j)
      BY <2>1, <3>1 DEF Of
    <3> QED BY <2>1, <3>1, <3>2 DEF Contents, Wanted
  <2>5. WholeAtTheEnd'
    BY <2>1, ModpacksAssumption DEF DiskInv, WholeAtTheEnd, IsWhole, Wanted, NoDir
  <2> QED BY <2>2, <2>3, <2>4, <2>5 DEF DiskInv
<1>2. ASSUME NEW i \in Imports, ImportPathSubmit(i) PROVE DiskInv'
  <2>1. /\ stage[i] = "none" /\ stage'[i] = "queued" /\ handled[i] = {}
        /\ \A j \in Imports \ {i} : stage'[j] = stage[j]
        /\ UNCHANGED <<pack, slug, handled, inst, cut, reused>>
    BY <1>2 DEF ImportPathSubmit, Advance, importJob, importDisk, TypeInv, ImportTypeOK, DiskInv,
      HandledOK, Counting
  <2> QED BY <2>1, LeaveStep DEF Rooted, Inner, Rootless
<1>3. CASE CrashImports
  <2>1. \A j \in Imports :
          \/ stage'[j] = stage[j] /\ slug'[j] = slug[j] /\ handled'[j] = handled[j]
          \/ stage'[j] = "ended" /\ handled'[j] = {} /\ j \in cut'
    BY <1>3 DEF CrashImports, EndImports
  <2>2. UNCHANGED <<pack, inst, reused>> /\ cut \subseteq cut'
    BY <1>3 DEF CrashImports
  <2> QED BY <2>1, <2>2, LeaveStep DEF Rooted, Inner, Rootless
<1>4. CASE OpenModpackImport \/ ImportPathCancel \/ CancelModpackImport
           \/ DismissModpackImportFailed \/ ImportListen \/ UNCHANGED importVars
  <2>1. UNCHANGED <<pack, stage, slug, handled, inst, cut, reused>>
    BY <1>4 DEF OpenModpackImport, ImportPathCancel, CancelModpackImport,
      DismissModpackImportFailed, ImportListen, ModpackImportStarted, ModpackImported,
      ModpackImportCancelled, ModpackImportFailed, OtherReport, importVars, importJob, importDisk
  <2> QED BY <2>1, LeaveStep
<1> QED BY <1>1, <1>2, <1>3, <1>4, StepDisk DEF ImportNext, ImportKeys

\* An import that runs to its end leaves a complete instance or none, whichever step
\* fails, unless it was cut off or its directory was taken from it.
THEOREM WholeOrGoneHolds == ImportSpec => []WholeOrGone
<1>1. ImportInit => DiskInv
  BY ModpacksAssumption DEF ImportInit, DiskInv, HandledOK, OwnersOK, KeepsItsDir, WholeAtTheEnd,
    Rooted, Inner, NoDir, Counting
<1>2. TypeInv /\ DiskInv /\ [ImportNext]_importVars => DiskInv'
  BY NextType, NextDisk
<1>3. DiskInv => WholeOrGone
  BY DEF DiskInv, WholeAtTheEnd, WholeOrGone, IsWhole
<1> QED BY <1>1, <1>2, <1>3, TypeInvariant, PTL DEF ImportSpec
===============================================================================
