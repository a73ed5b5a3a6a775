----------------------------- MODULE ModpackImport -----------------------------
(***************************************************************************)
(* The import of a modpack as a new instance (modpack/service.rs), its     *)
(* roll-back, and the dialogue that starts, shows and cancels it           *)
(* (tui/app.rs).                                                           *)
(*                                                                         *)
(* An import looks for a free name, creates its instance under it,         *)
(* manifest and all, and fills it in steps.  A step that fails removes the *)
(* directory.  A cancelled import is dropped by the task pool wherever it  *)
(* is, and whatever it would have done after that is not done, the removal *)
(* included; only in the poll in which the token fires may it see the      *)
(* cancellation itself.                                                    *)
(*                                                                         *)
(* The interface knows an import by the empty name until it has ended, so  *)
(* that there is one place for the token of all of them.                   *)
(***************************************************************************)
EXTENDS Naturals, Sequences

CONSTANTS Imports,   \* the imports of one behaviour
          Modpacks,  \* what a modpack may be: its files, and whether it has a loader
          Files,     \* files a modpack may list
          ForClient, \* those a client wants
          InMods,    \* those that are jars directly in the directory mods
          Dirs,      \* names of instance directories
          Nil        \* no import, no directory

ASSUME ModpacksAssumption ==
  /\ Modpacks \subseteq [files : SUBSET Files, loader : BOOLEAN]
  /\ Nil \notin Imports \cup Dirs
  /\ Imports \cap {"list", "path", "failed"} = {}   \* the other views

VARIABLES
  pack,       \* the modpack of each import
  stage,      \* how far it has got
  outcome,    \* what it is going to report
  slug,       \* the directory it has chosen, and then created
  handled,    \* the files it has dealt with in the present step
  inst,       \* the instance directories, and whose import made each
  cancelled,  \* imports whose token has fired
  chan,       \* the actions on their way to the interface
  dialog,     \* the view shown
  running,    \* running_modpack_imports: the import under the empty name
  cut,        \* (of the model) imports that were dropped, or lost their directory
  crossed,    \* (of the model) imports that were under way together
  reused      \* (of the model) directories deleted under an import, or created by
              \* one that another had created since it was found to be free

importVars == <<pack, stage, outcome, slug, handled, inst, cancelled, chan, dialog, running,
                cut, crossed, reused>>
importDisk == <<slug, handled, inst>>
ui == <<cancelled, dialog, running, crossed>>

NoDir == [home |-> Nil, listed |-> FALSE, tmp |-> {}, jars |-> {}, rows |-> {},
         overrides |-> FALSE, loader |-> FALSE]
ImportStages == {"none", "queued", "create", "named", "download", "rows",
                 "rename", "overrides", "loader", "final", "rollback", "report", "ended"}
Views == {"list", "path", "failed"} \cup Imports   \* an import: its progress is shown

Wanted(i) == pack[i].files \cap ForClient
UnderWay(i) == stage[i] \notin {"none", "ended"}
Heard(i) == \A n \in DOMAIN chan : chan[n][2] # i
Announcing(i) == \E n \in DOMAIN chan : chan[n] = <<"Started", i>>
Of(i) == inst[slug[i]]

ImportInit ==
  /\ pack \in [Imports -> Modpacks]
  /\ stage = [i \in Imports |-> "none"]
  /\ outcome = [i \in Imports |-> "none"]
  /\ slug = [i \in Imports |-> Nil] /\ handled = [i \in Imports |-> {}]
  /\ inst = [s \in Dirs |-> NoDir]
  /\ cancelled = {} /\ chan = <<>>
  /\ dialog = "list" /\ running = Nil
  /\ cut = {} /\ crossed = {} /\ reused = {}

Advance(i, from, to) == stage[i] = from /\ stage' = [stage EXCEPT ![i] = to]

-----------------------------------------------------------------------------
(* The steps of an import. *)

\* The first thing the job does is to announce itself.
StartImport(i) ==
  /\ Advance(i, "queued", "create")
  /\ chan' = Append(chan, <<"Started", i>>)
  /\ UNCHANGED <<pack, outcome, importDisk, ui, cut, reused>>

\* The index is read (before there is a directory), then create_instance looks for
\* a name no directory has; it reserves nothing.
Choose(i) ==
  /\ Advance(i, "create", "named")
  /\ \E s \in Dirs : inst[s].home = Nil /\ slug' = [slug EXCEPT ![i] = s]
  /\ UNCHANGED <<pack, outcome, handled, inst, chan, ui, cut, reused>>

\* It makes the directory, if need be, and the manifest.
Create(i) ==
  LET s == slug[i] IN
  /\ Advance(i, "named", "download")
  /\ inst' = [inst EXCEPT ![s].listed = TRUE, ![s].home = IF @ = Nil THEN i ELSE @]
  /\ reused' = IF inst[s].home = Nil THEN reused ELSE reused \cup {s}
  /\ UNCHANGED <<pack, outcome, slug, handled, chan, ui, cut>>

WriteDir(i, to) == inst' = [inst EXCEPT ![slug[i]] = to]

\* What a write finds, or makes, where the directory of i was.
Site(i) == IF Of(i).home = Nil THEN [NoDir EXCEPT !.home = i] ELSE Of(i)

\* A step for one of the files that are left in this stage.
Each(i, f, at) ==
  /\ stage[i] = at /\ f \in Wanted(i) \ handled[i]
  /\ handled' = [handled EXCEPT ![i] = @ \cup {f}]
  /\ UNCHANGED <<pack, stage, outcome, slug, chan, ui, cut, reused>>

\* After the last file comes the next stage.
All(i, at, then) ==
  /\ Advance(i, at, then) /\ handled[i] = Wanted(i)
  /\ handled' = [handled EXCEPT ![i] = {}]
  /\ UNCHANGED <<pack, outcome, slug, inst, chan, ui, cut, reused>>

\* The game version is installed unless it is there (it is shared by all
\* instances); then files are downloaded and verified, several at a time.
Fetch(i, f) == Each(i, f, "download") /\ WriteDir(i, [Site(i) EXCEPT !.tmp = @ \cup {f}])
Fetched(i) == All(i, "download", "rows")

\* upsert_mod; the ledger makes its directory if need be.
UpsertRow(i, f) == Each(i, f, "rows") /\ WriteDir(i, [Site(i) EXCEPT !.rows = @ \cup {f}])

RowsDone(i) == All(i, "rows", "rename")

\* Every file is looked for in mods, wherever the modpack wants it.
RenameJar(i, f) ==
  /\ Each(i, f, "rename") /\ f \in Of(i).tmp \cap InMods
  /\ WriteDir(i, [Of(i) EXCEPT !.tmp = @ \ {f}, !.jars = @ \cup {f}])
Renamed(i) == All(i, "rename", "overrides")

Overrides(i) ==
  /\ Advance(i, "overrides", IF pack[i].loader THEN "loader" ELSE "final")
  /\ WriteDir(i, [Site(i) EXCEPT !.overrides = TRUE])
  /\ UNCHANGED <<pack, outcome, slug, handled, chan, ui, cut, reused>>

\* install_loader, which writes the manifest.
Loader(i) ==
  /\ Advance(i, "loader", "final") /\ Of(i).listed
  /\ WriteDir(i, [Of(i) EXCEPT !.loader = TRUE])
  /\ UNCHANGED <<pack, outcome, slug, handled, chan, ui, cut, reused>>

Decide(i, what) == outcome' = [outcome EXCEPT ![i] = what]

\* What an import knows ends with it.
EndImports(ending) ==
  /\ stage' = [i \in Imports |-> IF i \in ending THEN "ended" ELSE stage[i]]
  /\ outcome' = [i \in Imports |-> IF i \in ending THEN "none" ELSE outcome[i]]
  /\ slug' = [i \in Imports |-> IF i \in ending THEN Nil ELSE slug[i]]
  /\ handled' = [i \in Imports |-> IF i \in ending THEN {} ELSE handled[i]]

\* The manifest is read and written again.
FinalWrite(i) ==
  /\ Advance(i, "final", "report") /\ Of(i).listed
  /\ Decide(i, "Imported")
  /\ UNCHANGED <<pack, importDisk, chan, ui, cut, reused>>

\* Failing here leaves the instance where it is.
FinalWriteFails(i) ==
  /\ Advance(i, "final", "report")
  /\ Decide(i, "Failed")
  /\ UNCHANGED <<pack, importDisk, chan, ui, cut, reused>>

-----------------------------------------------------------------------------
(* Failure, roll-back and report. *)

Inner == {"download", "rows", "rename", "overrides", "loader"}

\* Any step may fail; only what fails after the creation is rolled back.
StepFails(i) ==
  /\ stage[i] \in {"create", "named"} \cup Inner
  /\ stage' = [stage EXCEPT ![i] = IF stage[i] \in Inner THEN "rollback" ELSE "report"]
  /\ \/ Decide(i, "Failed")
     \/ i \in cancelled /\ stage[i] # "named" /\ Decide(i, "Cancelled")   \* seen in time
  /\ handled' = [handled EXCEPT ![i] = {}]
  /\ UNCHANGED <<pack, slug, inst, chan, ui, cut, reused>>

\* Plausible bug: the report is sent and the directory left.
RollbackNothing(i) ==
  /\ Advance(i, "rollback", "report")
  /\ UNCHANGED <<pack, outcome, importDisk, chan, ui, cut, reused>>

\* remove_dir_all, whoever the directory belongs to by then; an error is ignored.
Rollback(i) ==
  /\ Advance(i, "rollback", "report")
  /\ \/ WriteDir(i, NoDir) /\ UNCHANGED cut
     \/ cut' = cut \cup {i} /\ UNCHANGED inst
  /\ UNCHANGED <<pack, outcome, slug, handled, chan, ui, reused>>

Report(i) ==
  /\ stage[i] = "report" /\ EndImports({i})
  /\ chan' = Append(chan, <<outcome[i], i>>)
  /\ UNCHANGED <<pack, inst, ui, cut, reused>>

\* The task pool drops a cancelled job.
Drop(i) ==
  /\ i \in cancelled /\ UnderWay(i)
  /\ EndImports({i})
  /\ cut' = cut \cup {i}
  /\ UNCHANGED <<pack, inst, chan, ui, reused>>

\* The process ends; the next one knows nothing of the imports.
CrashImports ==
  LET dropped == {i \in Imports : UnderWay(i)} IN
  /\ dropped # {}
  /\ EndImports(dropped)
  /\ cut' = cut \cup dropped
  /\ chan' = <<>> /\ dialog' = "list" /\ running' = Nil
  /\ UNCHANGED <<pack, inst, cancelled, crossed, reused>>

-----------------------------------------------------------------------------
(* The keys. *)

importJob == <<pack, outcome, importDisk, cut, reused>>

OpenModpackImport ==
  /\ dialog = "list" /\ dialog' = "path"
  /\ UNCHANGED <<importJob, stage, chan, cancelled, running, crossed>>

\* The dialogue stays open until the job announces itself.
ImportPathSubmit(i) ==
  /\ dialog = "path" /\ Advance(i, "none", "queued")
  /\ LET others == {j \in Imports \ {i} : UnderWay(j) \/ ~Heard(j)} IN
     crossed' = IF others = {} THEN crossed ELSE crossed \cup others \cup {i}
  /\ UNCHANGED <<importJob, chan, cancelled, dialog, running>>

ImportPathCancel ==
  /\ dialog = "path" /\ dialog' = "list"
  /\ UNCHANGED <<importJob, stage, chan, cancelled, running, crossed>>

\* Takes the token, if there is one, and fires it.
CancelModpackImport ==
  /\ dialog \in Imports /\ dialog' = "list"
  /\ running' = Nil
  /\ cancelled' = cancelled \cup ({running} \ {Nil})
  /\ UNCHANGED <<importJob, stage, chan, crossed>>

DismissModpackImportFailed ==
  /\ dialog = "failed" /\ dialog' = "list"
  /\ UNCHANGED <<importJob, stage, chan, cancelled, running, crossed>>

\* An import does not keep its instance from being deleted.
DeleteInstance(s) ==
  /\ dialog = "list" /\ inst[s].listed
  /\ inst' = [inst EXCEPT ![s] = NoDir]
  /\ LET losing == {i \in Imports : UnderWay(i) /\ stage[i] # "named" /\ slug[i] = s} IN
     /\ cut' = cut \cup losing
     /\ reused' = IF losing = {} THEN reused ELSE reused \cup {s}
  /\ UNCHANGED <<pack, stage, outcome, slug, handled, chan, ui>>

-----------------------------------------------------------------------------
(* The interface receives an action. *)

Receive(kind) == chan # <<>> /\ Head(chan)[1] = kind /\ chan' = Tail(chan)

\* Plausible bug: the token is not kept.
ModpackImportStartedOnly ==
  /\ Receive("Started")
  /\ dialog' = Head(chan)[2]
  /\ UNCHANGED <<importJob, stage, running, cancelled, crossed>>

ModpackImportStarted ==
  /\ Receive("Started")
  /\ running' = Head(chan)[2] /\ dialog' = Head(chan)[2]
  /\ UNCHANGED <<importJob, stage, cancelled, crossed>>

\* The entry it removes is that of the real name, which nobody made.
ModpackImported ==
  /\ Receive("Imported")
  /\ dialog' = "list"
  /\ UNCHANGED <<importJob, stage, running, cancelled, crossed>>

ModpackImportCancelled ==
  /\ Receive("Cancelled")
  /\ running' = Nil /\ dialog' = "list"
  /\ UNCHANGED <<importJob, stage, cancelled, crossed>>

ModpackImportFailed ==
  /\ Receive("Failed")
  /\ running' = Nil /\ dialog' = "failed"
  /\ UNCHANGED <<importJob, stage, cancelled, crossed>>

\* What another job reports takes the place of whatever is shown.
OtherReport ==
  /\ dialog # "list" /\ dialog' = "list"
  /\ UNCHANGED <<importJob, stage, chan, cancelled, running, crossed>>

ImportStep(i) ==
  \/ StartImport(i) \/ Choose(i) \/ Create(i)
  \/ \E f \in Files : Fetch(i, f) \/ UpsertRow(i, f) \/ RenameJar(i, f)
  \/ Fetched(i) \/ RowsDone(i) \/ Renamed(i) \/ Overrides(i) \/ Loader(i)
  \/ FinalWrite(i) \/ FinalWriteFails(i) \/ StepFails(i) \/ Rollback(i) \/ Report(i) \/ Drop(i)

ImportKeys ==
  \/ OpenModpackImport \/ ImportPathCancel \/ CancelModpackImport
  \/ DismissModpackImportFailed
  \/ \E i \in Imports : ImportPathSubmit(i)
  \/ \E s \in Dirs : DeleteInstance(s)

ImportListen ==
  \/ ModpackImportStarted \/ ModpackImported
  \/ ModpackImportCancelled \/ ModpackImportFailed \/ OtherReport

ImportNext == ImportKeys \/ ImportListen \/ CrashImports \/ \E i \in Imports : ImportStep(i)

ImportSpec == ImportInit /\ [][ImportNext]_importVars

-----------------------------------------------------------------------------
(* Properties. *)

\* Types; a directory is removed, or filled, only by an import that has one.
ImportTypeOK ==
  /\ pack \in [Imports -> Modpacks] /\ stage \in [Imports -> ImportStages]
  /\ outcome \in [Imports -> {"none", "Imported", "Cancelled", "Failed"}]
  /\ slug \in [Imports -> Dirs \cup {Nil}] /\ handled \in [Imports -> SUBSET Files]
  /\ inst \in [Dirs -> [home : Imports \cup {Nil}, listed : BOOLEAN,
       tmp : SUBSET Files, jars : SUBSET Files, rows : SUBSET Files,
       overrides : BOOLEAN, loader : BOOLEAN]]
  /\ chan \in Seq({"Started", "Imported", "Cancelled", "Failed"} \X Imports)
  /\ dialog \in Views /\ running \in Imports \cup {Nil}
  /\ \A i \in Imports : stage[i] \in {"named", "rollback", "final"} \cup Inner => slug[i] \in Dirs
  /\ cancelled \cup cut \cup crossed \subseteq Imports /\ reused \subseteq Dirs

\* An instance whose import has ended is complete - or there is none: a failure
\* leaves no instance behind, whichever step fails - unless the import was
\* dropped, lost its directory, could not remove it, or has a directory that two
\* imports found to be free, or that was deleted under one (modpack/service.rs:9).
\* Of two imports in one directory, the roll-back of one takes the other's files.
WholeOrGone ==
  \A s \in Dirs \ reused : \A i \in Imports \ cut :
    inst[s].listed /\ inst[s].home = i /\ stage[i] = "ended" =>
      /\ inst[s].jars = Wanted(i) /\ inst[s].rows = Wanted(i)
      /\ inst[s].overrides /\ inst[s].loader = pack[i].loader

\* The token of an import that has announced itself is kept as long as it is under
\* way, and progress that is shown is its own, so that Escape cancels it and nothing
\* else - unless it was under way together with another import: there is one place
\* for the tokens of all (tui/app.rs:448).
TokenKept ==
  \A i \in Imports \ (crossed \cup cancelled) :
    UnderWay(i) /\ stage[i] # "queued" /\ ~Announcing(i) =>
      running = i /\ (dialog \in Imports => dialog = i)
=============================================================================
