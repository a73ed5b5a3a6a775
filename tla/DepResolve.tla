------------------------------ MODULE DepResolve ------------------------------
(***************************************************************************)
(* A mod is installed with what it requires: the walk over the             *)
(* dependencies (mods/dep_resolve.rs, ModrinthService::                    *)
(* resolve_dependencies), the dialogue that shows them (DepConfirmModal,   *)
(* tui/app.rs) and the install of the plan (build_install_plan and         *)
(* install_mods_into_instance, mods/installer.rs).                         *)
(*                                                                         *)
(* The user has chosen a version of the project Root.  Of every other      *)
(* project the newest version that fits counts, and so it does of Root     *)
(* when another mod requires it.  A version is named by its project, the   *)
(* chosen one by Chosen.  The ledger is read once, before the walk, and    *)
(* other operations go on changing it.  What is optional or embedded is    *)
(* only listed and is left out.                                            *)
(***************************************************************************)
EXTENDS Naturals, Sequences

CONSTANTS Projects,    \* the projects there are
          Root,        \* the one that is being installed
          Chosen,      \* the version of it that was picked
          MaxOthers,   \* bound on the rows that other operations change
          MaxMishaps   \* bound on errors and cancellations

\* What the constants have to be.
ASSUME GraphAssumption ==
  /\ Root \in Projects /\ Chosen \notin Projects
  /\ MaxOthers \in Nat /\ MaxMishaps \in Nat

Releases == Projects \cup {Chosen}
Project(v) == IF v = Chosen THEN Root ELSE v

VARIABLES
  needs,      \* version -> the projects it requires
  bars,       \* version -> the projects it is incompatible with
  newest,     \* whether Chosen is Root's newest version
  rows,       \* the projects in the instance's ledger
  phase,      \* how far the install has got
  known,      \* the projects that were in the ledger when it was read
  met,        \* projects the walk has met, and those it knew
  queue,      \* versions whose dependencies it has still to look at
  required,   \* of the version it is looking at: those it has not come to
  barred,
  planned,    \* the versions that are to be downloaded, besides Chosen
  conflicts,  \* projects listed as incompatible
  step,       \* version -> how far its download has got
  tmp,        \* files that are there under their temporary name
  gone,       \* (of the model) projects others removed after the ledger was read
  others, mishaps

resolveVars == <<needs, bars, newest, rows, phase, known, met, queue, required, barred, planned,
                 conflicts, step, tmp, gone, others, mishaps>>
graph == <<needs, bars, newest>>
walk == <<known, met, queue, required, barred, planned, conflicts>>
install == <<step, tmp>>

Plan == {Chosen} \cup planned

ResolveInit ==
  /\ needs \in [Releases -> SUBSET Projects]
  /\ bars \in [Releases -> SUBSET Projects]
  /\ newest \in BOOLEAN
  /\ rows \in SUBSET Projects
  /\ phase = "asked"
  /\ known = {} /\ met = {} /\ queue = <<>>
  /\ required = {} /\ barred = {} /\ planned = {} /\ conflicts = {}
  /\ step = [v \in Releases |-> "none"]
  /\ tmp = {} /\ gone = {}
  /\ others = 0 /\ mishaps = 0

Mishap == mishaps < MaxMishaps /\ mishaps' = mishaps + 1

-----------------------------------------------------------------------------
(* The walk. *)

\* The chosen version is fetched, then the ledger is read.
ReadLedger ==
  /\ phase = "asked"
  /\ phase' = "walking"
  /\ known' = rows /\ met' = rows
  /\ queue' = <<Chosen>>
  /\ UNCHANGED <<graph, rows, required, barred, planned, conflicts, install, gone, others, mishaps>>

LookedAtAll == required = {} /\ barred = {}

TakeVersion ==
  /\ phase = "walking" /\ LookedAtAll /\ queue # <<>>
  /\ queue' = Tail(queue)
  /\ required' = needs[Head(queue)]
  /\ barred' = bars[Head(queue)]
  /\ UNCHANGED <<graph, rows, phase, known, met, planned, conflicts, install, gone, others, mishaps>>

\* An incompatible project that is installed ends it; one that is not is listed.
Incompatible(p) ==
  /\ phase = "walking" /\ p \in barred
  /\ barred' = barred \ {p}
  /\ IF p \in known
     THEN phase' = "conflict" /\ UNCHANGED conflicts
     ELSE conflicts' = conflicts \cup {p} /\ UNCHANGED phase
  /\ UNCHANGED <<graph, rows, known, met, queue, required, planned, install, gone, others, mishaps>>

\* One that has been met before is taken to be seen to.
Satisfied(p) ==
  /\ phase = "walking" /\ p \in required /\ p \in met
  /\ required' = required \ {p}
  /\ UNCHANGED <<graph, rows, phase, known, met, queue, barred, planned, conflicts, install,
                 gone, others, mishaps>>

\* Any other is marked before its newest version is asked for.  The chosen
\* version's own project is not marked from the start.
Required(p) ==
  /\ phase = "walking" /\ p \in required /\ p \notin met
  /\ required' = required \ {p}
  /\ met' = met \cup {p}
  /\ queue' = Append(queue, p)
  /\ planned' = planned \cup {p}
  /\ UNCHANGED <<graph, rows, phase, known, barred, conflicts, install, gone, others, mishaps>>

\* A request fails, or no version fits.
WalkFails ==
  /\ phase \in {"asked", "walking"}
  /\ phase' = "failed"
  /\ Mishap
  /\ UNCHANGED <<graph, rows, walk, install, gone, others>>

\* ModDepsResolved.
Resolved ==
  /\ phase = "walking" /\ LookedAtAll /\ queue = <<>>
  /\ phase' = "shown"
  /\ UNCHANGED <<graph, rows, walk, install, gone, others, mishaps>>

-----------------------------------------------------------------------------
(* The dialogue. *)

\* ConfirmModInstall does nothing when an incompatible project is listed.
ConfirmModInstall ==
  /\ phase = "shown" /\ conflicts = {}
  /\ phase' = "installing"
  /\ step' = [v \in Releases |-> IF v \in Plan THEN "waiting" ELSE "none"]
  /\ UNCHANGED <<graph, rows, walk, tmp, gone, others, mishaps>>

CancelModInstall ==
  /\ phase = "shown"
  /\ phase' = "cancelled"
  /\ UNCHANGED <<graph, rows, walk, install, gone, others, mishaps>>

-----------------------------------------------------------------------------
(* The install: a task for each version of the plan. *)

\* Plausible bug: a temporary file bears the name of its project.
FileOfProject(v) == Project(v)

\* The newest version of Root has the file of the chosen one if it is that one.
FileOf(v) == IF v = Chosen /\ newest THEN Root ELSE v

Goes(v, from, to) == phase = "installing" /\ step[v] = from /\ step' = [step EXCEPT ![v] = to]

Download(v) ==
  /\ Goes(v, "waiting", "fetched")
  /\ tmp' = tmp \cup {FileOf(v)}
  /\ UNCHANGED <<graph, rows, phase, walk, gone, others, mishaps>>

UpsertRow(v) ==
  /\ Goes(v, "fetched", "listed")
  /\ rows' = rows \cup {Project(v)}
  /\ UNCHANGED <<graph, phase, walk, tmp, gone, others, mishaps>>

Place(v) ==
  /\ FileOf(v) \in tmp
  /\ Goes(v, "listed", "placed")
  /\ tmp' = tmp \ {FileOf(v)}
  /\ phase' = phase
  /\ UNCHANGED <<graph, rows, walk, gone, others, mishaps>>

\* The rename finds nothing; the tasks that are left are aborted.
NotThere(v) ==
  /\ phase = "installing" /\ step[v] = "listed" /\ FileOf(v) \notin tmp
  /\ phase' = "failed"
  /\ UNCHANGED <<graph, rows, walk, install, gone, others, mishaps>>

\* An error in one task, or a cancellation: the others are aborted where they are.
InstallFails ==
  /\ phase = "installing"
  /\ phase' = "failed"
  /\ Mishap
  /\ UNCHANGED <<graph, rows, walk, install, gone, others>>

\* Plausible bug: the install is over when the chosen version is in place.
DoneWithChosen == step[Chosen] = "placed"

AllPlaced == \A v \in Plan : step[v] = "placed"

ModInstalled ==
  /\ phase = "installing" /\ AllPlaced
  /\ phase' = "done"
  /\ UNCHANGED <<graph, rows, walk, install, gone, others, mishaps>>

-----------------------------------------------------------------------------
\* Another operation installs or removes a mod.
Other(p) ==
  /\ phase \in {"walking", "shown", "installing"}
  /\ others < MaxOthers /\ others' = others + 1
  /\ \/ p \in rows /\ rows' = rows \ {p} /\ gone' = gone \cup {p}
     \/ p \notin rows /\ rows' = rows \cup {p} /\ UNCHANGED gone
  /\ UNCHANGED <<graph, phase, walk, install, mishaps>>

Walk ==
  \/ ReadLedger \/ TakeVersion
  \/ \E p \in Projects : Incompatible(p) \/ Satisfied(p) \/ Required(p)
  \/ Resolved \/ WalkFails

Install ==
  \/ \E v \in Releases : Download(v) \/ UpsertRow(v) \/ Place(v) \/ NotThere(v)
  \/ InstallFails \/ ModInstalled

ResolveNext ==
  \/ Walk
  \/ ConfirmModInstall \/ CancelModInstall
  \/ Install
  \/ \E p \in Projects : Other(p)

ResolveSpec == ResolveInit /\ [][ResolveNext]_resolveVars

-----------------------------------------------------------------------------
(* Properties. *)

\* Every variable holds what its comment says.
ResolveTypeOK ==
  /\ needs \in [Releases -> SUBSET Projects] /\ bars \in [Releases -> SUBSET Projects]
  /\ newest \in BOOLEAN
  /\ rows \subseteq Projects /\ known \subseteq Projects /\ met \subseteq Projects
  /\ phase \in {"asked", "walking", "conflict", "shown", "cancelled", "installing", "failed", "done"}
  /\ queue \in Seq(Releases)
  /\ required \subseteq Projects /\ barred \subseteq Projects
  /\ planned \subseteq Projects /\ conflicts \subseteq Projects
  /\ step \in [Releases -> {"none", "waiting", "fetched", "listed", "placed"}]
  /\ tmp \subseteq Releases /\ gone \subseteq Projects
  /\ others \in 0..MaxOthers /\ mishaps \in 0..MaxMishaps

\* After an install that ended well everything it installed, and everything
\* that requires, is in the ledger, but for what others have removed since the
\* ledger was read: whatever the graph, cycles included, the walk has missed
\* nothing.
DependenciesPresent ==
  phase = "done" =>
    \A v \in Plan : {Project(v)} \cup needs[v] \subseteq rows \cup gone

\* No mod is installed that is incompatible with one that was there or that
\* comes with it.
NothingBarred ==
  phase \in {"installing", "done"} =>
    \A v \in Plan : bars[v] \cap (known \cup planned \cup {Root}) = {}

\* A project is downloaded once, and not when it is there; but a mod that comes
\* along may require Root itself, and then its newest version is planned beside
\* the chosen one.
PlannedOnce ==
  /\ planned \cap known = {}
  /\ Root \in planned => \E v \in Plan : Root \in needs[v]

\* An install fails for a reason: an error, a cancellation, or two downloads of
\* one file that was planned twice.
FailsForAReason ==
  phase = "failed" => mishaps > 0 \/ (newest /\ Root \in planned)

\* dep_confirm_modal.rs:161 says of a project listed as incompatible that it
\* conflicts with an installed mod.
ConflictIsReal == phase = "shown" => conflicts \subseteq known \cup rows

\* dep_resolve.rs:9 says that each project is processed once.
EachProjectOnce == Root \notin planned
=============================================================================
