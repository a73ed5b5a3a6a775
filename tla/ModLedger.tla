------------------------------ MODULE ModLedger ------------------------------
(***************************************************************************)
(* The mods of one instance: the files of its mods directory and the rows  *)
(* of its ledger (mods/ledger.rs), changed by operations that run          *)
(* concurrently: installs (mods/installer.rs, mods/curseforge/service.rs), *)
(* enable and disable, and uninstall (mods/service.rs).                    *)
(*                                                                         *)
(* The ledger file is read, changed and replaced under the lock of the     *)
(* instance.  An install takes that lock for its row only: it downloads    *)
(* before and renames the verified .tmp into place after, without it.      *)
(* Operations are cut short by failing calls, by cancellation (installs    *)
(* run in cancellable jobs) and by the end of the process.  A call to the  *)
(* file system that is under way when its operation is cancelled is taken  *)
(* to end before the lock changes hands.                                   *)
(***************************************************************************)
EXTENDS FiniteSets

CONSTANTS Mods,          \* mod_id
          Versions,      \* version_id; a file name belongs to one version of one mod
          Ops,           \* the operations of one behaviour
          Requests,      \* what an operation may be asked to do
          Preinstalled,  \* the rows, with their files, that are there at first
          Mishaps,       \* which of "io", "cancel", "crash" may happen
          NoOp           \* nobody: the lock is free

Kinds == {"install", "enable", "disable", "uninstall"}
Request == [kind : Kinds, mod : Mods, version : Versions]
Row == [mod : Mods, version : Versions, enabled : BOOLEAN]

ASSUME RequestsAssumption == Requests \subseteq Request
ASSUME PreinstalledAssumption ==
  /\ Preinstalled \subseteq Row
  /\ \A r, s \in Preinstalled : r.mod = s.mod => r = s
ASSUME NoOpAssumption == NoOp \notin Ops
ASSUME MishapsAssumption == Mishaps \subseteq {"io", "cancel", "crash"}

VARIABLES
  req,       \* what each operation is asked to do
  pc,        \* how far it has got
  lock,      \* the holder of per_instance_lock(slug)
  snap,      \* the ledger as the holder read it
  ledger,    \* installed-mods.toml, a set of rows
  disk,      \* the files of mods/: <<mod, version, form>>
  disturbed  \* (of the model) mods to which happened what the code cannot repair

vars == <<req, pc, lock, snap, ledger, disk, disturbed>>

Forms == {"jar", "disabled", "tmp"}
Stages == {"idle", "fetching", "checking", "waiting", "moving", "writing",
           "placing", "done"}

RowsOf(rows, m) == {r \in rows : r.mod = m}
Flipped(r) == [r EXCEPT !.enabled = ~@]
FileOf(r) == <<r.mod, r.version, IF r.enabled THEN "jar" ELSE "disabled">>

InFlight(o) == pc[o] \notin {"idle", "done"}
NewRow(o) == [mod |-> req[o].mod, version |-> req[o].version, enabled |-> TRUE]
Tmp(o) == <<req[o].mod, req[o].version, "tmp">>

Init ==
  /\ req \in [Ops -> Requests]
  /\ pc = [o \in Ops |-> "idle"]
  /\ lock = NoOp
  /\ snap = [o \in Ops |-> {}]
  /\ ledger = Preinstalled
  /\ disk = {FileOf(r) : r \in Preinstalled}
  /\ disturbed = {}

-----------------------------------------------------------------------------
\* Two ways to part disk and ledger that need no mishap: an install that
\* overlaps another operation on its mod (an install holds no lock around
\* its rename), and one that replaces a row of another file, which it leaves.
Overlaps(o) ==
  \E p \in Ops : /\ InFlight(p)
                 /\ req[p].mod = req[o].mod
                 /\ "install" \in {req[p].kind, req[o].kind}
Replaces(o) ==
  req[o].kind = "install" /\ \E r \in RowsOf(ledger, req[o].mod) : r # NewRow(o)

\* An operation starts: an install downloads, enable and disable look at the
\* row first, uninstall goes for the lock.
FirstStage(kind) ==
  CASE kind = "install" -> "fetching"
    [] kind = "uninstall" -> "waiting"
    [] OTHER -> "checking"
Begin(o) ==
  /\ pc[o] = "idle"
  /\ pc' = [pc EXCEPT ![o] = FirstStage(req[o].kind)]
  /\ disturbed' = IF Overlaps(o) \/ Replaces(o)
                    THEN disturbed \cup {req[o].mod} ELSE disturbed
  /\ UNCHANGED <<req, lock, snap, ledger, disk>>

\* Plausible bug: the install holds the lock from its first step on, and
\* upsert_mod then waits for it (tokio's Mutex is not reentrant).
FetchLocked(o) ==
  /\ pc[o] = "fetching"
  /\ lock = NoOp
  /\ lock' = o
  /\ pc' = [pc EXCEPT ![o] = "waiting"]
  /\ disk' = disk \cup {Tmp(o)}
  /\ UNCHANGED <<req, snap, ledger, disturbed>>

\* The download: the verified bytes are in <file>.tmp.
Fetch(o) ==
  /\ pc[o] = "fetching"
  /\ pc' = [pc EXCEPT ![o] = "waiting"]
  /\ disk' = disk \cup {Tmp(o)}
  /\ UNCHANGED <<req, lock, snap, ledger, disturbed>>

\* enable_mod and disable_mod read the ledger without the lock: nothing to do
\* if the row is missing or already as wanted.
Wanted(o) == req[o].kind = "enable"
Check(o) ==
  /\ pc[o] = "checking"
  /\ pc' = [pc EXCEPT ![o] =
              IF \E r \in RowsOf(ledger, req[o].mod) : r.enabled # Wanted(o)
                THEN "waiting" ELSE "done"]
  /\ UNCHANGED <<req, lock, snap, ledger, disk, disturbed>>

ReadThen(o) ==
  /\ pc[o] = "waiting"
  /\ snap' = [snap EXCEPT ![o] = ledger]
  /\ IF req[o].kind # "install" /\ RowsOf(ledger, req[o].mod) = {}
       THEN pc' = [pc EXCEPT ![o] = "done"] /\ lock' = lock
       ELSE /\ pc' = [pc EXCEPT ![o] =
                        IF req[o].kind = "install" THEN "writing" ELSE "moving"]
            /\ lock' = o
  /\ UNCHANGED <<req, ledger, disk, disturbed>>

\* Plausible bug: the read does not wait for the lock.
LockAndReadUnlocked(o) == ReadThen(o)

\* The operation gets the lock and reads the ledger; toggle_enabled and
\* uninstall end with ModNotFound, the guard dropped, if the row is missing.
LockAndRead(o) == lock = NoOp /\ ReadThen(o)

Release(o, stage) ==
  /\ pc' = [pc EXCEPT ![o] = stage]
  /\ lock' = IF lock = o THEN NoOp ELSE lock

\* toggle_enabled renames the file that the row says is there; if it is not
\* there, the rename fails and the row is left as it was.
Rename(o) ==
  /\ pc[o] = "moving"
  /\ req[o].kind \in {"enable", "disable"}
  /\ \E r \in RowsOf(snap[o], req[o].mod) :
       IF FileOf(r) \in disk
         THEN /\ disk' = (disk \ {FileOf(r)}) \cup {FileOf(Flipped(r))}
              /\ pc' = [pc EXCEPT ![o] = "writing"]
              /\ lock' = lock
         ELSE Release(o, "done") /\ disk' = disk
  /\ UNCHANGED <<req, snap, ledger, disturbed>>

RemoveAs(o, enabled(_)) ==
  /\ pc[o] = "moving"
  /\ req[o].kind = "uninstall"
  /\ \E r \in RowsOf(snap[o], req[o].mod) :
       disk' = disk \ {FileOf([r EXCEPT !.enabled = enabled(r)])}
  /\ pc' = [pc EXCEPT ![o] = "writing"]
  /\ UNCHANGED <<req, lock, snap, ledger, disturbed>>

\* Plausible bug: uninstall forgets that a disabled mod has another file name.
RemoveJar(o) == RemoveAs(o, LAMBDA r : TRUE)

\* uninstall removes the file the row names; it need not be there.
Remove(o) == RemoveAs(o, LAMBDA r : r.enabled)

\* The row is replaced, flipped or dropped in the copy that was read.
Without(rows, m) == {r \in rows : r.mod # m}
Changed(o) ==
  CASE req[o].kind = "install" -> {Without(snap[o], req[o].mod) \cup {NewRow(o)}}
    [] req[o].kind = "uninstall" -> {Without(snap[o], req[o].mod)}
    [] OTHER -> {(snap[o] \ {r}) \cup {Flipped(r)} : r \in RowsOf(snap[o], req[o].mod)}

\* write_ledger replaces the file, and the guard is dropped.
Write(o) ==
  /\ pc[o] = "writing"
  /\ ledger' \in Changed(o)
  /\ Release(o, IF req[o].kind = "install" THEN "placing" ELSE "done")
  /\ UNCHANGED <<req, snap, disk, disturbed>>

\* The install renames its .tmp into place; another install of the same file
\* may have taken it.
Place(o) ==
  /\ pc[o] = "placing"
  /\ disk' = IF Tmp(o) \in disk
               THEN (disk \ {Tmp(o)}) \cup {FileOf(NewRow(o))} ELSE disk
  /\ pc' = [pc EXCEPT ![o] = "done"]
  /\ UNCHANGED <<req, lock, snap, ledger, disturbed>>

-----------------------------------------------------------------------------
\* An operation has changed one of file and row, and not yet the other.
HalfDone(o) ==
  \/ pc[o] = "placing"
  \/ pc[o] = "writing" /\ req[o].kind # "install"

CutShort(o) ==
  /\ disturbed' = IF HalfDone(o) THEN disturbed \cup {req[o].mod} ELSE disturbed
  /\ UNCHANGED <<req, snap, ledger>>

\* A download, rename, removal, read or write fails and the operation returns
\* the error.  A Modrinth install then removes its .tmp, a CurseForge install
\* does so only if its rename failed.
Fail(o) ==
  /\ "io" \in Mishaps
  /\ InFlight(o)
  /\ CutShort(o)
  /\ Release(o, "done")
  /\ \/ disk' = disk
     \/ req[o].kind = "install" /\ disk' = disk \ {Tmp(o)}

\* The job of an install is cancelled, or a sibling of its plan fails and
\* abort_all drops it; the guard it may hold is dropped with it.
Cancel(o) ==
  /\ "cancel" \in Mishaps
  /\ InFlight(o) /\ req[o].kind = "install"
  /\ CutShort(o)
  /\ Release(o, "done")
  /\ UNCHANGED disk

\* The process ends; the files stay as they are.
Crash ==
  /\ "crash" \in Mishaps
  /\ \E o \in Ops : InFlight(o)
  /\ pc' = [o \in Ops |-> IF InFlight(o) THEN "done" ELSE pc[o]]
  /\ lock' = NoOp
  /\ disturbed' = disturbed \cup {req[o].mod : o \in {p \in Ops : HalfDone(p)}}
  /\ UNCHANGED <<req, snap, ledger, disk>>

Step(o) == \/ Fetch(o) \/ Check(o) \/ LockAndRead(o) \/ Rename(o) \/ Remove(o)
           \/ Write(o) \/ Place(o)

Next == Crash \/ \E o \in Ops : Begin(o) \/ Step(o) \/ Fail(o) \/ Cancel(o)

Spec == Init /\ [][Next]_vars

\* The runtime polls every operation that can go on.
FairSpec == Spec /\ \A o \in Ops : WF_vars(Step(o))

-----------------------------------------------------------------------------
(* Properties. *)

\* Types, and the lock belongs to nobody but the operation in its critical section.
TypeOK ==
  /\ req \in [Ops -> Requests]
  /\ pc \in [Ops -> Stages]
  /\ lock \in Ops \cup {NoOp}
  /\ lock # NoOp => pc[lock] \in {"moving", "writing"}
  /\ snap \in [Ops -> SUBSET Row]
  /\ ledger \subseteq Row
  /\ disk \subseteq Mods \X Versions \X Forms
  /\ disturbed \subseteq Mods

\* A mod has at most one row, so the first match that every function of
\* ledger.rs looks for is the only one.
OneRowPerMod == \A r, s \in ledger : r.mod = s.mod => r = s

\* No mutation of the ledger is lost: each one is made to the table as it is
\* when the file is replaced (the purpose of per_instance_lock, ledger.rs:48-51).
Table == INSTANCE ItemLedger WITH rows <- ledger
ImplementsItemLedger == Table!Spec

\* The files of a mod are the ones its rows name, in the form they name.
Busy(m) == \E o \in Ops : InFlight(o) /\ req[o].mod = m
Agree(m) ==
  \A v \in Versions, form \in {"jar", "disabled"} :
    <<m, v, form>> \in disk
      <=> [mod |-> m, version |-> v, enabled |-> form = "jar"] \in ledger

\* Whatever interleaving enable, disable and uninstall run in, and whatever
\* else is installed, cancelled or fails meanwhile, the files and the rows of
\* a mod agree when no operation on it is in flight, unless the mod is disturbed.
UndisturbedAgree == \A m \in Mods \ disturbed : ~Busy(m) => Agree(m)

\* ledger.rs:5-8 claims it of all mods and without exception.
AllAgree == \A m \in Mods : ~Busy(m) => Agree(m)

\* Every operation that starts ends, whatever the others do: none keeps the
\* lock or waits for itself (curseforge/service.rs:225-231).
EveryOpEnds == \A o \in Ops : (pc[o] # "idle") ~> (pc[o] = "done")
=============================================================================
