------------------------------- MODULE PackFiles -------------------------------
(***************************************************************************)
(* The resource and shader packs of one instance: the files of its two     *)
(* pack directories and their rows in the ledger it shares with the mods   *)
(* (mods/ledger.rs).  Packs are downloaded (packs/service.rs), dropped in  *)
(* from a path (packs/install.rs), turned on and off and uninstalled.      *)
(*                                                                         *)
(* An install puts its row down before it renames <file>.tmp into place; a *)
(* dropped file is written under its own name and gets its row last; only  *)
(* toggle and uninstall hold the lock of the ledger over row and file.     *)
(* Nothing keeps two of them apart: running_pack_jobs, which is to hold    *)
(* back the keys, is never filled.                                         *)
(***************************************************************************)
CONSTANTS PackIds,       \* mod_id: a project, or local:<sha1> of a dropped file
          Names,         \* file names
          Hashes,        \* contents, and their SHA-1
          PackOps,       \* the operations of one behaviour
          PackRequests,  \* what an operation may be asked to do
          Preinstalled,  \* the rows, with their files, that are there at first
          NoOp, Absent, Torn

Packs == {"resource", "shader"}
Kinds == {"install", "drop", "toggle", "uninstall"}
Forms == {"zip", "disabled", "tmp"}
Row == [id : PackIds, pack : Packs, name : Names, hash : Hashes, enabled : BOOLEAN]
PackRequest == [kind : Kinds, id : PackIds, pack : Packs, name : Names, hash : Hashes]

VARIABLES
  wanted,  \* what each operation is asked to do
  at,      \* how far it has got
  writing, \* the path of the file it is writing
  lock,    \* the holder of per_instance_lock(slug)
  snap,    \* the ledger as the holder read it
  ledger,  \* installed-mods.toml, a set of rows
  files,   \* what is at each <<pack, name, form>>
  spoilt   \* (of the model) files, <<pack, name>>, that met what the code cannot repair

packVars == <<wanted, at, writing, lock, snap, ledger, files, spoilt>>

PackStages == {"idle", "asked", "ready", "open", "written", "placing", "moving",
               "rewriting", "done"}
Targets == Packs \X Names
Paths == Targets \X Forms
Nowhere == <<>>

TargetOf(r) == <<r.pack, r.name>>
FileOf(r) == <<TargetOf(r), IF r.enabled THEN "zip" ELSE "disabled">>
Flipped(r) == [r EXCEPT !.enabled = ~@]
Goal(o) == TargetOf(wanted[o])
Final(o) == <<Goal(o), "zip">>
Tmp(o) == <<Goal(o), "tmp">>
NewRow(o) == [id |-> wanted[o].id, pack |-> wanted[o].pack, name |-> wanted[o].name,
              hash |-> wanted[o].hash, enabled |-> TRUE]

ASSUME PackRequestsAssumption == PackRequests \subseteq PackRequest
ASSUME PreinstalledAssumption ==
  /\ Preinstalled \subseteq Row
  /\ \A r, s \in Preinstalled : r.id = s.id \/ TargetOf(r) = TargetOf(s) => r = s
ASSUME NoOpAssumption == NoOp \notin PackOps
ASSUME ContentsAssumption == Absent \notin Hashes /\ Torn \notin Hashes /\ Absent # Torn

Running(o) == at[o] \notin {"idle", "done"}
Adds(o) == wanted[o].kind \in {"install", "drop"}

\* toggle and uninstall look for the kind as well as the id, upsert_pack does not.
RowsOf(rows, id) == {r \in rows : r.id = id}
Sought(o, rows) == {r \in RowsOf(rows, wanted[o].id) : r.pack = wanted[o].pack}

\* The files an operation is about.
Concerns(o) ==
  {TargetOf(r) : r \in RowsOf(ledger, wanted[o].id)}
    \cup (IF Adds(o) THEN {Goal(o)} ELSE {})

PackInit ==
  /\ wanted \in [PackOps -> PackRequests]
  /\ at = [o \in PackOps |-> "idle"]
  /\ writing = [o \in PackOps |-> Nowhere]
  /\ lock = NoOp
  /\ snap = {}
  /\ ledger = Preinstalled
  /\ files = [p \in Paths |->
                IF \E r \in Preinstalled : FileOf(r) = p
                  THEN (CHOOSE r \in Preinstalled : FileOf(r) = p).hash ELSE Absent]
  /\ spoilt = {}

-----------------------------------------------------------------------------
\* Two ways to part files and rows that need no mishap.  An operation that adds
\* a pack overlaps another one on its id or its file, unless both are the
\* download of one and the same file.
Overlap(o, p) ==
  /\ Adds(o) \/ Adds(p)
  /\ wanted[o].id = wanted[p].id \/ Concerns(o) \cap Concerns(p) # {}
  /\ ~(wanted[o] = wanted[p] /\ wanted[o].kind = "install")
Overlapping(o) == {p \in PackOps \ {o} : Running(p) /\ Overlap(o, p)}

\* It replaces a row of another file, which it leaves where it is, or takes the
\* file of another row.
Orphaned(o) == {TargetOf(r) : r \in {s \in RowsOf(ledger, wanted[o].id) :
                                       FileOf(s) # FileOf(NewRow(o))}}
Claimed(o) == {TargetOf(r) : r \in {s \in ledger : /\ s.id # wanted[o].id
                                                   /\ TargetOf(s) = Goal(o)}}
Refused(o) == wanted[o].kind = "drop" /\ files[Final(o)] # Absent

Begin(o) ==
  /\ at[o] = "idle"
  /\ at' = [at EXCEPT ![o] = "asked"]
  /\ spoilt' = spoilt
       \cup (UNION {Concerns(o) \cup Concerns(p) : p \in Overlapping(o)})
       \cup (IF Adds(o) /\ ~Refused(o) THEN Orphaned(o) \cup Claimed(o) ELSE {})
  /\ UNCHANGED <<wanted, writing, lock, snap, ledger, files>>

\* An install downloads the file and verifies its SHA-1.  A drop looks whether
\* the name is taken by a pack that is enabled, then reads the source.
Prepare(o) ==
  /\ at[o] = "asked" /\ Adds(o)
  /\ at' = [at EXCEPT ![o] = IF Refused(o) THEN "done" ELSE "ready"]
  /\ UNCHANGED <<wanted, writing, lock, snap, ledger, files, spoilt>>

\* Plausible bug: a download is written under its final name as well.
WrittenInPlace(o) == Final(o)
Written(o) == IF wanted[o].kind = "install" THEN Tmp(o) ELSE Final(o)

\* tokio::fs::write: the file is created or truncated, then written.
OpenPack(o) ==
  /\ at[o] = "ready"
  /\ files' = [files EXCEPT ![Written(o)] = Torn]
  /\ writing' = [writing EXCEPT ![o] = Written(o)]
  /\ at' = [at EXCEPT ![o] = "open"]
  /\ UNCHANGED <<wanted, lock, snap, ledger, spoilt>>

WriteBytes(o) ==
  /\ at[o] = "open"
  /\ files' = IF writing[o] = Nowhere THEN files ELSE [files EXCEPT ![writing[o]] = wanted[o].hash]
  /\ writing' = [writing EXCEPT ![o] = Nowhere]
  /\ at' = [at EXCEPT ![o] = "written"]
  /\ UNCHANGED <<wanted, lock, snap, ledger, spoilt>>

\* upsert_pack, under the lock: the row replaces the one with its id.
Upsert(o) ==
  /\ at[o] = "written" /\ lock = NoOp
  /\ ledger' = (ledger \ RowsOf(ledger, wanted[o].id)) \cup {NewRow(o)}
  /\ at' = [at EXCEPT ![o] = IF wanted[o].kind = "install" THEN "placing" ELSE "done"]
  /\ UNCHANGED <<wanted, writing, lock, snap, files, spoilt>>

\* A rename takes along the file that others may still be writing, and those
\* that write the file it replaces write to nothing.
Moved(from, to) == [files EXCEPT ![to] = files[from], ![from] = Absent]
Followed(from, to) ==
  [p \in PackOps |-> IF writing[p] = from THEN to ELSE IF writing[p] = to THEN Nowhere ELSE writing[p]]

Place(o) ==
  /\ at[o] = "placing"
  /\ IF files[Tmp(o)] # Absent
       THEN files' = Moved(Tmp(o), Final(o)) /\ writing' = Followed(Tmp(o), Final(o))
       ELSE UNCHANGED <<files, writing>>
  /\ at' = [at EXCEPT ![o] = "done"]
  /\ UNCHANGED <<wanted, lock, snap, ledger, spoilt>>

\* Toggle and uninstall take the lock and read the ledger; they give it back at
\* once if the pack has no row, or if a shader pack is to be turned on or off.
Start(o) ==
  /\ at[o] = "asked" /\ ~Adds(o) /\ lock = NoOp
  /\ IF Sought(o, ledger) = {} \/ (wanted[o].kind = "toggle" /\ wanted[o].pack = "shader")
       THEN at' = [at EXCEPT ![o] = "done"] /\ UNCHANGED <<lock, snap>>
       ELSE at' = [at EXCEPT ![o] = "moving"] /\ lock' = o /\ snap' = ledger
  /\ UNCHANGED <<wanted, writing, ledger, files, spoilt>>

Release == lock' = NoOp /\ snap' = {}

\* toggle_pack_enabled renames the file, uninstall_pack removes it if it is there.
MoveFile(o) ==
  /\ at[o] = "moving" /\ wanted[o].kind = "toggle"
  /\ \E r \in Sought(o, snap) :
       IF files[FileOf(r)] = Absent
         THEN at' = [at EXCEPT ![o] = "done"] /\ Release /\ UNCHANGED <<files, writing>>
         ELSE /\ files' = Moved(FileOf(r), FileOf(Flipped(r)))
              /\ writing' = Followed(FileOf(r), FileOf(Flipped(r)))
              /\ at' = [at EXCEPT ![o] = "rewriting"]
              /\ UNCHANGED <<lock, snap>>
  /\ UNCHANGED <<wanted, ledger, spoilt>>

Gone(path) ==
  /\ files' = [files EXCEPT ![path] = Absent]
  /\ writing' = [p \in PackOps |-> IF writing[p] = path THEN Nowhere ELSE writing[p]]

\* Plausible bug: uninstall forgets that a disabled pack has another file name.
RemoveZip(o) ==
  /\ at[o] = "moving" /\ wanted[o].kind = "uninstall"
  /\ \E r \in Sought(o, snap) : Gone(<<TargetOf(r), "zip">>)
  /\ at' = [at EXCEPT ![o] = "rewriting"]
  /\ UNCHANGED <<wanted, lock, snap, ledger, spoilt>>

RemoveFile(o) ==
  /\ at[o] = "moving" /\ wanted[o].kind = "uninstall"
  /\ \E r \in Sought(o, snap) : Gone(FileOf(r))
  /\ at' = [at EXCEPT ![o] = "rewriting"]
  /\ UNCHANGED <<wanted, lock, snap, ledger, spoilt>>

Rewritten(o, rows) ==
  (rows \ Sought(o, rows))
    \cup (IF wanted[o].kind = "toggle" THEN {Flipped(r) : r \in Sought(o, rows)} ELSE {})

Rewrite(o) ==
  /\ at[o] = "rewriting"
  /\ ledger' = Rewritten(o, snap)
  /\ Release
  /\ at' = [at EXCEPT ![o] = "done"]
  /\ UNCHANGED <<wanted, writing, files, spoilt>>

-----------------------------------------------------------------------------
\* What an operation that is cut short spoils: a file that has changed while its
\* row has not, or the other way round; and the file it has truncated.
HalfChanged(o) ==
  \/ at[o] \in {"placing", "rewriting"}
  \/ at[o] \in {"open", "written"} /\ wanted[o].kind = "drop"
SharesTmp(o) ==
  at[o] = "open" /\ \E p \in PackOps \ {o} : at[p] # "idle" /\ wanted[p] = wanted[o]
SpoiltBy(o) == IF HalfChanged(o) \/ SharesTmp(o) THEN Concerns(o) ELSE {}

\* A call fails and the operation returns the error.  An install removes its
\* .tmp if it is the rename that failed.
PackFail(o) ==
  /\ Running(o)
  /\ at' = [at EXCEPT ![o] = "done"]
  /\ IF lock = o THEN Release ELSE UNCHANGED <<lock, snap>>
  /\ spoilt' = spoilt \cup SpoiltBy(o)
  /\ IF at[o] = "placing"
       THEN Gone(Tmp(o))
       ELSE files' = files /\ writing' = [writing EXCEPT ![o] = Nowhere]
  /\ UNCHANGED <<wanted, ledger>>

\* The job of an install is dropped at an await.  A write that has begun is
\* carried out by the blocking pool: the drop counts from its end.
Cancel(o) ==
  /\ Running(o) /\ wanted[o].kind = "install" /\ at[o] # "open"
  /\ at' = [at EXCEPT ![o] = "done"]
  /\ spoilt' = spoilt \cup SpoiltBy(o)
  /\ UNCHANGED <<wanted, writing, lock, snap, ledger, files>>

PackCrash ==
  /\ \E o \in PackOps : Running(o)
  /\ at' = [o \in PackOps |-> IF Running(o) THEN "done" ELSE at[o]]
  /\ writing' = [o \in PackOps |-> Nowhere]
  /\ Release
  /\ spoilt' = spoilt \cup UNION {SpoiltBy(o) : o \in {p \in PackOps : Running(p)}}
  /\ UNCHANGED <<wanted, ledger, files>>

PackStep(o) ==
  \/ Begin(o) \/ Prepare(o) \/ OpenPack(o) \/ WriteBytes(o) \/ Upsert(o) \/ Place(o)
  \/ Start(o) \/ MoveFile(o) \/ RemoveFile(o) \/ Rewrite(o)

PackNext == PackCrash \/ \E o \in PackOps : PackStep(o) \/ PackFail(o) \/ Cancel(o)

PackSpec == PackInit /\ [][PackNext]_packVars

-----------------------------------------------------------------------------
(* Properties. *)

\* Types: what is written is the path of a pack, and the ledger has rows only.
PackTypeOK ==
  /\ wanted \in [PackOps -> PackRequests]
  /\ at \in [PackOps -> PackStages]
  /\ writing \in [PackOps -> Paths \cup {Nowhere}]
  /\ lock \in PackOps \cup {NoOp}
  /\ snap \subseteq Row /\ ledger \subseteq Row
  /\ files \in [Paths -> Hashes \cup {Absent, Torn}]
  /\ spoilt \subseteq Targets

InUse(t) == \E o \in PackOps : Running(o) /\ t \in Concerns(o)
Sound(t) == t \notin spoilt /\ ~InUse(t)

\* A row that nothing has spoilt names a file that is there, whole, with the
\* content the row gives: also where one file was downloaded twice at a time, the
\* two downloads shared their .tmp and one lost the rename.
RowsHaveTheirFile ==
  \A r \in ledger : Sound(TargetOf(r)) => files[FileOf(r)] = r.hash

\* A file in a pack directory, enabled or not, is the file of a row: what is
\* uninstalled is gone and what was turned off is not there twice.
FilesHaveTheirRow ==
  \A t \in Targets, form \in {"zip", "disabled"} :
    Sound(t) /\ files[<<t, form>>] # Absent
      => \E r \in ledger : FileOf(r) = <<t, form>>

\* install.rs:84 calls it the 1:1 invariant of ledger and disk: with nothing in
\* flight every file has its row.
OneToOne ==
  (\A o \in PackOps : ~Running(o)) =>
    \A p \in Paths : p[2] = "zip" /\ files[p] # Absent => \E r \in ledger : FileOf(r) = p
=============================================================================
