---------------------------- MODULE ModLedgerProofs ----------------------------
(***************************************************************************)
(* Theorems about ModLedger, for any number of operations, mods and        *)
(* versions and any set of mishaps.  LedgerInv is the inductive invariant  *)
(* of the lock and the table, FilesInv the one of the files: it says what  *)
(* of a mod's files and rows may differ while an operation on it runs.     *)
(***************************************************************************)
EXTENDS ModLedger, TLAPS

Toggles(o) == req[o].kind \in {"enable", "disable"}

\* Which stages the kinds of operations go through.
Shape ==
  \A o \in Ops :
    /\ pc[o] \in {"fetching", "placing"} => req[o].kind = "install"
    /\ pc[o] = "checking" => Toggles(o)
    /\ pc[o] = "moving" => req[o].kind # "install"

\* The lock is held in the critical section, and what its holder read is current.
LockInv ==
  \A o \in Ops : /\ pc[o] \in {"moving", "writing"} <=> lock = o
                 /\ lock = o => snap[o] = ledger

LedgerInv == TypeOK /\ Shape /\ LockInv /\ OneRowPerMod

-----------------------------------------------------------------------------
(* The table. *)

LEMMA RequestType ==
  ASSUME TypeOK, NEW o \in Ops
  PROVE  /\ req[o].kind \in Kinds
         /\ req[o].mod \in Mods
         /\ req[o].version \in Versions
         /\ NewRow(o) \in Row
         /\ NewRow(o).mod = req[o].mod
         /\ NewRow(o).version = req[o].version
         /\ NewRow(o).enabled = TRUE
<1>1. req[o] \in Request
  BY RequestsAssumption DEF TypeOK
<1> QED BY <1>1 DEF Request, NewRow, Row

LEMMA FlippedType ==
  ASSUME NEW r \in Row
  PROVE  /\ Flipped(r) \in Row
         /\ Flipped(r).mod = r.mod
         /\ Flipped(r).version = r.version
         /\ Flipped(r).enabled = ~r.enabled
BY DEF Flipped, Row

LEMMA FileType ==
  ASSUME NEW r \in Row
  PROVE  FileOf(r) \in Mods \X Versions \X Forms
BY DEF FileOf, Row, Forms

\* What write_ledger may put in place keeps the type and the uniqueness of rows.
LEMMA ChangedRows ==
  ASSUME TypeOK, OneRowPerMod, NEW o \in Ops, snap[o] = ledger,
         NEW rows \in Changed(o)
  PROVE  /\ rows \subseteq Row
         /\ \A r, s \in rows : r.mod = s.mod => r = s
<1>1. ledger \subseteq Row
  BY DEF TypeOK
<1>2. CASE req[o].kind = "install"
  <2>1. rows = {r \in ledger : r.mod # req[o].mod} \cup {NewRow(o)}
    BY <1>2 DEF Changed, Without
  <2>2. NewRow(o) \in Row /\ NewRow(o).mod = req[o].mod
    BY RequestType
  <2>3. rows \subseteq Row
    BY <1>1, <2>1, <2>2
  <2>4. ASSUME NEW r \in rows, NEW s \in rows, r.mod = s.mod PROVE r = s
    <3>1. CASE r = NewRow(o) \/ s = NewRow(o)
      BY <2>1, <2>2, <2>4, <3>1
    <3>2. CASE r # NewRow(o) /\ s # NewRow(o)
      BY <2>1, <2>4, <3>2 DEF OneRowPerMod
    <3> QED BY <3>1, <3>2
  <2> QED BY <2>3, <2>4
<1>3. CASE req[o].kind = "uninstall"
  BY <1>1, <1>3 DEF Changed, Without, OneRowPerMod
<1>4. CASE req[o].kind \notin {"install", "uninstall"}
  <2>1. PICK r \in RowsOf(ledger, req[o].mod) : rows = (ledger \ {r}) \cup {Flipped(r)}
    BY <1>4 DEF Changed
  <2>2. r \in ledger /\ r \in Row
    BY <1>1, <2>1 DEF RowsOf
  <2>3. Flipped(r) \in Row /\ Flipped(r).mod = r.mod
    BY <2>2, FlippedType
  <2>4. rows \subseteq Row
    BY <1>1, <2>1, <2>3
  <2>5. ASSUME NEW x \in rows, NEW y \in rows, x.mod = y.mod PROVE x = y
    <3>1. CASE x = Flipped(r) /\ y = Flipped(r)
      BY <3>1
    <3>2. CASE x # Flipped(r) /\ y # Flipped(r)
      BY <2>1, <2>5, <3>2 DEF OneRowPerMod
    <3>3. CASE x = Flipped(r) /\ y # Flipped(r)
      BY <2>1, <2>2, <2>3, <2>5, <3>3 DEF OneRowPerMod
    <3>4. CASE x # Flipped(r) /\ y = Flipped(r)
      BY <2>1, <2>2, <2>3, <2>5, <3>4 DEF OneRowPerMod
    <3> QED BY <3>1, <3>2, <3>3, <3>4
  <2> QED BY <2>4, <2>5
<1> QED BY <1>2, <1>3, <1>4

LEMMA LedgerInit == Init => LedgerInv
<1> SUFFICES ASSUME Init PROVE LedgerInv
  OBVIOUS
<1>1. TypeOK
  <2>1. disk \subseteq Mods \X Versions \X Forms
    BY PreinstalledAssumption, FileType DEF Init
  <2> QED BY <2>1, PreinstalledAssumption DEF Init, TypeOK, Stages
<1>2. OneRowPerMod
  BY PreinstalledAssumption DEF Init, OneRowPerMod
<1> QED BY <1>1, <1>2, NoOpAssumption DEF Init, LedgerInv, Shape, LockInv

\* An operation that moves to another stage, keeping, taking or giving up the lock.
LEMMA LedgerStep == LedgerInv /\ [Next]_vars => LedgerInv'
<1> SUFFICES ASSUME LedgerInv, [Next]_vars PROVE LedgerInv'
  OBVIOUS
<1> USE DEF LedgerInv
<1>1. CASE UNCHANGED vars
  BY <1>1 DEF vars, TypeOK, Shape, Toggles, LockInv, OneRowPerMod
<1>2. CASE Crash
  <2>1. TypeOK'
    BY <1>2, RequestType DEF Crash, TypeOK, Stages, InFlight
  <2> QED BY <1>2, <2>1, NoOpAssumption
          DEF Crash, TypeOK, Shape, Toggles, LockInv, OneRowPerMod, InFlight
<1>3. ASSUME NEW o \in Ops, Begin(o) \/ Step(o) \/ Fail(o) \/ Cancel(o)
      PROVE  LedgerInv'
  <2>0. req[o].kind \in Kinds /\ req[o].mod \in Mods
    BY RequestType
  <2>1. CASE Begin(o)
    <3>1. /\ FirstStage(req[o].kind) \in {"fetching", "waiting", "checking"}
          /\ FirstStage(req[o].kind) = "fetching" => req[o].kind = "install"
          /\ FirstStage(req[o].kind) = "checking" => Toggles(o)
      BY <2>0 DEF FirstStage, Kinds, Toggles
    <3> QED BY <2>0, <2>1, <3>1 DEF Begin, TypeOK, Stages, Shape, Toggles, LockInv, OneRowPerMod
  <2>2. CASE Fetch(o)
    <3>1. Tmp(o) \in Mods \X Versions \X Forms
      BY RequestType DEF Tmp, Forms
    <3> QED BY <2>2, <3>1 DEF Fetch, TypeOK, Stages, Shape, Toggles, LockInv, OneRowPerMod
  <2>3. CASE Check(o)
    BY <2>3 DEF Check, TypeOK, Stages, Shape, Toggles, LockInv, OneRowPerMod
  <2>4. CASE LockAndRead(o)
    <3>1. TypeOK'
      BY <2>4 DEF LockAndRead, ReadThen, TypeOK, Stages
    <3> QED BY <2>4, <3>1, NoOpAssumption
            DEF LockAndRead, ReadThen, TypeOK, Shape, Toggles, LockInv, OneRowPerMod
  <2>5. CASE Rename(o)
    <3>1. PICK r \in RowsOf(snap[o], req[o].mod) :
            IF FileOf(r) \in disk
              THEN /\ disk' = (disk \ {FileOf(r)}) \cup {FileOf(Flipped(r))}
                   /\ pc' = [pc EXCEPT ![o] = "writing"]
                   /\ lock' = lock
              ELSE Release(o, "done") /\ disk' = disk
      BY <2>5 DEF Rename
    <3>2. r \in Row
      BY <3>1 DEF TypeOK, RowsOf
    <3>3. FileOf(Flipped(r)) \in Mods \X Versions \X Forms
      BY <3>2, FlippedType, FileType
    <3>4. TypeOK'
      BY <2>5, <3>1, <3>3, NoOpAssumption DEF Rename, Release, TypeOK, Stages, LockInv
    <3> QED BY <2>5, <3>1, <3>4, NoOpAssumption
            DEF Rename, Release, TypeOK, Shape, Toggles, LockInv, OneRowPerMod
  <2>6. CASE Remove(o)
    <3>1. disk' \subseteq disk
      BY <2>6 DEF Remove, RemoveAs
    <3> QED BY <2>6, <3>1 DEF Remove, RemoveAs, TypeOK, Stages, Shape, Toggles, LockInv, OneRowPerMod
  <2>7. CASE Write(o)
    <3>1. snap[o] = ledger /\ lock = o
      BY <2>7 DEF Write, LockInv
    <3>2. ledger' \subseteq Row /\ OneRowPerMod'
      BY <2>7, <3>1, ChangedRows DEF Write, OneRowPerMod
    <3> QED BY <2>7, <3>1, <3>2, NoOpAssumption
            DEF Write, Release, TypeOK, Stages, Shape, Toggles, LockInv
  <2>8. CASE Place(o)
    <3>1. FileOf(NewRow(o)) \in Mods \X Versions \X Forms
      BY RequestType, FileType
    <3> QED BY <2>8, <3>1 DEF Place, TypeOK, Stages, Shape, Toggles, LockInv, OneRowPerMod
  <2>9. CASE Fail(o)
    BY <2>0, <2>9, NoOpAssumption
       DEF Fail, CutShort, Release, TypeOK, Stages, Shape, Toggles, LockInv, OneRowPerMod
  <2>10. CASE Cancel(o)
    BY <2>0, <2>10, NoOpAssumption
       DEF Cancel, CutShort, Release, TypeOK, Stages, Shape, Toggles, LockInv, OneRowPerMod
  <2> QED BY <1>3, <2>1, <2>2, <2>3, <2>4, <2>5, <2>6, <2>7, <2>8, <2>9, <2>10 DEF Step
<1> QED BY <1>1, <1>2, <1>3 DEF Next

LEMMA LedgerInvariant == Spec => []LedgerInv
<1> QED BY LedgerInit, LedgerStep, PTL DEF Spec

\* Every variable keeps its type, and the lock belongs to an operation in its
\* critical section or to nobody.
THEOREM TypeCorrect == Spec => []TypeOK
<1>1. LedgerInv => TypeOK
  BY DEF LedgerInv
<1> QED BY <1>1, LedgerInvariant, PTL

\* A mod never has two rows, whatever operations run and however they end.
THEOREM RowsUnique == Spec => []OneRowPerMod
<1>1. LedgerInv => OneRowPerMod
  BY DEF LedgerInv
<1> QED BY <1>1, LedgerInvariant, PTL

LEMMA TableStep == LedgerInv /\ [Next]_vars => [Table!Next]_ledger
<1> SUFFICES ASSUME LedgerInv, [Next]_vars PROVE [Table!Next]_ledger
  OBVIOUS
<1>1. ASSUME NEW o \in Ops, Write(o) PROVE Table!Next
  <2>1. snap[o] = ledger /\ ledger' \in Changed(o)
    BY <1>1 DEF Write, LedgerInv, LockInv
  <2>2. req[o].mod \in Mods /\ NewRow(o) \in Row /\ NewRow(o).mod = req[o].mod
    BY RequestType DEF LedgerInv
  <2>3. CASE req[o].kind = "install"
    <3>1. Table!Put(NewRow(o))
      BY <2>1, <2>2, <2>3 DEF Changed, Without, Table!Put
    <3> QED BY <2>2, <3>1 DEF Table!Next, Table!Row, Row
  <2>4. CASE req[o].kind = "uninstall"
    <3>1. Table!Drop(req[o].mod)
      BY <2>1, <2>4 DEF Changed, Without, Table!Drop
    <3> QED BY <2>2, <3>1 DEF Table!Next
  <2>5. CASE req[o].kind \notin {"install", "uninstall"}
    <3>1. PICK r \in RowsOf(ledger, req[o].mod) : ledger' = (ledger \ {r}) \cup {Flipped(r)}
      BY <2>1, <2>5 DEF Changed
    <3>2. r \in ledger /\ r \in Row
      BY <3>1 DEF RowsOf, LedgerInv, TypeOK
    <3>3. Table!Flip(r)
      BY <3>1, <3>2 DEF Table!Flip, Flipped
    <3> QED BY <3>2, <3>3 DEF Table!Next, Table!Row, Row
  <2> QED BY <2>3, <2>4, <2>5
<1>2. CASE Crash
  BY <1>2 DEF Crash
<1>3. ASSUME NEW o \in Ops, Begin(o) \/ Step(o) \/ Fail(o) \/ Cancel(o), ~Write(o)
      PROVE  UNCHANGED ledger
  BY <1>3 DEF Begin, Step, Fetch, Check, LockAndRead, ReadThen, Rename, Remove, RemoveAs,
              Place, Fail, Cancel, CutShort
<1> QED BY <1>1, <1>2, <1>3 DEF Next, vars

\* No update of the ledger is lost: whatever runs concurrently, each change of
\* the file is one whole mutation of the table as it stands.
THEOREM NoLostUpdate == Spec => ImplementsItemLedger
<1>1. Init => Table!Init
  BY PreinstalledAssumption DEF Init, Table!Init, Table!Row, Row, Table!OneRowPerMod
<1> QED BY <1>1, LedgerInvariant, TableStep, PTL DEF Spec, ImplementsItemLedger, Table!Spec

-----------------------------------------------------------------------------
(* The files of a mod. *)

HasFile(m, v, form) == <<m, v, form>> \in disk
HasRow(m, v, on) == [mod |-> m, version |-> v, enabled |-> on] \in ledger

\* An install has its mod for itself.
Alone(m) ==
  \A o, p \in Ops :
    (InFlight(o) /\ InFlight(p) /\ req[o].mod = m /\ req[p].mod = m /\ o # p)
      => req[o].kind # "install"

Rest(m) == \A o \in Ops : req[o].mod = m => ~HalfDone(o)

\* What a half-done toggle, a half-done uninstall and an install leave true.
ToggleSound(o, m) ==
  (pc[o] = "writing" /\ Toggles(o)) =>
    \A v \in Versions : /\ HasFile(m, v, "jar") <=> HasRow(m, v, FALSE)
                        /\ HasFile(m, v, "disabled") <=> HasRow(m, v, TRUE)
UninstallSound(o, m) ==
  (pc[o] = "writing" /\ req[o].kind = "uninstall") =>
    \A v \in Versions : ~HasFile(m, v, "jar") /\ ~HasFile(m, v, "disabled")
PlaceSound(o, m) ==
  pc[o] = "placing" =>
    /\ Tmp(o) \in disk
    /\ \A v \in Versions :
         /\ (HasFile(m, v, "jar") \/ v = req[o].version) <=> HasRow(m, v, TRUE)
         /\ HasFile(m, v, "disabled") <=> HasRow(m, v, FALSE)
InstallSound(o, m) ==
  (InFlight(o) /\ req[o].kind = "install" /\ pc[o] # "placing") =>
    /\ \A v \in Versions : (HasRow(m, v, TRUE) => v = req[o].version) /\ ~HasRow(m, v, FALSE)
    /\ pc[o] # "fetching" => Tmp(o) \in disk

Sound(m) ==
  /\ Alone(m)
  /\ Rest(m) => Agree(m)
  /\ \A o \in Ops : req[o].mod = m =>
       /\ ToggleSound(o, m) /\ UninstallSound(o, m)
       /\ PlaceSound(o, m) /\ InstallSound(o, m)

FilesInv == \A m \in Mods \ disturbed : Sound(m)

\* Agree without the case distinction on the form of the file.
LEMMA AgreeIff ==
  ASSUME NEW m
  PROVE  Agree(m) <=>
           \A v \in Versions : /\ HasFile(m, v, "jar") <=> HasRow(m, v, TRUE)
                               /\ HasFile(m, v, "disabled") <=> HasRow(m, v, FALSE)
<1>1. ("jar" = "jar") = TRUE /\ ("disabled" = "jar") = FALSE
  OBVIOUS
<1> QED BY <1>1 DEF Agree, HasFile, HasRow

\* A step that changes neither the files, nor the rows, nor the operations of a mod.
LEMMA Elsewhere ==
  ASSUME NEW m, Sound(m), req' = req,
         \A o \in Ops : req[o].mod = m => pc'[o] = pc[o],
         \A v \in Versions, form \in Forms : HasFile(m, v, form)' <=> HasFile(m, v, form),
         \A v \in Versions, on \in BOOLEAN : HasRow(m, v, on)' <=> HasRow(m, v, on),
         TypeOK
  PROVE  Sound(m)'
<1>1. \A o \in Ops : req[o].mod = m => InFlight(o)' = InFlight(o) /\ HalfDone(o)' = HalfDone(o)
  BY DEF InFlight, HalfDone
<1>2. Alone(m)'
  BY <1>1 DEF Sound, Alone
<1>3. Agree(m)' <=> Agree(m)
  BY AgreeIff DEF Agree, HasFile, HasRow, Forms
<1>4. (Rest(m) => Agree(m))'
  BY <1>1, <1>3 DEF Sound, Rest
<1>5. ASSUME NEW o \in Ops, req[o].mod = m
      PROVE  (ToggleSound(o, m) /\ UninstallSound(o, m) /\ PlaceSound(o, m) /\ InstallSound(o, m))'
  <2>1. ToggleSound(o, m) /\ UninstallSound(o, m) /\ PlaceSound(o, m) /\ InstallSound(o, m)
    BY <1>5 DEF Sound
  <2>2. pc'[o] = pc[o] /\ InFlight(o)' = InFlight(o)
    BY <1>1, <1>5
  <2>3. Tmp(o)' = Tmp(o) /\ Toggles(o)' = Toggles(o)
    BY DEF Tmp, Toggles
  <2>4. Tmp(o) \in disk' <=> Tmp(o) \in disk
    BY <1>5, RequestType DEF Tmp, HasFile, Forms
  <2>5. ToggleSound(o, m)' /\ UninstallSound(o, m)'
    BY <2>1, <2>2, <2>3 DEF ToggleSound, UninstallSound, Forms
  <2>6. PlaceSound(o, m)' /\ InstallSound(o, m)'
    BY <2>1, <2>2, <2>3, <2>4 DEF PlaceSound, InstallSound, Forms
  <2> QED BY <2>5, <2>6
<1> QED BY <1>2, <1>4, <1>5 DEF Sound

LEMMA FilesInit == Init => FilesInv
<1> SUFFICES ASSUME Init, NEW m \in Mods PROVE Sound(m)
  BY DEF FilesInv
<1>1. \A o \in Ops : pc[o] = "idle"
  BY DEF Init
<1>2. Agree(m)
  <2>1. ASSUME NEW v \in Versions
        PROVE  /\ HasFile(m, v, "jar") <=> HasRow(m, v, TRUE)
               /\ HasFile(m, v, "disabled") <=> HasRow(m, v, FALSE)
    <3>1. \A r \in ledger : r \in Row
      BY PreinstalledAssumption DEF Init
    <3>2. \A form : HasFile(m, v, form) <=> \E r \in ledger : FileOf(r) = <<m, v, form>>
      BY DEF Init, HasFile
    <3>3. \A r \in ledger : /\ FileOf(r) = <<m, v, "jar">> <=>
                                  r = [mod |-> m, version |-> v, enabled |-> TRUE]
                            /\ FileOf(r) = <<m, v, "disabled">> <=>
                                  r = [mod |-> m, version |-> v, enabled |-> FALSE]
      BY <3>1 DEF Row, FileOf
    <3> QED BY <3>2, <3>3 DEF HasRow
  <2> QED BY <2>1, AgreeIff
<1> QED BY <1>1, <1>2 DEF Sound, Alone, Rest, ToggleSound, UninstallSound, PlaceSound,
                          InstallSound, InFlight, HalfDone

\* While a toggle or an uninstall holds the lock and has not moved anything,
\* no operation on its mod is half done.
LEMMA HolderFindsRest ==
  ASSUME LedgerInv, NEW o \in Ops, pc[o] = "moving", Sound(req[o].mod)
  PROVE  /\ Rest(req[o].mod)
         /\ \A p \in Ops : (InFlight(p) /\ req[p].mod = req[o].mod) => req[p].kind # "install"
         /\ \A p \in Ops : (req[p].mod = req[o].mod /\ p # o) => pc[p] \notin {"moving", "writing", "placing"}
<1>1. lock = o /\ req[o].kind # "install" /\ InFlight(o)
  BY DEF LedgerInv, LockInv, Shape, InFlight
<1>2. \A p \in Ops : (InFlight(p) /\ req[p].mod = req[o].mod) => req[p].kind # "install"
  BY <1>1 DEF Sound, Alone
<1>3. \A p \in Ops : (req[p].mod = req[o].mod /\ p # o) => pc[p] \notin {"moving", "writing", "placing"}
  BY <1>1, <1>2 DEF LedgerInv, LockInv, Shape, InFlight
<1> QED BY <1>2, <1>3 DEF Rest, HalfDone

\* The operation that holds the lock finds the one row of its mod.
LEMMA TheRow ==
  ASSUME LedgerInv, NEW o \in Ops, lock = o, NEW r \in RowsOf(snap[o], req[o].mod)
  PROVE  /\ r \in ledger /\ r \in Row
         /\ r = [mod |-> req[o].mod, version |-> r.version, enabled |-> r.enabled]
         /\ r.version \in Versions /\ r.enabled \in BOOLEAN
         /\ \A v \in Versions, on \in BOOLEAN :
              HasRow(req[o].mod, v, on) <=> (v = r.version /\ on = r.enabled)
<1>1. r \in ledger /\ r \in Row /\ r.mod = req[o].mod
  BY DEF RowsOf, LedgerInv, LockInv, TypeOK
<1>2. r = [mod |-> req[o].mod, version |-> r.version, enabled |-> r.enabled]
  BY <1>1 DEF Row
<1>3. ASSUME NEW v \in Versions, NEW on \in BOOLEAN, HasRow(req[o].mod, v, on)
      PROVE  v = r.version /\ on = r.enabled
  <2>1. [mod |-> req[o].mod, version |-> v, enabled |-> on] = r
    BY <1>1, <1>3 DEF HasRow, LedgerInv, OneRowPerMod
  <2> QED BY <2>1
<1> QED BY <1>1, <1>2, <1>3 DEF HasRow, Row

LEMMA RenameSound ==
  ASSUME LedgerInv, NEW o \in Ops, Rename(o),
         NEW m, m = req[o].mod, Sound(m)
  PROVE  Sound(m)'
<1>0. req' = req /\ ledger' = ledger
  BY DEF Rename
<1>1. PICK r \in RowsOf(snap[o], m) :
        IF FileOf(r) \in disk
          THEN /\ disk' = (disk \ {FileOf(r)}) \cup {FileOf(Flipped(r))}
               /\ pc' = [pc EXCEPT ![o] = "writing"]
               /\ lock' = lock
          ELSE Release(o, "done") /\ disk' = disk
  BY DEF Rename
<1>2. pc[o] = "moving" /\ lock = o /\ Toggles(o)
  BY DEF Rename, LedgerInv, LockInv, Toggles
<1>3. /\ r \in Row /\ r.version \in Versions /\ r.enabled \in BOOLEAN
      /\ r = [mod |-> m, version |-> r.version, enabled |-> r.enabled]
      /\ \A v \in Versions, on \in BOOLEAN : HasRow(m, v, on) <=> (v = r.version /\ on = r.enabled)
  BY <1>2, TheRow
<1>4. /\ Rest(m) /\ Agree(m)
      /\ \A p \in Ops : (InFlight(p) /\ req[p].mod = m) => req[p].kind # "install"
      /\ \A p \in Ops : (req[p].mod = m /\ p # o) => pc[p] \notin {"moving", "writing", "placing"}
  BY <1>2, HolderFindsRest DEF Sound
<1>5. \A v \in Versions : /\ HasFile(m, v, "jar") <=> (v = r.version /\ r.enabled)
                          /\ HasFile(m, v, "disabled") <=> (v = r.version /\ ~r.enabled)
  BY <1>3, <1>4, AgreeIff
<1>6. FileOf(r) = <<m, r.version, IF r.enabled THEN "jar" ELSE "disabled">>
  BY <1>3 DEF FileOf
<1>7. FileOf(r) \in disk
  BY <1>3, <1>5, <1>6 DEF HasFile
<1>8. FileOf(Flipped(r)) = <<m, r.version, IF r.enabled THEN "disabled" ELSE "jar">>
  BY <1>3, FlippedType DEF FileOf
<1>9. /\ pc' = [pc EXCEPT ![o] = "writing"]
      /\ disk' = (disk \ {FileOf(r)}) \cup {FileOf(Flipped(r))}
  BY <1>1, <1>7
<1>10. \A p \in Ops : p # o => pc'[p] = pc[p]
  BY <1>9 DEF LedgerInv, TypeOK
<1>11. pc'[o] = "writing"
  BY <1>9 DEF LedgerInv, TypeOK
<1>12. \A p \in Ops : (InFlight(p)' /\ req[p].mod = m) => req[p].kind # "install"
  BY <1>2, <1>4, <1>10 DEF InFlight, Toggles
<1>13. \A v \in Versions : /\ HasFile(m, v, "jar")' <=> (v = r.version /\ ~r.enabled)
                           /\ HasFile(m, v, "disabled")' <=> (v = r.version /\ r.enabled)
  BY <1>0, <1>3, <1>5, <1>6, <1>8, <1>9 DEF HasFile
<1>14. \A v \in Versions, on \in BOOLEAN : HasRow(m, v, on)' <=> (v = r.version /\ on = r.enabled)
  BY <1>0, <1>3 DEF HasRow
<1>15. ToggleSound(o, m)' /\ UninstallSound(o, m)'
  BY <1>0, <1>2, <1>3, <1>13, <1>14 DEF ToggleSound, UninstallSound, Toggles
<1>16. \A p \in Ops : (req[p].mod = m /\ p # o) => (ToggleSound(p, m) /\ UninstallSound(p, m))'
  BY <1>4, <1>10 DEF ToggleSound, UninstallSound
<1>17. \A p \in Ops : req[p].mod = m => (PlaceSound(p, m) /\ InstallSound(p, m))'
  BY <1>0, <1>4, <1>10, <1>11, <1>12 DEF PlaceSound, InstallSound
<1>18. Alone(m)' /\ ~Rest(m)'
  BY <1>0, <1>2, <1>11, <1>12 DEF Alone, Rest, HalfDone, Toggles
<1> QED BY <1>0, <1>15, <1>16, <1>17, <1>18 DEF Sound

LEMMA RemoveSound ==
  ASSUME LedgerInv, NEW o \in Ops, Remove(o),
         NEW m, m = req[o].mod, Sound(m)
  PROVE  Sound(m)'
<1>0. req' = req /\ ledger' = ledger
  BY DEF Remove, RemoveAs
<1>1. PICK r \in RowsOf(snap[o], m) : disk' = disk \ {FileOf([r EXCEPT !.enabled = r.enabled])}
  BY DEF Remove, RemoveAs
<1>2. pc[o] = "moving" /\ lock = o /\ req[o].kind = "uninstall"
  BY DEF Remove, RemoveAs, LedgerInv, LockInv
<1>3. /\ r \in Row /\ r.version \in Versions /\ r.enabled \in BOOLEAN
      /\ r = [mod |-> m, version |-> r.version, enabled |-> r.enabled]
      /\ \A v \in Versions, on \in BOOLEAN : HasRow(m, v, on) <=> (v = r.version /\ on = r.enabled)
  BY <1>2, TheRow
<1>4. /\ Rest(m) /\ Agree(m)
      /\ \A p \in Ops : (InFlight(p) /\ req[p].mod = m) => req[p].kind # "install"
      /\ \A p \in Ops : (req[p].mod = m /\ p # o) => pc[p] \notin {"moving", "writing", "placing"}
  BY <1>2, HolderFindsRest DEF Sound
<1>5. \A v \in Versions : /\ HasFile(m, v, "jar") <=> (v = r.version /\ r.enabled)
                          /\ HasFile(m, v, "disabled") <=> (v = r.version /\ ~r.enabled)
  BY <1>3, <1>4, AgreeIff
<1>6. [r EXCEPT !.enabled = r.enabled] = r
  BY <1>3 DEF Row
<1>7. disk' = disk \ {<<m, r.version, IF r.enabled THEN "jar" ELSE "disabled">>}
  BY <1>1, <1>3, <1>6 DEF FileOf
<1>8. pc' = [pc EXCEPT ![o] = "writing"]
  BY DEF Remove, RemoveAs
<1>9. pc'[o] = "writing" /\ \A p \in Ops : p # o => pc'[p] = pc[p]
  BY <1>8 DEF LedgerInv, TypeOK
<1>10. \A v \in Versions : ~HasFile(m, v, "jar")' /\ ~HasFile(m, v, "disabled")'
  BY <1>0, <1>3, <1>5, <1>7 DEF HasFile
<1>11. \A p \in Ops : (InFlight(p)' /\ req[p].mod = m) => req[p].kind # "install"
  BY <1>2, <1>4, <1>9 DEF InFlight
<1>12. ToggleSound(o, m)' /\ UninstallSound(o, m)'
  BY <1>0, <1>2, <1>10 DEF ToggleSound, UninstallSound, Toggles
<1>13. \A p \in Ops : (req[p].mod = m /\ p # o) => (ToggleSound(p, m) /\ UninstallSound(p, m))'
  BY <1>4, <1>9 DEF ToggleSound, UninstallSound
<1>14. \A p \in Ops : req[p].mod = m => (PlaceSound(p, m) /\ InstallSound(p, m))'
  BY <1>0, <1>4, <1>9, <1>11 DEF PlaceSound, InstallSound
<1>15. Alone(m)' /\ ~Rest(m)'
  BY <1>0, <1>2, <1>9, <1>11 DEF Alone, Rest, HalfDone
<1> QED BY <1>0, <1>12, <1>13, <1>14, <1>15 DEF Sound

\* The lock holder replaces the ledger: a half-done toggle or uninstall
\* becomes whole, an install half done.
LEMMA WriteSound ==
  ASSUME LedgerInv, NEW o \in Ops, Write(o),
         NEW m, m = req[o].mod, Sound(m)
  PROVE  Sound(m)'
<1>0. req' = req /\ disk' = disk
  BY DEF Write
<1>1. pc[o] = "writing" /\ lock = o /\ snap[o] = ledger /\ ledger' \in Changed(o)
  BY DEF Write, LedgerInv, LockInv
<1>2. pc'[o] = (IF req[o].kind = "install" THEN "placing" ELSE "done")
  BY DEF Write, Release, LedgerInv, TypeOK
<1>3. \A p \in Ops : p # o => pc'[p] = pc[p]
  BY DEF Write, Release, LedgerInv, TypeOK
<1>4. \A p \in Ops : p # o => pc[p] \notin {"moving", "writing"}
  BY <1>1 DEF LedgerInv, LockInv
<1>5. /\ InFlight(o)
      /\ \A p \in Ops : (req[p].mod = m /\ p # o /\ InFlight(p)) =>
             req[p].kind # "install" /\ req[o].kind # "install"
  BY <1>1 DEF InFlight, Sound, Alone
<1>6. \A p \in Ops : (req[p].mod = m /\ p # o) => pc[p] # "placing"
  BY <1>5 DEF LedgerInv, Shape, InFlight
<1>7. \A p \in Ops : (req[p].mod = m /\ p # o) =>
        (ToggleSound(p, m) /\ UninstallSound(p, m) /\ PlaceSound(p, m) /\ InstallSound(p, m))'
  BY <1>0, <1>3, <1>4, <1>5, <1>6
     DEF ToggleSound, UninstallSound, PlaceSound, InstallSound, InFlight
<1>8. Alone(m)'
  BY <1>0, <1>1, <1>2, <1>3, <1>5 DEF Alone, InFlight, Sound
<1>9. ToggleSound(o, m)' /\ UninstallSound(o, m)'
  BY <1>2 DEF ToggleSound, UninstallSound
<1>10. CASE req[o].kind = "install"
  <2>1. ledger' = {r \in ledger : r.mod # m} \cup {NewRow(o)}
    BY <1>1, <1>10 DEF Changed, Without
  <2>2. NewRow(o) = [mod |-> m, version |-> req[o].version, enabled |-> TRUE]
    BY DEF NewRow
  <2>3. \A v \in Versions : (HasRow(m, v, TRUE)' <=> v = req[o].version) /\ ~HasRow(m, v, FALSE)'
    <3> SUFFICES ASSUME NEW v \in Versions
                 PROVE  /\ [mod |-> m, version |-> v, enabled |-> TRUE] \in ledger'
                              <=> v = req[o].version
                        /\ [mod |-> m, version |-> v, enabled |-> FALSE] \notin ledger'
      BY <1>0 DEF HasRow
    <3>1. [mod |-> m, version |-> v, enabled |-> TRUE] \in ledger'
            <=> [mod |-> m, version |-> v, enabled |-> TRUE] = NewRow(o)
      BY <2>1
    <3>2. [mod |-> m, version |-> v, enabled |-> FALSE] \in ledger'
            <=> [mod |-> m, version |-> v, enabled |-> FALSE] = NewRow(o)
      BY <2>1
    <3>3. NewRow(o).enabled = TRUE /\ NewRow(o).version = req[o].version
      BY <2>2
    <3>4. [mod |-> m, version |-> v, enabled |-> FALSE] # NewRow(o)
      BY <3>3
    <3>5. [mod |-> m, version |-> v, enabled |-> TRUE] = NewRow(o) => v = req[o].version
      BY <3>3
    <3>6. v = req[o].version => [mod |-> m, version |-> v, enabled |-> TRUE] = NewRow(o)
      BY <2>2, Zenon
    <3> QED BY <3>1, <3>2, <3>4, <3>5, <3>6
  <2>4. \A v \in Versions : (HasRow(m, v, TRUE) => v = req[o].version) /\ ~HasRow(m, v, FALSE)
    BY <1>1, <1>5, <1>10 DEF Sound, InstallSound
  <2>5. Rest(m)
    <3>1. ASSUME NEW p \in Ops, req[p].mod = m PROVE ~HalfDone(p)
      <4>1. CASE p = o
        BY <1>1, <1>10, <4>1 DEF HalfDone
      <4>2. CASE p # o
        BY <1>4, <1>6, <3>1, <4>2 DEF HalfDone
      <4> QED BY <4>1, <4>2
    <3> QED BY <3>1 DEF Rest
  <2>6. Agree(m)
    BY <2>5 DEF Sound
  <2>7. Tmp(o) \in disk /\ Tmp(o)' = Tmp(o)
    <3>1. InstallSound(o, m)
      BY DEF Sound
    <3>2. Tmp(o) \in disk
      BY <1>1, <1>5, <1>10, <3>1 DEF InstallSound
    <3> QED BY <1>0, <3>2 DEF Tmp
  <2>8. \A v \in Versions, form \in Forms : HasFile(m, v, form)' <=> HasFile(m, v, form)
    BY <1>0 DEF HasFile
  <2>9. PlaceSound(o, m)'
    BY <1>0, <2>3, <2>4, <2>6, <2>7, <2>8, AgreeIff DEF PlaceSound, Forms
  <2>10. InstallSound(o, m)' /\ ~Rest(m)'
    BY <1>0, <1>2, <1>10 DEF InstallSound, Rest, HalfDone
  <2> QED BY <1>0, <1>7, <1>8, <1>9, <2>9, <2>10 DEF Sound
<1>11. CASE req[o].kind # "install"
  <2>1. PlaceSound(o, m)' /\ InstallSound(o, m)'
    BY <1>2, <1>11 DEF PlaceSound, InstallSound, InFlight
  <2>2. \A v \in Versions, form \in Forms : HasFile(m, v, form)' <=> HasFile(m, v, form)
    BY <1>0 DEF HasFile
  <2>3. CASE req[o].kind = "uninstall"
    <3>1. ledger' = {r \in ledger : r.mod # m}
      BY <1>1, <2>3 DEF Changed, Without
    <3>2. \A v \in Versions, on \in BOOLEAN : ~HasRow(m, v, on)'
      BY <1>0, <3>1 DEF HasRow
    <3>3. \A v \in Versions : ~HasFile(m, v, "jar") /\ ~HasFile(m, v, "disabled")
      BY <1>1, <2>3 DEF Sound, UninstallSound
    <3>4. Agree(m)'
      BY <1>0, <2>2, <3>2, <3>3, AgreeIff DEF Agree, HasFile, HasRow, Forms
    <3> QED BY <1>0, <1>7, <1>8, <1>9, <2>1, <3>4 DEF Sound
  <2>4. CASE req[o].kind # "uninstall"
    <3>1. PICK r \in RowsOf(snap[o], m) : ledger' = (ledger \ {r}) \cup {Flipped(r)}
      BY <1>1, <1>11, <2>4 DEF Changed
    <3>2. /\ r \in Row /\ r.version \in Versions /\ r.enabled \in BOOLEAN
          /\ r = [mod |-> m, version |-> r.version, enabled |-> r.enabled]
          /\ \A v \in Versions, on \in BOOLEAN : HasRow(m, v, on) <=> (v = r.version /\ on = r.enabled)
      BY <1>1, TheRow
    <3>3. Flipped(r) = [mod |-> m, version |-> r.version, enabled |-> ~r.enabled]
      BY <3>2 DEF Flipped
    <3>4. \A v \in Versions, on \in BOOLEAN : HasRow(m, v, on)' <=> (v = r.version /\ on = ~r.enabled)
      BY <1>0, <3>1, <3>2, <3>3 DEF HasRow
    <3>5. Toggles(o)
      BY <1>11, <2>4, RequestType DEF LedgerInv, Kinds, Toggles
    <3>6. \A v \in Versions : /\ HasFile(m, v, "jar") <=> HasRow(m, v, FALSE)
                              /\ HasFile(m, v, "disabled") <=> HasRow(m, v, TRUE)
      BY <1>1, <3>5 DEF Sound, ToggleSound
    <3>7. \A v \in Versions : /\ HasFile(m, v, "jar")' <=> HasRow(m, v, TRUE)'
                              /\ HasFile(m, v, "disabled")' <=> HasRow(m, v, FALSE)'
      BY <2>2, <3>2, <3>4, <3>6 DEF Forms
    <3>8. Agree(m)'
      BY <1>0, <3>7 DEF Agree, HasFile, HasRow
    <3> QED BY <1>0, <1>7, <1>8, <1>9, <2>1, <3>8 DEF Sound
  <2> QED BY <2>3, <2>4
<1> QED BY <1>10, <1>11

\* An install that has its mod for itself finds its .tmp and puts it in place.
LEMMA PlaceKeepsSound ==
  ASSUME LedgerInv, NEW o \in Ops, Place(o),
         NEW m, m = req[o].mod, Sound(m)
  PROVE  Sound(m)'
<1>0. req' = req /\ ledger' = ledger
  BY DEF Place
<1>1. pc[o] = "placing" /\ req[o].kind = "install" /\ InFlight(o)
  BY DEF Place, LedgerInv, Shape, InFlight
<1>2. /\ Tmp(o) \in disk
      /\ \A v \in Versions :
           /\ (HasFile(m, v, "jar") \/ v = req[o].version) <=> HasRow(m, v, TRUE)
           /\ HasFile(m, v, "disabled") <=> HasRow(m, v, FALSE)
  BY <1>1 DEF Sound, PlaceSound
<1>3. disk' = (disk \ {<<m, req[o].version, "tmp">>}) \cup {<<m, req[o].version, "jar">>}
  BY <1>2 DEF Place, Tmp, FileOf, NewRow
<1>4. pc'[o] = "done" /\ \A p \in Ops : p # o => pc'[p] = pc[p]
  BY DEF Place, LedgerInv, TypeOK
<1>5. \A p \in Ops : (req[p].mod = m /\ p # o) => ~InFlight(p)
  BY <1>1 DEF Sound, Alone
<1>6. \A p \in Ops : req[p].mod = m => ~InFlight(p)'
  BY <1>4, <1>5 DEF InFlight
<1>7. \A v \in Versions : /\ HasFile(m, v, "jar")' <=> HasRow(m, v, TRUE)'
                          /\ HasFile(m, v, "disabled")' <=> HasRow(m, v, FALSE)'
  BY <1>0, <1>2, <1>3 DEF HasFile, HasRow
<1>8. Agree(m)'
  BY <1>0, <1>7 DEF Agree, HasFile, HasRow
<1> QED BY <1>0, <1>6, <1>8 DEF Sound, Alone, Rest, InFlight, HalfDone, ToggleSound,
                                UninstallSound, PlaceSound, InstallSound

\* An operation starts on a mod no install is at work on and, an install, on a
\* mod that has no row but the one it is going to write.
LEMMA BeginSound ==
  ASSUME LedgerInv, NEW o \in Ops, Begin(o), ~Overlaps(o), ~Replaces(o),
         NEW m, m = req[o].mod, Sound(m)
  PROVE  Sound(m)'
<1>0. req' = req /\ ledger' = ledger /\ disk' = disk
  BY DEF Begin
<1>1. /\ pc[o] = "idle" /\ pc'[o] = FirstStage(req[o].kind)
      /\ \A p \in Ops : p # o => pc'[p] = pc[p]
  BY DEF Begin, LedgerInv, TypeOK
<1>2. /\ FirstStage(req[o].kind) \in {"fetching", "waiting", "checking"}
      /\ req[o].kind = "install" => FirstStage(req[o].kind) = "fetching"
  BY DEF FirstStage
<1>3. Alone(m)'
  <2>1. \A p \in Ops : (InFlight(p) /\ req[p].mod = m) =>
                          req[p].kind # "install" /\ req[o].kind # "install"
    BY DEF Overlaps
  <2> QED BY <1>0, <1>1, <2>1 DEF Alone, InFlight, Sound
<1>4. \A p \in Ops : HalfDone(p)' <=> HalfDone(p)
  BY <1>0, <1>1, <1>2 DEF HalfDone
<1>5. Agree(m)' <=> Agree(m)
  BY <1>0 DEF Agree
<1>6. (Rest(m) => Agree(m))'
  BY <1>0, <1>4, <1>5 DEF Rest, Sound
<1>7. \A p \in Ops : (req[p].mod = m /\ p # o) =>
        (ToggleSound(p, m) /\ UninstallSound(p, m) /\ PlaceSound(p, m) /\ InstallSound(p, m))'
  BY <1>0, <1>1 DEF Sound, ToggleSound, UninstallSound, PlaceSound, InstallSound, InFlight,
                    HasFile, HasRow, Tmp, Toggles
<1>8. (ToggleSound(o, m) /\ UninstallSound(o, m) /\ PlaceSound(o, m))'
  BY <1>1, <1>2 DEF ToggleSound, UninstallSound, PlaceSound
<1>9. InstallSound(o, m)'
  <2> SUFFICES ASSUME req[o].kind = "install", NEW v \in Versions
               PROVE  (HasRow(m, v, TRUE) => v = req[o].version) /\ ~HasRow(m, v, FALSE)
    BY <1>0, <1>1, <1>2 DEF InstallSound, HasRow
  <2>1. \A r \in ledger : r.mod = m => r = NewRow(o)
    BY DEF Replaces, RowsOf
  <2>2. HasRow(m, v, TRUE) => [mod |-> m, version |-> v, enabled |-> TRUE] = NewRow(o)
    BY <2>1 DEF HasRow
  <2>3. HasRow(m, v, FALSE) => [mod |-> m, version |-> v, enabled |-> FALSE] = NewRow(o)
    BY <2>1 DEF HasRow
  <2> QED BY <2>2, <2>3 DEF NewRow
<1> QED BY <1>0, <1>3, <1>6, <1>7, <1>8, <1>9 DEF Sound

\* Steps that move an operation on without touching its files, but for a .tmp,
\* or its rows.
LEMMA AdvanceSound ==
  ASSUME LedgerInv, NEW o \in Ops, Fetch(o) \/ Check(o) \/ LockAndRead(o),
         NEW m, m = req[o].mod, Sound(m)
  PROVE  Sound(m)'
<1>0. req' = req /\ ledger' = ledger
  BY DEF Fetch, Check, LockAndRead, ReadThen
<1>1. disk \subseteq disk' /\ \A x \in disk' : x \in disk \/ x = Tmp(o)
  BY DEF Fetch, Check, LockAndRead, ReadThen
<1>2. InFlight(o) /\ \A p \in Ops : p # o => pc'[p] = pc[p]
  BY DEF Fetch, Check, LockAndRead, ReadThen, InFlight, LedgerInv, TypeOK
<1>3. /\ pc'[o] \in {"waiting", "done", "writing", "moving"}
      /\ pc'[o] = "writing" => req[o].kind = "install"
      /\ pc[o] \notin {"placing", "writing"}
  BY DEF Fetch, Check, LockAndRead, ReadThen, LedgerInv, TypeOK
<1>4. \A p \in Ops : HalfDone(p)' <=> HalfDone(p)
  BY <1>0, <1>2, <1>3 DEF HalfDone
<1>5. \A v \in Versions : /\ HasFile(m, v, "jar")' <=> HasFile(m, v, "jar")
                          /\ HasFile(m, v, "disabled")' <=> HasFile(m, v, "disabled")
  BY <1>0, <1>1 DEF HasFile, Tmp
<1>6. \A v \in Versions : /\ HasRow(m, v, TRUE)' <=> HasRow(m, v, TRUE)
                          /\ HasRow(m, v, FALSE)' <=> HasRow(m, v, FALSE)
  BY <1>0 DEF HasRow
<1>7. Agree(m)' <=> Agree(m)
  <2>1. \A v \in Versions, form \in {"jar", "disabled"} : HasFile(m, v, form)' <=> HasFile(m, v, form)
    BY <1>5
  <2> QED BY <1>0, <2>1 DEF Agree, HasFile
<1>8. (Rest(m) => Agree(m))'
  BY <1>0, <1>4, <1>7 DEF Rest, Sound
<1>9. Alone(m)'
  BY <1>0, <1>2 DEF Alone, InFlight, Sound
<1>10. \A p \in Ops : (req[p].mod = m /\ p # o) =>
        (ToggleSound(p, m) /\ UninstallSound(p, m) /\ PlaceSound(p, m) /\ InstallSound(p, m))'
  <2> SUFFICES ASSUME NEW p \in Ops, req[p].mod = m, p # o
               PROVE  (ToggleSound(p, m) /\ UninstallSound(p, m) /\ PlaceSound(p, m)
                        /\ InstallSound(p, m))'
    OBVIOUS
  <2>1. ToggleSound(p, m) /\ UninstallSound(p, m) /\ PlaceSound(p, m) /\ InstallSound(p, m)
    BY DEF Sound
  <2>2. pc'[p] = pc[p] /\ req' = req /\ (Tmp(p) \in disk => Tmp(p)' \in disk')
    BY <1>0, <1>1, <1>2 DEF Tmp
  <2>3. ToggleSound(p, m)' /\ UninstallSound(p, m)'
    BY <1>5, <1>6, <2>1, <2>2 DEF ToggleSound, UninstallSound, Toggles
  <2>4. PlaceSound(p, m)'
    BY <1>5, <1>6, <2>1, <2>2 DEF PlaceSound
  <2>5. InstallSound(p, m)'
    BY <1>6, <2>1, <2>2 DEF InstallSound, InFlight
  <2> QED BY <2>3, <2>4, <2>5
<1>11. (ToggleSound(o, m) /\ UninstallSound(o, m) /\ PlaceSound(o, m))'
  BY <1>0, <1>3 DEF ToggleSound, UninstallSound, PlaceSound, Toggles
<1>12. InstallSound(o, m)'
  <2> SUFFICES ASSUME req[o].kind = "install"
               PROVE  /\ \A v \in Versions : (HasRow(m, v, TRUE) => v = req[o].version)
                                             /\ ~HasRow(m, v, FALSE)
                      /\ Tmp(o) \in disk'
    BY <1>0, <1>6 DEF InstallSound, Tmp
  <2>1. InstallSound(o, m)
    BY DEF Sound
  <2>2. pc[o] # "fetching" => Tmp(o) \in disk
    BY <1>2, <1>3, <2>1 DEF InstallSound
  <2>3. pc[o] = "fetching" => Tmp(o) \in disk'
    BY DEF Fetch, Check, LockAndRead, ReadThen
  <2> QED BY <1>1, <1>2, <1>3, <2>1, <2>2, <2>3 DEF InstallSound
<1> QED BY <1>0, <1>8, <1>9, <1>10, <1>11, <1>12 DEF Sound

\* An operation that is cut short before it changed anything for good.
LEMMA CutSound ==
  ASSUME LedgerInv, NEW o \in Ops, Fail(o) \/ Cancel(o), ~HalfDone(o),
         NEW m, m = req[o].mod, Sound(m)
  PROVE  Sound(m)'
<1>0. req' = req /\ ledger' = ledger
  BY DEF Fail, Cancel, CutShort
<1>1. /\ InFlight(o) /\ pc'[o] = "done"
      /\ \A p \in Ops : p # o => pc'[p] = pc[p]
  BY DEF Fail, Cancel, Release, LedgerInv, TypeOK
<1>2. disk' = disk \/ (req[o].kind = "install" /\ disk' = disk \ {Tmp(o)})
  BY DEF Fail, Cancel
<1>3. \A v \in Versions : /\ HasFile(m, v, "jar")' <=> HasFile(m, v, "jar")
                          /\ HasFile(m, v, "disabled")' <=> HasFile(m, v, "disabled")
  BY <1>0, <1>2 DEF HasFile, Tmp
<1>4. Agree(m)' <=> Agree(m)
  <2>1. \A v \in Versions, form \in {"jar", "disabled"} : HasFile(m, v, form)' <=> HasFile(m, v, form)
    BY <1>3
  <2> QED BY <1>0, <2>1 DEF Agree, HasFile
<1>5. \A p \in Ops : HalfDone(p)' <=> HalfDone(p)
  BY <1>0, <1>1 DEF HalfDone
<1>6. (Rest(m) => Agree(m))'
  BY <1>0, <1>4, <1>5 DEF Rest, Sound
<1>7. Alone(m)'
  BY <1>0, <1>1 DEF Alone, InFlight, Sound
<1>8. (ToggleSound(o, m) /\ UninstallSound(o, m) /\ PlaceSound(o, m) /\ InstallSound(o, m))'
  BY <1>1 DEF ToggleSound, UninstallSound, PlaceSound, InstallSound, InFlight
<1>9. ASSUME NEW p \in Ops, req[p].mod = m, p # o
      PROVE  (ToggleSound(p, m) /\ UninstallSound(p, m) /\ PlaceSound(p, m) /\ InstallSound(p, m))'
  <2>1. ToggleSound(p, m) /\ UninstallSound(p, m) /\ PlaceSound(p, m) /\ InstallSound(p, m)
    BY <1>9 DEF Sound
  <2>2. pc'[p] = pc[p] /\ req' = req
    BY <1>0, <1>1, <1>9
  <2>3. ToggleSound(p, m)' /\ UninstallSound(p, m)'
    BY <1>0, <1>3, <2>1, <2>2 DEF ToggleSound, UninstallSound, HasRow, Toggles
  <2>4. CASE disk' = disk
    BY <1>0, <2>1, <2>2, <2>3, <2>4
       DEF PlaceSound, InstallSound, InFlight, HasFile, HasRow, Tmp
  <2>5. CASE req[o].kind = "install"
    <3>1. ~InFlight(p)
      BY <1>1, <1>9, <2>5 DEF Sound, Alone
    <3> QED BY <2>2, <2>3, <3>1 DEF PlaceSound, InstallSound, InFlight
  <2> QED BY <1>2, <2>4, <2>5
<1> QED BY <1>0, <1>6, <1>7, <1>8, <1>9 DEF Sound

\* What a step of an operation does to the files and rows of other mods: nothing.
LEMMA OtherMods ==
  ASSUME LedgerInv, NEW o \in Ops, Begin(o) \/ Step(o) \/ Fail(o) \/ Cancel(o),
         NEW m, m # req[o].mod, Sound(m)
  PROVE  Sound(m)'
<1>1. req' = req
  BY DEF Begin, Step, Fetch, Check, LockAndRead, ReadThen, Rename, Remove, RemoveAs,
         Write, Place, Fail, Cancel, CutShort
<1>2. \A p \in Ops : p # o => pc'[p] = pc[p]
  BY DEF Begin, Step, Fetch, Check, LockAndRead, ReadThen, Rename, Remove, RemoveAs,
         Write, Place, Fail, Cancel, Release, LedgerInv, TypeOK
<1>3. TypeOK
  BY DEF LedgerInv
<1>4. \A v \in Versions, form \in Forms : HasFile(m, v, form)' <=> HasFile(m, v, form)
  <2>1. CASE Begin(o) \/ Fetch(o) \/ Check(o) \/ LockAndRead(o) \/ Write(o) \/ Fail(o) \/ Cancel(o)
    BY <2>1 DEF Begin, Fetch, Check, LockAndRead, ReadThen, Write, Fail, Cancel, HasFile, Tmp
  <2>2. CASE Rename(o)
    <3>1. PICK r \in RowsOf(snap[o], req[o].mod) :
            disk' = (disk \ {FileOf(r)}) \cup {FileOf(Flipped(r))} \/ disk' = disk
      BY <2>2 DEF Rename
    <3>2. r \in Row /\ r.mod = req[o].mod
      BY <3>1, <1>3 DEF RowsOf, TypeOK
    <3>3. Flipped(r).mod = req[o].mod
      BY <3>2, FlippedType
    <3> QED BY <3>1, <3>2, <3>3 DEF FileOf, HasFile
  <2>3. CASE Remove(o)
    <3>1. PICK r \in RowsOf(snap[o], req[o].mod) :
            disk' = disk \ {FileOf([r EXCEPT !.enabled = r.enabled])}
      BY <2>3 DEF Remove, RemoveAs
    <3>2. r \in Row /\ r.mod = req[o].mod
      BY <3>1, <1>3 DEF RowsOf, TypeOK
    <3>3. [r EXCEPT !.enabled = r.enabled] = r
      BY <3>2 DEF Row
    <3> QED BY <3>1, <3>2, <3>3 DEF FileOf, HasFile
  <2>4. CASE Place(o)
    BY <2>4 DEF Place, Tmp, FileOf, NewRow, HasFile
  <2> QED BY <2>1, <2>2, <2>3, <2>4 DEF Step
<1>5. \A v \in Versions, on \in BOOLEAN : HasRow(m, v, on)' <=> HasRow(m, v, on)
  <2>1. CASE Write(o)
    <3>1. snap[o] = ledger /\ ledger' \in Changed(o)
      BY <2>1 DEF Write, LedgerInv, LockInv
    <3>2. \A r : r.mod = m => (r \in ledger' <=> r \in ledger)
      <4>1. CASE req[o].kind = "install"
        <5>1. ledger' = {r \in ledger : r.mod # req[o].mod} \cup {NewRow(o)}
          BY <3>1, <4>1 DEF Changed, Without
        <5>2. NewRow(o).mod = req[o].mod
          BY <1>3, RequestType
        <5> QED BY <5>1, <5>2, Zenon
      <4>2. CASE req[o].kind = "uninstall"
        BY <3>1, <4>2 DEF Changed, Without
      <4>3. CASE req[o].kind \notin {"install", "uninstall"}
        <5>1. PICK r \in RowsOf(ledger, req[o].mod) : ledger' = (ledger \ {r}) \cup {Flipped(r)}
          BY <3>1, <4>3 DEF Changed
        <5>2. r \in Row /\ r.mod = req[o].mod
          BY <5>1, <1>3 DEF RowsOf, TypeOK
        <5>3. Flipped(r).mod = req[o].mod
          BY <5>2, FlippedType
        <5> QED BY <5>1, <5>2, <5>3, Zenon
      <4> QED BY <4>1, <4>2, <4>3
    <3>3. ASSUME NEW v, NEW on
          PROVE  [mod |-> m, version |-> v, enabled |-> on].mod = m
      OBVIOUS
    <3> QED BY <3>2, <3>3, Zenon DEF HasRow
  <2>2. CASE ~Write(o)
    <3>1. ledger' = ledger
      BY <2>2 DEF Begin, Step, Fetch, Check, LockAndRead, ReadThen, Rename, Remove, RemoveAs,
                  Place, Fail, Cancel, CutShort
    <3> QED BY <3>1 DEF HasRow
  <2> QED BY <2>1, <2>2
<1> QED BY <1>1, <1>2, <1>3, <1>4, <1>5, Elsewhere

LEMMA CrashSound ==
  ASSUME LedgerInv, Crash, NEW m, \A o \in Ops : req[o].mod = m => ~HalfDone(o), Sound(m)
  PROVE  Sound(m)'
<1>1. req' = req /\ ledger' = ledger /\ disk' = disk
  BY DEF Crash
<1>2. \A o \in Ops : ~InFlight(o)'
  BY DEF Crash, InFlight
<1>3. Agree(m)'
  BY <1>1 DEF Sound, Rest, Agree
<1> QED BY <1>2, <1>3 DEF Sound, Alone, ToggleSound, UninstallSound, PlaceSound,
                          InstallSound, InFlight

LEMMA FilesStep == LedgerInv /\ FilesInv /\ [Next]_vars => FilesInv'
<1> SUFFICES ASSUME LedgerInv, FilesInv, [Next]_vars,
                    NEW m \in Mods, m \notin disturbed'
             PROVE  Sound(m)'
  BY DEF FilesInv
<1>1. CASE UNCHANGED vars
  <2>1. m \notin disturbed
    BY <1>1 DEF vars
  <2>2. Sound(m)
    BY <2>1 DEF FilesInv
  <2> QED BY <1>1, <2>2, Elsewhere DEF vars, HasFile, HasRow, LedgerInv
<1>2. CASE Crash
  <2>1. m \notin disturbed /\ \A o \in Ops : req[o].mod = m => ~HalfDone(o)
    BY <1>2 DEF Crash
  <2> QED BY <1>2, <2>1, CrashSound DEF FilesInv
<1>3. ASSUME NEW o \in Ops, Begin(o) \/ Step(o) \/ Fail(o) \/ Cancel(o)
      PROVE  Sound(m)'
  <2>1. m \notin disturbed
    BY <1>3 DEF Begin, Step, Fetch, Check, LockAndRead, ReadThen, Rename, Remove, RemoveAs,
                Write, Place, Fail, Cancel, CutShort
  <2>2. Sound(m)
    BY <2>1 DEF FilesInv
  <2>3. CASE m # req[o].mod
    BY <1>3, <2>2, <2>3, OtherMods
  <2>4. CASE m = req[o].mod
    <3>1. CASE Begin(o)
      <4>1. ~Overlaps(o) /\ ~Replaces(o)
        BY <2>4, <3>1 DEF Begin
      <4> QED BY <2>2, <2>4, <3>1, <4>1, BeginSound
    <3>2. CASE Fail(o) \/ Cancel(o)
      <4>1. ~HalfDone(o)
        BY <2>4, <3>2 DEF Fail, Cancel, CutShort
      <4> QED BY <2>2, <2>4, <3>2, <4>1, CutSound
    <3>3. CASE Step(o)
      BY <2>2, <2>4, <3>3, AdvanceSound, RenameSound, RemoveSound, WriteSound, PlaceKeepsSound
         DEF Step
    <3> QED BY <1>3, <3>1, <3>2, <3>3
  <2> QED BY <2>3, <2>4
<1> QED BY <1>1, <1>2, <1>3 DEF Next

\* Files and rows of a mod agree whenever no operation on it is in flight and
\* nothing disturbed it: enable, disable and uninstall may run in any number and
\* order, and other mods may be installed, fail, be cancelled or crash meanwhile.
THEOREM FilesAgree == Spec => []UndisturbedAgree
<1>1. LedgerInv /\ FilesInv => UndisturbedAgree
  <2> SUFFICES ASSUME LedgerInv, FilesInv, NEW m \in Mods \ disturbed, ~Busy(m)
               PROVE  Agree(m)
    BY DEF UndisturbedAgree
  <2>1. Rest(m)
    BY DEF Busy, Rest, HalfDone, InFlight
  <2> QED BY <2>1 DEF FilesInv, Sound
<1>2. Init => LedgerInv /\ FilesInv
  BY LedgerInit, FilesInit
<1>3. LedgerInv /\ FilesInv /\ [Next]_vars => (LedgerInv /\ FilesInv)'
  BY LedgerStep, FilesStep
<1> QED BY <1>1, <1>2, <1>3, PTL DEF Spec
=============================================================================
