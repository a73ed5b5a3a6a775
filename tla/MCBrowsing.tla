------------------------------ MODULE MCBrowsing ------------------------------
(* Where the user looks for something to install: the browsers of mods, with  *)
(* two instances, two mods, a query that finds both and one that finds the    *)
(* second; or the dialogue that imports a modpack, with two imports.  The two *)
(* share no state: a behaviour follows one of them.                           *)
EXTENDS ModBrowsing, ModpackImport, TLC

CONSTANTS m1, m2, empty, text

MCHits == (empty :> <<m1, m2>>) @@ (text :> <<m2>>)

\* Two imports: of a modpack of mods, one not for clients, and a loader, and of one
\* with a file that does not belong in mods.  One directory more than one needs.
CONSTANTS i1, i2, d1, d2, mod, server, other

MCModpack(i) == [files |-> IF i = i1 THEN {mod, server} ELSE {other}, loader |-> i = i1]
MCModpacks == {MCModpack(i) : i \in Imports}

-----------------------------------------------------------------------------
VARIABLE subject  \* what the behaviour is about

MCSymmetry == Permutations(Slugs) \cup Permutations(Slots) \cup Permutations(Dirs)

MCInit ==
  /\ subject \in {"browsers", "imports"}
  /\ pack = [i \in Imports |-> MCModpack(i)]
  /\ Init /\ ImportInit

MCNext ==
  /\ \/ subject = "browsers" /\ Next /\ UNCHANGED importVars
     \/ subject = "imports" /\ ImportNext /\ UNCHANGED vars
  /\ subject' = subject

MCSpec == MCInit /\ [][MCNext]_<<vars, importVars, subject>>
===============================================================================
