------------------------------ MODULE ItemLedger ------------------------------
(***************************************************************************)
(* What the ledger of an instance promises: it is a table with at most one *)
(* row for each item, and it changes by whole mutations, each applied to   *)
(* the table as it stands, so that no mutation undoes another's.  ModLedger *)
(* implements this specification.                                          *)
(***************************************************************************)
CONSTANTS Mods, Versions

VARIABLE rows

Row == [mod : Mods, version : Versions, enabled : BOOLEAN]

OneRowPerMod == \A r, s \in rows : r.mod = s.mod => r = s

Init == rows \in SUBSET Row /\ OneRowPerMod

Put(new) == rows' = {r \in rows : r.mod # new.mod} \cup {new}

Flip(old) == /\ old \in rows
             /\ rows' = (rows \ {old}) \cup {[old EXCEPT !.enabled = ~@]}

Drop(m) == rows' = {r \in rows : r.mod # m}

Next == (\E r \in Row : Put(r) \/ Flip(r)) \/ (\E m \in Mods : Drop(m))

Spec == Init /\ [][Next]_rows
=============================================================================
