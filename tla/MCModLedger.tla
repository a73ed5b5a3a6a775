---------------------------- MODULE MCModLedger ----------------------------
(* Small instances of ModLedger for TLC. *)
EXTENDS ModLedger, TLC

CONSTANTS a, b, v1, v2, o1, o2, o3

Ask(kind, m, v) == [kind |-> kind, mod |-> m, version |-> v]
Has(m, v, on) == [mod |-> m, version |-> v, enabled |-> on]

\* Mod a is there, mod b is not; a can be updated, b installed, both changed.
MCRequests ==
  {Ask("install", a, v1), Ask("install", a, v2), Ask("install", b, v1)}
    \cup {Ask(k, m, v1) : k \in {"enable", "disable", "uninstall"}, m \in {a, b}}
MCPreinstalled == {Has(a, v1, TRUE)}

\* A mod that is there is brought to its next version.
MCUpdate == {Ask("install", a, v2)}
=============================================================================
