----------------------------- MODULE MCDepResolve -----------------------------
(* Three projects: every graph of what they require, one of them incompatible *)
(* with others; Root's versions require the same.                             *)
EXTENDS DepResolve, TLC

CONSTANTS a, b

Others(v) == Projects \ {Project(v)}

MCResolveInit ==
  /\ newest \in BOOLEAN
  /\ needs \in {g \in [Releases -> SUBSET Projects] : \A v \in Releases : g[v] \subseteq Others(v)}
  /\ needs[Root] = needs[Chosen]
  /\ \E v \in Projects : \E ps \in SUBSET (Others(v) \ needs[v]) :
       bars = [w \in Releases |-> IF Project(w) = v THEN ps ELSE {}]
  /\ ResolveInit

MCResolveSpec == MCResolveInit /\ [][ResolveNext]_resolveVars

MCResolveSymmetry == Permutations({a, b})
=============================================================================
