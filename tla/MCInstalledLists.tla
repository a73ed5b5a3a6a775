--------------------------- MODULE MCInstalledLists ---------------------------
(* The mods and the resource packs of an instance. *)
EXTENDS InstalledLists, TLC

CONSTANTS mods, packs, x, y, z

MCCycleTo == (mods :> packs) @@ (packs :> mods)
MCOwn == (mods :> {x, y}) @@ (packs :> {z})
MCSymmetry == Permutations(Slots)
=============================================================================
