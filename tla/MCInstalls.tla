------------------------------ MODULE MCInstalls ------------------------------
(* What installs and removals of loaders do to the disk, with two instances   *)
(* and two loaders; or the dialogues they are asked for in, with two          *)
(* instances, three installs and two games; or the install of a mod with what *)
(* it requires, out of three projects.  The three share no state: a behaviour *)
(* follows one of them.                                                       *)
EXTENDS MCLoaderInstall, LoaderDialogs, MCDepResolve

VARIABLE subject  \* what the behaviour is about

MCSymmetry == Permutations(Jobs) \cup Permutations(Slugs)

MCInit ==
  /\ subject \in {"files", "dialogues", "mods"}
  /\ subject # "files" => req = [o \in Ops |-> Asks("remove", i1, fabric)]
  /\ subject # "mods" => /\ newest = TRUE /\ rows = {}
                         /\ needs = [v \in Releases |-> {}]
                         /\ bars = [v \in Releases |-> {}]
  /\ Init /\ DialogInit /\ MCResolveInit

MCNext ==
  \/ subject = "files" /\ Next /\ UNCHANGED <<dialogVars, resolveVars, subject>>
  \/ subject = "dialogues" /\ DialogNext /\ UNCHANGED <<vars, resolveVars, subject>>
  \/ subject = "mods" /\ ResolveNext /\ UNCHANGED <<vars, dialogVars, subject>>

MCSpec == MCInit /\ [][MCNext]_<<vars, dialogVars, resolveVars, subject>>
==============================================================================
