--------------------------- MODULE MCLoaderInstall ---------------------------
(* Two instances, a Fabric version with two libraries and a Forge version *)
(* that shares one of them; each run chooses what the operations may do.  *)
EXTENDS LoaderInstall

CONSTANTS i1, i2, fabric, forge, l1, l2

MCLibsOf == [v \in {fabric, forge} |-> IF v = fabric THEN {l1, l2} ELSE {l2}]

Asks(kind, i, v) == [kind |-> kind, inst |-> i, version |-> v]

MCRequests == {Asks("install", i1, fabric), Asks("install", i2, fabric),
               Asks("install", i1, forge), Asks("remove", i1, fabric)}
=============================================================================
