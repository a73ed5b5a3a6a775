------------------------------- MODULE MCStores -------------------------------
(* Three kinds of files that operations read, change and replace with nothing *)
(* to keep two of them apart: the accounts and their tokens, the manifests of *)
(* the instances, and the packs of one.  They share no file: a behaviour      *)
(* follows one of the three.                                                  *)
EXTENDS AccountStore, InstanceStore, PackFiles, TLC

CONSTANTS o1, o2, o3

\* Two accounts, a there at first: the refresh of one that is there, the activation
\* of one that may come, logins and removals of both; one of three is a refresh,
\* which every launch makes.
CONSTANTS a, b

MCRequests ==
  {[kind |-> k, id |-> id] : k \in {"add", "remove"}, id \in {a, b}}
    \cup {[kind |-> "activate", id |-> b], [kind |-> "refresh", id |-> a]}

VARIABLE subject  \* what the behaviour is about

-----------------------------------------------------------------------------
\* One instance and room for a second one; whatever the operations are, they may
\* be asked of either.
CONSTANTS s1, s2

MCManifest(kind, s, f) == [kind |-> kind, slug |-> s, field |-> f]

MCManifestRequests ==
  {MCManifest("create", s1, "name"), MCManifest("clone", s1, "name"),
   MCManifest("delete", s1, "name"), MCManifest("record", s1, "name"),
   MCManifest("edit", s1, "name"), MCManifest("edit", s1, "group"),
   MCManifest("edit", s2, "name"), MCManifest("delete", s2, "name")}

-----------------------------------------------------------------------------
\* Pack p is there as n1.  It can be installed again, brought to the version
\* with content h2 or to n2; q is another project with the file name n1; files n1
\* and n2 with one content, loc, can be dropped.
CONSTANTS p, q, loc, n1, n2, h1, h2

MCPack(kind, id, type, name, hash) ==
  [kind |-> kind, id |-> id, pack |-> type, name |-> name, hash |-> hash]

MCPackRequests ==
  {MCPack("install", p, "resource", n1, h1), MCPack("install", p, "resource", n1, h2),
   MCPack("install", p, "resource", n2, h1), MCPack("install", q, "resource", n1, h2),
   MCPack("drop", loc, "resource", n1, h2), MCPack("drop", loc, "resource", n2, h2),
   MCPack("drop", loc, "shader", n2, h2),
   MCPack("uninstall", loc, "shader", n2, h2), MCPack("toggle", loc, "resource", n2, h2),
   MCPack("toggle", p, "resource", n1, h1), MCPack("uninstall", p, "resource", n1, h1)}

MCPreinstalled == {[id |-> p, pack |-> "resource", name |-> n1, hash |-> h1, enabled |-> TRUE]}

-----------------------------------------------------------------------------
MCSymmetry == Permutations(Ops)

\* What is asked for where a behaviour is about something else.
Idly(request) == [o \in Ops |-> request]

MCInit ==
  /\ subject \in {"accounts", "manifests", "packs"}
  /\ subject # "accounts" =>
       /\ req = Idly([kind |-> "remove", id |-> a])
       /\ keyring = [id \in Ids |-> IF id \in Present THEN id ELSE None]
       /\ list = [id \in Ids |-> IF id \in Present THEN "idle" ELSE "absent"]
  /\ subject # "manifests" => asked = Idly(MCManifest("delete", s1, "name"))
  /\ subject # "packs" => wanted = Idly(MCPack("toggle", p, "resource", n1, h1))
  /\ Init /\ StoreInit /\ PackInit
  /\ subject = "accounts" => \E o \in Ops : req[o].kind = "refresh"

MCNext ==
  /\ \/ subject = "accounts" /\ Next /\ UNCHANGED <<storeVars, packVars>>
     \/ subject = "manifests" /\ StoreNext /\ UNCHANGED <<vars, packVars>>
     \/ subject = "packs" /\ PackNext /\ UNCHANGED <<vars, storeVars>>
  /\ subject' = subject

MCSpec == MCInit /\ [][MCNext]_<<vars, storeVars, packVars, subject>>
=============================================================================
