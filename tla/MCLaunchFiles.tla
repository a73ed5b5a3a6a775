---------------------------- MODULE MCLaunchFiles ----------------------------
(* Two installs, or an install and two launches.  v1 has a library and one    *)
(* with natives; the loader's version replaces the library by its own.  v2    *)
(* has an index that lists one object twice, as Mojang's do.  v3 names no     *)
(* client.                                                                    *)
(*                                                                            *)
(* A launch reads the version's files and then sees to its Java runtime.  The *)
(* two share no state: the run follows the first where an install or a launch *)
(* of a version is asked for, and the second where none is.                   *)
EXTENDS VersionInstall, JavaInstall

CONSTANTS v1, v2, v3, loader, j1, j2, l1, l2

Artifact(ga, ver, file) ==
  [ga |-> ga, ver |-> ver, rules |-> <<>>, artifact |-> file,
   natives |-> None, classifiers |-> None]

Natives(ga, ver, file) ==
  [Artifact(ga, ver, None) EXCEPT !.natives = [x \in {OS} |-> "key"],
                                  !.classifiers = [x \in {"key"} |-> file]]

Only(action, os) == [action |-> action, os |-> os, arch |-> None, feature |-> FALSE]

Plain(id, assets, downloads, libs) ==
  [id |-> id, inherits |-> None, assets |-> assets, downloads |-> downloads,
   java |-> None, args |-> None, main |-> id, libs |-> libs]

MCMeta ==
  [v \in {v1, v2, v3, loader} |->
     CASE v = v1 -> Plain(v1, "one", "client",
                          <<Artifact("asm", 1, "asm1"), Natives("lwjgl", 1, "lwjgl1"),
                            [Artifact("mac", 1, "mac1") EXCEPT !.rules = <<Only("allow", "osx")>>]>>)
       [] v = v2 -> Plain(v2, "twice", "client", <<>>)
       [] v = v3 -> Plain(v3, "one", "bare", <<>>)
       [] OTHER  -> [Plain(loader, None, None, <<Artifact("asm", 2, "asm2")>>) EXCEPT !.inherits = v1]]

MCTogether == {{j1, j2}, {j1, l1}, {l1, l2}, {}}

MCAssets == [i \in {"one", "twice"} |-> IF i = "one" THEN <<"h1">> ELSE <<"h1", "h1">>]

\* A version that Mojang has no runtime for and one it has, and the overrides:
\* another's runtime, one Mojang lacks, a system's that is too old, one newer.
MCAsks ==
  {<<17, Nil>>, <<21, Nil>>, <<21, Runtime("adoptium", 17)>>, <<17, Runtime("mojang", 21)>>,
   <<21, Runtime("mojang", 17)>>, <<21, Runtime("system", 17)>>, <<17, Runtime("system", 21)>>}

\* atomic_write gives the two files of this runtime one temporary name.
MCStem == [f \in Files |-> "java"]

Nobody == (\A j \in Jobs : job[j].at = "never") /\ (\A l \in Launches : launch[l].at = "never")

MCInit == Init /\ JavaInit

MCNext ==
  \/ ~Nobody /\ Next /\ UNCHANGED javaVars
  \/ Nobody /\ JavaNext /\ UNCHANGED vars

MCSpec == MCInit /\ [][MCNext]_<<vars, javaVars>> /\ Fairness

=============================================================================
