----------------------------- MODULE JavaInstall -----------------------------
(* The Java runtime a launch needs (java/service.rs, mojang_jre.rs,           *)
(* adoptium.rs, mapping.rs).  A runtime is found by its executable alone;     *)
(* when that is missing the runtime is downloaded into the directory          *)
(* <name>.tmp, emptied first, which is renamed at the end.  Mojang's runtimes *)
(* come file by file from parallel tasks, each by atomic_write, whose         *)
(* temporary name two files can share (java.policy and java.security);        *)
(* Adoptium's as one archive unpacked by a blocking task that outlives a      *)
(* cancelled launch.  So does every write or removal that a launch has handed *)
(* to the runtime's threads.  Nothing keeps two launches, or a launch and a   *)
(* loader install, from doing it at once.                                     *)
(*                                                                            *)
(* A Mojang component is named here by the major version it holds.            *)
EXTENDS Naturals, FiniteSets

CONSTANTS
  Uses,           \* launches and loader installs, each run once
  Asks,           \* what they may ask for: a major version and an override
  Majors,         \* Java's major versions
  Offered,        \* those Mojang has a component for on this platform
  Known,          \* whether Mojang has this platform at all
  Files,          \* the files of a runtime
  Exe,            \* the one that is its executable
  Stem,           \* file -> its path without the extension
  Nil,
  MaxJavaMishaps  \* bound: failed requests, cancels and crashes

\* What the constants have to be.
ASSUME JavaInputs ==
  /\ Majors \subseteq Nat /\ Offered \subseteq Majors
  /\ Known \in BOOLEAN /\ Exe \in Files /\ MaxJavaMishaps \in Nat
  /\ {"none", "whole"} \cap Uses = {}

Runtime(source, major) == [source |-> source, major |-> major]
Managed == {Runtime(s, m) : s \in {"mojang", "adoptium"}, m \in Majors}
Installed == {Runtime("system", m) : m \in Majors}

\* What a file of a runtime is: missing, complete, or only begun by a use.
States == {"none", "whole"} \cup Uses

ASSUME AsksForVersions == Asks \subseteq Majors \X (Managed \cup Installed \cup {Nil})

ASSUME NilIsNothing ==
  Nil \notin Managed \cup Installed /\ Nil \notin [Files -> States]

Use == [at : {"idle", "index", "fetch", "clear", "unpack", "orphan", "sweep",
              "answered", "spawned", "failed"},
        want : Majors \cup {Nil}, override : Managed \cup Installed \cup {Nil},
        runtime : Managed \cup Installed \cup {Nil}]

VARIABLES
  use,          \* use -> [at, want, override, runtime]: how far it is, what the
                \* version and the instance ask for, the runtime chosen
  dir,          \* managed runtime -> its files under its name, or Nil
  extracted,    \* managed runtime -> its files in the temporary directory, or Nil
  begun,        \* use -> the files it has opened
  wrote,        \* use -> the files it has written to the end
  overlapped,   \* the runtimes two uses were in the temporary directory of, or
                \* two files of which were being written under one temporary name
  javaMishaps   \* how many went wrong so far

javaVars == <<use, dir, extracted, begun, wrote, overlapped, javaMishaps>>
----------------------------------------------------------------------------
(* Resolution *)

HasExe(r) == dir[r] # Nil /\ dir[r][Exe] # "none"

\* validate_java_major: newer is good enough.
SuitableEver(found, required) == TRUE
Suitable(found, required) == found >= required

\* Where a request begins: an override is taken as it is, but for a system
\* runtime that is too old or a Mojang one on a platform Mojang does not have;
\* without one the version's component is looked for on disk, then in Mojang's
\* index, and where Mojang has no such platform Adoptium is asked at once.  A
\* managed runtime whose executable is there is the answer without a request.
Route(want, o) ==
  LET auto == Runtime(IF Known THEN "mojang" ELSE "adoptium", want)
      r    == IF o = Nil THEN auto ELSE o
      at   == IF r.source = "system"
              THEN IF Suitable(r.major, want) THEN "answered" ELSE "failed"
              ELSE IF r.source = "mojang" /\ ~Known THEN "failed"
              ELSE IF HasExe(r) THEN "answered"
              ELSE IF r.source = "mojang" THEN "index" ELSE "fetch"
  IN  [at |-> at, want |-> want, override |-> o, runtime |-> r]

Ask(u, want, o) ==
  /\ use[u].at = "idle"
  /\ use' = [use EXCEPT ![u] = Route(want, o)]
  /\ UNCHANGED <<dir, extracted, begun, wrote, overlapped, javaMishaps>>

\* A system runtime can have been removed since it was chosen.
AskForGone(u, want, o) ==
  /\ use[u].at = "idle" /\ o \in Installed
  /\ use' = [use EXCEPT ![u] = [Route(want, o) EXCEPT !.at = "failed"]]
  /\ UNCHANGED <<dir, extracted, begun, wrote, overlapped, javaMishaps>>

To(u, at) == use' = [use EXCEPT ![u].at = at]

\* Mojang's index names the component, and its own check comes first again; an
\* unnamed one is Adoptium's turn, unless it was the override.
Index(u) ==
  LET r == use[u].runtime
      a == Runtime("adoptium", r.major)
      Begun(x) == IF HasExe(x) THEN "answered" ELSE "fetch"
  IN  /\ use[u].at = "index"
      /\ \/ r.major \in Offered /\ To(u, Begun(r))
         \/ /\ r.major \notin Offered /\ use[u].override = Nil
            /\ use' = [use EXCEPT ![u].runtime = a, ![u].at = Begun(a)]
         \/ r.major \notin Offered /\ use[u].override # Nil /\ To(u, "failed")
      /\ UNCHANGED <<dir, extracted, begun, wrote, overlapped, javaMishaps>>

\* Those in the temporary directory of r: unpacking or removing, or gone with
\* a write of theirs still going on.
Busy(r) ==
  {u \in Uses : /\ use[u].runtime = r
                /\ \/ use[u].at \in {"clear", "unpack", "orphan", "sweep"}
                   \/ begun[u] # wrote[u]}

\* The manifest or the archive has come with the right checksum, and the
\* temporary directory is going to be removed, whoever else is in it.
Fetched(u) ==
  LET r == use[u].runtime
  IN  /\ use[u].at = "fetch"
      /\ To(u, "clear")
      /\ overlapped' = overlapped \cup {x \in {r} : Busy(r) # {}}
      /\ UNCHANGED <<dir, extracted, begun, wrote, javaMishaps>>
----------------------------------------------------------------------------
(* Unpacking *)

Nothing == [f \in Files |-> "none"]

\* A removal may do nothing at all; its errors are ignored.
Removed(r) == \/ extracted' = [extracted EXCEPT ![r] = Nil]
              \/ UNCHANGED extracted

\* The temporary directory has been removed and is made anew.
Clear(u) ==
  LET r == use[u].runtime
  IN  /\ use[u].at = "clear"
      /\ To(u, "unpack")
      /\ \E x \in {Nil, extracted[r]} :
           extracted' = [extracted EXCEPT ![r] = IF x = Nil THEN Nothing ELSE x]
      /\ UNCHANGED <<dir, begun, wrote, overlapped, javaMishaps>>

\* The file f as c in a directory x, made anew when it is gone.
Put(x, f, c) == [(IF x = Nil THEN Nothing ELSE x) EXCEPT ![f] = c]

\* A file is opened.  The archive's come one after another and under their own
\* names; Mojang's many at a time and under temporary ones.
Begin(u, f) ==
  LET r == use[u].runtime
      shared == \E w \in Uses : /\ use[w].runtime = r
                                /\ \E g \in begun[w] \ wrote[w] : Stem[g] = Stem[f]
  IN  /\ f \in Files \ begun[u]
      /\ \/ /\ use[u].at \in {"unpack", "orphan"} /\ r.source = "adoptium"
            /\ begun[u] = wrote[u]
            /\ extracted' = [extracted EXCEPT ![r] = Put(@, f, u)]
            /\ UNCHANGED overlapped
         \/ /\ use[u].at = "unpack" /\ r.source = "mojang"
            /\ overlapped' = overlapped \cup {x \in {r} : shared}
            /\ UNCHANGED extracted
      /\ begun' = [begun EXCEPT ![u] = @ \cup {f}]
      /\ UNCHANGED <<use, dir, wrote, javaMishaps>>

\* Its last byte is written.  The archive's file is complete wherever it is by
\* now.  One of Mojang's is renamed, unless its task is gone; the bytes may be
\* another's, when the temporary name was in two hands.
End(u, f) ==
  LET r == use[u].runtime
      Done(x) == IF x # Nil /\ x[f] = u THEN [x EXCEPT ![f] = "whole"] ELSE x
  IN  /\ f \in begun[u] \ wrote[u]
      /\ \/ /\ r.source = "adoptium"
            /\ extracted' = [extracted EXCEPT ![r] = Done(@)]
            /\ dir' = [dir EXCEPT ![r] = Done(@)]
         \/ /\ r.source = "mojang"
            /\ \/ \E c \in {"whole"} \cup {w \in Uses : r \in overlapped} :
                    extracted' = [extracted EXCEPT ![r] = Put(@, f, c)]
               \/ use[u].at # "unpack" /\ UNCHANGED extracted
            /\ UNCHANGED dir
      /\ wrote' = [wrote EXCEPT ![u] = @ \cup {f}]
      /\ UNCHANGED <<use, begun, overlapped, javaMishaps>>

UnpackedExe(u) == Exe \in wrote[u]
Unpacked(u) == wrote[u] = Files

\* The rename works when there is something to rename and nothing in the way;
\* else what has been unpacked is removed.
RenameRuntime(u) ==
  LET r    == use[u].runtime
      fits == extracted[r] # Nil /\ dir[r] \in {Nil, Nothing}
  IN  /\ use[u].at = "unpack" /\ Unpacked(u)
      /\ \/ /\ fits /\ To(u, "answered")
            /\ dir' = [dir EXCEPT ![r] = extracted[r]]
            /\ extracted' = [extracted EXCEPT ![r] = Nil]
         \/ ~fits /\ To(u, "sweep") /\ UNCHANGED <<dir, extracted>>
      /\ UNCHANGED <<begun, wrote, overlapped, javaMishaps>>

\* The blocking task of a cancelled launch comes to its end; nobody renames.
OrphanEnds(u) ==
  /\ use[u].at = "orphan" /\ Unpacked(u)
  /\ To(u, "failed")
  /\ UNCHANGED <<dir, extracted, begun, wrote, overlapped, javaMishaps>>

\* A removal that nobody waits for, or that a failure waits for, is over.
Swept(u) ==
  /\ use[u].at = "sweep"
  /\ To(u, "failed")
  /\ Removed(use[u].runtime)
  /\ UNCHANGED <<dir, begun, wrote, overlapped, javaMishaps>>

\* The launch looks for the executable once more before it starts the game.
CheckBinary(u) ==
  LET r == use[u].runtime
  IN  /\ use[u].at = "answered"
      /\ To(u, IF r \in Installed \/ HasExe(r) THEN "spawned" ELSE "failed")
      /\ UNCHANGED <<dir, extracted, begun, wrote, overlapped, javaMishaps>>
----------------------------------------------------------------------------
(* What goes wrong *)

JavaMishap == javaMishaps < MaxJavaMishaps /\ javaMishaps' = javaMishaps + 1

\* A request or a write fails: what has been unpacked is removed, except where
\* a directory or a link could not be made.  The archive's file is left as far
\* as it came; a task of Mojang's can lose its file to another of that
\* temporary name, and those that are writing go on.
Fails(u) ==
  /\ use[u].at \in {"index", "fetch", "clear", "unpack"}
  /\ JavaMishap
  /\ \/ To(u, "failed")
     \/ use[u].at \in {"clear", "unpack"} /\ To(u, "sweep")
  /\ begun' = IF use[u].runtime.source = "adoptium"
              THEN [begun EXCEPT ![u] = wrote[u]] ELSE begun
  /\ UNCHANGED <<dir, extracted, wrote, overlapped>>

\* A cancelled launch is dropped where it is, and Mojang's tasks with it; what
\* the runtime's threads are doing for it goes on.
CancelUse(u) ==
  /\ use[u].at \in {"index", "fetch", "clear", "unpack"}
  /\ JavaMishap
  /\ To(u, IF use[u].at = "clear" THEN "sweep"
           ELSE IF use[u].at = "unpack" /\ use[u].runtime.source = "adoptium"
           THEN "orphan" ELSE "failed")
  /\ UNCHANGED <<dir, extracted, begun, wrote, overlapped>>

JavaCrash ==
  /\ JavaMishap
  /\ use' = [u \in Uses |-> IF use[u].at \in {"idle", "spawned"} THEN use[u]
                            ELSE [use[u] EXCEPT !.at = "failed"]]
  /\ begun' = wrote
  /\ UNCHANGED <<dir, extracted, wrote, overlapped>>

JavaInit ==
  /\ use = [u \in Uses |-> [at |-> "idle", want |-> Nil, override |-> Nil, runtime |-> Nil]]
  /\ dir = [r \in Managed |-> Nil]
  /\ extracted = [r \in Managed |-> Nil]
  /\ begun = [u \in Uses |-> {}]
  /\ wrote = [u \in Uses |-> {}]
  /\ overlapped = {}
  /\ javaMishaps = 0

UseStep(u) ==
  \/ Index(u) \/ Fetched(u) \/ Clear(u) \/ (\E f \in Files : Begin(u, f) \/ End(u, f))
  \/ RenameRuntime(u) \/ OrphanEnds(u) \/ Swept(u) \/ CheckBinary(u)

JavaNext ==
  \/ \E u \in Uses :
       \/ \E ask \in Asks : Ask(u, ask[1], ask[2]) \/ AskForGone(u, ask[1], ask[2])
       \/ UseStep(u) \/ Fails(u) \/ CancelUse(u)
  \/ JavaCrash

JavaSpec == JavaInit /\ [][JavaNext]_javaVars
----------------------------------------------------------------------------
(* Properties *)

\* Every variable holds what its comment says.
JavaTypeOK ==
  /\ use \in [Uses -> Use]
  /\ dir \in [Managed -> [Files -> States] \cup {Nil}]
  /\ extracted \in [Managed -> [Files -> States] \cup {Nil}]
  /\ begun \in [Uses -> SUBSET Files]
  /\ wrote \in [Uses -> SUBSET Files]
  /\ overlapped \subseteq Managed /\ javaMishaps \in 0..MaxJavaMishaps

Complete == [f \in Files |-> "whole"]

\* A runtime under its final name has every file, to the last byte, whatever
\* failed, was cancelled or died on the way, and even when an earlier attempt's
\* files could not be removed; its executable may be taken as proof of the
\* rest.  Only two writers in its temporary directory at the same time can
\* leave something else there, which no later launch repairs: two uses, one of
\* which may have been cancelled long ago, or two files of one temporary name.
WholeUnlessOverlapped ==
  \A r \in Managed \ overlapped : dir[r] \in {Nil, Complete}

\* A game is started with a runtime that is complete, with the same exception,
\* and, unless the instance names a managed one, new enough for its version.
StartsWithItsJava ==
  \A u \in Uses : use[u].at = "spawned" =>
    LET r == use[u].runtime
    IN  /\ r \in Managed \ overlapped => dir[r] = Complete
        /\ use[u].override \notin Managed => r.major >= use[u].want

\* launch_instance's promise: a runtime that is too old is refused before
\* anything is spawned.
NeverTooOld ==
  \A u \in Uses : use[u].at = "spawned" => use[u].runtime.major >= use[u].want
=============================================================================
