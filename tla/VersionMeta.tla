----------------------------- MODULE VersionMeta -----------------------------
(* What a version's JSON says, as the install and the launch read it: the     *)
(* merge of a version with the versions it inherits from, the rules that      *)
(* decide which libraries count on this platform, which of them hold natives, *)
(* and the class path (mojang/inherits.rs, rules.rs, natives.rs,              *)
(* launcher/classpath.rs).  Operators only: VersionInstall uses them in its   *)
(* steps.                                                                     *)
(*                                                                            *)
(* A version is a record [id, inherits, assets, downloads, java, args, main,  *)
(* libs]; a field the JSON leaves out is None.  A library is a record [ga,    *)
(* ver, rules, artifact, natives, classifiers].                               *)
EXTENDS Naturals, Sequences, SequencesExt, FiniteSets

CONSTANTS
  None,         \* a field that is absent
  OS,           \* the operating system the program runs on
  Arch          \* its processor

MaxInheritsDepth == 3

----------------------------------------------------------------------------
(* Rules *)

Matches(wanted, actual) == wanted \in {None, actual}

\* No feature is ever enabled (RuleContext::current), so a rule that requires
\* one never applies; one that mentions a feature as false does.
RuleApplies(rule) ==
  /\ Matches(rule.os, OS)
  /\ Matches(rule.arch, Arch)
  /\ ~rule.feature

\* No rules include the library; otherwise the last rule that applies decides,
\* and none that applies leaves it out.
EvaluateRules(rules) ==
  \/ rules = <<>>
  \/ \E i \in DOMAIN rules :
       /\ RuleApplies(rules[i])
       /\ rules[i].action = "allow"
       /\ \A j \in (i + 1)..Len(rules) : ~RuleApplies(rules[j])

----------------------------------------------------------------------------
(* Natives *)

\* Natives are unpacked only for a library that has both keys.
NeedsExtraction(lib) == lib.natives # None /\ lib.classifiers # None

\* The classifier's file for this system, or None.
NativeArtifact(lib) ==
  IF NeedsExtraction(lib) /\ OS \in DOMAIN lib.natives
     /\ lib.natives[OS] \in DOMAIN lib.classifiers
  THEN lib.classifiers[lib.natives[OS]]
  ELSE None

----------------------------------------------------------------------------
(* inheritsFrom *)

Or(child, parent) == IF child # None THEN child ELSE parent

\* The child's libraries, one after the other, each over the first of the
\* PARENT's own libraries with its group and artifact, or else at the end.
MergeLibs(parent, child) ==
  LET At(c) == {i \in DOMAIN parent : parent[i].ga = c.ga}
      Put(libs, c) == IF At(c) = {} THEN Append(libs, c)
                      ELSE [libs EXCEPT ![CHOOSE i \in At(c) : \A j \in At(c) : i <= j] = c]
  IN  FoldLeft(Put, parent, child)

Merge(parent, child) ==
  [child EXCEPT !.inherits  = None,
                !.assets    = Or(@, parent.assets),
                !.downloads = Or(@, parent.downloads),
                !.java      = Or(@, parent.java),
                !.args      = IF None \in {@, parent.args} THEN Or(@, parent.args)
                              ELSE parent.args \o @,
                !.libs      = MergeLibs(parent.libs, @)]

\* The walk from version v up its ancestors: the n-th one's id, or None.
Lineage(v, json) ==
  LET up[n \in 0..MaxInheritsDepth] ==
        IF n = 0 THEN v
        ELSE IF up[n - 1] \in DOMAIN json THEN json[up[n - 1]].inherits ELSE None
  IN  up

\* resolve_inner refuses a chain that comes back to an id it has seen, that is
\* too long, or that leads to a version it has not been given.
Resolves(v, json) ==
  \E up \in {Lineage(v, json)} :
    \A n \in 1..MaxInheritsDepth : up[n] # None =>
      /\ \A m \in 0..(n - 1) : up[m] # up[n]
      /\ n < MaxInheritsDepth
      /\ up[n] \in DOMAIN json

\* The merge runs from the farthest ancestor to the version itself.
Merged(v, json) ==
  LET merged[w \in DOMAIN json] ==
        IF json[w].inherits = None THEN json[w]
        ELSE Merge(merged[json[w].inherits], json[w])
  IN  merged[v]

\* The id of the last ancestor.
RootIdOfTheVersion(v, json) == v

RootId(v, json) ==
  LET root[w \in DOMAIN json] ==
        IF json[w].inherits = None THEN w ELSE root[json[w].inherits]
  IN  root[v]

\* resolve_inherits: the merged version must have an index and downloads.
Resolve(v, json) ==
  IF Resolves(v, json)
  THEN LET m == Merged(v, json)
       IN  [ok |-> None \notin {m.assets, m.downloads}, version |-> m, root |-> RootId(v, json)]
  ELSE [ok |-> FALSE]

----------------------------------------------------------------------------
(* What the install fetches and what the launch asks for *)

SelectedLibraries(version) == SelectSeq(version.libs, LAMBDA l : EvaluateRules(l.rules))

\* The files download_libraries fetches, in order: a library's artifact, then
\* its natives for this system.
LibraryFiles(version) ==
  LET Pair(l) == <<l.artifact, NativeArtifact(l)>>
  IN  SelectSeq(FoldLeft(LAMBDA s, l : s \o Pair(l), <<>>, SelectedLibraries(version)),
                LAMBDA f : f # None)

\* build_classpath: what is not unpacked, with the client's jar last.
ClassPath(version, clientJar) ==
  LET Counts(l) == ~NeedsExtraction(l) /\ l.artifact # None
      Jars(libs) == [i \in DOMAIN libs |-> libs[i].artifact]
  IN  Append(Jars(SelectSeq(SelectedLibraries(version), Counts)), clientJar)
=============================================================================
