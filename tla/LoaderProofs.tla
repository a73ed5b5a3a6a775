---------------------------- MODULE LoaderProofs -----------------------------
(***************************************************************************)
(* Proofs about LoaderInstall, for every set of instances, versions,       *)
(* libraries, operations and requests and every kind of mishap: the types, *)
(* the manifest never gets ahead of the version JSON, and the JSON of      *)
(* Fabric and Quilt never ahead of its libraries.                          *)
(*                                                                         *)
(* About LoaderDialogs, for every set of instances, loaders and jobs: the  *)
(* types, one install at a time, a progress dialogue that will close, and  *)
(* nothing changed under a game, but for what the keys do not prevent.     *)
(*                                                                         *)
(* And about DepResolve, for every set of projects and every graph of what *)
(* they require: the types, nothing that is required is missed, nothing    *)
(* that is barred is installed, and no install fails without a reason.     *)
(***************************************************************************)
EXTENDS LoaderInstall, LoaderDialogs, DepResolve, TLAPS

\* Each pipeline keeps to its own stages.
PipelineOK ==
  \A o \in Ops :
    /\ pc[o] \in {"jar", "verify", "stage", "run"} =>
         Installing(o) /\ Version(o) \in Subprocess
    /\ pc[o] \in {"profile", "libs", "json", "manifest", "cleanup"} => Installing(o)
    /\ pc[o] \in {"delete", "clear"} => seen[o] \in Versions

\* Who is about to write a manifest has written the version JSON.
WrittenFirst ==
  \A o \in Ops : pc[o] = "manifest" => Version(o) \in json \cup removed

\* Who is about to write the JSON of Fabric or Quilt has its libraries.
LibsFirst ==
  \A o \in Ops : Version(o) \notin Subprocess =>
    /\ pc[o] = "libs" => want[o] = LibsOf[Version(o)]
    /\ pc[o] = "json" => LibsOf[Version(o)] \subseteq libs

IInv == TypeOK /\ PipelineOK /\ WrittenFirst /\ LibsFirst /\ MissingOnlyByRemoval /\ JsonAfterLibs

\* A request names an instance and a version.
LEMMA RequestFields ==
  ASSUME TypeOK, NEW o \in Ops
  PROVE  req[o].inst \in Instances /\ Version(o) \in Versions
BY RequestsAssumption DEF TypeOK, Request, Version

LEMMA InitIInv == Init => IInv
<1> SUFFICES ASSUME Init PROVE IInv
  OBVIOUS
<1>1. TypeOK
  BY DEF Init, TypeOK, Stages
<1>2. PipelineOK /\ WrittenFirst /\ LibsFirst
  BY DEF Init, PipelineOK, WrittenFirst, LibsFirst
<1>3. MissingOnlyByRemoval /\ JsonAfterLibs
  BY DEF Init, MissingOnlyByRemoval, JsonAfterLibs
<1> QED BY <1>1, <1>2, <1>3 DEF IInv

\* An operation that only moves on keeps the invariant, if the stage it moves
\* to asks nothing that is not so.
LEMMA MoveOn ==
  ASSUME IInv, NEW o \in Ops, NEW from \in Stages, NEW to \in Stages,
         Go(o, from, to), UNCHANGED <<req, want, seen, files>>,
         to \in {"jar", "verify", "stage", "run"} =>
           Installing(o) /\ Version(o) \in Subprocess,
         to \in {"profile", "libs", "json", "manifest", "cleanup"} => Installing(o),
         to \in {"delete", "clear"} => seen[o] \in Versions,
         to = "manifest" => Version(o) \in json \cup removed,
         Version(o) \notin Subprocess /\ to = "libs" => want[o] = LibsOf[Version(o)],
         Version(o) \notin Subprocess /\ to = "json" => LibsOf[Version(o)] \subseteq libs
  PROVE  IInv'
<1> USE DEF IInv
<1>1. TypeOK'
  BY DEF TypeOK, Go, files, Installing, Version
<1>2. PipelineOK'
  BY DEF TypeOK, PipelineOK, Go, files, Installing, Version
<1>3. WrittenFirst'
  BY DEF TypeOK, WrittenFirst, Go, files, Version
<1>4. LibsFirst'
  BY DEF TypeOK, LibsFirst, Go, files, Version
<1>5. MissingOnlyByRemoval' /\ JsonAfterLibs'
  BY DEF MissingOnlyByRemoval, JsonAfterLibs, files
<1> QED BY <1>1, <1>2, <1>3, <1>4, <1>5

\* An operation that ends keeps the invariant, whatever becomes of its staging
\* directory.
LEMMA EndsOrDrops ==
  ASSUME IInv, NEW ended \in SUBSET Ops, staging' \subseteq staging,
         pc' = [o \in Ops |-> IF o \in ended THEN "done" ELSE pc[o]],
         UNCHANGED <<req, want, seen, loader, json, libs, installer, removed>>
  PROVE  IInv'
<1> USE DEF IInv
<1>1. TypeOK'
  BY DEF TypeOK, Installing, Version, Stages
<1>2. PipelineOK' /\ WrittenFirst' /\ LibsFirst'
  BY DEF TypeOK, PipelineOK, WrittenFirst, LibsFirst, Installing, Version
<1>3. MissingOnlyByRemoval' /\ JsonAfterLibs'
  BY DEF MissingOnlyByRemoval, JsonAfterLibs
<1> QED BY <1>1, <1>2, <1>3

InstallAction(o) ==
  \/ Start(o) \/ Profile(o) \/ Jar(o) \/ Verify(o) \/ Stage(o) \/ Run(o)
  \/ (\E l \in Libs : PutLib(o, l)) \/ LibsReady(o) \/ WriteJson(o)
  \/ WriteManifest(o) \/ Cleanup(o)

\* Every step of an install keeps the invariant.
LEMMA InstallStep ==
  ASSUME IInv, NEW o \in Ops, InstallAction(o)
  PROVE  IInv'
<1> USE DEF IInv
<1>0. req[o].inst \in Instances /\ Version(o) \in Versions
  BY RequestFields
<1>1. ASSUME Start(o) PROVE IInv'
  <2>1. CASE Attached(Version(o))
    <3>1. Go(o, "start", "manifest")
      BY <1>1, <2>1 DEF Start
    <3> QED BY <1>1, <2>1, <3>1, MoveOn DEF Start, Attached, Stages
  <2>2. CASE ~Attached(Version(o)) /\ Version(o) \in Subprocess
    <3>1. Go(o, "start", "jar")
      BY <1>1, <2>2 DEF Start
    <3> QED BY <1>1, <2>2, <3>1, MoveOn DEF Start, Stages
  <2>3. CASE ~Attached(Version(o)) /\ Version(o) \notin Subprocess
    <3>1. Go(o, "start", "profile")
      BY <1>1, <2>3 DEF Start
    <3> QED BY <1>1, <2>3, <3>1, MoveOn DEF Start, Stages
  <2> QED BY <2>1, <2>2, <2>3
<1>2. ASSUME Profile(o) PROVE IInv'
  <2>1. TypeOK'
    BY <1>0, <1>2, LibsAssumption DEF Profile, Go, TypeOK, files, Stages, Installing, Version
  <2>2. PICK to \in {"manifest", "libs"} :
          Go(o, "profile", to) /\ (to = "manifest" => Attached(Version(o)))
    BY <1>2 DEF Profile
  <2>4. PipelineOK' /\ WrittenFirst' /\ LibsFirst'
    BY <1>2, <2>2 DEF Profile, Go, Attached, TypeOK, PipelineOK, WrittenFirst, LibsFirst, files,
                Installing, Version
  <2>3. MissingOnlyByRemoval' /\ JsonAfterLibs'
    BY <1>2 DEF Profile, MissingOnlyByRemoval, JsonAfterLibs, files
  <2> QED BY <2>1, <2>3, <2>4
<1>3. ASSUME Jar(o) PROVE IInv'
  <2>1. PICK to \in {"verify", "stage"} : Go(o, "jar", to)
    BY <1>3 DEF Jar
  <2>2. installer' \subseteq Versions
    BY <1>0, <1>3 DEF Jar, TypeOK
  <2>3. TypeOK'
    BY <1>3, <2>1, <2>2 DEF Jar, Go, TypeOK, Stages, Installing, Version
  <2>4. PipelineOK' /\ WrittenFirst' /\ LibsFirst'
    BY <1>3, <2>1 DEF Jar, Go, TypeOK, PipelineOK, WrittenFirst, LibsFirst, Installing, Version
  <2>5. MissingOnlyByRemoval' /\ JsonAfterLibs'
    BY <1>3 DEF Jar, MissingOnlyByRemoval, JsonAfterLibs
  <2> QED BY <2>3, <2>4, <2>5
<1>4. ASSUME Verify(o) PROVE IInv'
  <2>1. PICK to \in {"done", "stage"} : Go(o, "verify", to)
    BY <1>4 DEF Verify
  <2>2. TypeOK'
    BY <1>0, <1>4, <2>1 DEF Verify, Go, TypeOK, Stages, files, Installing, Version
  <2>3. PipelineOK' /\ WrittenFirst' /\ LibsFirst'
    BY <1>4, <2>1 DEF Verify, Go, TypeOK, PipelineOK, WrittenFirst, LibsFirst, files,
                      Installing, Version
  <2>4. MissingOnlyByRemoval' /\ JsonAfterLibs'
    BY <1>4 DEF Verify, MissingOnlyByRemoval, JsonAfterLibs, files
  <2> QED BY <2>2, <2>3, <2>4
<1>5. ASSUME Stage(o) PROVE IInv'
  <2>1. TypeOK'
    BY <1>5 DEF Stage, Go, TypeOK, PipelineOK, Stages, Installing, Version
  <2>2. PipelineOK' /\ WrittenFirst' /\ LibsFirst'
    BY <1>5 DEF Stage, Go, TypeOK, PipelineOK, WrittenFirst, LibsFirst, Installing, Version
  <2>3. MissingOnlyByRemoval' /\ JsonAfterLibs'
    BY <1>5 DEF Stage, MissingOnlyByRemoval, JsonAfterLibs
  <2> QED BY <2>1, <2>2, <2>3
<1>6. ASSUME Run(o) PROVE IInv'
  <2>1. PICK produced \in SUBSET LibsOf[Version(o)] : want' = [want EXCEPT ![o] = produced]
    BY <1>6 DEF Run
  <2>2. want' \in [Ops -> SUBSET Libs]
    BY <1>0, <2>1, LibsAssumption DEF TypeOK
  <2>3. TypeOK'
    BY <1>0, <1>6, <2>2 DEF Run, Go, TypeOK, Stages, Installing, Version
  <2>4. PipelineOK' /\ WrittenFirst'
    BY <1>6 DEF Run, Go, TypeOK, PipelineOK, WrittenFirst, Installing, Version
  <2>5. Version(o) \in Subprocess
    BY <1>6 DEF Run, Go, PipelineOK
  <2>6. LibsFirst'
    BY <1>6, <2>1, <2>5 DEF Run, Go, TypeOK, LibsFirst, Version
  <2>7. MissingOnlyByRemoval' /\ JsonAfterLibs'
    BY <1>6 DEF Run, MissingOnlyByRemoval, JsonAfterLibs
  <2> QED BY <2>3, <2>4, <2>6, <2>7
<1>7. ASSUME NEW l \in Libs, PutLib(o, l) PROVE IInv'
  <2>1. TypeOK'
    BY <1>7 DEF PutLib, TypeOK, Installing, Version
  <2>2. PipelineOK' /\ WrittenFirst' /\ LibsFirst'
    BY <1>7 DEF PutLib, PipelineOK, WrittenFirst, LibsFirst, Installing, Version
  <2>3. MissingOnlyByRemoval' /\ JsonAfterLibs'
    BY <1>7 DEF PutLib, MissingOnlyByRemoval, JsonAfterLibs
  <2> QED BY <2>1, <2>2, <2>3
<1>8. ASSUME LibsReady(o) PROVE IInv'
  <2>1. Installing(o) /\ (Version(o) \notin Subprocess => LibsOf[Version(o)] \subseteq libs)
    BY <1>8 DEF LibsReady, Go, PipelineOK, LibsFirst
  <2> QED BY <1>8, <2>1, MoveOn DEF LibsReady, Stages
<1>9. ASSUME WriteJson(o) PROVE IInv'
  <2>1. pc[o] = "json" /\ pc' = [pc EXCEPT ![o] = "manifest"]
    BY <1>9 DEF WriteJson, Go
  <2>2. TypeOK'
    BY <1>0, <1>9, <2>1 DEF WriteJson, TypeOK, Stages, Installing, Version
  <2>3. (json \cup removed)' = json \cup removed \cup {Version(o)}
    BY <1>9 DEF WriteJson
  <2>4. PipelineOK' /\ LibsFirst'
    BY <1>9, <2>1 DEF WriteJson, TypeOK, PipelineOK, LibsFirst, Installing, Version
  <2>5. WrittenFirst' /\ MissingOnlyByRemoval'
    BY <1>9, <2>1, <2>3 DEF WriteJson, TypeOK, WrittenFirst, MissingOnlyByRemoval, Version
  <2>6. Version(o) \notin Subprocess => LibsOf[Version(o)] \subseteq libs
    BY <2>1 DEF LibsFirst
  <2>7. JsonAfterLibs'
    BY <1>9, <2>6 DEF WriteJson, JsonAfterLibs
  <2> QED BY <2>2, <2>4, <2>5, <2>7
<1>10. ASSUME WriteManifest(o) PROVE IInv'
  <2>1. PICK to \in {"cleanup", "done"} : Go(o, "manifest", to)
    BY <1>10 DEF WriteManifest
  <2>2. TypeOK'
    BY <1>0, <1>10, <2>1 DEF WriteManifest, SetLoader, Go, TypeOK, Stages, Installing, Version
  <2>3. PipelineOK' /\ WrittenFirst' /\ LibsFirst'
    BY <1>10, <2>1 DEF WriteManifest, SetLoader, Go, TypeOK, PipelineOK, WrittenFirst,
                       LibsFirst, Installing, Version
  <2>4. Version(o) \in json \cup removed
    BY <2>1 DEF Go, WrittenFirst
  <2>5. MissingOnlyByRemoval' /\ JsonAfterLibs'
    BY <1>10, <2>4 DEF WriteManifest, SetLoader, TypeOK, MissingOnlyByRemoval, JsonAfterLibs
  <2> QED BY <2>2, <2>3, <2>5
<1>11. ASSUME Cleanup(o) PROVE IInv'
  <2>1. pc' = [p \in Ops |-> IF p \in {o} THEN "done" ELSE pc[p]]
    BY <1>11 DEF Cleanup, Go, TypeOK
  <2> QED BY <1>11, <2>1, EndsOrDrops DEF Cleanup
<1> QED
  BY <1>1, <1>2, <1>3, <1>4, <1>5, <1>6, <1>7, <1>8, <1>9, <1>10, <1>11 DEF InstallAction

\* Every step of remove_loader keeps the invariant: it marks what it deletes.
LEMMA RemoveStep ==
  ASSUME IInv, NEW o \in Ops, ReadLoader(o) \/ DeleteVersion(o) \/ ClearLoader(o)
  PROVE  IInv'
<1> USE DEF IInv
<1>0. req[o].inst \in Instances
  BY RequestFields
<1>1. CASE ReadLoader(o)
  <2>1. TypeOK'
    BY <1>0, <1>1 DEF ReadLoader, Go, TypeOK, Stages, files, Installing, Version
  <2>2. PipelineOK' /\ WrittenFirst' /\ LibsFirst'
    BY <1>0, <1>1 DEF ReadLoader, Go, TypeOK, PipelineOK, WrittenFirst, LibsFirst, files,
                      Installing, Version
  <2>3. MissingOnlyByRemoval' /\ JsonAfterLibs'
    BY <1>1 DEF ReadLoader, MissingOnlyByRemoval, JsonAfterLibs, files
  <2> QED BY <2>1, <2>2, <2>3
<1>2. CASE DeleteVersion(o)
  <2>1. seen[o] \in Versions
    BY <1>2 DEF DeleteVersion, Go, PipelineOK
  <2>2. TypeOK'
    BY <1>2, <2>1 DEF DeleteVersion, Go, TypeOK, Stages, Installing, Version
  <2>3. PipelineOK' /\ LibsFirst'
    BY <1>2, <2>1 DEF DeleteVersion, Go, TypeOK, PipelineOK, LibsFirst, Installing, Version
  <2>4. json \cup removed \subseteq (json \cup removed)'
    BY <1>2 DEF DeleteVersion
  <2>5. WrittenFirst' /\ MissingOnlyByRemoval' /\ JsonAfterLibs'
    BY <1>2, <2>4 DEF DeleteVersion, Go, TypeOK, WrittenFirst, MissingOnlyByRemoval,
                      JsonAfterLibs, Version
  <2> QED BY <2>2, <2>3, <2>5
<1>3. CASE ClearLoader(o)
  <2>1. TypeOK'
    BY <1>0, <1>3 DEF ClearLoader, SetLoader, Go, TypeOK, Stages, Installing, Version
  <2>2. PipelineOK' /\ WrittenFirst' /\ LibsFirst'
    BY <1>3 DEF ClearLoader, SetLoader, Go, TypeOK, PipelineOK, WrittenFirst, LibsFirst,
                Installing, Version
  <2>3. MissingOnlyByRemoval' /\ JsonAfterLibs'
    BY <1>3 DEF ClearLoader, SetLoader, TypeOK, MissingOnlyByRemoval, JsonAfterLibs
  <2> QED BY <2>1, <2>2, <2>3
<1> QED BY <1>1, <1>2, <1>3

\* Errors, cancellations and the end of the process only end operations.
LEMMA MishapStep ==
  ASSUME IInv, Crash \/ \E o \in Ops : Fail(o) \/ Cancel(o)
  PROVE  IInv'
<1>1. CASE Crash
  <2>1. pc' = [o \in Ops |-> IF o \in Ops THEN "done" ELSE pc[o]]
    BY <1>1 DEF Crash
  <2> QED BY <1>1, <2>1, EndsOrDrops DEF Crash, files
<1>2. ASSUME NEW o \in Ops, Fail(o) \/ Cancel(o) PROVE IInv'
  <2>1. pc' = [p \in Ops |-> IF p \in {o} THEN "done" ELSE pc[p]]
    BY <1>2 DEF Fail, Cancel, IInv, TypeOK
  <2>2. staging' \subseteq staging
    BY <1>2 DEF Fail, Cancel, files
  <2>3. UNCHANGED <<req, want, seen, loader, json, libs, installer, removed>>
    BY <1>2 DEF Fail, Cancel, files
  <2>4. {o} \in SUBSET Ops
    OBVIOUS
  <2> QED BY <2>1, <2>2, <2>3, <2>4, EndsOrDrops
<1> QED BY <1>1, <1>2

LEMMA StepIInv == IInv /\ [Next]_vars => IInv'
<1> SUFFICES ASSUME IInv, [Next]_vars PROVE IInv'
  OBVIOUS
<1>1. CASE UNCHANGED vars
  BY <1>1 DEF vars, IInv, TypeOK, PipelineOK, WrittenFirst, LibsFirst, Installing, Version,
              MissingOnlyByRemoval, JsonAfterLibs
<1>2. CASE Crash \/ \E o \in Ops : Fail(o) \/ Cancel(o)
  BY <1>2, MishapStep
<1>3. ASSUME NEW o \in Ops, Step(o) PROVE IInv'
  <2>1. CASE ReadLoader(o) \/ DeleteVersion(o) \/ ClearLoader(o)
    BY <2>1, RemoveStep
  <2>2. CASE ~(ReadLoader(o) \/ DeleteVersion(o) \/ ClearLoader(o))
    <3>1. InstallAction(o)
      BY <1>3, <2>2 DEF Step, InstallAction
    <3> QED BY <3>1, InstallStep
  <2> QED BY <2>1, <2>2
<1> QED BY <1>1, <1>2, <1>3 DEF Next

\* The invariant is inductive, so it holds in every reachable state.
THEOREM Invariant == Spec => []IInv
BY InitIInv, StepIInv, PTL DEF Spec

\* Every variable keeps its type: in particular a staging directory belongs to
\* an install of Forge or NeoForge.
THEOREM TypeCorrect == Spec => []TypeOK
<1>1. IInv => TypeOK
  BY DEF IInv
<1> QED BY <1>1, Invariant, PTL

\* No manifest names a loader whose version JSON was never written, however
\* many installs and removals overlap, fail, are cancelled or crash.
THEOREM ManifestWrittenLast == Spec => []MissingOnlyByRemoval
<1>1. IInv => MissingOnlyByRemoval
  BY DEF IInv
<1> QED BY <1>1, Invariant, PTL

\* A version JSON of Fabric or Quilt is never ahead of its libraries, which is
\* what lets re-attach trust it.
THEOREM LibrariesFirst == Spec => []JsonAfterLibs
<1>1. IInv => JsonAfterLibs
  BY DEF IInv
<1> QED BY <1>1, Invariant, PTL

-----------------------------------------------------------------------------
(* The dialogues. *)

Dialogs == {"picker", "versions", "confirm", "java"}   \* where something can be chosen
OfInstall == {"picker", "versions", "confirm"}
Places == Dialogs \cup {"list", "other", "progress"}
Playing == [asked : Nat, playing : Nat, known : BOOLEAN]

Job == [kind : {"none", "install", "remove", "fetch", "java"}, slug : Slugs \cup {Nil},
        loader : Loaders \cup {Nil}, at : {"none", "queued", "working"}]
Views == [at : Places, slug : Slugs \cup {Nil}, loader : Loaders \cup {Nil},
          from : (Slugs \X Loaders) \cup {Nil}]

DialogTypeOK ==
  /\ view \in Views
  /\ view.at \notin {"list", "other"} => view.slug \in Slugs
  /\ view.at = "versions" => view.loader \in Loaders
  /\ token \in [Slugs -> Jobs \cup {Nil}]
  /\ job \in [Jobs -> Job]
  /\ \A j \in Jobs : /\ job[j].kind # "none" => job[j].slug \in Slugs
                     /\ job[j].kind = "fetch" => job[j].loader \in Loaders
  /\ cancelled \subseteq Jobs
  /\ launch \in [Slugs -> Playing]
  /\ \A s \in Slugs : Running(s) => launch[s].playing > 0
  /\ late \subseteq Slugs /\ twice \subseteq Slugs /\ lost \subseteq Slugs

\* What the interface has of an install: its entry is that of an install of the
\* instance that has been announced and goes on, and only such are cancelled.
EntriesLive ==
  /\ \A s \in Slugs : token[s] # Nil =>
       InstallsFor(token[s], s) /\ job[token[s]].at = "working" /\ token[s] \notin cancelled
  /\ \A j \in cancelled : Working(j, "install")

\* Where a loader is being chosen no install of the instance goes on.
NoneWhileChoosing ==
  view.at \in OfInstall /\ view.slug \notin lost =>
    \A j \in Jobs \ cancelled : ~InstallsFor(j, view.slug)

\* An instance that is not lost has no install that is.
LostKnown == \A s \in Slugs \ lost : ~Lost(s)

\* An instance not launched twice has one game, and an entry while it is played.
OneGame ==
  \A s \in Slugs \ twice : Games(s) <= 1 /\ (launch[s].playing > 0 => Running(s))

\* A game played while its instance is in a dialogue or is changed has been announced
\* since the dialogue was opened.
PlayingIsLate ==
  \A s \in Slugs \ twice :
    launch[s].playing > 0 /\ (Choosing(s) \/ Changing(s)) => s \in late

DialogInv ==
  /\ EntriesLive /\ NoneWhileChoosing /\ LostKnown /\ OneInstall /\ ProgressIsLive
  /\ OneGame /\ PlayingIsLate

-----------------------------------------------------------------------------
(* Types. *)

\* A job is started in a free place.
LEMMA Started ==
  ASSUME DialogTypeOK, NEW kind, NEW s, NEW l, NEW at, StartJob(kind, s, l, at)
  PROVE  \E j \in Jobs : /\ job[j] = NoJob
                         /\ job'[j] = [kind |-> kind, slug |-> s, loader |-> l, at |-> at]
                         /\ \A i \in Jobs \ {j} : job'[i] = job[i]
BY DEF DialogTypeOK, StartJob

LEMMA StartedTyped ==
  ASSUME DialogTypeOK, NEW kind \in {"install", "remove", "fetch", "java"}, NEW s \in Slugs,
         NEW l \in Loaders \cup {Nil}, kind = "fetch" => l \in Loaders,
         NEW at \in {"queued", "working"}, StartJob(kind, s, l, at)
  PROVE  /\ job' \in [Jobs -> Job]
         /\ \A j \in Jobs : /\ job'[j].kind # "none" => job'[j].slug \in Slugs
                            /\ job'[j].kind = "fetch" => job'[j].loader \in Loaders
<1>1. PICK j \in Jobs : job' = [job EXCEPT ![j] = [kind |-> kind, slug |-> s, loader |-> l, at |-> at]]
  BY DEF StartJob
<1>2. [kind |-> kind, slug |-> s, loader |-> l, at |-> at] \in Job
  BY DEF Job
<1> QED BY <1>1, <1>2 DEF DialogTypeOK

LEMMA OverTyped ==
  ASSUME DialogTypeOK, NEW j \in Jobs, Over(j)
  PROVE  /\ job' \in [Jobs -> Job] /\ cancelled' \subseteq Jobs
         /\ \A i \in Jobs : /\ job'[i].kind # "none" => job'[i].slug \in Slugs
                            /\ job'[i].kind = "fetch" => job'[i].loader \in Loaders
BY DEF DialogTypeOK, Over, NoJob, Job

LEMMA ViewTyped ==
  /\ List \in Views /\ List.at = "list"
  /\ \A at \in Places, s \in Slugs \cup {Nil}, l \in Loaders \cup {Nil} :
       /\ View(at, s, l) \in Views
       /\ View(at, s, l).at = at /\ View(at, s, l).slug = s /\ View(at, s, l).loader = l
BY DEF View, List, Views, Places, Dialogs

\* What a key or an answer does to the games of one instance.
Asked(g) == [g EXCEPT !.asked = @ + 1]
Ended(g) == [g EXCEPT !.playing = @ - 1, !.known = FALSE]
Announced(g) == [g EXCEPT !.asked = @ - 1, !.playing = @ + 1, !.known = TRUE]
GameStep(s) ==
  \/ launch'[s] = launch[s]
  \/ launch'[s] = Asked(launch[s])
  \/ launch[s].playing > 0 /\ launch'[s] = Ended(launch[s])
  \/ launch[s].asked > 0 /\ launch'[s] = Announced(launch[s])

GameKeys(s) == LaunchInstance(s) \/ StopInstance(s) \/ LaunchJobStarted(s) \/ GameEnds(s)

LEMMA GameFields ==
  ASSUME NEW g \in Playing
  PROVE  /\ Asked(g) \in Playing /\ Asked(g).playing = g.playing /\ Asked(g).known = g.known
         /\ g.playing > 0 => /\ Ended(g) \in Playing
                             /\ Ended(g).playing = g.playing - 1 /\ Ended(g).known = FALSE
         /\ g.asked > 0 => /\ Announced(g) \in Playing
                           /\ Announced(g).playing = g.playing + 1 /\ Announced(g).known = TRUE
<1>1. g.asked \in Nat /\ g.playing \in Nat /\ g.known \in BOOLEAN
  BY DEF Playing
<1>2. Asked(g) \in Playing /\ Asked(g).playing = g.playing /\ Asked(g).known = g.known
  BY <1>1 DEF Playing, Asked
<1>3. ASSUME g.playing > 0
      PROVE  Ended(g) \in Playing /\ Ended(g).playing = g.playing - 1 /\ Ended(g).known = FALSE
  <2>1. PICK n \in Nat : n = g.playing - 1
    BY <1>1, <1>3
  <2>2. Ended(g) = [g EXCEPT !.playing = n, !.known = FALSE]
    BY <2>1 DEF Ended
  <2>3. /\ [g EXCEPT !.playing = n, !.known = FALSE] \in Playing
        /\ [g EXCEPT !.playing = n, !.known = FALSE].playing = n
        /\ [g EXCEPT !.playing = n, !.known = FALSE].known = FALSE
    BY <2>1 DEF Playing
  <2> QED BY <2>1, <2>2, <2>3
<1>4. ASSUME g.asked > 0
      PROVE  /\ Announced(g) \in Playing
             /\ Announced(g).playing = g.playing + 1 /\ Announced(g).known = TRUE
  <2>1. PICK n \in Nat, m \in Nat : n = g.asked - 1 /\ m = g.playing + 1
    BY <1>1, <1>4
  <2>2. Announced(g) = [g EXCEPT !.asked = n, !.playing = m, !.known = TRUE]
    BY <2>1 DEF Announced
  <2>3. /\ [g EXCEPT !.asked = n, !.playing = m, !.known = TRUE] \in Playing
        /\ [g EXCEPT !.asked = n, !.playing = m, !.known = TRUE].playing = m
        /\ [g EXCEPT !.asked = n, !.playing = m, !.known = TRUE].known = TRUE
    BY <2>1 DEF Playing
  <2> QED BY <2>1, <2>2, <2>3
<1> QED BY <1>2, <1>3, <1>4

LEMMA GameSteps ==
  ASSUME DialogTypeOK, NEW s \in Slugs, GameKeys(s)
  PROVE  /\ \A r \in Slugs : GameStep(r)
         /\ launch' \in [Slugs -> Playing]
         /\ \A r \in Slugs : launch'[r].known => launch'[r].playing > 0
<1>1. /\ launch \in [Slugs -> Playing] /\ launch[s] \in Playing
      /\ launch[s].asked \in Nat /\ launch[s].playing \in Nat
      /\ \A r \in Slugs : launch[r].known => launch[r].playing > 0
  BY DEF DialogTypeOK, Playing, Running
<1>2. GameStep(s) /\ \E g : launch' = [launch EXCEPT ![s] = g]
  BY <1>1 DEF GameKeys, GameStep, Asked, Ended, Announced, LaunchInstance, StopInstance,
    LaunchJobStarted, GameEnds, Running
<1>3. launch'[s] \in Playing /\ (launch'[s].known => launch'[s].playing > 0)
  <2>1. PICK g \in Playing : g = launch[s]
    BY <1>1
  <2>2. g.playing \in Nat /\ g.asked \in Nat /\ (g.known => g.playing > 0)
    BY <1>1, <2>1
  <2>3. \/ launch'[s] \in {g, Asked(g)} \/ (g.playing > 0 /\ launch'[s] = Ended(g))
        \/ (g.asked > 0 /\ launch'[s] = Announced(g))
    BY <1>2, <2>1 DEF GameStep
  <2>4. PICK h : h = launch'[s]
    OBVIOUS
  <2>5. /\ Asked(g) \in Playing /\ Asked(g).playing = g.playing /\ Asked(g).known = g.known
        /\ g.playing > 0 => /\ Ended(g) \in Playing
                            /\ Ended(g).playing = g.playing - 1 /\ Ended(g).known = FALSE
        /\ g.asked > 0 => /\ Announced(g) \in Playing
                          /\ Announced(g).playing = g.playing + 1 /\ Announced(g).known = TRUE
    BY GameFields
  <2>6. h \in Playing /\ (h.known => h.playing > 0)
    <3>1. CASE h = g
      BY <2>2, <3>1
    <3>2. CASE h = Asked(g)
      BY <2>2, <2>5, <3>2
    <3>3. CASE g.playing > 0 /\ h = Ended(g)
      BY <2>2, <2>5, <3>3
    <3>4. CASE g.asked > 0 /\ h = Announced(g)
      BY <2>2, <2>5, <3>4
    <3> QED BY <2>3, <2>4, <3>1, <3>2, <3>3, <3>4
  <2> QED BY <2>4, <2>6
<1>4. \A r \in Slugs \ {s} : launch'[r] = launch[r]
  BY <1>1, <1>2
<1>5. launch' \in [Slugs -> Playing]
  BY <1>1, <1>2, <1>3
<1> QED BY <1>1, <1>2, <1>3, <1>4, <1>5 DEF GameStep

LEMMA DialogInitType == DialogInit => DialogTypeOK
<1> SUFFICES ASSUME DialogInit PROVE DialogTypeOK
  OBVIOUS
<1>1. NoJob \in Job /\ NoJob.kind = "none"
  BY DEF NoJob, Job
<1> QED BY <1>1, ViewTyped DEF DialogInit, DialogTypeOK, Playing, Running

\* Dialogue by dialogue: what a view may be.
ViewOK(v) == /\ v \in Views
             /\ v.at \notin {"list", "other"} => v.slug \in Slugs
             /\ v.at = "versions" => v.loader \in Loaders

LEMMA ShowType == ASSUME DialogTypeOK, NEW v, ViewOK(v), Show(v), Noted PROVE DialogTypeOK'
BY DEF DialogTypeOK, Show, Noted, ViewOK, Views, Running

LEMMA KeysType == ASSUME DialogTypeOK, Keys, Noted PROVE DialogTypeOK'
<1>1. late' \subseteq Slugs /\ twice' \subseteq Slugs /\ lost' \subseteq Slugs
  BY DEF Noted, DialogTypeOK
<1>2. ASSUME NEW s \in Slugs, OpenLoaderPicker(s) \/ OpenJavaPicker(s) PROVE DialogTypeOK'
  <2>1. ViewOK(View("picker", s, Nil)) /\ ViewOK(View("java", s, Nil))
    BY ViewTyped DEF ViewOK, Places, Dialogs
  <2> QED BY <1>2, <2>1, ShowType DEF OpenLoaderPicker, OpenJavaPicker
<1>3. ASSUME NEW s \in Slugs, LaunchInstance(s) \/ StopInstance(s) PROVE DialogTypeOK'
  <2>1. /\ launch' \in [Slugs -> Playing]
        /\ \A r \in Slugs : launch'[r].known => launch'[r].playing > 0
    BY <1>3, GameSteps DEF GameKeys
  <2> QED BY <1>1, <1>3, <2>1 DEF LaunchInstance, StopInstance, DialogTypeOK, Running
<1>4. CASE LoaderPickerSelect
  <2>1. view.slug \in Slugs
    BY <1>4 DEF LoaderPickerSelect, DialogTypeOK
  <2>2. ViewOK(View("confirm", view.slug, Nil))
    BY <2>1, ViewTyped DEF ViewOK, Places, Dialogs
  <2>3. ASSUME NEW l \in Loaders, view' = View("versions", view.slug, l),
               StartJob("fetch", view.slug, l, "working"), UNCHANGED <<token, cancelled, launch>>
        PROVE  DialogTypeOK'
    <3>1. ViewOK(view')
      BY <2>1, <2>3, ViewTyped DEF ViewOK, Places, Dialogs
    <3>2. /\ job' \in [Jobs -> Job]
          /\ \A j \in Jobs : /\ job'[j].kind # "none" => job'[j].slug \in Slugs
                             /\ job'[j].kind = "fetch" => job'[j].loader \in Loaders
      BY <2>1, <2>3, StartedTyped
    <3> QED BY <1>1, <2>3, <3>1, <3>2 DEF DialogTypeOK, ViewOK, Views, Job, Running
  <2> QED BY <1>4, <2>2, <2>3, ShowType DEF LoaderPickerSelect
<1>5. ASSUME NEW s \in Slugs, BeginInstall(s) PROVE DialogTypeOK'
  <2>1. ViewOK(view')
    BY <1>5, ViewTyped DEF BeginInstall, ViewOK, Places, Dialogs
  <2>2. /\ job' \in [Jobs -> Job]
        /\ \A j \in Jobs : /\ job'[j].kind # "none" => job'[j].slug \in Slugs
                           /\ job'[j].kind = "fetch" => job'[j].loader \in Loaders
    BY <1>5, StartedTyped DEF BeginInstall
  <2> QED BY <1>1, <1>5, <2>1, <2>2 DEF BeginInstall, DialogTypeOK, ViewOK, Views, Job, Running
<1>6. CASE LoaderVersionSelect
  <2>1. view.slug \in Slugs /\ view.loader \in Loaders
    BY <1>6 DEF LoaderVersionSelect, DialogTypeOK
  <2>2. ViewOK(View("confirm", view.slug, view.loader))
    BY <2>1, ViewTyped DEF ViewOK, Places, Dialogs
  <2> QED BY <1>5, <1>6, <2>1, <2>2, ShowType DEF LoaderVersionSelect
<1>7. CASE ConfirmLoaderSwitch /\ view.loader # Nil
  <2>1. view.slug \in Slugs
    BY <1>7 DEF ConfirmLoaderSwitch, DialogTypeOK
  <2> QED BY <1>5, <1>7, <2>1 DEF ConfirmLoaderSwitch
<1>8. ASSUME NEW kind \in {"remove", "java"}, view.slug \in Slugs, view' = List,
             StartJob(kind, view.slug, Nil, "working"), UNCHANGED <<token, cancelled, launch>>
      PROVE  DialogTypeOK'
  <2>1. /\ job' \in [Jobs -> Job]
        /\ \A j \in Jobs : /\ job'[j].kind # "none" => job'[j].slug \in Slugs
                           /\ job'[j].kind = "fetch" => job'[j].loader \in Loaders
    BY <1>8, StartedTyped
  <2> QED BY <1>1, <1>8, <2>1, ViewTyped DEF DialogTypeOK, Views, Job, Running
<1>9. CASE (ConfirmLoaderSwitch /\ view.loader = Nil) \/ JavaPickerSelect
  <2>1. view.slug \in Slugs
    BY <1>9 DEF ConfirmLoaderSwitch, JavaPickerSelect, DialogTypeOK
  <2> QED BY <1>8, <1>9, <2>1 DEF ConfirmLoaderSwitch, JavaPickerSelect
<1>10. CASE OpenForm \/ Leave
  <2>1. ViewOK(View("other", Nil, Nil)) /\ ViewOK(List)
    BY ViewTyped DEF ViewOK, Places, Dialogs
  <2>2. view.at = "versions" => ViewOK(View("picker", view.slug, Nil))
    BY ViewTyped DEF ViewOK, Places, Dialogs, DialogTypeOK
  <2> QED BY <1>10, <2>1, <2>2, ShowType DEF OpenForm, Leave
<1>11. CASE CancelLoaderInstall
  <2>1. token[view.slug] \in Jobs \cup {Nil} /\ view.slug \in Slugs
    BY <1>11 DEF CancelLoaderInstall, DialogTypeOK
  <2> QED BY <1>1, <1>11, <2>1, ViewTyped DEF CancelLoaderInstall, DialogTypeOK, Views, Running
<1> QED BY <1>2, <1>3, <1>4, <1>6, <1>7, <1>9, <1>10, <1>11 DEF Keys, ConfirmLoaderSwitch

LEMMA AnswersType == ASSUME DialogTypeOK, Answers, Noted PROVE DialogTypeOK'
<1>1. late' \subseteq Slugs /\ twice' \subseteq Slugs /\ lost' \subseteq Slugs
  BY DEF Noted, DialogTypeOK
<1>2. ASSUME NEW j \in Jobs, LoaderInstallStarted(j) PROVE DialogTypeOK'
  <2>1. job[j] \in Job /\ job[j].slug \in Slugs
    BY <1>2 DEF LoaderInstallStarted, DialogTypeOK, Job
  <2>2. /\ job' \in [Jobs -> Job] /\ \A i \in Jobs \ {j} : job'[i] = job[i]
        /\ job'[j].kind = "install" /\ job'[j].slug = job[j].slug
    BY <1>2, <2>1 DEF LoaderInstallStarted, DialogTypeOK, Job
  <2>3. token' \in [Slugs -> Jobs \cup {Nil}]
    BY <1>2, <2>1 DEF LoaderInstallStarted, DialogTypeOK
  <2> QED BY <1>1, <1>2, <2>1, <2>2, <2>3 DEF LoaderInstallStarted, DialogTypeOK, Job, Running
<1>3. ASSUME NEW j \in Jobs, Over(j), UNCHANGED launch,
             ViewOK(view'), token' \in [Slugs -> Jobs \cup {Nil}]
      PROVE  DialogTypeOK'
  BY <1>1, <1>3, OverTyped DEF DialogTypeOK, ViewOK, Views, Job, Running
<1>4. ViewOK(view) /\ ViewOK(List)
  BY ViewTyped DEF DialogTypeOK, ViewOK, Views
<1>5. ViewOK(View("other", Nil, Nil))
  BY ViewTyped DEF ViewOK, Places, Dialogs
<1>6. ASSUME NEW j \in Jobs, LoaderInstalled(j) \/ LoaderInstallFailed(j) PROVE DialogTypeOK'
  <2>1. job[j].slug \in Slugs /\ Over(j) /\ UNCHANGED launch
    BY <1>6 DEF LoaderInstalled, LoaderInstallFailed, Working, DialogTypeOK
  <2>2. ViewOK(view')
    BY <1>4, <1>5, <1>6, <2>1 DEF LoaderInstalled, LoaderInstallFailed
  <2>3. token' \in [Slugs -> Jobs \cup {Nil}]
    BY <1>6, <2>1 DEF LoaderInstalled, LoaderInstallFailed, DialogTypeOK
  <2> QED BY <1>3, <2>1, <2>2, <2>3
<1>7. ASSUME NEW j \in Jobs, Dropped(j) \/ JavaOverrideEnds(j) PROVE DialogTypeOK'
  <2>1. Over(j) /\ UNCHANGED <<launch, token>> /\ view' \in {view, List}
    BY <1>7 DEF Dropped, JavaOverrideEnds
  <2> QED BY <1>3, <1>4, <2>1 DEF DialogTypeOK
<1>8. ASSUME NEW j \in Jobs, LoaderVersionsLoaded(j) PROVE DialogTypeOK'
  <2>1. Over(j) /\ UNCHANGED <<launch, token>> /\ <<job[j].slug, job[j].loader>> \in Slugs \X Loaders
    BY <1>8 DEF LoaderVersionsLoaded, Working, DialogTypeOK
  <2>2. view' = view \/ view' = [view EXCEPT !.from = <<job[j].slug, job[j].loader>>]
    BY <1>8 DEF LoaderVersionsLoaded
  <2>3. ViewOK(view')
    BY <1>4, <2>1, <2>2 DEF ViewOK, Views
  <2> QED BY <1>3, <2>1, <2>3 DEF DialogTypeOK
<1>9. ASSUME NEW s \in Slugs, LaunchJobStarted(s) \/ GameEnds(s) PROVE DialogTypeOK'
  <2>1. /\ launch' \in [Slugs -> Playing]
        /\ \A r \in Slugs : launch'[r].known => launch'[r].playing > 0
    BY <1>9, GameSteps DEF GameKeys
  <2>2. ViewOK(view') /\ UNCHANGED <<token, job, cancelled>>
    BY <1>4, <1>5, <1>9 DEF LaunchJobStarted, GameEnds
  <2> QED BY <1>1, <2>1, <2>2 DEF DialogTypeOK, ViewOK, Views, Running
<1> QED BY <1>2, <1>6, <1>7, <1>8, <1>9 DEF Answers

LEMMA DialogNextType == DialogTypeOK /\ [DialogNext]_dialogVars => DialogTypeOK'
<1>1. DialogTypeOK /\ UNCHANGED dialogVars => DialogTypeOK'
  BY DEF DialogTypeOK, dialogVars, Running
<1> QED BY <1>1, KeysType, AnswersType DEF DialogNext

\* Every variable keeps its type; a dialogue of a loader or a Java has an instance.
THEOREM DialogTypeCorrect == DialogSpec => []DialogTypeOK
BY DialogInitType, DialogNextType, PTL DEF DialogSpec

-----------------------------------------------------------------------------
(* Which installs go on. *)

Going(s) == {j \in Jobs \ cancelled : InstallsFor(j, s)}

\* The three kinds of steps: one that leaves the installs alone and opens a dialogue
\* of an instance with no entry at most; one that ends some of them and leaves no
\* dialogue that depends on them; and one that begins an install.
Calm ==
  /\ \A s \in Slugs : Going(s)' = Going(s)
  /\ view'.at = "progress" => view' = view
  /\ view'.at \in OfInstall => \/ view.at \in OfInstall /\ view'.slug = view.slug
                               \/ UNCHANGED token /\ token[view'.slug] = Nil
Less ==
  /\ \A s \in Slugs : Going(s)' \subseteq Going(s)
  /\ view'.at \notin OfInstall \cup {"progress"}
More ==
  /\ view.at \in OfInstall /\ view'.at = "progress" /\ view'.slug = view.slug
  /\ \A s \in Slugs : IF s = view.slug THEN \E j \in Jobs : Going(s)' = Going(s) \cup {j}
                                        ELSE Going(s)' = Going(s)

LEMMA GoingSame ==
  ASSUME UNCHANGED <<job, cancelled>>
  PROVE  \A s \in Slugs : Going(s)' = Going(s)
BY DEF Going, InstallsFor

LEMMA GoingStarted ==
  ASSUME DialogTypeOK, EntriesLive, NEW kind, NEW s \in Slugs, NEW l, NEW at,
         StartJob(kind, s, l, at), UNCHANGED cancelled
  PROVE  /\ kind # "install" => \A r \in Slugs : Going(r)' = Going(r)
         /\ kind = "install" => /\ \E j \in Jobs : Going(s)' = Going(s) \cup {j}
                                /\ \A r \in Slugs \ {s} : Going(r)' = Going(r)
<1>1. PICK j \in Jobs : /\ job[j] = NoJob
                        /\ job'[j] = [kind |-> kind, slug |-> s, loader |-> l, at |-> at]
                        /\ \A i \in Jobs \ {j} : job'[i] = job[i]
  BY Started
<1>2. job[j].kind = "none" /\ j \notin cancelled
  BY <1>1 DEF NoJob, EntriesLive, Working
<1>3. \A r \in Slugs, i \in Jobs \ {j} : i \in Going(r)' <=> i \in Going(r)
  BY <1>1 DEF Going, InstallsFor
<1>4. \A r \in Slugs : /\ j \notin Going(r)
                       /\ j \in Going(r)' <=> kind = "install" /\ r = s
  BY <1>1, <1>2 DEF Going, InstallsFor
<1>5. \A r \in Slugs : Going(r) \subseteq Jobs /\ Going(r)' \subseteq Jobs
  BY DEF Going
<1>6. kind = "install" => Going(s)' = Going(s) \cup {j}
  BY <1>3, <1>4, <1>5
<1>7. \A r \in Slugs : r # s \/ kind # "install" => Going(r)' = Going(r)
  BY <1>3, <1>4, <1>5
<1> QED BY <1>6, <1>7

\* An answer that ends a job: nothing else is touched, and an install that is not
\* cancelled is one less.
LEMMA GoingOver ==
  ASSUME DialogTypeOK, NEW j \in Jobs, Over(j)
  PROVE  /\ \A s \in Slugs : Going(s)' \subseteq Going(s)
         /\ job[j].kind # "install" \/ j \in cancelled => \A s \in Slugs : Going(s)' = Going(s)
<1>1. /\ job'[j].kind = "none"
      /\ \A i \in Jobs \ {j} : job'[i] = job[i] /\ (i \in cancelled' <=> i \in cancelled)
  BY DEF Over, DialogTypeOK, NoJob
<1>2. \A s \in Slugs, i \in Jobs \ {j} : i \in Going(s)' <=> i \in Going(s)
  BY <1>1 DEF Going, InstallsFor
<1>3. \A s \in Slugs : j \notin Going(s)'
  BY <1>1 DEF Going, InstallsFor
<1>4. job[j].kind # "install" \/ j \in cancelled => \A s \in Slugs : j \notin Going(s)
  BY DEF Going, InstallsFor
<1>5. \A s \in Slugs : Going(s) \subseteq Jobs /\ Going(s)' \subseteq Jobs
  BY DEF Going
<1> QED BY <1>2, <1>3, <1>4, <1>5

LEMMA KeysKind == ASSUME DialogTypeOK, EntriesLive, Keys PROVE Calm \/ Less \/ More
<1> USE ViewTyped DEF Places, Dialogs, OfInstall
<1>1. ASSUME NEW s \in Slugs,
             OpenLoaderPicker(s) \/ OpenJavaPicker(s) \/ LaunchInstance(s) \/ StopInstance(s)
      PROVE  Calm
  <2>1. \A r \in Slugs : Going(r)' = Going(r)
    BY <1>1, GoingSame DEF OpenLoaderPicker, OpenJavaPicker, LaunchInstance, StopInstance, Show
  <2> QED BY <1>1, <2>1 DEF OpenLoaderPicker, OpenJavaPicker, LaunchInstance, StopInstance, Show, Calm
<1>2. CASE LoaderPickerSelect
  <2>1. view.slug \in Slugs /\ view.at \in OfInstall
    BY <1>2 DEF LoaderPickerSelect, DialogTypeOK
  <2>2. PICK s \in Slugs : s = view.slug
    BY <2>1
  <2>3. \A r \in Slugs : Going(r)' = Going(r)
    <3>1. ASSUME NEW l \in Loaders, NEW kind \in {"fetch"}, StartJob(kind, s, l, "working"),
                 UNCHANGED cancelled
          PROVE  \A r \in Slugs : Going(r)' = Going(r)
      BY <3>1, GoingStarted
    <3> QED BY <1>2, <2>2, <3>1, GoingSame DEF LoaderPickerSelect, Show
  <2>4. view'.at \in {"confirm", "versions"} /\ view'.slug = view.slug
    BY <1>2, <2>1 DEF LoaderPickerSelect, Show
  <2> QED BY <2>1, <2>3, <2>4 DEF Calm
<1>3. ASSUME NEW s \in Slugs, view.slug = s, view.at \in OfInstall, BeginInstall(s)
      PROVE  More
  <2>1. StartJob("install", s, Nil, "queued") /\ UNCHANGED cancelled /\ view' = View("progress", s, Nil)
    BY <1>3 DEF BeginInstall
  <2>2. /\ \A r \in Slugs \ {s} : Going(r)' = Going(r)
        /\ \E j \in Jobs : Going(s)' = Going(s) \cup {j}
    BY <2>1, GoingStarted
  <2> QED BY <1>3, <2>1, <2>2 DEF More
<1>4. CASE LoaderVersionSelect
  <2>1. view.slug \in Slugs /\ view.loader \in Loaders /\ view.at \in OfInstall
    BY <1>4 DEF LoaderVersionSelect, DialogTypeOK
  <2>2. CASE Show(View("confirm", view.slug, view.loader))
    <3>1. \A r \in Slugs : Going(r)' = Going(r)
      BY <2>2, GoingSame DEF Show
    <3>2. view'.at = "confirm" /\ view'.slug = view.slug
      BY <2>1, <2>2 DEF Show
    <3> QED BY <2>1, <3>1, <3>2 DEF Calm
  <2> QED BY <1>3, <1>4, <2>1, <2>2 DEF LoaderVersionSelect
<1>5. ASSUME NEW kind \in {"remove", "java"}, view.slug \in Slugs, view' = List,
             StartJob(kind, view.slug, Nil, "working"), UNCHANGED cancelled
      PROVE  Less
  <2>1. PICK s \in Slugs : s = view.slug
    BY <1>5
  <2>2. StartJob(kind, s, Nil, "working") /\ UNCHANGED cancelled
    BY <1>5, <2>1
  <2>3. \A r \in Slugs : Going(r)' = Going(r)
    BY <2>2, GoingStarted
  <2> QED BY <1>5, <2>3 DEF Less
<1>6. CASE ConfirmLoaderSwitch
  <2>1. view.slug \in Slugs /\ view.at \in OfInstall
    BY <1>6 DEF ConfirmLoaderSwitch, DialogTypeOK
  <2> QED BY <1>3, <1>5, <1>6, <2>1 DEF ConfirmLoaderSwitch
<1>7. CASE JavaPickerSelect
  <2>1. view.slug \in Slugs
    BY <1>7 DEF JavaPickerSelect, DialogTypeOK
  <2> QED BY <1>5, <1>7, <2>1 DEF JavaPickerSelect
<1>8. CASE OpenForm \/ Leave
  <2>1. \A r \in Slugs : Going(r)' = Going(r)
    BY <1>8, GoingSame DEF OpenForm, Leave, Show
  <2>2. view.at = "versions" => view.slug \in Slugs
    BY DEF DialogTypeOK
  <2>3. \/ view'.at \in {"other", "list"}
        \/ view.at = "versions" /\ view'.at = "picker" /\ view'.slug = view.slug
    BY <1>8, <2>2 DEF OpenForm, Leave, Show
  <2> QED BY <2>1, <2>3 DEF Calm
<1>9. CASE CancelLoaderInstall
  <2>1. \A r \in Slugs : Going(r)' \subseteq Going(r)
    BY <1>9 DEF CancelLoaderInstall, Going, InstallsFor
  <2> QED BY <1>9, <2>1 DEF CancelLoaderInstall, Less
<1> QED BY <1>1, <1>2, <1>4, <1>6, <1>7, <1>8, <1>9 DEF Keys

LEMMA AnswersKind == ASSUME DialogTypeOK, EntriesLive, Answers PROVE Calm \/ Less \/ More
<1> USE ViewTyped DEF Places, Dialogs, OfInstall
<1>1. ASSUME NEW j \in Jobs, LoaderInstallStarted(j) PROVE Calm
  <2>1. /\ job'[j].kind = job[j].kind /\ job'[j].slug = job[j].slug
        /\ \A i \in Jobs \ {j} : job'[i] = job[i]
        /\ UNCHANGED <<cancelled, view>>
    BY <1>1 DEF LoaderInstallStarted, DialogTypeOK, Job
  <2>2. \A r \in Slugs : Going(r)' = Going(r)
    BY <2>1 DEF Going, InstallsFor
  <2> QED BY <2>1, <2>2 DEF Calm
<1>2. ASSUME NEW j \in Jobs, Dropped(j) PROVE Calm
  BY <1>2, GoingOver DEF Dropped, Calm
<1>3. ASSUME NEW j \in Jobs, LoaderInstalled(j) \/ LoaderInstallFailed(j) PROVE Less
  <2>1. Over(j) /\ job[j].slug \in Slugs
    BY <1>3 DEF LoaderInstalled, LoaderInstallFailed, Working, DialogTypeOK
  <2>2. view'.at \in {"list", "other"}
    BY <1>3, <2>1 DEF LoaderInstalled, LoaderInstallFailed
  <2> QED BY <2>1, <2>2, GoingOver DEF Less
<1>4. ASSUME NEW j \in Jobs, LoaderVersionsLoaded(j) PROVE Calm
  <2>1. Over(j) /\ job[j].kind # "install"
    BY <1>4 DEF LoaderVersionsLoaded, Working
  <2>2. \/ view' = view
        \/ view.at = "versions" /\ view'.at = "versions" /\ view'.slug = view.slug
    BY <1>4 DEF LoaderVersionsLoaded, DialogTypeOK, Views
  <2> QED BY <2>1, <2>2, GoingOver DEF Calm
<1>5. ASSUME NEW j \in Jobs, JavaOverrideEnds(j) PROVE Calm
  <2>1. Over(j) /\ job[j].kind # "install" /\ view' \in {view, List}
    BY <1>5 DEF JavaOverrideEnds, Working
  <2> QED BY <2>1, GoingOver DEF Calm
<1>6. ASSUME NEW s \in Slugs, LaunchJobStarted(s) \/ GameEnds(s) PROVE Calm
  <2>1. \A r \in Slugs : Going(r)' = Going(r)
    BY <1>6, GoingSame DEF LaunchJobStarted, GameEnds
  <2>2. view' = view \/ view'.at = "other"
    BY <1>6 DEF LaunchJobStarted, GameEnds
  <2> QED BY <2>1, <2>2 DEF Calm
<1> QED BY <1>1, <1>2, <1>3, <1>4, <1>5, <1>6 DEF Answers

-----------------------------------------------------------------------------
(* The invariant. *)

LEMMA Entries == DialogTypeOK /\ EntriesLive /\ (Keys \/ Answers) => EntriesLive'
<1> SUFFICES ASSUME DialogTypeOK, EntriesLive, Keys \/ Answers PROVE EntriesLive'
  OBVIOUS
\* A job that is cancelled, or whose entry is there, is an install that works.
<1> DEFINE Kept(j) == job[j].kind = "install" /\ job[j].at = "working" => job'[j] = job[j]
<1>1. ASSUME UNCHANGED <<token, cancelled>>, \A j \in Jobs : Kept(j) PROVE EntriesLive'
  BY <1>1 DEF EntriesLive, InstallsFor, Working, DialogTypeOK
<1>2. ASSUME NEW kind, NEW s, NEW l, NEW at, StartJob(kind, s, l, at) PROVE \A j \in Jobs : Kept(j)
  <2>1. PICK j \in Jobs : job[j] = NoJob /\ \A i \in Jobs \ {j} : job'[i] = job[i]
    BY <1>2, Started
  <2> QED BY <2>1 DEF NoJob
<1>3. ASSUME NEW s \in Slugs, OpenLoaderPicker(s) \/ OpenJavaPicker(s) \/ GameKeys(s)
      PROVE  EntriesLive'
  BY <1>1, <1>3 DEF OpenLoaderPicker, OpenJavaPicker, GameKeys, LaunchInstance, StopInstance,
    LaunchJobStarted, GameEnds, Show
<1>4. CASE LoaderPickerSelect \/ LoaderVersionSelect \/ ConfirmLoaderSwitch \/ JavaPickerSelect
           \/ OpenForm \/ Leave
  <2>1. UNCHANGED <<token, cancelled>>
    BY <1>4 DEF LoaderPickerSelect, LoaderVersionSelect, ConfirmLoaderSwitch, JavaPickerSelect,
      OpenForm, Leave, BeginInstall, Show
  <2>2. UNCHANGED job \/ \E kind, s, l, at : StartJob(kind, s, l, at)
    BY <1>4 DEF LoaderPickerSelect, LoaderVersionSelect, ConfirmLoaderSwitch, JavaPickerSelect,
      OpenForm, Leave, BeginInstall, Show
  <2> QED BY <1>1, <1>2, <2>1, <2>2
<1>5. CASE CancelLoaderInstall
  <2>1. PICK s \in Slugs : s = view.slug
    BY <1>5 DEF CancelLoaderInstall, DialogTypeOK
  <2>2. /\ cancelled' = cancelled \cup ({token[s]} \ {Nil})
        /\ token'[s] = Nil /\ \A r \in Slugs \ {s} : token'[r] = token[r]
        /\ UNCHANGED job
    BY <1>5, <2>1 DEF CancelLoaderInstall, DialogTypeOK
  <2> QED BY <2>2 DEF EntriesLive, InstallsFor, Working
<1>6. ASSUME NEW j \in Jobs, LoaderInstallStarted(j) PROVE EntriesLive'
  <2>1. PICK s \in Slugs : s = job[j].slug
    BY <1>6 DEF LoaderInstallStarted, DialogTypeOK
  <2>2. /\ job[j].kind = "install" /\ job[j].at = "queued"
        /\ job'[j].kind = "install" /\ job'[j].slug = s /\ job'[j].at = "working"
        /\ \A i \in Jobs \ {j} : job'[i] = job[i]
        /\ token'[s] = j /\ \A r \in Slugs \ {s} : token'[r] = token[r]
        /\ UNCHANGED cancelled
    BY <1>6, <2>1 DEF LoaderInstallStarted, DialogTypeOK, Job
  <2>3. j \notin cancelled
    BY <2>2 DEF EntriesLive, Working
  <2> QED BY <2>2, <2>3 DEF EntriesLive, InstallsFor, Working, DialogTypeOK
<1>7. ASSUME NEW j \in Jobs, Over(j),
             \A s \in Slugs : token'[s] = Nil \/ (token'[s] = token[s] /\ token[s] # j)
      PROVE  EntriesLive'
  <2>1. /\ \A i \in Jobs \ {j} : job'[i] = job[i]
        /\ cancelled' = cancelled \ {j}
    BY <1>7 DEF Over, DialogTypeOK
  <2> QED BY <1>7, <2>1 DEF EntriesLive, InstallsFor, Working, DialogTypeOK
<1>8. ASSUME NEW j \in Jobs, Dropped(j) \/ LoaderVersionsLoaded(j) \/ JavaOverrideEnds(j)
      PROVE  EntriesLive'
  <2>1. Over(j) /\ UNCHANGED token /\ (j \in cancelled \/ job[j].kind # "install")
    BY <1>8 DEF Dropped, LoaderVersionsLoaded, JavaOverrideEnds, Working
  <2>2. \A s \in Slugs : token[s] = Nil \/ token[s] # j
    BY <2>1 DEF EntriesLive, InstallsFor
  <2> QED BY <1>7, <2>1, <2>2
<1>9. ASSUME NEW j \in Jobs, LoaderInstalled(j) \/ LoaderInstallFailed(j) PROVE EntriesLive'
  <2>1. PICK s \in Slugs : s = job[j].slug
    BY <1>9 DEF LoaderInstalled, LoaderInstallFailed, Working, DialogTypeOK
  <2>2. Over(j) /\ token'[s] = Nil /\ \A r \in Slugs \ {s} : token'[r] = token[r]
    BY <1>9, <2>1 DEF LoaderInstalled, LoaderInstallFailed, DialogTypeOK
  <2>3. \A r \in Slugs \ {s} : token[r] = Nil \/ token[r] # j
    BY <2>1 DEF EntriesLive, InstallsFor
  <2> QED BY <1>7, <2>2, <2>3
<1> QED BY <1>3, <1>4, <1>5, <1>6, <1>8, <1>9 DEF Keys, Answers, GameKeys

\* What an instance that is not lost has, by what Noted calls lost.
LEMMA Known ==
  ASSUME DialogTypeOK, Noted
  PROVE  LostKnown' /\ \A s \in Slugs \ lost' : s \notin lost \/ Going(s)' = {}
BY DEF Noted, LostKnown, Going

LEMMA NextInstalls ==
  ASSUME DialogTypeOK, DialogTypeOK', EntriesLive, EntriesLive', NoneWhileChoosing, LostKnown,
         OneInstall, ProgressIsLive, Keys \/ Answers, Noted
  PROVE  NoneWhileChoosing' /\ OneInstall' /\ ProgressIsLive'
<1> DEFINE Single(s) == \A i, j \in Going(s) : i = j
<1>1. /\ LostKnown' /\ \A s \in Slugs \ lost' : s \notin lost \/ Going(s)' = {}
      /\ Calm \/ Less \/ More
  BY Known, KeysKind, AnswersKind
<1>2. /\ view.at \in OfInstall \cup {"progress"} => view.slug \in Slugs
      /\ view'.at \in OfInstall \cup {"progress"} => view'.slug \in Slugs
  BY DEF DialogTypeOK, OfInstall
<1>3. /\ OneInstall <=> \A s \in Slugs \ lost : Single(s)
      /\ OneInstall' <=> \A s \in Slugs \ lost' : Single(s)'
  BY DEF OneInstall, Going
<1>4. /\ NoneWhileChoosing <=> (view.at \in OfInstall /\ view.slug \notin lost =>
           \A s \in Slugs : s = view.slug => Going(s) = {})
      /\ NoneWhileChoosing' <=> (view'.at \in OfInstall /\ view'.slug \notin lost' =>
           \A s \in Slugs : s = view'.slug => Going(s)' = {})
  BY <1>2 DEF NoneWhileChoosing, Going, InstallsFor
<1>5. /\ ProgressIsLive <=> (view.at = "progress" => \A s \in Slugs : s = view.slug => Going(s) # {})
      /\ ProgressIsLive' <=> (view'.at = "progress" => \A s \in Slugs : s = view'.slug => Going(s)' # {})
  BY <1>2 DEF ProgressIsLive, Going, InstallsFor
<1>6. \* Where no dialogue shows an install, the entry is the only one.
      ASSUME NEW s \in Slugs \ lost', ~(view'.at = "progress" /\ view'.slug = s)
      PROVE  \A j \in Going(s)' : token'[s] = j
  BY <1>1, <1>6 DEF LostKnown, Lost, Going
<1>7. NoneWhileChoosing'
  <2> SUFFICES ASSUME NEW s \in Slugs, view'.at \in OfInstall, s = view'.slug, s \notin lost', s \notin lost
               PROVE  Going(s)' = {}
    BY <1>1, <1>4
  <2>1. ~(view'.at = "progress")
    BY DEF OfInstall
  <2>2. CASE view.at \in OfInstall /\ view'.slug = view.slug
    <3>1. Going(s) = {}
      BY <1>4, <2>2
    <3> QED BY <1>1, <2>1, <3>1 DEF Calm, Less, More
  <2>3. CASE UNCHANGED token /\ token[view'.slug] = Nil
    <3>1. \A j \in Going(s)' : j = Nil
      BY <1>6, <2>1, <2>3
    <3>2. Going(s)' \subseteq Jobs
      BY DEF Going
    <3> QED BY <3>1, <3>2, DialogsAssumption
  <2> QED BY <1>1, <2>1, <2>2, <2>3 DEF Calm, Less, More
<1>8. OneInstall'
  <2> SUFFICES ASSUME NEW s \in Slugs \ lost' PROVE Single(s)'
    BY <1>3
  <2>1. CASE ~(view'.at = "progress" /\ view'.slug = s)
    BY <1>6, <2>1
  <2>2. CASE view'.at = "progress" /\ view'.slug = s /\ s \notin lost
    <3>1. CASE More
      <4>1. view.at \in OfInstall /\ view.slug = s
        BY <2>2, <3>1 DEF More
      <4>2. Going(s) = {}
        BY <1>4, <2>2, <4>1
      <4>3. \E j \in Jobs : Going(s)' = Going(s) \cup {j}
        BY <3>1, <4>1 DEF More, Going, InstallsFor
      <4> QED BY <4>2, <4>3
    <3>2. CASE Calm
      BY <1>3, <2>2, <3>2 DEF Calm
    <3> QED BY <1>1, <2>2, <3>1, <3>2 DEF Less
  <2> QED BY <1>1, <2>1, <2>2
<1>9. ProgressIsLive'
  <2> SUFFICES ASSUME NEW s \in Slugs, view'.at = "progress", s = view'.slug PROVE Going(s)' # {}
    BY <1>5
  <2>1. CASE More
    <3>1. \E j \in Jobs : Going(s)' = Going(s) \cup {j}
      BY <2>1 DEF More, Going, InstallsFor
    <3> QED BY <3>1
  <2>2. CASE Calm
    BY <1>5, <2>2 DEF Calm
  <2> QED BY <1>1, <2>1, <2>2 DEF Less
<1> QED BY <1>7, <1>8, <1>9

LEMMA GamesMove == ASSUME DialogTypeOK, Keys \/ Answers PROVE \A s \in Slugs : GameStep(s)
<1>1. CASE \E s \in Slugs : GameKeys(s)
  BY <1>1, GameSteps
<1>2. CASE ~\E s \in Slugs : GameKeys(s)
  <2>1. UNCHANGED launch
    BY <1>2 DEF Keys, Answers, GameKeys, OpenLoaderPicker, OpenJavaPicker, LoaderPickerSelect,
      LoaderVersionSelect, ConfirmLoaderSwitch, JavaPickerSelect, OpenForm, Leave, CancelLoaderInstall,
      BeginInstall, Show, LoaderInstallStarted, Dropped, LoaderInstalled, LoaderInstallFailed,
      LoaderVersionsLoaded, JavaOverrideEnds
  <2> QED BY <2>1 DEF GameStep
<1> QED BY <1>1, <1>2

LEMMA NextGames == DialogTypeOK /\ OneGame /\ (Keys \/ Answers) /\ Noted => OneGame'
<1> SUFFICES ASSUME DialogTypeOK, OneGame, Keys \/ Answers, Noted, NEW s \in Slugs \ twice'
             PROVE  Games(s)' <= 1 /\ (launch'[s].playing > 0 => launch'[s].known)
  BY DEF OneGame, Running
<1>1. /\ launch[s].asked \in Nat /\ launch[s].playing \in Nat
      /\ launch'[s].asked \in Nat /\ launch'[s].playing \in Nat
  <2>1. DialogTypeOK'
    BY KeysType, AnswersType
  <2> QED BY <2>1 DEF DialogTypeOK, Playing
<1>2. launch[s] \in Playing
  BY DEF DialogTypeOK
<1>3. Games(s)' <= 1 /\ (s \in twice => Games(s)' = 0)
  BY <1>1 DEF Noted, Games
<1>4. CASE s \in twice
  BY <1>1, <1>3, <1>4 DEF Games
<1>5. CASE s \notin twice
  <2>1. launch[s].asked + launch[s].playing <= 1 /\ (launch[s].playing > 0 => launch[s].known)
    BY <1>5 DEF OneGame, Games, Running
  <2>2. GameStep(s)
    BY GamesMove
  <2>3. launch'[s].playing > 0 => launch'[s].known
    <3>1. PICK g \in Playing : g = launch[s]
      BY <1>2
    <3>2. \/ launch'[s] \in {g, Asked(g)} \/ (g.playing > 0 /\ launch'[s] = Ended(g))
          \/ (g.asked > 0 /\ launch'[s] = Announced(g))
      BY <2>2, <3>1 DEF GameStep
    <3>3. PICK h : h = launch'[s]
      OBVIOUS
    <3>4. h.playing > 0 => h.known
      <4>1. g.playing \in Nat /\ g.playing <= 1 /\ (g.playing > 0 => g.known)
        BY <1>1, <2>1, <3>1
      <4>2. /\ Asked(g) \in Playing /\ Asked(g).playing = g.playing /\ Asked(g).known = g.known
            /\ g.playing > 0 => /\ Ended(g) \in Playing
                                /\ Ended(g).playing = g.playing - 1 /\ Ended(g).known = FALSE
            /\ g.asked > 0 => /\ Announced(g) \in Playing
                              /\ Announced(g).playing = g.playing + 1 /\ Announced(g).known = TRUE
        BY GameFields
      <4>3. CASE h = g
        BY <4>1, <4>3
      <4>4. CASE h = Asked(g)
        BY <4>1, <4>2, <4>4
      <4>5. CASE g.playing > 0 /\ h = Ended(g)
        BY <4>1, <4>2, <4>5
      <4>6. CASE g.asked > 0 /\ h = Announced(g)
        BY <4>2, <4>6
      <4> QED BY <3>2, <3>3, <4>3, <4>4, <4>5, <4>6
    <3> QED BY <3>3, <3>4
  <2> QED BY <1>3, <2>3
<1> QED BY <1>4, <1>5

\* A dialogue is opened, or a change begun where none was chosen, only while no game
\* of the instance is known.
LEMMA OpenedWhenIdle ==
  ASSUME DialogTypeOK, Keys \/ Answers, NEW s \in Slugs, Choosing(s)' \/ Changing(s)'
  PROVE  Choosing(s) \/ Changing(s) \/ ~Running(s)
<1> USE ViewTyped DEF Places, Dialogs
<1>1. \* Nothing new is changed: what is chosen is of the instance, as before.
      ASSUME ~Changing(s)', view' = view \/ view'.at \in {"list", "other", "progress"}
             \/ (view.at \in Dialogs /\ view'.slug = view.slug)
      PROVE  Choosing(s)
  BY <1>1 DEF Choosing
<1>2. ASSUME UNCHANGED job PROVE Changing(s)' <=> Changing(s)
  BY <1>2 DEF Changing
<1>3. ASSUME NEW j \in Jobs, Over(j), Changing(s)' PROVE Changing(s)
  BY <1>3 DEF Over, Changing, NoJob, DialogTypeOK
<1>4. ASSUME NEW kind, NEW r, NEW l, NEW at, StartJob(kind, r, l, at), Changing(s)'
      PROVE  Changing(s) \/ (r = s /\ kind # "fetch")
  <2>1. PICK j \in Jobs : /\ job'[j] = [kind |-> kind, slug |-> r, loader |-> l, at |-> at]
                          /\ \A i \in Jobs \ {j} : job'[i] = job[i]
    BY <1>4, Started
  <2> QED BY <1>4, <2>1 DEF Changing
<1>5. view.at \notin {"list", "other"} => view.slug \in Slugs /\ view.loader \in Loaders \cup {Nil}
  BY DEF DialogTypeOK, Views
<1>6. ASSUME NEW r \in Slugs, OpenLoaderPicker(r) \/ OpenJavaPicker(r)
      PROVE  Changing(s) \/ ~Running(s)
  BY <1>2, <1>6 DEF OpenLoaderPicker, OpenJavaPicker, Show, Choosing
<1>7. ASSUME NEW r \in Slugs, GameKeys(r) PROVE Choosing(s) \/ Changing(s)
  <2>1. UNCHANGED job /\ (view' = view \/ view'.at = "other")
    BY <1>7 DEF GameKeys, LaunchInstance, StopInstance, LaunchJobStarted, GameEnds
  <2> QED BY <1>1, <1>2, <2>1
<1>8. CASE OpenForm \/ Leave \/ CancelLoaderInstall
  <2>1. UNCHANGED job /\ (view'.at \in {"list", "other"} \/ (view.at \in Dialogs /\ view'.slug = view.slug))
    BY <1>5, <1>8 DEF OpenForm, Leave, CancelLoaderInstall, Show
  <2> QED BY <1>1, <1>2, <2>1
<1>9. CASE LoaderPickerSelect \/ LoaderVersionSelect \/ ConfirmLoaderSwitch \/ JavaPickerSelect
  <2>1. /\ view.at \in Dialogs
        /\ view'.at = "list" \/ view'.slug = view.slug
    BY <1>5, <1>9 DEF LoaderPickerSelect, LoaderVersionSelect, ConfirmLoaderSwitch, JavaPickerSelect,
      BeginInstall, Show
  <2>2. UNCHANGED job \/ \E kind, l, at : StartJob(kind, view.slug, l, at)
    BY <1>9 DEF LoaderPickerSelect, LoaderVersionSelect, ConfirmLoaderSwitch, JavaPickerSelect,
      BeginInstall, Show
  <2>3. view.slug = s => Choosing(s)
    BY <2>1 DEF Choosing
  <2>4. CASE Changing(s)'
    <3>1. PICK r : r = view.slug
      OBVIOUS
    <3>2. UNCHANGED job \/ \E kind, l, at : StartJob(kind, r, l, at)
      BY <2>2, <3>1
    <3> QED BY <1>2, <1>4, <2>3, <2>4, <3>1, <3>2
  <2> QED BY <1>1, <2>1, <2>4
<1>10. ASSUME NEW j \in Jobs, LoaderInstallStarted(j) PROVE Choosing(s) \/ Changing(s)
  <2>1. /\ job[j] \in Job /\ view' = view
        /\ job' = [job EXCEPT ![j].at = "working"]
    BY <1>10 DEF LoaderInstallStarted, DialogTypeOK
  <2>2. \A i \in Jobs : job'[i].kind = job[i].kind /\ job'[i].slug = job[i].slug
    BY <2>1 DEF DialogTypeOK, Job
  <2>3. Changing(s)' => Changing(s)
    BY <2>2 DEF Changing
  <2> QED BY <1>1, <2>1, <2>3
<1>11. ASSUME NEW j \in Jobs, Dropped(j) \/ LoaderInstalled(j) \/ LoaderInstallFailed(j)
                             \/ LoaderVersionsLoaded(j) \/ JavaOverrideEnds(j)
       PROVE  Choosing(s) \/ Changing(s)
  <2>1. Over(j)
    BY <1>11 DEF Dropped, LoaderInstalled, LoaderInstallFailed, LoaderVersionsLoaded, JavaOverrideEnds
  <2>2. \/ view' = view \/ view'.at \in {"list", "other"}
        \/ view.at \in Dialogs /\ view'.slug = view.slug
    <3>1. CASE LoaderVersionsLoaded(j)
      BY <3>1 DEF LoaderVersionsLoaded, DialogTypeOK, Views
    <3>2. CASE ~LoaderVersionsLoaded(j)
      BY <1>11, <3>2 DEF Dropped, LoaderInstalled, LoaderInstallFailed, JavaOverrideEnds
    <3> QED BY <3>1, <3>2
  <2> QED BY <1>1, <1>3, <2>1, <2>2
<1> QED BY <1>6, <1>7, <1>8, <1>9, <1>10, <1>11 DEF Keys, Answers, GameKeys

LEMMA NextPlaying ==
  ASSUME DialogTypeOK, OneGame, PlayingIsLate, Keys \/ Answers, Noted
  PROVE  PlayingIsLate'
<1> SUFFICES ASSUME NEW s \in Slugs \ twice', launch'[s].playing > 0, Choosing(s)' \/ Changing(s)'
             PROVE  s \in late'
  BY DEF PlayingIsLate
<1>1. /\ launch[s].asked \in Nat /\ launch[s].playing \in Nat
      /\ launch'[s].asked \in Nat /\ launch'[s].playing \in Nat
  <2>1. DialogTypeOK'
    BY KeysType, AnswersType
  <2> QED BY <2>1 DEF DialogTypeOK, Playing
<1>2. s \notin twice
  BY <1>1 DEF Noted, Games
<1>3. s \in late \/ launch'[s].playing > launch[s].playing => s \in late'
  BY DEF Noted
<1>4. CASE launch[s].playing > 0
  <2>1. Running(s)
    BY <1>2, <1>4 DEF OneGame
  <2>2. Choosing(s) \/ Changing(s)
    BY <2>1, OpenedWhenIdle
  <2> QED BY <1>2, <1>3, <1>4, <2>2 DEF PlayingIsLate
<1>5. CASE ~(launch[s].playing > 0)
  BY <1>1, <1>3, <1>5
<1> QED BY <1>4, <1>5

LEMMA DialogInvariant == DialogSpec => [](DialogTypeOK /\ DialogInv)
<1>1. DialogInit => DialogInv
  BY DEF DialogInit, DialogInv, EntriesLive, NoneWhileChoosing, LostKnown, Lost, PlayingIsLate,
    OneGame, Games, OneInstall, ProgressIsLive, InstallsFor, NoJob, List, View, OfInstall, Dialogs
<1>2. DialogTypeOK /\ DialogInv /\ DialogNext => DialogInv'
  BY DialogNextType, Entries, NextInstalls, NextGames, NextPlaying, Known DEF DialogInv, DialogNext
<1>3. DialogInv /\ UNCHANGED dialogVars => DialogInv'
  BY DEF dialogVars, DialogInv, EntriesLive, NoneWhileChoosing, LostKnown, Lost, PlayingIsLate,
    OneGame, Games, Choosing, Changing, OneInstall, ProgressIsLive, InstallsFor, Working, Running
<1> QED BY <1>1, <1>2, <1>3, DialogInitType, DialogNextType, PTL DEF DialogSpec

\* An instance has one loader install that is not cancelled, as long as the interface
\* has not lost sight of one.
THEOREM OneInstallHolds == DialogSpec => []OneInstall
<1>1. DialogInv => OneInstall
  BY DEF DialogInv
<1> QED BY <1>1, DialogInvariant, PTL

\* The progress dialogue has an install behind it, whose end will close it.
THEOREM ProgressCloses == DialogSpec => []ProgressIsLive
<1>1. DialogInv => ProgressIsLive
  BY DEF DialogInv
<1> QED BY <1>1, DialogInvariant, PTL

\* A loader or a Java is changed under a game only if the game was announced while the
\* dialogue was open or the change going on, or the instance was launched twice at once.
THEOREM ChangedWhenIdle == DialogSpec => []NotWhilePlaying
<1>1. DialogInv => NotWhilePlaying
  BY DEF DialogInv, PlayingIsLate, NotWhilePlaying
<1> QED BY <1>1, DialogInvariant, PTL

(* Mods and what they require. *)

\* What is in the plan is still to be looked at, or what it requires has been met,
\* or is about to be: so that when the walk ends nothing is left.
InQueue(v) == \E i \in 1..Len(queue) : queue[i] = v
NothingMissed ==
  /\ phase = "asked" => planned = {}
  /\ phase = "walking" => \A v \in Plan : InQueue(v) \/ needs[v] \subseteq met \cup required
  /\ phase \in {"shown", "installing", "done"} => \A v \in Plan : needs[v] \subseteq met

\* And what it is incompatible with is listed, or is about to be; the install goes
\* on only when nothing is.
NothingUnlisted ==
  /\ phase = "asked" => planned = {}
  /\ phase = "walking" => \A v \in Plan : InQueue(v) \/ bars[v] \subseteq conflicts \cup barred
  /\ phase = "shown" => \A v \in Plan : bars[v] \subseteq conflicts
  /\ phase \in {"installing", "done"} => \A v \in Plan : bars[v] = {}

\* What is planned was not there, and a version of the plan requires it.
Wanted ==
  /\ phase = "asked" => required = {} /\ planned = {} /\ queue = <<>>
  /\ planned \cap known = {}
  /\ \A p \in required \cup planned : \E v \in Plan : p \in needs[v]
  /\ \A v \in Releases : InQueue(v) => v \in Plan

\* What has been met was there when the ledger was read, or is planned; what was
\* there, and what has been put down since, is there but for what others removed.
MetIsKnown == met = known \cup planned /\ known \subseteq rows \cup gone
RowsPutDown ==
  /\ \A v \in Releases : step[v] # "none" => v \in Plan
  /\ \A v \in Releases : step[v] \in {"listed", "placed"} => Project(v) \in rows \cup gone
  /\ phase = "done" => AllPlaced

\* A downloaded file waits for its rename, unless two releases share it.
FilesWait ==
  phase = "installing" =>
    \A v \in Releases : step[v] \in {"fetched", "listed"} =>
      FileOf(v) \in tmp \/ (newest /\ Root \in planned)

ResolveInv == /\ ResolveTypeOK /\ NothingMissed /\ MetIsKnown /\ RowsPutDown /\ FilesWait
              /\ FailsForAReason

\* A mod that is required is no release but itself.
LEMMA ReleasesAre ==
  /\ Root \in Projects /\ Root # Chosen /\ Chosen \in Releases /\ Projects \subseteq Releases
  /\ \A p \in Projects : Project(p) = p /\ FileOf(p) = p
  /\ \A v \in Releases : Project(v) \in Projects /\ FileOf(v) \in Releases
<1>1. Root \in Projects /\ Root # Chosen /\ Chosen \in Releases /\ Projects \subseteq Releases
  BY GraphAssumption DEF Releases
<1>2. \A p \in Projects : p # Chosen
  BY GraphAssumption
<1>3. \A p \in Projects : Project(p) = p /\ FileOf(p) = p
  BY <1>2 DEF Project, FileOf
<1>4. \A v \in Releases : Project(v) \in Projects /\ FileOf(v) \in Releases
  BY <1>1 DEF Releases, Project, FileOf
<1> QED BY <1>1, <1>3, <1>4

\* The bounds are numbers.
LEMMA BoundsAre == MaxOthers \in Nat /\ MaxMishaps \in Nat
BY GraphAssumption

LEMMA ResolveInitInv == ResolveInit => ResolveInv
<1> SUFFICES ASSUME ResolveInit PROVE ResolveInv
  OBVIOUS
<1> USE DEF ResolveInit
<1>1. ResolveTypeOK
  BY BoundsAre DEF ResolveTypeOK
<1>2. NothingMissed /\ MetIsKnown /\ RowsPutDown /\ FilesWait /\ FailsForAReason
  BY DEF NothingMissed, MetIsKnown, RowsPutDown, FilesWait, FailsForAReason
<1> QED BY <1>1, <1>2 DEF ResolveInv

\* The queue loses its head, and gains what is required.
LEMMA HeadLeaves ==
  ASSUME ResolveTypeOK, TakeVersion
  PROVE  /\ InQueue(Head(queue)) /\ Head(queue) \in Releases
         /\ \A v : InQueue(v) => v = Head(queue) \/ InQueue(v)'
         /\ \A v : InQueue(v)' => InQueue(v)
<1>1. queue \in Seq(Releases) /\ queue # <<>> /\ queue' = Tail(queue)
  BY DEF TakeVersion, ResolveTypeOK
<1>2. InQueue(Head(queue)) /\ Head(queue) \in Releases
  BY <1>1 DEF InQueue
<1>3. ASSUME NEW v, NEW i \in 1..Len(queue), queue[i] = v, v # Head(queue) PROVE InQueue(v)'
  <2>1. i # 1
    BY <1>1, <1>3
  <2>2. i - 1 \in 1..Len(queue') /\ queue'[i - 1] = queue[i]
    BY <1>1, <2>1
  <2> QED BY <1>3, <2>2 DEF InQueue
<1>4. ASSUME NEW v, NEW i \in 1..Len(queue'), queue'[i] = v PROVE InQueue(v)
  <2>1. i + 1 \in 1..Len(queue) /\ queue[i + 1] = queue'[i]
    BY <1>1
  <2> QED BY <1>4, <2>1 DEF InQueue
<1> QED BY <1>2, <1>3, <1>4 DEF InQueue

LEMMA RequiredJoins ==
  ASSUME ResolveTypeOK, NEW p \in Projects, Required(p)
  PROVE  /\ InQueue(p)'
         /\ \A v : InQueue(v) => InQueue(v)'
         /\ \A v : InQueue(v)' => v = p \/ InQueue(v)
<1>1. queue \in Seq(Releases) /\ queue' = Append(queue, p) /\ p \in Releases
  BY ReleasesAre DEF Required, ResolveTypeOK
<1>2. Len(queue) \in Nat /\ Len(queue') = Len(queue) + 1 /\ queue'[Len(queue) + 1] = p
  BY <1>1
<1>3. \A i \in 1..Len(queue) : i \in 1..Len(queue') /\ queue'[i] = queue[i]
  BY <1>1
<1>4. \A i \in 1..Len(queue') : i = Len(queue) + 1 \/ i \in 1..Len(queue)
  BY <1>2
<1>5. Len(queue) + 1 \in 1..Len(queue')
  BY <1>2
<1> QED BY <1>2, <1>3, <1>4, <1>5 DEF InQueue

\* The steps of the walk.
LEMMA WalkStep ==
  ASSUME ResolveInv, Walk
  PROVE  ResolveInv'
<1> USE DEF ResolveInv
<1>1. UNCHANGED <<graph, rows, gone, others, step, tmp>>
  BY DEF Walk, ReadLedger, TakeVersion, Incompatible, Satisfied, Required, Resolved, WalkFails, install
<1>2. ResolveTypeOK'
  <2>1. CASE ReadLedger
    BY <2>1, ReleasesAre DEF ReadLedger, ResolveTypeOK, graph, install
  <2>2. CASE TakeVersion
    BY <2>2, ReleasesAre DEF TakeVersion, ResolveTypeOK, graph, install
  <2>3. ASSUME NEW p \in Projects, Incompatible(p) \/ Satisfied(p) PROVE ResolveTypeOK'
    BY <2>3 DEF Incompatible, Satisfied, ResolveTypeOK, graph, install
  <2>4. ASSUME NEW p \in Projects, Required(p) PROVE ResolveTypeOK'
    BY <2>4, ReleasesAre DEF Required, ResolveTypeOK, graph, install
  <2>5. CASE Resolved \/ WalkFails
    BY <2>5, BoundsAre DEF Resolved, WalkFails, Mishap, ResolveTypeOK, graph, install, walk
  <2> QED BY <2>1, <2>2, <2>3, <2>4, <2>5 DEF Walk
<1>3. MetIsKnown' /\ planned \subseteq planned'
  <2>1. MetIsKnown /\ (phase = "asked" => planned = {})
    BY DEF NothingMissed
  <2> QED BY <1>1, <2>1 DEF Walk, ReadLedger, TakeVersion, Incompatible, Satisfied, Required, Resolved, WalkFails,
            MetIsKnown, walk
<1>4. phase \in {"asked", "walking"} /\ phase' \in {"walking", "conflict", "failed", "shown"}
  BY DEF Walk, ReadLedger, TakeVersion, Incompatible, Satisfied, Required, Resolved, WalkFails
<1>5. RowsPutDown' /\ FilesWait'
  BY <1>1, <1>3, <1>4 DEF RowsPutDown, FilesWait, Plan
<1>7. FailsForAReason'
  <2>1. phase' = "failed" => WalkFails
    BY <1>4 DEF Walk, ReadLedger, TakeVersion, Incompatible, Satisfied, Required, Resolved
  <2>2. WalkFails => mishaps' > 0
    BY DEF WalkFails, Mishap, ResolveTypeOK
  <2> QED BY <2>1, <2>2 DEF FailsForAReason
<1>6. NothingMissed'
  <2>1. CASE ReadLedger
    <3>1. planned' = {} /\ queue' = <<Chosen>> /\ phase' = "walking"
      BY <2>1 DEF ReadLedger, NothingMissed
    <3>2. InQueue(Chosen)'
      BY <3>1 DEF InQueue
    <3> QED BY <3>1, <3>2 DEF NothingMissed, Plan
  <2>2. CASE TakeVersion
    <3>1. \A v : InQueue(v) => v = Head(queue) \/ InQueue(v)'
      BY <2>2, HeadLeaves
    <3>2. /\ phase = "walking" /\ phase' = "walking" /\ required = {} /\ required' = needs[Head(queue)]
          /\ Plan' = Plan /\ met' = met /\ needs' = needs
      BY <2>2 DEF TakeVersion, LookedAtAll, Plan, graph
    <3> QED BY <3>1, <3>2 DEF NothingMissed
  <2>3. ASSUME NEW p \in Projects, Incompatible(p) \/ Satisfied(p) PROVE NothingMissed'
    BY <2>3 DEF Incompatible, Satisfied, NothingMissed, Plan, InQueue, graph
  <2>4. ASSUME NEW p \in Projects, Required(p) PROVE NothingMissed'
    <3>1. /\ queue \in Seq(Releases) /\ queue' = Append(queue, p) /\ phase = "walking" /\ phase' = "walking"
          /\ required' = required \ {p} /\ met' = met \cup {p} /\ needs' = needs /\ Plan' = Plan \cup {p}
      BY <2>4 DEF Required, ResolveTypeOK, Plan, graph
    <3>2. InQueue(p)' /\ \A v : InQueue(v) => InQueue(v)'
      BY <2>4, RequiredJoins
    <3> QED BY <3>1, <3>2 DEF NothingMissed
  <2>5. CASE WalkFails
    BY <2>5 DEF WalkFails, NothingMissed
  <2>6. CASE Resolved
    <3>1. \A v : ~InQueue(v)
      BY <2>6 DEF Resolved, InQueue
    <3> QED BY <2>6, <3>1 DEF Resolved, NothingMissed, LookedAtAll, Plan, graph, walk
  <2> QED BY <2>1, <2>2, <2>3, <2>4, <2>5, <2>6 DEF Walk
<1> QED BY <1>2, <1>3, <1>5, <1>6, <1>7

\* The dialogue, and what others do meanwhile.
LEMMA DialogueStep ==
  ASSUME ResolveInv, ConfirmModInstall \/ CancelModInstall \/ \E p \in Projects : Other(p)
  PROVE  ResolveInv'
<1> USE DEF ResolveInv
<1>1. CASE ConfirmModInstall \/ CancelModInstall
  <2>1. UNCHANGED <<needs, newest, rows, known, met, queue, required, planned, gone, mishaps>>
    BY <1>1 DEF ConfirmModInstall, CancelModInstall, graph, walk
  <2>2. ResolveTypeOK'
    BY <1>1 DEF ConfirmModInstall, CancelModInstall, ResolveTypeOK, graph, walk, install
  <2>3. NothingMissed' /\ MetIsKnown' /\ FailsForAReason'
    BY <1>1, <2>1 DEF ConfirmModInstall, CancelModInstall, NothingMissed, Plan, MetIsKnown, FailsForAReason
  <2>4. RowsPutDown' /\ FilesWait'
    BY <1>1, <2>1 DEF ConfirmModInstall, CancelModInstall, RowsPutDown, FilesWait, Plan, install
  <2> QED BY <2>2, <2>3, <2>4
<1>2. ASSUME NEW p \in Projects, Other(p) PROVE ResolveInv'
  <2>1. /\ UNCHANGED <<graph, phase, walk, install, mishaps>>
        /\ rows \cup gone \subseteq rows' \cup gone' /\ phase # "done"
    BY <1>2 DEF Other
  <2>2. ResolveTypeOK'
    BY <1>2, BoundsAre DEF Other, ResolveTypeOK, graph, walk, install
  <2>3. NothingMissed' /\ MetIsKnown' /\ FailsForAReason' /\ FilesWait'
    BY <2>1 DEF NothingMissed, MetIsKnown, FailsForAReason, FilesWait, FileOf, Plan, InQueue, graph, walk, install
  <2>4. RowsPutDown'
    BY <2>1 DEF RowsPutDown, Plan, walk, install
  <2> QED BY <2>2, <2>3, <2>4
<1> QED BY <1>1, <1>2

\* The steps of the install.
LEMMA PlanInstallStep ==
  ASSUME ResolveInv, Install
  PROVE  ResolveInv'
<1> USE DEF ResolveInv
<1>1. /\ UNCHANGED <<graph, walk, gone, others>> /\ Plan' = Plan /\ phase = "installing"
      /\ needs' = needs /\ newest' = newest /\ planned' = planned
      /\ rows \subseteq rows' /\ phase' \in {"installing", "failed", "done"}
      /\ mishaps' >= mishaps
  BY DEF Install, Download, UpsertRow, Place, NotThere, InstallFails, ModInstalled, Goes, Mishap, Plan, walk, graph,
    ResolveTypeOK
<1>2. ResolveTypeOK'
  BY ReleasesAre, BoundsAre DEF Install, Download, UpsertRow, Place, NotThere, InstallFails, ModInstalled, Goes,
    Mishap, ResolveTypeOK, graph, walk, install
<1>3. NothingMissed' /\ MetIsKnown'
  BY <1>1 DEF NothingMissed, MetIsKnown, walk
<1>4. RowsPutDown'
  <2>1. ASSUME NEW v \in Releases, Download(v) \/ UpsertRow(v) \/ Place(v) PROVE RowsPutDown'
    BY <1>1, <2>1 DEF Download, UpsertRow, Place, Goes, RowsPutDown, ResolveTypeOK
  <2>2. ASSUME NEW v \in Releases, NotThere(v) PROVE RowsPutDown'
    BY <1>1, <2>2 DEF NotThere, RowsPutDown, install
  <2>3. CASE InstallFails \/ ModInstalled
    BY <1>1, <2>3 DEF InstallFails, ModInstalled, RowsPutDown, AllPlaced, install
  <2> QED BY <2>1, <2>2, <2>3 DEF Install
<1>5. \A v, w \in Releases : v # w /\ step[v] # "none" /\ step[w] # "none" /\ FileOf(v) = FileOf(w) =>
        newest /\ Root \in planned
  BY ReleasesAre DEF FileOf, RowsPutDown, Plan, Releases
<1>6. FilesWait'
  <2>1. ASSUME NEW v \in Releases, Download(v) \/ UpsertRow(v) PROVE FilesWait'
    BY <1>1, <2>1 DEF Download, UpsertRow, Goes, FilesWait, FileOf, ResolveTypeOK
  <2>2. ASSUME NEW v \in Releases, Place(v) PROVE FilesWait'
    <3>1. /\ tmp' = tmp \ {FileOf(v)} /\ step[v] = "listed" /\ step' = [step EXCEPT ![v] = "placed"]
      BY <2>2 DEF Place, Goes
    <3>2. \A w \in Releases : FileOf(w)' = FileOf(w)
      BY <1>1 DEF FileOf
    <3> QED BY <1>1, <1>5, <3>1, <3>2 DEF FilesWait, ResolveTypeOK
  <2>3. ASSUME phase' # "installing" PROVE FilesWait'
    BY <2>3 DEF FilesWait
  <2> QED BY <2>1, <2>2, <2>3 DEF Install, NotThere, InstallFails, ModInstalled
<1>7. FailsForAReason'
  <2>1. ASSUME NEW v \in Releases, NotThere(v) PROVE newest /\ Root \in planned
    BY <1>1, <2>1 DEF NotThere, FilesWait
  <2>2. InstallFails => mishaps' > 0
    BY DEF InstallFails, Mishap, ResolveTypeOK
  <2>3. phase' = "failed" => InstallFails \/ \E v \in Releases : NotThere(v)
    BY <1>1 DEF Install, Download, UpsertRow, Place, Goes, ModInstalled
  <2> QED BY <1>1, <2>1, <2>2, <2>3 DEF FailsForAReason
<1> QED BY <1>2, <1>3, <1>4, <1>6, <1>7

LEMMA ResolveInvHolds == ResolveSpec => []ResolveInv
<1>1. ResolveInv /\ [ResolveNext]_resolveVars => ResolveInv'
  <2> SUFFICES ASSUME ResolveInv, [ResolveNext]_resolveVars PROVE ResolveInv'
    OBVIOUS
  <2>1. CASE UNCHANGED resolveVars
    BY <2>1 DEF resolveVars, ResolveInv, ResolveTypeOK, NothingMissed, MetIsKnown, RowsPutDown, FilesWait,
      FailsForAReason, AllPlaced, FileOf, InQueue, Plan
  <2> QED BY <2>1, WalkStep, DialogueStep, PlanInstallStep DEF ResolveNext
<1> QED BY <1>1, ResolveInitInv, PTL DEF ResolveSpec

\* The same steps for what is listed and what is wanted.
ListedInv == NothingUnlisted /\ Wanted

LEMMA WalkLists ==
  ASSUME ResolveInv, ListedInv, Walk
  PROVE  ListedInv'
<1> USE DEF ResolveInv, ListedInv
<1>1. CASE ReadLedger
  <2>1. /\ planned' = {} /\ required' = {} /\ queue' = <<Chosen>> /\ phase' = "walking"
    BY <1>1 DEF ReadLedger, Wanted
  <2>2. InQueue(Chosen)' /\ \A v : InQueue(v)' => v = Chosen
    BY <2>1 DEF InQueue
  <2> QED BY <2>1, <2>2 DEF NothingUnlisted, Wanted, Plan
<1>2. CASE TakeVersion
  <2>1. /\ InQueue(Head(queue)) /\ Head(queue) \in Releases
        /\ \A v : InQueue(v) => v = Head(queue) \/ InQueue(v)'
        /\ \A v : InQueue(v)' => InQueue(v)
    BY <1>2, HeadLeaves
  <2>2. /\ phase = "walking" /\ phase' = "walking" /\ required' = needs[Head(queue)]
        /\ barred = {} /\ barred' = bars[Head(queue)]
        /\ Plan' = Plan /\ planned' = planned /\ known' = known /\ conflicts' = conflicts
        /\ needs' = needs /\ bars' = bars
    BY <1>2 DEF TakeVersion, LookedAtAll, Plan, graph
  <2>3. Head(queue) \in Plan
    BY <2>1 DEF Wanted
  <2>4. NothingUnlisted'
    BY <2>1, <2>2 DEF NothingUnlisted
  <2>5. Wanted'
    BY <2>1, <2>2, <2>3 DEF Wanted
  <2> QED BY <2>4, <2>5
<1>3. ASSUME NEW p \in Projects, Incompatible(p) \/ Satisfied(p) PROVE ListedInv'
  <2>1. /\ phase = "walking" /\ phase' \in {"walking", "conflict"} /\ required' \subseteq required
        /\ UNCHANGED <<graph, known, queue, planned>>
    BY <1>3 DEF Incompatible, Satisfied
  <2>2. phase' = "walking" => conflicts \cup barred \subseteq conflicts' \cup barred'
    BY <1>3 DEF Incompatible, Satisfied
  <2>3. NothingUnlisted'
    BY <2>1, <2>2 DEF NothingUnlisted, Plan, InQueue, graph
  <2>4. Wanted'
    BY <2>1 DEF Wanted, Plan, InQueue, graph
  <2> QED BY <2>3, <2>4
<1>4. ASSUME NEW p \in Projects, Required(p) PROVE ListedInv'
  <2>1. /\ InQueue(p)' /\ \A v : InQueue(v) => InQueue(v)'
        /\ \A v : InQueue(v)' => v = p \/ InQueue(v)
    BY <1>4, RequiredJoins
  <2>2. /\ phase = "walking" /\ phase' = "walking" /\ p \in required /\ p \notin known
        /\ required' \subseteq required /\ planned' = planned \cup {p} /\ Plan' = Plan \cup {p}
        /\ UNCHANGED <<needs, bars, known, barred, conflicts>>
    BY <1>4 DEF Required, MetIsKnown, Plan, graph
  <2>3. NothingUnlisted'
    BY <2>1, <2>2 DEF NothingUnlisted
  <2>4. Wanted'
    BY <2>1, <2>2 DEF Wanted
  <2> QED BY <2>3, <2>4
<1>5. CASE Resolved \/ WalkFails
  <2>1. /\ phase' \in {"shown", "failed"} /\ phase \in {"asked", "walking"}
        /\ UNCHANGED <<graph, known, required, queue, planned, conflicts>>
        /\ phase' = "shown" => phase = "walking" /\ barred = {} /\ queue = <<>>
    BY <1>5 DEF Resolved, WalkFails, LookedAtAll, walk
  <2>2. NothingUnlisted'
    BY <2>1 DEF NothingUnlisted, Plan, InQueue, graph
  <2>3. Wanted'
    BY <2>1 DEF Wanted, Plan, InQueue, graph
  <2> QED BY <2>2, <2>3
<1> QED BY <1>1, <1>2, <1>3, <1>4, <1>5 DEF Walk

LEMMA ListedStays ==
  ASSUME ListedInv, UNCHANGED <<graph, walk>>, phase # "asked",
         phase' \notin {"asked", "walking"}, phase' = "shown" => phase = "shown",
         phase' \in {"installing", "done"} =>
           phase \in {"installing", "done"} \/ (phase = "shown" /\ conflicts = {})
  PROVE  ListedInv'
BY DEF ListedInv, NothingUnlisted, Wanted, Plan, InQueue, graph, walk

LEMMA ListedKept ==
  ASSUME ListedInv, UNCHANGED <<graph, walk, phase>>
  PROVE  ListedInv'
BY DEF ListedInv, NothingUnlisted, Wanted, Plan, InQueue, graph, walk

LEMMA ListedInvHolds == ResolveSpec => []ListedInv
<1>1. ResolveInit => ListedInv
  BY DEF ResolveInit, ListedInv, NothingUnlisted, Wanted, InQueue
<1>2. ResolveInv /\ ListedInv /\ [ResolveNext]_resolveVars => ListedInv'
  <2> SUFFICES ASSUME ResolveInv, ListedInv, [ResolveNext]_resolveVars PROVE ListedInv'
    OBVIOUS
  <2>1. CASE UNCHANGED resolveVars \/ \E p \in Projects : Other(p)
    BY <2>1, ListedKept DEF resolveVars, Other, graph, walk
  <2>2. CASE ConfirmModInstall \/ CancelModInstall
    BY <2>2, ListedStays DEF ConfirmModInstall, CancelModInstall, graph, walk
  <2>3. CASE Install
    <3>1. UNCHANGED <<graph, walk>> /\ phase = "installing" /\ phase' \in {"installing", "failed", "done"}
      BY <2>3 DEF Install, Download, UpsertRow, Place, NotThere, InstallFails, ModInstalled, Goes, walk, graph
    <3> QED BY <3>1, ListedStays
  <2> QED BY <2>1, <2>2, <2>3, WalkLists DEF ResolveNext
<1> QED BY <1>1, <1>2, ResolveInvHolds, PTL DEF ResolveSpec

\* Every variable of the walk and the install keeps its type.
THEOREM ResolveTypeCorrect == ResolveSpec => []ResolveTypeOK
<1>1. ResolveInv => ResolveTypeOK
  BY DEF ResolveInv
<1> QED BY <1>1, ResolveInvHolds, PTL

\* After an install that ended well everything it installed, and everything that
\* requires, is in the ledger or was removed by others, whatever requires what,
\* cycles included (resolve_required_deps, install_mods_into_instance).
THEOREM DependenciesArePresent == ResolveSpec => []DependenciesPresent
<1>1. ResolveInv => DependenciesPresent
  <2> SUFFICES ASSUME ResolveInv, phase = "done", NEW v \in Plan
               PROVE  {Project(v)} \cup needs[v] \subseteq rows \cup gone
    BY DEF DependenciesPresent
  <2>1. Plan \subseteq Releases
    BY ReleasesAre DEF ResolveInv, ResolveTypeOK, Plan
  <2>2. \A w \in Plan : Project(w) \in rows \cup gone
    BY <2>1 DEF ResolveInv, RowsPutDown, AllPlaced
  <2>3. ASSUME NEW p \in planned PROVE p \in rows \cup gone
    <3>1. p \in Plan /\ Project(p) = p
      BY ReleasesAre DEF ResolveInv, ResolveTypeOK, Plan
    <3> QED BY <2>2, <3>1
  <2>4. needs[v] \subseteq known \cup planned
    BY DEF ResolveInv, NothingMissed, MetIsKnown
  <2> QED BY <2>2, <2>3, <2>4 DEF ResolveInv, MetIsKnown
<1> QED BY <1>1, ResolveInvHolds, PTL

\* An install fails only by an error or a cancellation, or because Root's newest
\* version was planned beside the chosen one and is the same file
\* (install_mods_into_instance).
THEOREM FailsForAReasonHolds == ResolveSpec => []FailsForAReason
<1>1. ResolveInv => FailsForAReason
  BY DEF ResolveInv
<1> QED BY <1>1, ResolveInvHolds, PTL

\* What is installed is incompatible with nothing that was there when the ledger was
\* read, nor with what comes with it (process_dep, ConfirmModInstall).
THEOREM NothingBarredHolds == ResolveSpec => []NothingBarred
<1>1. ListedInv => NothingBarred
  BY DEF ListedInv, NothingUnlisted, NothingBarred
<1> QED BY <1>1, ListedInvHolds, PTL

\* Nothing is planned that was there, and Root a second time only when a version of
\* the plan requires it (process_dep).
THEOREM PlannedOnceHolds == ResolveSpec => []PlannedOnce
<1>1. ListedInv => PlannedOnce
  BY DEF ListedInv, Wanted, PlannedOnce
<1> QED BY <1>1, ListedInvHolds, PTL
===============================================================================
