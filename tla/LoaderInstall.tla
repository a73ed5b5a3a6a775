----------------------------- MODULE LoaderInstall -----------------------------
(***************************************************************************)
(* Installing and removing modloaders (loader/service.rs): which loader    *)
(* the manifest of an instance names, and the files that loader needs.     *)
(* The version JSONs, the libraries and the cached installer JARs are      *)
(* shared by all instances; nothing locks them.                            *)
(*                                                                         *)
(* Fabric and Quilt are downloaded file by file.  Forge and NeoForge run   *)
(* an installer in a staging directory, whose libraries are then copied.   *)
(* Both write the version JSON after the libraries and the manifest last.  *)
(*                                                                         *)
(* A file appears whole (atomic_write); writers of one manifest that       *)
(* disturb each other, and lost updates of its other fields, are the       *)
(* subject of InstanceStore.                                               *)
(***************************************************************************)
EXTENDS FiniteSets

CONSTANTS Instances,
          Versions,     \* loader version ids
          Subprocess,   \* the ones of Forge and NeoForge
          Libs,         \* library paths (Maven layout)
          LibsOf,       \* the libraries a version's JSON names
          Ops,          \* the operations of one behaviour
          Requests,     \* what an operation may be asked to do
          Mishaps,      \* which of "error", "cancel", "crash" may happen
          None          \* no loader: vanilla

Request == [kind : {"install", "remove"}, inst : Instances, version : Versions]

ASSUME VersionsAssumption == Subprocess \subseteq Versions /\ None \notin Versions
ASSUME LibsAssumption == LibsOf \in [Versions -> SUBSET Libs]
ASSUME RequestsAssumption == Requests \subseteq Request

VARIABLES
  req,        \* what each operation is asked to do
  pc,         \* how far it has got
  want,       \* the libraries it has to put in place
  seen,       \* the loader that remove_loader read in the manifest
  loader,     \* manifest.loader of each instance
  json,       \* the versions whose JSON is in versions/
  libs,       \* the files in libraries/
  installer,  \* the versions whose installer JAR is in the cache
  staging,    \* the operations whose staging directory is there
  removed     \* (of the model) versions whose JSON was removed and not written since

vars == <<req, pc, want, seen, loader, json, libs, installer, staging, removed>>
files == <<loader, json, libs, installer, staging, removed>>

Stages == {"start", "profile", "jar", "verify", "stage", "run", "libs", "json",
           "manifest", "cleanup", "delete", "clear", "done"}

Version(o) == req[o].version
Installing(o) == req[o].kind = "install"
InFlight(o) == pc[o] # "done"
Attached(v) == v \in json /\ LibsOf[v] \subseteq libs

Init ==
  /\ req \in [Ops -> Requests]
  /\ pc = [o \in Ops |-> "start"]
  /\ want = [o \in Ops |-> {}]
  /\ seen = [o \in Ops |-> None]
  /\ loader = [i \in Instances |-> None]
  /\ json = {} /\ libs = {}
  /\ installer = {} /\ staging = {} /\ removed = {}

Go(o, from, to) == pc[o] = from /\ pc' = [pc EXCEPT ![o] = to]

-----------------------------------------------------------------------------
(* The steps of an install. *)

\* Re-attach: the JSON and every library it names are on disk already.
Start(o) ==
  /\ Installing(o)
  /\ Go(o, "start", IF Attached(Version(o)) THEN "manifest"
                    ELSE IF Version(o) \in Subprocess THEN "jar" ELSE "profile")
  /\ UNCHANGED <<req, want, seen, files>>

\* The profile of Fabric or Quilt is fetched, and re-attach checked again.
Profile(o) ==
  /\ Go(o, "profile", IF Attached(Version(o)) THEN "manifest" ELSE "libs")
  /\ want' = [want EXCEPT ![o] = LibsOf[Version(o)]]
  /\ UNCHANGED <<req, seen, files>>

\* The installer JAR is taken from the cache if it is there; else it is
\* downloaded and put in the cache.
Jar(o) ==
  /\ Go(o, "jar", IF Version(o) \in installer THEN "stage" ELSE "verify")
  /\ installer' = installer \cup {Version(o)}
  /\ UNCHANGED <<req, want, seen, loader, json, libs, staging, removed>>

\* A downloaded JAR is checked where it lies.  One that fails its SHA1 stays in
\* the cache, from which the next install takes it unchecked.
Verify(o) ==
  /\ \E result \in {"stage", "done"} : Go(o, "verify", result)
  /\ UNCHANGED <<req, want, seen, files>>

\* StagingDir::create, populate_vanilla, write_launcher_profiles.
Stage(o) ==
  /\ Go(o, "stage", "run")
  /\ staging' = staging \cup {o}
  /\ UNCHANGED <<req, want, seen, loader, json, libs, installer, removed>>

\* The installer runs, and its output is harvested: libraries that the JSON
\* names and the installer did not produce are skipped.
Run(o) ==
  \E produced \in SUBSET LibsOf[Version(o)] :
    /\ Go(o, "run", "libs")
    /\ want' = [want EXCEPT ![o] = produced]
    /\ UNCHANGED <<req, seen, loader, json, libs, installer, staging, removed>>

\* A task of the JoinSet puts a library in place.
PutLib(o, l) ==
  /\ pc[o] = "libs"
  /\ l \in want[o] \ libs
  /\ libs' = libs \cup {l}
  /\ UNCHANGED <<req, pc, want, seen, loader, json, installer, staging, removed>>

\* Plausible bug: the JSON is written while downloads are still running.
LibsReadyEarly(o) == Go(o, "libs", "json") /\ UNCHANGED <<req, want, seen, files>>

\* Every task of the set has been joined.
LibsReady(o) ==
  /\ Go(o, "libs", "json")
  /\ want[o] \subseteq libs
  /\ UNCHANGED <<req, want, seen, files>>

WriteJson(o) ==
  /\ Go(o, "json", "manifest")
  /\ json' = json \cup {Version(o)}
  /\ removed' = removed \ {Version(o)}
  /\ UNCHANGED <<req, want, seen, loader, libs, installer, staging>>

SetLoader(i, v) ==
  /\ loader' = [loader EXCEPT ![i] = v]
  /\ UNCHANGED <<req, want, seen, json, libs, installer, staging, removed>>

\* Plausible bug: the manifest is written before the version JSON.
WriteManifestFirst(o) ==
  /\ Go(o, "manifest", "done") \/ Go(o, "json", "done")
  /\ SetLoader(req[o].inst, Version(o))

\* The manifest is written last.
WriteManifest(o) ==
  /\ Go(o, "manifest", IF o \in staging THEN "cleanup" ELSE "done")
  /\ SetLoader(req[o].inst, Version(o))

Cleanup(o) ==
  /\ Go(o, "cleanup", "done")
  /\ staging' = staging \ {o}
  /\ UNCHANGED <<req, want, seen, loader, json, libs, installer, removed>>

-----------------------------------------------------------------------------
(* The steps of remove_loader. *)

ReadLoader(o) ==
  /\ ~Installing(o)
  /\ Go(o, "start", IF loader[req[o].inst] = None THEN "done" ELSE "delete")
  /\ seen' = [seen EXCEPT ![o] = loader[req[o].inst]]
  /\ UNCHANGED <<req, want, files>>

\* versions/<id> goes, whoever else uses it.
DeleteVersion(o) ==
  /\ Go(o, "delete", "clear")
  /\ json' = json \ {seen[o]}
  /\ removed' = removed \cup {seen[o]}
  /\ UNCHANGED <<req, want, seen, loader, libs, installer, staging>>

ClearLoader(o) == Go(o, "clear", "done") /\ SetLoader(req[o].inst, None)

-----------------------------------------------------------------------------
(* Mishaps. *)

\* A step fails and the operation returns its error.  What fails between the
\* creation of the staging directory and the manifest cleans it up.
Fail(o) ==
  /\ "error" \in Mishaps /\ InFlight(o)
  /\ pc[o] # "cleanup"
  /\ pc' = [pc EXCEPT ![o] = "done"]
  /\ staging' = IF pc[o] \in {"run", "libs", "json"} THEN staging \ {o} ELSE staging
  /\ UNCHANGED <<req, want, seen, loader, json, libs, installer, removed>>

\* The job of an install is cancelled: its future is dropped where it is.
Cancel(o) ==
  /\ "cancel" \in Mishaps /\ InFlight(o) /\ Installing(o)
  /\ pc' = [pc EXCEPT ![o] = "done"]
  /\ UNCHANGED <<req, want, seen, files>>

\* The process ends.
Crash ==
  /\ "crash" \in Mishaps
  /\ \E o \in Ops : InFlight(o)
  /\ pc' = [o \in Ops |-> "done"]
  /\ UNCHANGED <<req, want, seen, files>>

Step(o) ==
  \/ Start(o) \/ Profile(o) \/ Jar(o) \/ Verify(o) \/ Stage(o) \/ Run(o)
  \/ (\E l \in Libs : PutLib(o, l)) \/ LibsReady(o) \/ WriteJson(o)
  \/ WriteManifest(o) \/ Cleanup(o)
  \/ ReadLoader(o) \/ DeleteVersion(o) \/ ClearLoader(o)

Next == Crash \/ \E o \in Ops : Step(o) \/ Fail(o) \/ Cancel(o)

Spec == Init /\ [][Next]_vars

-----------------------------------------------------------------------------
(* Properties. *)

\* Types; a staging directory belongs to an install of Forge or NeoForge.
TypeOK ==
  /\ req \in [Ops -> Requests]
  /\ pc \in [Ops -> Stages]
  /\ want \in [Ops -> SUBSET Libs]
  /\ seen \in [Ops -> Versions \cup {None}]
  /\ loader \in [Instances -> Versions \cup {None}]
  /\ json \subseteq Versions /\ libs \subseteq Libs
  /\ installer \subseteq Versions
  /\ staging \subseteq {o \in Ops : Installing(o) /\ Version(o) \in Subprocess}
  /\ removed \subseteq Versions

\* However installs fail, are cancelled, crash or overlap, no manifest names a
\* loader whose version JSON was never written: only remove_loader can take it away.
MissingOnlyByRemoval ==
  \A i \in Instances : loader[i] # None => loader[i] \in json \cup removed

\* A version JSON of Fabric or Quilt is there only when its libraries are, on
\* which re-attach relies; an installer of the other two may leave some out.
JsonAfterLibs == \A v \in json \ Subprocess : LibsOf[v] \subseteq libs

=============================================================================
