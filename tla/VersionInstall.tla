---------------------------- MODULE VersionInstall ----------------------------
(* A game version is put on disk by install_version and read back by          *)
(* launch_instance (install/version_installer.rs, mojang/client.rs, cache.rs, *)
(* launcher/service.rs).  The install is a job with seven phases.  The JSON,  *)
(* the jar and the asset index are fetched inside the job; libraries and      *)
(* assets are fetched by tasks spawned apart from it, a few at a time, which  *)
(* go on when the job is cancelled.  All of them end in atomic_write: write   *)
(* the temporary name, rename it.  The temporary name is made from the final  *)
(* one, so two writers of one file share it, and so do a writer of a version's *)
(* JSON and one of its jar.                                                   *)
(*                                                                            *)
(* A writer holds the file it opened, not its name: when another writer's     *)
(* rename moves that file, the bytes still to come go to where it is now.     *)
(* What a file holds is told by whose bytes they are: "json" is the whole     *)
(* JSON of the version it is named after, wherever it stands.                 *)
EXTENDS VersionMeta

CONSTANTS
  Jobs,          \* installs, each run at most once
  Launches,      \* launches, each run at most once
  Meta,          \* version id -> its JSON; what the servers publish
  Manifest,      \* the ids in Mojang's version manifest
  Assets,        \* index id -> the hashes of its objects, in order
  Loader,        \* the id of a loader's version, whose JSON a loader install
                 \* of an earlier release left on disk in the old flat shape
  Together,      \* sets of installs and launches that are asked for in one run
  LibCap,        \* permits for libraries (LIB_CONCURRENCY)
  AssetCap,      \* permits for assets (ASSET_CONCURRENCY)
  MaxMishaps     \* bound: failed requests, bad hashes, cancels and crashes

ASSUME Inputs ==
  /\ Manifest \subseteq DOMAIN Meta
  /\ Loader \in DOMAIN Meta \ Manifest
  /\ \A v \in Manifest : Meta[v].inherits = None
  /\ Jobs \cap Launches = {}
  /\ LibCap \in Nat \ {0} /\ AssetCap \in Nat \ {0} /\ MaxMishaps \in Nat

VARIABLES
  disk,      \* final name -> what it holds
  tmp,       \* temporary name -> what it holds
  job,       \* install -> [at, version]
  natives,   \* install -> what is in its instance's natives directory
  dl,        \* download -> how far it is
  fd,        \* download -> where the file it is writing is now, or None
  shorn,     \* downloads whose file another one has truncated under them
  launch,    \* launch -> [at, version]
  cut,       \* final names whose file was being written when the program died
  crossed,   \* temporary names a JSON and a jar were being written to at once
  mishaps    \* how many went wrong so far

vars == <<disk, tmp, job, natives, dl, fd, shorn, launch, cut, crossed, mishaps>>
----------------------------------------------------------------------------
(* Files *)

File(kind, name) == [kind |-> kind, name |-> name]

\* with_extension("tmp") makes one name of a version's JSON and its jar.
Tmp(f) == [of |-> IF f.kind \in {"json", "jar"} THEN "version" ELSE f.kind, name |-> f.name]

\* Where an open file is that no name leads to any more.
Nowhere == File("none", None)

Phases == {"json", "jar", "libs", "index", "assets", "natives", "virtual"}

Resolved == [v \in DOMAIN Meta |-> Resolve(v, Meta)]

Good(v) == Resolved[v].ok /\ Resolved[v].version.downloads = "client"

\* The files each phase of installing a version fetches, a repeated one twice.
FilesOf ==
  LET All(kind, names) == [i \in DOMAIN names |-> File(kind, names[i])]
      Wanted(v, version) ==
        [json |-> <<File("json", v)>>, jar |-> <<File("jar", v)>>,
         libs |-> All("lib", LibraryFiles(version)),
         index |-> <<File("index", version.assets)>>,
         assets |-> All("asset", Assets[version.assets]),
         natives |-> <<>>, virtual |-> <<>>]
      Nothing(v) == [phase \in Phases |-> IF phase = "json" THEN <<File("json", v)>> ELSE <<>>]
  IN  [v \in Manifest |-> IF Good(v) THEN Wanted(v, Resolved[v].version) ELSE Nothing(v)]

DownloadsOf(j, v, phase) ==
  {[by |-> j, phase |-> phase, n |-> n, file |-> FilesOf[v][phase][n]] :
     n \in DOMAIN FilesOf[v][phase]}

Migration(l) == [by |-> l, phase |-> "json", n |-> 1, file |-> File("json", Loader)]

Downloads ==
  {Migration(l) : l \in Launches} \cup
  UNION {DownloadsOf(j, v, phase) : j \in Jobs, v \in Manifest, phase \in Phases}

AllFiles == {d.file : d \in Downloads} \cup {File("json", v) : v \in DOMAIN Meta}

\* Spawned tasks live on without the job; the others are part of it.
Detached(d) == d.phase \in {"libs", "assets"}

TmpNames == {Tmp(f) : f \in AllFiles}

ASSUME NoneIsNoFile == None \notin AllFiles \cup TmpNames

\* What a file can hold: nothing, bytes that are no whole file ("empty" when
\* nobody else's are among them, "mixed" when they are), the whole bytes of the
\* file of that kind and name, or the JSON an earlier release left.
Kinds == {"json", "jar", "lib", "index", "asset"}
Contents == {"none", "empty", "mixed"} \cup Kinds

Whole(f) == disk[f] = f.kind

Live == {"asked", "again", "open", "write", "stray", "rename"}
Ended == {"ok", "failed", "lost"}
----------------------------------------------------------------------------
(* One download *)

Mine(j) == {d \in Downloads : d.by = j /\ d.phase = job[j].at /\ dl[d] # "idle"}

Mishap == mishaps < MaxMishaps /\ mishaps' = mishaps + 1

Goes(d, from, to) == dl[d] = from /\ dl' = [dl EXCEPT ![d] = to]

\* A spawned task waits for a permit of its phase's semaphore and keeps it to
\* its end; what is fetched inside the job needs none.
PermitKept(d) ==
  Detached(d) =>
    Cardinality({e \in Downloads : e.by = d.by /\ e.phase = d.phase
                                   /\ dl[e] \in (Live \cup Ended) \ {"asked"}})
      < IF d.phase = "libs" THEN LibCap ELSE AssetCap

Permit(d) ==
  Detached(d) =>
    Cardinality({e \in Downloads : e.by = d.by /\ e.phase = d.phase
                                   /\ dl[e] \in Live \ {"asked"}})
      < IF d.phase = "libs" THEN LibCap ELSE AssetCap

Tries(d) == IF d.phase \in {"json", "index"} THEN 1 ELSE 2

\* The file is fetched unless it is there with the right SHA1.
\* download_verified tries a second time after an error or a wrong SHA1; the
\* JSONs and the index (get_bytes_verified) are tried once.
Fetch(d) ==
  /\ \/ /\ Goes(d, "asked", IF Whole(d.file) THEN "ok" ELSE "open")
        /\ Permit(d)
        /\ UNCHANGED mishaps
     \/ /\ Goes(d, "asked", IF Tries(d) = 1 THEN "failed" ELSE "again")
        /\ Permit(d) /\ ~Whole(d.file)
        /\ Mishap
     \/ Goes(d, "again", "open") /\ UNCHANGED mishaps
     \/ Goes(d, "again", "failed") /\ Mishap
  /\ UNCHANGED <<disk, tmp, job, natives, fd, shorn, launch, cut, crossed>>

\* Those that are writing the temporary name t or are going to rename it.
On(t) == {d \in Downloads : fd[d] = t \/ (dl[d] \in {"write", "rename"} /\ Tmp(d.file) = t)}

\* atomic_write, first half: fs::write opens the temporary name, truncating
\* what is there, also what another writer of it has not finished,
Open(d) ==
  LET t == Tmp(d.file)
  IN  /\ Goes(d, "open", "write")
      /\ tmp'     = [tmp EXCEPT ![t] = "empty"]
      /\ fd'      = [fd EXCEPT ![d] = t]
      /\ shorn'   = {e \in Downloads \ {d} : e \in shorn \/ fd[e] = t}
      /\ crossed' = crossed \cup {u \in {t} : \E e \in On(t) : e.file # d.file}
      /\ UNCHANGED <<disk, job, natives, launch, cut, mishaps>>

\* and writes what it opened, wherever that is by now.  A job dropped in the
\* middle leaves this write to finish and goes no further.
WriteLater(d) ==
  /\ Goes(d, "write", "rename") \/ Goes(d, "stray", "idle")
  /\ fd' = [fd EXCEPT ![d] = None]
  /\ UNCHANGED <<disk, tmp, job, natives, shorn, launch, cut, crossed, mishaps>>

\* What the file d holds open has in it when d has written its last byte, where
\* it held c before.  All of d's bytes, when they came after the others' and
\* cover them; what was there, when d was truncated after its last byte; a
\* mixture, when the file is another's as well.
Written(d, c) ==
  LET others  == {e \in Downloads \ {d} : fd[e] = fd[d] /\ e.file.kind # d.file.kind}
      foreign == c \notin {"empty", d.file.kind} \/ others # {}
  IN  {d.file.kind} \cup {x \in {c} : d \in shorn} \cup {x \in {"mixed"} : foreign}

WriteBytes(d) ==
  /\ Goes(d, "write", "rename") \/ Goes(d, "stray", "idle")
  /\ \/ fd[d] \in TmpNames /\ UNCHANGED disk
        /\ \E c \in Written(d, tmp[fd[d]]) : tmp' = [tmp EXCEPT ![fd[d]] = c]
     \/ fd[d] \in AllFiles /\ UNCHANGED tmp
        /\ \E c \in Written(d, disk[fd[d]]) : disk' = [disk EXCEPT ![fd[d]] = c]
     \/ fd[d] = Nowhere /\ UNCHANGED <<disk, tmp>>
  /\ fd'    = [fd EXCEPT ![d] = None]
  /\ shorn' = shorn \ {d}
  /\ UNCHANGED <<job, natives, launch, cut, crossed, mishaps>>

\* atomic_write, second half: the rename finds the temporary name gone when
\* another writer of it was faster.
Rename(d) ==
  LET t == Tmp(d.file)
  IN  /\ \/ /\ tmp[t] = "none"
            /\ Goes(d, "rename", "lost") /\ UNCHANGED <<disk, tmp, fd>>
         \/ /\ tmp[t] # "none"
            /\ Goes(d, "rename", "ok")
            /\ disk' = [disk EXCEPT ![d.file] = tmp[t]]
            /\ tmp'  = [tmp EXCEPT ![t] = "none"]
            /\ fd'   = [e \in Downloads |-> IF fd[e] = t THEN d.file
                                            ELSE IF fd[e] = d.file THEN Nowhere
                                            ELSE fd[e]]
      /\ UNCHANGED <<job, natives, shorn, launch, cut, crossed, mishaps>>

Going == {d \in Downloads : dl[d] \in Live}

DownloadStep(d) ==
  Fetch(d) \/ Open(d) \/ WriteBytes(d) \/ Rename(d)
----------------------------------------------------------------------------
(* The install *)

NextPhase ==
  [json |-> "jar", jar |-> "libs", libs |-> "index", index |-> "assets", assets |-> "natives"]

StartAll(ds) ==
  [d \in Downloads |-> IF d \in ds THEN "asked" ELSE dl[d]]

Start(j, v) ==
  /\ job[j].at = "idle"
  /\ job' = [job EXCEPT ![j] = [at |-> "json", version |-> v]]
  /\ dl'  = StartAll(DownloadsOf(j, v, "json"))
  /\ UNCHANGED <<disk, tmp, natives, fd, shorn, launch, cut, crossed, mishaps>>

\* try_join_all waits for every task; the first error is the answer.
Over(j) == \A d \in Mine(j) : dl[d] \in Ended
SucceededAnyway(j) == TRUE
Succeeded(j) == \A d \in Mine(j) : dl[d] = "ok"

MoveTo(j, at) == job' = [job EXCEPT ![j].at = at]

PhaseFailed(j) ==
  /\ job[j].at \in {"json", "jar", "libs", "index", "assets"}
  /\ Over(j) /\ ~Succeeded(j)
  /\ MoveTo(j, "failed")
  /\ UNCHANGED <<disk, tmp, natives, dl, fd, shorn, launch, cut, crossed, mishaps>>

\* A JSON that does not resolve, or names no client, ends the install there.
Unusable(j) ==
  /\ job[j].at = "json" /\ Over(j) /\ Succeeded(j)
  /\ ~Good(job[j].version)
  /\ MoveTo(j, "failed")
  /\ UNCHANGED <<disk, tmp, natives, dl, fd, shorn, launch, cut, crossed, mishaps>>

PhaseDone(j) ==
  LET v    == job[j].version
      next == NextPhase[job[j].at]
  IN  /\ job[j].at \in {"json", "jar", "libs", "index", "assets"}
      /\ Over(j) /\ Succeeded(j)
      /\ Good(v)
      /\ MoveTo(j, next)
      /\ dl' = StartAll(DownloadsOf(j, v, next))
      /\ UNCHANGED <<disk, tmp, natives, fd, shorn, launch, cut, crossed, mishaps>>

\* An object whose hash is no hash is refused while the tasks are being
\* spawned: the ones before it run on.
BadHash(j) ==
  /\ job[j].at = "index" /\ Over(j) /\ Succeeded(j)
  /\ MoveTo(j, "failed")
  /\ \E k \in 0..(Len(FilesOf[job[j].version]["assets"]) - 1) :
       dl' = StartAll({d \in DownloadsOf(j, job[j].version, "assets") : d.n <= k})
  /\ Mishap
  /\ UNCHANGED <<disk, tmp, natives, fd, shorn, launch, cut, crossed>>

NativeFiles(v) ==
  {File("lib", NativeArtifact(l)) :
     l \in {m \in ToSet(SelectedLibraries(Resolved[v].version)) : NativeArtifact(m) # None}}

\* The natives are unpacked file by file into the instance's directory, from
\* jars that must open as archives.
ExtractBegins(j) ==
  /\ job[j].at = "natives" /\ natives[j] = "none"
  /\ \A f \in NativeFiles(job[j].version) : Whole(f)
  /\ natives' = [natives EXCEPT ![j] = "partial"]
  /\ UNCHANGED <<disk, tmp, job, dl, fd, shorn, launch, cut, crossed, mishaps>>

ExtractFails(j) ==
  /\ job[j].at = "natives" /\ natives[j] = "none"
  /\ \E f \in NativeFiles(job[j].version) : ~Whole(f)
  /\ MoveTo(j, "failed")
  /\ UNCHANGED <<disk, tmp, natives, dl, fd, shorn, launch, cut, crossed, mishaps>>

\* The blocking task finishes whether or not the job still waits for it.
ExtractEnds(j) ==
  /\ natives[j] = "partial"
  /\ natives' = [natives EXCEPT ![j] = "whole"]
  /\ job' = IF job[j].at = "natives" THEN [job EXCEPT ![j].at = "virtual"] ELSE job
  /\ UNCHANGED <<disk, tmp, dl, fd, shorn, launch, cut, crossed, mishaps>>

\* Old indexes have their objects copied under readable names; then it is done.
CopyVirtual(j) ==
  /\ job[j].at = "virtual"
  /\ MoveTo(j, IF \A n \in DOMAIN FilesOf[job[j].version]["assets"] :
                    disk[FilesOf[job[j].version]["assets"][n]] # "none"
               THEN "done" ELSE "failed")
  /\ UNCHANGED <<disk, tmp, natives, dl, fd, shorn, launch, cut, crossed, mishaps>>

JobStep(j) ==
  \/ PhaseFailed(j) \/ Unusable(j) \/ PhaseDone(j)
  \/ ExtractBegins(j) \/ ExtractFails(j) \/ ExtractEnds(j) \/ CopyVirtual(j)

\* The task manager drops a cancelled job: the download inside it stops (a
\* write already handed to the blocking pool finishes), spawned ones go on.
Cancel(j) ==
  /\ job[j].at \in Phases
  /\ Mishap
  /\ MoveTo(j, "cancelled")
  /\ dl' = [d \in Downloads |->
              IF d.by = j /\ ~Detached(d) /\ dl[d] \in Live
              THEN IF dl[d] = "write" THEN "stray" ELSE "idle"
              ELSE dl[d]]
  /\ UNCHANGED <<disk, tmp, natives, fd, shorn, launch, cut, crossed>>
----------------------------------------------------------------------------
(* The launch *)

\* The instance names a loader's version or a plain one.
StartLaunch(l, v) ==
  /\ launch[l].at = "idle"
  /\ launch' = [launch EXCEPT ![l] = [at |-> "migrate", version |-> v]]
  /\ UNCHANGED <<disk, tmp, job, natives, dl, fd, shorn, cut, crossed, mishaps>>

Answer(l, at) == launch' = [launch EXCEPT ![l].at = at]

\* migrate_loader_json_in_place_if_needed: a flat JSON is fetched again and
\* written over; an absent one is left to the read that follows; one that does
\* not parse ends the launch.
Migrate(l) ==
  LET f == File("json", launch[l].version)
      d == Migration(l)
  IN  /\ launch[l].at = "migrate"
      /\ \/ /\ dl[d] = "idle"
            /\ \/ /\ disk[f] = "none" \/ Whole(f)
                  /\ Answer(l, "read") /\ UNCHANGED dl
               \/ /\ disk[f] # "none" /\ disk[f] # "flat" /\ ~Whole(f)
                  /\ Answer(l, "failed") /\ UNCHANGED dl
               \/ /\ disk[f] = "flat"
                  /\ dl' = [dl EXCEPT ![d] = "asked"] /\ UNCHANGED launch
         \/ /\ dl[d] = "ok" /\ Answer(l, "read") /\ UNCHANGED dl
         \/ /\ dl[d] \in {"failed", "lost"} /\ Answer(l, "failed") /\ UNCHANGED dl
      /\ UNCHANGED <<disk, tmp, job, natives, fd, shorn, cut, crossed, mishaps>>

\* Every JSON of the chain must be on disk and parse.
OnDisk == {v \in DOMAIN Meta : Whole(File("json", v))}

FromDisk(v) == Resolve(v, [w \in OnDisk \cup {v} |-> Meta[w]])

\* The class path of a launch, without what the loader's install has fetched.
ClassPathFiles(r) ==
  LET cp == ClassPath(r.version, None)
      loaders == {l.artifact : l \in ToSet(Meta[Loader].libs)}
  IN  {File("lib", cp[i]) : i \in {n \in 1..(Len(cp) - 1) : cp[n] \notin loaders}}
        \cup {File("jar", r.root)}

Writing(f) == \E d \in Downloads : dl[d] \in {"write", "stray"} /\ fd[d] = f

Composes(l) == launch[l].version \in OnDisk /\ FromDisk(launch[l].version).ok

Spawn(l) ==
  /\ launch[l].at = "read"
  /\ Answer(l, IF Composes(l) THEN "spawned" ELSE "failed")
  /\ UNCHANGED <<disk, tmp, job, natives, dl, fd, shorn, cut, crossed, mishaps>>
----------------------------------------------------------------------------
\* The program dies and is started again: jobs, tasks and launches are gone,
\* the files stay as they are.
Crash ==
  /\ Mishap
  /\ job' = [j \in Jobs |-> IF job[j].at \in Phases
                          THEN [job[j] EXCEPT !.at = "cancelled"] ELSE job[j]]
  /\ cut' = cut \cup {f \in AllFiles : Writing(f)}
  /\ dl'  = [d \in Downloads |-> IF dl[d] \in Live THEN "idle" ELSE dl[d]]
  /\ launch' = [l \in Launches |-> IF launch[l].at \in {"migrate", "read"}
                                   THEN [launch[l] EXCEPT !.at = "failed"] ELSE launch[l]]
  /\ natives' = [j \in Jobs |-> IF natives[j] = "partial" THEN "torn" ELSE natives[j]]
  /\ fd' = [d \in Downloads |-> None]
  /\ shorn' = {}
  /\ UNCHANGED <<disk, tmp, crossed>>

Asked(who, x) == [at |-> IF x \in who THEN "idle" ELSE "never", version |-> None]

Init ==
  /\ disk    = [f \in AllFiles |-> IF f = File("json", Loader) THEN "flat" ELSE "none"]
  /\ tmp     = [t \in TmpNames |-> "none"]
  /\ \E who \in Together : /\ job    = [j \in Jobs |-> Asked(who, j)]
                           /\ launch = [l \in Launches |-> Asked(who, l)]
  /\ natives = [j \in Jobs |-> "none"]
  /\ dl      = [d \in Downloads |-> "idle"]
  /\ fd      = [d \in Downloads |-> None]
  /\ shorn   = {}
  /\ cut     = {}
  /\ crossed = {}
  /\ mishaps = 0

Next ==
  \/ \E d \in Going : DownloadStep(d)
  \/ \E j \in Jobs : \/ \E v \in Manifest : Start(j, v)
                     \/ JobStep(j) \/ BadHash(j) \/ Cancel(j)
  \/ \E l \in Launches : \/ \E v \in Manifest \cup {Loader} : StartLaunch(l, v)
                         \/ Migrate(l) \/ Spawn(l)
  \/ Crash

Progress ==
  \/ \E d \in Going : DownloadStep(d)
  \/ \E j \in Jobs : JobStep(j)
  \/ \E l \in Launches : Migrate(l) \/ Spawn(l)

\* The runtime is never idle while a task or a job can go on; which one goes
\* first is anybody's guess, and nobody has to ask for an install.
Fairness == WF_vars(Progress)

Spec == Init /\ [][Next]_vars /\ Fairness
----------------------------------------------------------------------------
(* Properties *)

\* Every variable holds what its comment says.
TypeOK ==
  /\ disk \in [AllFiles -> Contents \cup {"flat"}]
  /\ tmp \in [TmpNames -> Contents]
  /\ job \in [Jobs -> [at : Phases \cup {"never", "idle", "done", "failed", "cancelled"},
                       version : Manifest \cup {None}]]
  /\ natives \in [Jobs -> {"none", "partial", "torn", "whole"}]
  /\ dl \in [Downloads -> Live \cup Ended \cup {"idle"}]
  /\ fd \in [Downloads -> AllFiles \cup TmpNames \cup {None, Nowhere}]
  /\ launch \in [Launches -> [at : {"never", "idle", "migrate", "read", "spawned", "failed"},
                             version : Manifest \cup {Loader, None}]]
  /\ shorn \subseteq Downloads
  /\ cut \subseteq AllFiles
  /\ crossed \subseteq TmpNames
  /\ mishaps \in 0..MaxMishaps

\* atomic_write's promise, as far as it goes: what stands under a final name
\* is the whole of that file and no other's.  It is torn only while a second
\* writer of the temporary name is in the middle of its write, or died there;
\* and a version's JSON and jar, which have one temporary name, hold each
\* other's bytes only when the two were being written at once.
TornOnlyByWriters ==
  \A f \in AllFiles :
    \/ disk[f] \in {"none", "flat"} \/ Whole(f)
    \/ Writing(f) \/ f \in cut \/ Tmp(f) \in crossed

\* A version whose install ended well has all its files: the downloads were
\* waited for, and nothing a second install, a cancelled one or a crash does
\* afterwards takes one away; the natives are unpacked.
InstalledHasItsFiles ==
  \A j \in Jobs : job[j].at = "done" =>
    /\ natives[j] = "whole"
    /\ \A phase \in Phases : \A f \in ToSet(FilesOf[job[j].version][phase]) :
         disk[f] # "none"

\* A launch that starts a game, plain or under a loader, whose version has
\* been installed finds every jar of its class path: what the launch composes
\* from the merged JSONs on disk is what the install selected and fetched.
LaunchFindsFiles ==
  [][\A l \in Launches : \A j \in Jobs :
       LET r == FromDisk(launch[l].version)
       IN  /\ launch[l].at = "read" /\ launch'[l].at = "spawned"
           /\ job[j].at = "done"
           /\ job[j].version \in {launch[l].version, Meta[launch[l].version].inherits}
           => \A f \in ClassPathFiles(r) : f \in AllFiles /\
                (Whole(f) \/ (disk[f] # "none" /\ (\/ Writing(f) \/ f \in cut
                                                  \/ Tmp(f) \in crossed)))]_vars

\* What launch_instance says of itself: VersionNotInstalled when the client's
\* jar is absent, before anything is spawned.
JarBeforeSpawn ==
  [][\A l \in Launches :
       launch[l].at = "read" /\ launch'[l].at = "spawned"
       => disk[File("jar", FromDisk(launch[l].version).root)] # "none"]_vars

\* Whatever fails, is cancelled or dies, everything that was started ends: no
\* install waits for a download that waits for a permit nobody gives back.
EverythingEnds ==
  <>[](/\ \A d \in Downloads : dl[d] \notin Live
       /\ \A j \in Jobs : job[j].at \notin Phases)
=============================================================================
