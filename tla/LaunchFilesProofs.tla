-------------------------- MODULE LaunchFilesProofs --------------------------
(***************************************************************************)
(* Proofs for every value of the constants.  About VersionInstall: the     *)
(* types, that a file is another's or torn only where two writers of its   *)
(* temporary name met, and that an install that ended well has its files   *)
(* for good.  About JavaInstall: the types, that a runtime under its name  *)
(* is complete unless two writers of it met in its temporary directory,    *)
(* and that games are started with the Java they need.                     *)
(***************************************************************************)
EXTENDS VersionInstall, JavaInstall, TLAPS

(* VersionInstall. *)

\* The phases an install that is at some stage has yet to come to, and those it has
\* behind it.
Pending(at) ==
  IF at \in {"never", "idle"} THEN Phases
  ELSE IF at = "json" THEN Phases \ {"json"}
  ELSE IF at = "jar" THEN Phases \ {"json", "jar"}
  ELSE IF at = "libs" THEN {"index", "assets", "natives", "virtual"}
  ELSE IF at = "index" THEN {"assets", "natives", "virtual"}
  ELSE IF at = "assets" THEN {"natives", "virtual"}
  ELSE IF at = "natives" THEN {"virtual"} ELSE {}
Passed(at) == Phases \ (Pending(at) \cup {at})

\* An install that has been asked for has its version.
Versioned == \A j \in Jobs : job[j].at \notin {"never", "idle"} => job[j].version \in Manifest
\* Only what was dropped in the middle of a write goes on without its install.
Strays ==
  \A d \in Downloads : dl[d] = "stray" => d.by \in Jobs /\ job[d.by].at = "cancelled"
\* Downloads start with their phase, all of them, and none is forgotten.
NotYet ==
  \A d \in Downloads : d.by \in Jobs /\ dl[d] # "idle" => d.phase \notin Pending(job[d.by].at)
Awaited ==
  \A j \in Jobs : job[j].at \in Phases =>
    \A d \in DownloadsOf(j, job[j].version, job[j].at) : dl[d] # "idle"
NativesDone == \A j \in Jobs : job[j].at \in {"virtual", "done"} => natives[j] = "whole"

JobsInv == Versioned /\ Strays /\ NotYet /\ Awaited /\ NativesDone

\* What has been fetched is there, and so is what the phases behind an install fetched.
There(f) == disk[f] # "none"
EndedWell == \A d \in Downloads : dl[d] = "ok" => There(d.file)
Present ==
  \A j \in Jobs : job[j].at \in Phases \cup {"done"} =>
    \A p \in Passed(job[j].at) : \A d \in DownloadsOf(j, job[j].version, p) : There(d.file)

\* Who holds a file open is writing it: under its temporary name, under its final
\* one, or, where a JSON and a jar were written at once, under the other's.
Opened ==
  \A d \in Downloads :
    /\ fd[d] \in TmpNames \cup AllFiles => dl[d] \in {"write", "stray"}
    /\ fd[d] \in TmpNames => fd[d] = Tmp(d.file) /\ tmp[fd[d]] # "none"
    /\ fd[d] \in AllFiles => /\ Tmp(fd[d]) = Tmp(d.file)
                             /\ Tmp(d.file) \in crossed \/
                                  (fd[d] = d.file /\ disk[fd[d]] \in {"empty", d.file.kind})
\* Those that may still put bytes into a temporary file, or rename it, are writers
\* of one file.
Involved(d) == dl[d] \in {"write", "rename"} \/ (dl[d] = "stray" /\ fd[d] = Tmp(d.file))
OneFile ==
  \A d, e \in Downloads :
    Involved(d) /\ Involved(e) /\ Tmp(d.file) = Tmp(e.file) =>
      d.file = e.file \/ Tmp(d.file) \in crossed
\* An incomplete file has a writer that nobody has truncated; it goes on writing it
\* wherever it is moved, and completes it.
Completes(d, n) == dl[d] \in {"write", "stray"} /\ d \notin shorn /\ fd[d] = n
TmpHolds ==
  \A d \in Downloads : Involved(d) /\ Tmp(d.file) \notin crossed =>
    /\ tmp[Tmp(d.file)] \in {"none", "empty", d.file.kind}
    /\ tmp[Tmp(d.file)] = "empty" => \E w \in Downloads : Completes(w, Tmp(d.file))
DiskHolds ==
  \A f \in AllFiles : Tmp(f) \notin crossed =>
    /\ disk[f] \in {"none", "flat", "empty", f.kind}
    /\ disk[f] = "empty" => f \in cut \/ \E w \in Downloads : Completes(w, f)

WritersInv == Opened /\ OneFile /\ TmpHolds /\ DiskHolds

DiskInv == EndedWell /\ Present /\ WritersInv

VersionInv == TypeOK /\ JobsInv /\ DiskInv

-----------------------------------------------------------------------------
(* Names. *)

JobRecord == [at : Phases \cup {"never", "idle", "done", "failed", "cancelled"},
              version : Manifest \cup {None}]
LaunchRecord == [at : {"never", "idle", "migrate", "read", "spawned", "failed"},
                 version : Manifest \cup {Loader, None}]

LEMMA OfItsJob ==
  \A j \in Jobs, v \in Manifest, p \in Phases :
    /\ DownloadsOf(j, v, p) \subseteq Downloads
    /\ \A d \in DownloadsOf(j, v, p) : d.by = j /\ d.phase = p
<1>1. ASSUME NEW j \in Jobs, NEW v \in Manifest, NEW p \in Phases
      PROVE DownloadsOf(j, v, p) \subseteq Downloads
  BY DEF Downloads
<1>2. ASSUME NEW j, NEW v, NEW p, NEW d \in DownloadsOf(j, v, p) PROVE d.by = j /\ d.phase = p
  BY DEF DownloadsOf
<1> QED BY <1>1, <1>2

\* The files a phase of an install fetches are named as files are.
LEMMA FilesAreFiles ==
  ASSUME NEW v \in Manifest, NEW p \in Phases
  PROVE  \A n \in DOMAIN FilesOf[v][p] :
           \E kind \in Kinds : \E name : FilesOf[v][p][n] = File(kind, name)
<1> DEFINE All(kind, names) == [i \in DOMAIN names |-> File(kind, names[i])]
           Wanted(version) ==
             [json |-> <<File("json", v)>>, jar |-> <<File("jar", v)>>,
              libs |-> All("lib", LibraryFiles(version)),
              index |-> <<File("index", version.assets)>>,
              assets |-> All("asset", Assets[version.assets]),
              natives |-> <<>>, virtual |-> <<>>]
           Refused == [phase \in Phases |-> IF phase = "json" THEN <<File("json", v)>> ELSE <<>>]
<1>1. FilesOf[v] = IF Good(v) THEN Wanted(Resolved[v].version) ELSE Refused
  BY DEF FilesOf
<1>2. \A kind, names : \A i \in DOMAIN All(kind, names) : All(kind, names)[i] = File(kind, names[i])
  OBVIOUS
<1>3. \A f : \A i \in DOMAIN <<f>> : <<f>>[i] = f
  OBVIOUS
<1>4. \A i \in DOMAIN <<>> : FALSE
  OBVIOUS
<1> HIDE DEF All
<1>5. \A version : \A i \in DOMAIN Wanted(version)[p] :
        \E kind \in Kinds : \E name : Wanted(version)[p][i] = File(kind, name)
  <2> USE DEF Kinds
  <2> SUFFICES ASSUME NEW version, NEW i \in DOMAIN Wanted(version)[p]
               PROVE \E kind \in Kinds : \E name : Wanted(version)[p][i] = File(kind, name)
    OBVIOUS
  <2>1. CASE p = "json"
    BY <1>3, <2>1
  <2>2. CASE p = "jar"
    BY <1>3, <2>2
  <2>3. CASE p = "libs"
    BY <1>2, <2>3
  <2>4. CASE p = "index"
    BY <1>3, <2>4
  <2>5. CASE p = "assets"
    BY <1>2, <2>5
  <2>6. CASE p \in {"natives", "virtual"}
    BY <1>4, <2>6
  <2> QED BY <2>1, <2>2, <2>3, <2>4, <2>5, <2>6 DEF Phases
<1>6. \A i \in DOMAIN Refused[p] : \E kind \in Kinds : \E name : Refused[p][i] = File(kind, name)
  BY <1>3, <1>4 DEF Kinds
<1> HIDE DEF Wanted, Refused
<1>7. CASE Good(v)
  BY <1>1, <1>5, <1>7
<1>8. CASE ~Good(v)
  BY <1>1, <1>6, <1>8
<1> QED BY <1>7, <1>8

LEMMA NothingLast ==
  \A j \in Jobs, v \in Manifest, p \in {"natives", "virtual"} :
    FilesOf[v][p] = <<>> /\ DownloadsOf(j, v, p) = {}
<1>1. \A v \in Manifest, p \in {"natives", "virtual"} : FilesOf[v][p] = <<>>
  BY DEF FilesOf, Phases
<1> QED BY <1>1 DEF DownloadsOf

\* A file and a temporary name are never the same.
LEMMA NamesDiffer ==
  /\ \A f \in AllFiles : f.kind \in Kinds /\ \A t \in TmpNames : f # t
  /\ \A d \in Downloads : d.file \in AllFiles /\ Tmp(d.file) \in TmpNames
  /\ Nowhere \notin TmpNames \cup AllFiles
<1>0. \A kind, name : File(kind, name).kind = kind
  BY DEF File
<1>1. \A d \in Downloads : \E kind \in Kinds : \E name : d.file = File(kind, name)
  <2>1. \A l \in Launches : Migration(l).file = File("json", Loader)
    BY DEF Migration
  <2>2. ASSUME NEW j \in Jobs, NEW v \in Manifest, NEW p \in Phases, NEW d \in DownloadsOf(j, v, p)
        PROVE \E kind \in Kinds : \E name : d.file = File(kind, name)
    BY FilesAreFiles DEF DownloadsOf
  <2> QED BY <2>1, <2>2 DEF Downloads, Kinds
<1>2. \A f \in AllFiles : \E kind \in Kinds : \E name : f = File(kind, name)
  BY <1>1 DEF AllFiles, Kinds
<1>3. \A kind, name, f : File(kind, name) # Tmp(f)
  <2>1. \A kind, name : "kind" \in DOMAIN File(kind, name)
    BY DEF File
  <2>2. \A f : "kind" \notin DOMAIN Tmp(f)
    BY DEF Tmp
  <2> QED BY <2>1, <2>2
<1>4. \A f \in AllFiles : f.kind \in Kinds
  BY <1>0, <1>2
<1>5. "none" \notin Kinds /\ Nowhere.kind = "none"
  BY <1>0 DEF Kinds, Nowhere
<1> QED BY <1>2, <1>3, <1>4, <1>5 DEF AllFiles, TmpNames, Nowhere

-----------------------------------------------------------------------------
(* The steps of a download. *)

DownloadType == Live \cup Ended \cup {"idle"}

\* What every step of a download leaves as it is.
LEMMA DownloadShape ==
  ASSUME TypeOK, NEW d \in Downloads, DownloadStep(d)
  PROVE  /\ UNCHANGED <<job, natives, launch, cut>>
         /\ \E to \in DownloadType :
              /\ dl' = [dl EXCEPT ![d] = to] /\ dl[d] # "idle" /\ to # "stray"
              /\ to = "idle" => dl[d] = "stray"
         /\ mishaps' \in 0..MaxMishaps
<1> USE DEF Goes, DownloadType, Live, Ended
<1>0. mishaps \in 0..MaxMishaps /\ (Mishap => mishaps' \in 0..MaxMishaps)
  BY Inputs DEF TypeOK, Mishap
<1>1. CASE Fetch(d)
  <2>1. \E to \in DownloadType : dl' = [dl EXCEPT ![d] = to] /\ dl[d] # "idle" /\ to \notin {"stray", "idle"}
    <3>1. CASE Goes(d, "asked", IF Whole(d.file) THEN "ok" ELSE "open")
      <4>1. dl' = [dl EXCEPT ![d] = "ok"] \/ dl' = [dl EXCEPT ![d] = "open"]
        BY <3>1
      <4> QED BY <3>1, <4>1
    <3>2. CASE Goes(d, "asked", IF Tries(d) = 1 THEN "failed" ELSE "again")
      <4>1. dl' = [dl EXCEPT ![d] = "failed"] \/ dl' = [dl EXCEPT ![d] = "again"]
        BY <3>2
      <4> QED BY <3>2, <4>1
    <3>3. CASE Goes(d, "again", "open") \/ Goes(d, "again", "failed")
      BY <3>3
    <3> QED BY <1>1, <3>1, <3>2, <3>3 DEF Fetch
  <2> QED BY <1>0, <1>1, <2>1 DEF Fetch
<1>2. CASE Open(d)
  BY <1>0, <1>2 DEF Open
<1>3. CASE WriteBytes(d)
  BY <1>0, <1>3 DEF WriteBytes
<1>4. CASE Rename(d)
  BY <1>0, <1>4 DEF Rename
<1> QED BY <1>1, <1>2, <1>3, <1>4 DEF DownloadStep

LEMMA DownloadTyped ==
  ASSUME TypeOK, NEW d \in Downloads, DownloadStep(d)
  PROVE  TypeOK'
<1>1. dl' \in [Downloads -> DownloadType]
  BY DownloadShape DEF TypeOK, DownloadType
<1>2. d.file \in AllFiles /\ Tmp(d.file) \in TmpNames
  BY NamesDiffer
<1>3. d.file.kind \in Contents
  BY <1>2, NamesDiffer DEF Contents
<1>4. /\ disk' \in [AllFiles -> Contents \cup {"flat"}]
      /\ tmp' \in [TmpNames -> Contents]
      /\ fd' \in [Downloads -> AllFiles \cup TmpNames \cup {None, Nowhere}]
      /\ shorn' \subseteq Downloads /\ crossed' \subseteq TmpNames
  <2>0. "none" \in Contents /\ "empty" \in Contents /\ "mixed" \in Contents
    BY DEF Contents
  <2>1. CASE Fetch(d)
    BY <2>1 DEF Fetch, TypeOK
  <2>2. CASE Open(d)
    BY <1>2, <2>0, <2>2 DEF Open, TypeOK
  <2>3. CASE WriteBytes(d)
    <3>1. \A c : \A x \in Written(d, c) : x = c \/ x \in Contents
      BY <1>3, <2>0 DEF Written
    <3>2. tmp' \in [TmpNames -> Contents]
      <4>1. CASE UNCHANGED tmp
        BY <4>1 DEF TypeOK
      <4>2. CASE fd[d] \in TmpNames /\ \E c \in Written(d, tmp[fd[d]]) : tmp' = [tmp EXCEPT ![fd[d]] = c]
        BY <3>1, <4>2 DEF TypeOK
      <4> QED BY <2>3, <4>1, <4>2 DEF WriteBytes
    <3>3. disk' \in [AllFiles -> Contents \cup {"flat"}]
      <4>1. CASE UNCHANGED disk
        BY <4>1 DEF TypeOK
      <4>2. CASE fd[d] \in AllFiles /\ \E c \in Written(d, disk[fd[d]]) : disk' = [disk EXCEPT ![fd[d]] = c]
        BY <3>1, <4>2 DEF TypeOK
      <4> QED BY <2>3, <4>1, <4>2 DEF WriteBytes
    <3>4. /\ fd' \in [Downloads -> AllFiles \cup TmpNames \cup {None, Nowhere}]
          /\ shorn' \subseteq Downloads /\ crossed' \subseteq TmpNames
      BY <2>3 DEF WriteBytes, TypeOK
    <3> QED BY <3>2, <3>3, <3>4
  <2>4. CASE Rename(d)
    <3>1. tmp[Tmp(d.file)] \in Contents
      BY <1>2 DEF TypeOK
    <3>2. CASE UNCHANGED <<disk, tmp, fd>>
      BY <2>4, <3>2 DEF Rename, TypeOK
    <3>3. CASE /\ disk' = [disk EXCEPT ![d.file] = tmp[Tmp(d.file)]]
               /\ tmp' = [tmp EXCEPT ![Tmp(d.file)] = "none"]
               /\ fd' = [e \in Downloads |-> IF fd[e] = Tmp(d.file) THEN d.file
                                             ELSE IF fd[e] = d.file THEN Nowhere
                                             ELSE fd[e]]
      <4>1. disk' \in [AllFiles -> Contents \cup {"flat"}]
        BY <1>2, <3>1, <3>3 DEF TypeOK
      <4>2. tmp' \in [TmpNames -> Contents]
        BY <1>2, <2>0, <3>3 DEF TypeOK
      <4>3. fd' \in [Downloads -> AllFiles \cup TmpNames \cup {None, Nowhere}]
        BY <1>2, <3>3 DEF TypeOK
      <4> QED BY <2>4, <4>1, <4>2, <4>3 DEF Rename, TypeOK
    <3> QED BY <2>4, <3>2, <3>3 DEF Rename
  <2> QED BY <2>1, <2>2, <2>3, <2>4 DEF DownloadStep
<1> QED BY <1>1, <1>4, DownloadShape DEF TypeOK, DownloadType

\* The installs do not notice it.
LEMMA DownloadKeepsJobs ==
  ASSUME VersionInv, NEW d \in Downloads, DownloadStep(d)
  PROVE  JobsInv'
<1>1. PICK to \in DownloadType :
        /\ dl' = [dl EXCEPT ![d] = to] /\ dl[d] # "idle" /\ to # "stray"
        /\ to = "idle" => dl[d] = "stray"
  BY DownloadShape DEF VersionInv
<1>2. dl'[d] = to /\ \A e \in Downloads \ {d} : dl'[e] = dl[e]
  BY <1>1 DEF VersionInv, TypeOK
<1>3. UNCHANGED <<job, natives>>
  BY DownloadShape DEF VersionInv
<1>4. Versioned' /\ NativesDone'
  BY <1>3 DEF VersionInv, JobsInv, Versioned, NativesDone
<1>5. Strays'
  BY <1>1, <1>2, <1>3 DEF VersionInv, JobsInv, Strays
<1>6. NotYet'
  <2> SUFFICES ASSUME NEW e \in Downloads, e.by \in Jobs, dl'[e] # "idle"
               PROVE e.phase \notin Pending(job[e.by].at)
    BY <1>3 DEF NotYet, Pending
  <2>1. dl[e] # "idle"
    BY <1>1, <1>2
  <2> QED BY <2>1 DEF VersionInv, JobsInv, NotYet
<1>7. Awaited'
  <2> SUFFICES ASSUME NEW j \in Jobs, job[j].at \in Phases,
                      NEW e \in DownloadsOf(j, job[j].version, job[j].at)
               PROVE dl'[e] # "idle"
    BY <1>3 DEF Awaited, DownloadsOf
  <2>1. job[j].version \in Manifest
    BY DEF VersionInv, JobsInv, Versioned, Phases
  <2>2. e \in Downloads /\ e.by = j
    BY <2>1, OfItsJob
  <2>3. dl[e] # "idle" /\ dl[e] # "stray"
    BY <2>2 DEF VersionInv, JobsInv, Awaited, Strays, Phases
  <2> QED BY <1>1, <1>2, <2>2, <2>3
<1> QED BY <1>4, <1>5, <1>6, <1>7 DEF JobsInv

\* A file that is there stays.
LEMMA StaysThere ==
  ASSUME TypeOK, NEW d \in Downloads, DownloadStep(d), NEW f \in AllFiles, There(f)
  PROVE  There(f)'
<1>1. CASE Fetch(d) \/ Open(d)
  BY <1>1 DEF Fetch, Open, There
<1>2. CASE WriteBytes(d)
  <2>1. d.file.kind # "none"
    BY NamesDiffer DEF Kinds
  <2>2. \A c : \A x \in Written(d, c) : x = c \/ x # "none"
    BY <2>1 DEF Written
  <2>3. CASE UNCHANGED disk
    BY <2>3 DEF There
  <2>4. CASE fd[d] \in AllFiles /\ \E c \in Written(d, disk[fd[d]]) : disk' = [disk EXCEPT ![fd[d]] = c]
    BY <2>2, <2>4 DEF There, TypeOK
  <2> QED BY <1>2, <2>3, <2>4 DEF WriteBytes
<1>3. CASE Rename(d)
  BY <1>3 DEF Rename, There, TypeOK
<1> QED BY <1>1, <1>2, <1>3 DEF DownloadStep

LEMMA DownloadKeepsPresent ==
  ASSUME VersionInv, NEW d \in Downloads, DownloadStep(d)
  PROVE  EndedWell' /\ Present'
<1>1. TypeOK /\ d.file \in AllFiles /\ Tmp(d.file) \in TmpNames
  BY NamesDiffer DEF VersionInv
<1>2. EndedWell'
  <2> SUFFICES ASSUME NEW e \in Downloads, dl'[e] = "ok" PROVE There(e.file)'
    BY DEF EndedWell, There
  <2>1. e.file \in AllFiles
    BY NamesDiffer
  <2>2. CASE dl[e] = "ok"
    BY <1>1, <2>1, <2>2, StaysThere DEF VersionInv, DiskInv, EndedWell
  <2>3. CASE dl[e] # "ok"
    <3>1. e = d
      BY <1>1, <2>3, DownloadShape DEF TypeOK
    <3>2. CASE Fetch(d)
      <4>1. Whole(d.file) /\ disk' = disk
        BY <1>1, <2>3, <3>1, <3>2 DEF Fetch, Goes, TypeOK
      <4> QED BY <1>1, <3>1, <4>1, NamesDiffer DEF Whole, There, Kinds
    <3>3. CASE Open(d) \/ WriteBytes(d)
      BY <1>1, <2>3, <3>1, <3>3 DEF Open, WriteBytes, Goes, TypeOK
    <3>4. CASE Rename(d)
      BY <1>1, <2>3, <3>1, <3>4 DEF Rename, Goes, TypeOK, There
    <3> QED BY <3>2, <3>3, <3>4 DEF DownloadStep
  <2> QED BY <2>2, <2>3
<1>3. Present'
  <2>1. job' = job
    BY <1>1, DownloadShape
  <2> SUFFICES ASSUME NEW j \in Jobs, job[j].at \in Phases \cup {"done"}, NEW p \in Passed(job[j].at),
                      NEW e \in DownloadsOf(j, job[j].version, p)
               PROVE There(e.file)'
    BY <2>1 DEF Present, There, Passed, Pending, DownloadsOf
  <2>2. job[j].version \in Manifest /\ p \in Phases
    BY DEF VersionInv, JobsInv, Versioned, Phases, Passed
  <2>3. e.file \in AllFiles
    BY <2>2, OfItsJob, NamesDiffer
  <2>4. There(e.file)
    BY DEF VersionInv, DiskInv, Present
  <2> QED BY <1>1, <2>3, <2>4, StaysThere
<1> QED BY <1>2, <1>3

\* What opens the temporary file has truncated it and completes it, and whoever else
\* is involved writes the same file or the name is crossed.
LEMMA OpenKeepsWriters ==
  ASSUME TypeOK, WritersInv, NEW d \in Downloads, Open(d)
  PROVE  WritersInv'
<1> DEFINE t == Tmp(d.file)
<1>1. /\ d.file \in AllFiles /\ t \in TmpNames /\ t \notin AllFiles
      /\ \A e \in Downloads : e.file \in AllFiles /\ Tmp(e.file) \in TmpNames
  BY NamesDiffer
<1>2. /\ dl[d] = "open" /\ dl'[d] = "write" /\ fd'[d] = t /\ tmp'[t] = "empty"
      /\ \A e \in Downloads \ {d} : dl'[e] = dl[e] /\ fd'[e] = fd[e]
      /\ \A n \in TmpNames \ {t} : tmp'[n] = tmp[n]
      /\ UNCHANGED <<disk, cut>> /\ crossed \subseteq crossed'
  BY <1>1 DEF Open, Goes, TypeOK
<1>3. \A e \in Downloads : e \in shorn' <=> e # d /\ (e \in shorn \/ fd[e] = t)
  BY DEF Open
<1>4. \A e \in Downloads : Involved(e) /\ Tmp(e.file) = t => e.file = d.file \/ t \in crossed'
  BY DEF Open, On, Involved
<1>5. fd[d] \notin TmpNames \cup AllFiles
  BY <1>2 DEF WritersInv, Opened
<1>6. \A e \in Downloads \ {d} : Involved(e)' <=> Involved(e)
  BY <1>2 DEF Involved
<1>7. \A w \in Downloads, n \in TmpNames \cup AllFiles : Completes(w, n) /\ n # t => Completes(w, n)'
  BY <1>2, <1>3 DEF Completes
<1>8. Opened'
  <2> SUFFICES ASSUME NEW e \in Downloads
               PROVE /\ fd'[e] \in TmpNames \cup AllFiles => dl'[e] \in {"write", "stray"}
                     /\ fd'[e] \in TmpNames => fd'[e] = Tmp(e.file) /\ tmp'[fd'[e]] # "none"
                     /\ fd'[e] \in AllFiles => /\ Tmp(fd'[e]) = Tmp(e.file)
                                               /\ Tmp(e.file) \in crossed' \/
                                                    (fd'[e] = e.file /\ disk'[fd'[e]] \in {"empty", e.file.kind})
    BY DEF Opened, Tmp
  <2>1. CASE e = d
    BY <1>1, <1>2, <2>1
  <2>2. CASE e # d
    BY <1>1, <1>2, <2>2 DEF WritersInv, Opened
  <2> QED BY <2>1, <2>2
<1>9. OneFile'
  <2> SUFFICES ASSUME NEW a \in Downloads, NEW b \in Downloads, Involved(a)', Involved(b)',
                      Tmp(a.file) = Tmp(b.file), a.file # b.file
               PROVE Tmp(a.file) \in crossed'
    BY DEF OneFile, Tmp
  <2>1. CASE a # d /\ b # d
    BY <1>2, <1>6, <2>1 DEF WritersInv, OneFile
  <2>2. CASE a = d \/ b = d
    BY <1>4, <1>6, <2>2
  <2> QED BY <2>1, <2>2
<1>10. TmpHolds'
  <2> SUFFICES ASSUME NEW e \in Downloads, Involved(e)', Tmp(e.file) \notin crossed'
               PROVE /\ tmp'[Tmp(e.file)] \in {"none", "empty", e.file.kind}
                     /\ tmp'[Tmp(e.file)] = "empty" => \E w \in Downloads : Completes(w, Tmp(e.file))'
    BY DEF TmpHolds, Completes, Tmp
  <2>1. CASE Tmp(e.file) = t
    <3>1. Completes(d, t)'
      BY <1>2, <1>3 DEF Completes
    <3> QED BY <1>2, <2>1, <3>1
  <2>2. CASE Tmp(e.file) # t
    BY <1>1, <1>2, <1>6, <1>7, <2>2 DEF WritersInv, TmpHolds
  <2> QED BY <2>1, <2>2
<1>11. DiskHolds'
  <2> SUFFICES ASSUME NEW f \in AllFiles, Tmp(f) \notin crossed'
               PROVE /\ disk'[f] \in {"none", "flat", "empty", f.kind}
                     /\ disk'[f] = "empty" => f \in cut' \/ \E w \in Downloads : Completes(w, f)'
    BY DEF DiskHolds, Completes, Tmp
  <2> QED BY <1>1, <1>2, <1>7 DEF WritersInv, DiskHolds
<1> QED BY <1>8, <1>9, <1>10, <1>11 DEF WritersInv

\* A writer leaves its own bytes, or those of one that completes the file.
LEMMA WriteKeepsWriters ==
  ASSUME TypeOK, WritersInv, NEW d \in Downloads, WriteBytes(d)
  PROVE  WritersInv'
<1>1. \A e \in Downloads : e.file \in AllFiles /\ Tmp(e.file) \in TmpNames
  BY NamesDiffer
<1>2. /\ dl[d] \in {"write", "stray"} /\ fd'[d] = None
      /\ (dl[d] = "write" /\ dl'[d] = "rename") \/ dl'[d] = "idle"
      /\ \A e \in Downloads \ {d} : dl'[e] = dl[e] /\ fd'[e] = fd[e] /\ (e \in shorn' <=> e \in shorn)
      /\ UNCHANGED <<cut, crossed>>
  BY DEF WriteBytes, Goes, TypeOK
<1>3. \A e \in Downloads : Involved(e)' => Involved(e)
  BY <1>2 DEF Involved
<1>4. \A w \in Downloads \ {d}, n \in TmpNames \cup AllFiles : Completes(w, n) => Completes(w, n)'
  BY <1>2 DEF Completes
<1>5. None \notin TmpNames \cup AllFiles
  BY NoneIsNoFile
<1>6. OneFile'
  BY <1>2, <1>3 DEF WritersInv, OneFile, Tmp
<1>7. \A n \in TmpNames \cup AllFiles : fd[d] # n =>
        \A w \in Downloads : Completes(w, n) => Completes(w, n)'
  BY <1>4 DEF Completes
<1>8. CASE fd[d] \in TmpNames
  <2> DEFINE t == Tmp(d.file)
  <2>1. fd[d] = t /\ tmp[t] # "none" /\ Involved(d) /\ t \in TmpNames /\ t \notin AllFiles
    BY <1>2, <1>8, NamesDiffer DEF WritersInv, Opened, Involved
  <2>2. disk' = disk
    BY <1>8, <2>1, NamesDiffer DEF WriteBytes
  <2>3. PICK c \in Written(d, tmp[t]) : tmp' = [tmp EXCEPT ![t] = c]
    BY <2>1, NamesDiffer DEF WriteBytes
  <2>4. tmp'[t] = c /\ \A n \in TmpNames \ {t} : tmp'[n] = tmp[n]
    BY <2>1, <2>3 DEF TypeOK
  <2>5. d.file.kind # "none"
    BY NamesDiffer DEF Kinds
  <2>6. c # "none"
    BY <2>1, <2>3, <2>5 DEF Written
  <2>7. ASSUME t \notin crossed
        PROVE /\ c \in {"empty", d.file.kind}
              /\ c = "empty" => \E w \in Downloads : Completes(w, t)'
    <3>1. tmp[t] \in {"empty", d.file.kind}
      BY <2>1, <2>7 DEF WritersInv, TmpHolds
    <3>2. \A e \in Downloads : fd[e] = t => e.file = d.file
      <4> SUFFICES ASSUME NEW e \in Downloads, fd[e] = t PROVE e.file = d.file
        OBVIOUS
      <4>1. dl[e] \in {"write", "stray"} /\ Tmp(e.file) = t
        BY <2>1 DEF WritersInv, Opened
      <4>2. Involved(e)
        BY <4>1 DEF Involved
      <4> QED BY <2>1, <2>7, <4>1, <4>2 DEF WritersInv, OneFile
    <3>3. c = d.file.kind \/ (c = tmp[t] /\ d \in shorn)
      BY <2>1, <2>3, <3>1, <3>2 DEF Written
    <3>4. CASE c = "empty" /\ c # d.file.kind
      <4>1. PICK w \in Downloads : Completes(w, t)
        BY <2>1, <2>7, <3>3, <3>4 DEF WritersInv, TmpHolds
      <4>2. w # d
        BY <3>3, <3>4, <4>1 DEF Completes
      <4> QED BY <1>4, <2>1, <3>4, <4>1, <4>2
    <3>5. d.file.kind # "empty"
      BY NamesDiffer DEF Kinds
    <3> QED BY <3>1, <3>3, <3>4, <3>5
  <2>8. Opened'
    <3> SUFFICES ASSUME NEW e \in Downloads
                 PROVE /\ fd'[e] \in TmpNames \cup AllFiles => dl'[e] \in {"write", "stray"}
                       /\ fd'[e] \in TmpNames => fd'[e] = Tmp(e.file) /\ tmp'[fd'[e]] # "none"
                       /\ fd'[e] \in AllFiles => /\ Tmp(fd'[e]) = Tmp(e.file)
                                                 /\ Tmp(e.file) \in crossed' \/
                                                      (fd'[e] = e.file /\ disk'[fd'[e]] \in {"empty", e.file.kind})
      BY DEF Opened, Tmp
    <3>1. CASE e = d
      BY <1>2, <1>5, <3>1
    <3>2. CASE e # d
      BY <1>2, <2>2, <2>4, <2>6, <3>2 DEF WritersInv, Opened
    <3> QED BY <3>1, <3>2
  <2>9. TmpHolds'
    <3> SUFFICES ASSUME NEW e \in Downloads, Involved(e)', Tmp(e.file) \notin crossed
                 PROVE /\ tmp'[Tmp(e.file)] \in {"none", "empty", e.file.kind}
                       /\ tmp'[Tmp(e.file)] = "empty" => \E w \in Downloads : Completes(w, Tmp(e.file))'
      BY <1>2 DEF TmpHolds, Completes, Tmp
    <3>1. Involved(e)
      BY <1>3
    <3>2. CASE Tmp(e.file) = t
      <4>1. e.file = d.file
        BY <2>1, <3>1, <3>2 DEF WritersInv, OneFile
      <4> QED BY <2>4, <2>7, <3>2, <4>1
    <3>3. CASE Tmp(e.file) # t
      BY <1>1, <1>7, <2>1, <2>4, <3>1, <3>3 DEF WritersInv, TmpHolds
    <3> QED BY <3>2, <3>3
  <2>10. DiskHolds'
    <3> SUFFICES ASSUME NEW f \in AllFiles, Tmp(f) \notin crossed
                 PROVE /\ disk[f] \in {"none", "flat", "empty", f.kind}
                       /\ disk[f] = "empty" => f \in cut \/ \E w \in Downloads : Completes(w, f)'
      BY <1>2, <2>2 DEF DiskHolds, Completes, Tmp
    <3> QED BY <1>7, <2>1 DEF WritersInv, DiskHolds
  <2> QED BY <1>6, <2>8, <2>9, <2>10 DEF WritersInv
<1>9. CASE fd[d] \in AllFiles
  <2>0. PICK g : g = fd[d]
    OBVIOUS
  <2>1. /\ g = fd[d] /\ g \in AllFiles /\ g \notin TmpNames /\ Tmp(g) = Tmp(d.file)
        /\ Tmp(g) \in crossed \/ (g = d.file /\ disk[g] \in {"empty", d.file.kind})
    BY <1>9, <2>0, NamesDiffer DEF WritersInv, Opened
  <2>2. tmp' = tmp
    BY <1>9, <2>1, NamesDiffer DEF WriteBytes
  <2>3. PICK c \in Written(d, disk[g]) : disk' = [disk EXCEPT ![g] = c]
    BY <1>9, <2>1, NamesDiffer DEF WriteBytes
  <2>4. disk'[g] = c /\ \A f \in AllFiles \ {g} : disk'[f] = disk[f]
    BY <2>1, <2>3 DEF TypeOK
  <2>5. ASSUME Tmp(g) \notin crossed
        PROVE /\ c \in {"empty", g.kind}
              /\ c = "empty" => g \in cut \/ \E w \in Downloads : Completes(w, g)'
    <3>1. g = d.file /\ disk[g] \in {"empty", d.file.kind}
      BY <2>1, <2>5
    <3>2. \A e \in Downloads : fd[e] = g => e.file = g
      BY <1>9, <2>1, <2>5 DEF WritersInv, Opened
    <3>3. c = d.file.kind \/ (c = disk[g] /\ d \in shorn)
      BY <2>1, <2>3, <3>1, <3>2 DEF Written
    <3>4. CASE c = "empty" /\ c # d.file.kind /\ g \notin cut
      <4>1. PICK w \in Downloads : Completes(w, g)
        BY <2>1, <2>5, <3>3, <3>4 DEF WritersInv, DiskHolds
      <4>2. w # d
        BY <3>3, <3>4, <4>1 DEF Completes
      <4> QED BY <1>4, <2>1, <3>4, <4>1, <4>2
    <3>5. d.file.kind # "empty"
      BY NamesDiffer DEF Kinds
    <3> QED BY <3>1, <3>3, <3>4, <3>5
  <2>6. Opened'
    <3> SUFFICES ASSUME NEW e \in Downloads
                 PROVE /\ fd'[e] \in TmpNames \cup AllFiles => dl'[e] \in {"write", "stray"}
                       /\ fd'[e] \in TmpNames => fd'[e] = Tmp(e.file) /\ tmp'[fd'[e]] # "none"
                       /\ fd'[e] \in AllFiles => /\ Tmp(fd'[e]) = Tmp(e.file)
                                                 /\ Tmp(e.file) \in crossed' \/
                                                      (fd'[e] = e.file /\ disk'[fd'[e]] \in {"empty", e.file.kind})
      BY DEF Opened, Tmp
    <3>1. CASE e = d
      BY <1>2, <1>5, <3>1
    <3>2. CASE e # d /\ fd[e] = g
      <4>1. /\ dl[e] \in {"write", "stray"} /\ Tmp(g) = Tmp(e.file)
            /\ Tmp(e.file) \in crossed \/ (g = e.file /\ disk[g] \in {"empty", e.file.kind})
        BY <2>1, <3>2 DEF WritersInv, Opened
      <4> QED BY <1>2, <2>1, <2>4, <2>5, <3>2, <4>1
    <3>3. CASE e # d /\ fd[e] # g
      BY <1>2, <2>2, <2>4, <3>3 DEF WritersInv, Opened
    <3> QED BY <3>1, <3>2, <3>3
  <2>7. TmpHolds'
    <3> SUFFICES ASSUME NEW e \in Downloads, Involved(e)', Tmp(e.file) \notin crossed
                 PROVE /\ tmp[Tmp(e.file)] \in {"none", "empty", e.file.kind}
                       /\ tmp[Tmp(e.file)] = "empty" => \E w \in Downloads : Completes(w, Tmp(e.file))'
      BY <1>2, <2>2 DEF TmpHolds, Completes, Tmp
    <3> QED BY <1>1, <1>3, <1>7, <2>1, NamesDiffer DEF WritersInv, TmpHolds
  <2>8. DiskHolds'
    <3> SUFFICES ASSUME NEW f \in AllFiles, Tmp(f) \notin crossed
                 PROVE /\ disk'[f] \in {"none", "flat", "empty", f.kind}
                       /\ disk'[f] = "empty" => f \in cut \/ \E w \in Downloads : Completes(w, f)'
      BY <1>2 DEF DiskHolds, Completes, Tmp
    <3>1. CASE f = g
      BY <2>4, <2>5, <3>1
    <3>2. CASE f # g
      BY <1>7, <2>1, <2>4, <3>2 DEF WritersInv, DiskHolds
    <3> QED BY <3>1, <3>2
  <2> QED BY <1>6, <2>6, <2>7, <2>8 DEF WritersInv
<1>10. CASE fd[d] = Nowhere
  <2>1. UNCHANGED <<disk, tmp>> /\ fd[d] \notin TmpNames \cup AllFiles
    BY <1>10, NamesDiffer DEF WriteBytes
  <2>2. Opened'
    <3> SUFFICES ASSUME NEW e \in Downloads
                 PROVE /\ fd'[e] \in TmpNames \cup AllFiles => dl'[e] \in {"write", "stray"}
                       /\ fd'[e] \in TmpNames => fd'[e] = Tmp(e.file) /\ tmp'[fd'[e]] # "none"
                       /\ fd'[e] \in AllFiles => /\ Tmp(fd'[e]) = Tmp(e.file)
                                                 /\ Tmp(e.file) \in crossed' \/
                                                      (fd'[e] = e.file /\ disk'[fd'[e]] \in {"empty", e.file.kind})
      BY DEF Opened, Tmp
    <3> QED BY <1>2, <1>5, <2>1 DEF WritersInv, Opened
  <2>3. \A n \in TmpNames \cup AllFiles : \A w \in Downloads : Completes(w, n) => Completes(w, n)'
    BY <1>7, <2>1
  <2>4. TmpHolds'
    <3> SUFFICES ASSUME NEW e \in Downloads, Involved(e)', Tmp(e.file) \notin crossed
                 PROVE /\ tmp[Tmp(e.file)] \in {"none", "empty", e.file.kind}
                       /\ tmp[Tmp(e.file)] = "empty" => \E w \in Downloads : Completes(w, Tmp(e.file))'
      BY <1>2, <2>1 DEF TmpHolds, Completes, Tmp
    <3> QED BY <1>1, <1>3, <2>3 DEF WritersInv, TmpHolds
  <2>5. DiskHolds'
    <3> SUFFICES ASSUME NEW f \in AllFiles, Tmp(f) \notin crossed
                 PROVE /\ disk[f] \in {"none", "flat", "empty", f.kind}
                       /\ disk[f] = "empty" => f \in cut \/ \E w \in Downloads : Completes(w, f)'
      BY <1>2, <2>1 DEF DiskHolds, Completes, Tmp
    <3> QED BY <2>3 DEF WritersInv, DiskHolds
  <2> QED BY <1>6, <2>2, <2>4, <2>5 DEF WritersInv
<1> QED BY <1>8, <1>9, <1>10 DEF WriteBytes

\* A rename moves a temporary file with all its writers, who write the file it
\* becomes.
LEMMA RenameKeepsWriters ==
  ASSUME TypeOK, WritersInv, NEW d \in Downloads, Rename(d)
  PROVE  WritersInv'
<1> DEFINE t == Tmp(d.file)
<1>1. /\ d.file \in AllFiles /\ t \in TmpNames /\ t \notin AllFiles /\ d.file \notin TmpNames
      /\ \A e \in Downloads : e.file \in AllFiles /\ Tmp(e.file) \in TmpNames
      /\ Nowhere \notin TmpNames \cup AllFiles
  BY NamesDiffer
<1>2. /\ dl[d] = "rename" /\ dl'[d] \in {"lost", "ok"} /\ Involved(d)
      /\ \A e \in Downloads \ {d} : dl'[e] = dl[e]
      /\ UNCHANGED <<cut, shorn, crossed>>
  BY DEF Rename, Goes, TypeOK, Involved
<1>3. fd[d] \notin TmpNames \cup AllFiles
  BY <1>2 DEF WritersInv, Opened
<1>4. CASE UNCHANGED <<disk, tmp, fd>>
  <2>1. \A e \in Downloads : Involved(e)' => Involved(e)
    BY <1>2, <1>4 DEF Involved
  <2>2. \A w \in Downloads, n \in TmpNames \cup AllFiles : Completes(w, n) => Completes(w, n)'
    BY <1>2, <1>4 DEF Completes
  <2>3. Opened'
    <3> SUFFICES ASSUME NEW e \in Downloads
                 PROVE /\ fd[e] \in TmpNames \cup AllFiles => dl'[e] \in {"write", "stray"}
                       /\ fd[e] \in TmpNames => fd[e] = Tmp(e.file) /\ tmp[fd[e]] # "none"
                       /\ fd[e] \in AllFiles => /\ Tmp(fd[e]) = Tmp(e.file)
                                                /\ Tmp(e.file) \in crossed \/
                                                     (fd[e] = e.file /\ disk[fd[e]] \in {"empty", e.file.kind})
      BY <1>2, <1>4 DEF Opened, Tmp
    <3> QED BY <1>2, <1>3 DEF WritersInv, Opened
  <2>4. OneFile'
    BY <1>2, <2>1 DEF WritersInv, OneFile, Tmp
  <2>5. TmpHolds'
    <3> SUFFICES ASSUME NEW e \in Downloads, Involved(e)', Tmp(e.file) \notin crossed
                 PROVE /\ tmp[Tmp(e.file)] \in {"none", "empty", e.file.kind}
                       /\ tmp[Tmp(e.file)] = "empty" => \E w \in Downloads : Completes(w, Tmp(e.file))'
      BY <1>2, <1>4 DEF TmpHolds, Completes, Tmp
    <3> QED BY <1>1, <2>1, <2>2 DEF WritersInv, TmpHolds
  <2>6. DiskHolds'
    <3> SUFFICES ASSUME NEW f \in AllFiles, Tmp(f) \notin crossed
                 PROVE /\ disk[f] \in {"none", "flat", "empty", f.kind}
                       /\ disk[f] = "empty" => f \in cut \/ \E w \in Downloads : Completes(w, f)'
      BY <1>2, <1>4 DEF DiskHolds, Completes, Tmp
    <3> QED BY <2>2 DEF WritersInv, DiskHolds
  <2> QED BY <2>3, <2>4, <2>5, <2>6 DEF WritersInv
<1>5. CASE /\ tmp[t] # "none"
           /\ disk' = [disk EXCEPT ![d.file] = tmp[t]]
           /\ tmp' = [tmp EXCEPT ![t] = "none"]
           /\ fd' = [e \in Downloads |-> IF fd[e] = t THEN d.file
                                         ELSE IF fd[e] = d.file THEN Nowhere
                                         ELSE fd[e]]
  <2>1. /\ disk'[d.file] = tmp[t] /\ tmp'[t] = "none"
        /\ \A f \in AllFiles \ {d.file} : disk'[f] = disk[f]
        /\ \A n \in TmpNames \ {t} : tmp'[n] = tmp[n]
    BY <1>1, <1>5 DEF TypeOK
  <2>2. \A e \in Downloads : /\ fd[e] = t => fd'[e] = d.file
                             /\ fd[e] = d.file => fd'[e] = Nowhere
                             /\ fd[e] \notin {t, d.file} => fd'[e] = fd[e]
    BY <1>1, <1>5
  <2>3. \A e \in Downloads : Involved(e)' => Involved(e)
    BY <1>1, <1>2, <2>2 DEF Involved
  <2>4. \A w \in Downloads : \A n \in (TmpNames \cup AllFiles) \ {t, d.file} :
          Completes(w, n) => Completes(w, n)'
    BY <1>2, <2>2 DEF Completes
  <2>5. \A w \in Downloads : Completes(w, t) => Completes(w, d.file)'
    BY <1>2, <2>2 DEF Completes
  <2>6. t \notin crossed => tmp[t] \in {"empty", d.file.kind}
    BY <1>2, <1>5 DEF WritersInv, TmpHolds
  <2>7. Opened'
    <3> SUFFICES ASSUME NEW e \in Downloads
                 PROVE /\ fd'[e] \in TmpNames \cup AllFiles => dl'[e] \in {"write", "stray"}
                       /\ fd'[e] \in TmpNames => fd'[e] = Tmp(e.file) /\ tmp'[fd'[e]] # "none"
                       /\ fd'[e] \in AllFiles => /\ Tmp(fd'[e]) = Tmp(e.file)
                                                 /\ Tmp(e.file) \in crossed' \/
                                                      (fd'[e] = e.file /\ disk'[fd'[e]] \in {"empty", e.file.kind})
      BY DEF Opened, Tmp
    <3>1. CASE fd[e] = t
      <4>1. dl[e] \in {"write", "stray"} /\ Tmp(e.file) = t
        BY <1>1, <3>1 DEF WritersInv, Opened
      <4>2. Involved(e) /\ e # d
        BY <1>1, <1>3, <3>1, <4>1 DEF Involved
      <4>3. e.file = d.file \/ t \in crossed
        BY <1>2, <4>1, <4>2 DEF WritersInv, OneFile
      <4> QED BY <1>1, <1>2, <2>1, <2>2, <2>6, <3>1, <4>1, <4>2, <4>3
    <3>2. CASE fd[e] = d.file
      BY <1>1, <2>2, <3>2
    <3>3. CASE fd[e] \notin {t, d.file}
      <4>1. fd'[e] = fd[e] /\ (fd[e] \in TmpNames \cup AllFiles => e # d)
        BY <1>3, <2>2, <3>3
      <4> QED BY <1>2, <2>1, <3>3, <4>1 DEF WritersInv, Opened
    <3> QED BY <3>1, <3>2, <3>3
  <2>8. OneFile'
    BY <1>2, <2>3 DEF WritersInv, OneFile, Tmp
  <2>9. TmpHolds'
    <3> SUFFICES ASSUME NEW e \in Downloads, Involved(e)', Tmp(e.file) \notin crossed
                 PROVE /\ tmp'[Tmp(e.file)] \in {"none", "empty", e.file.kind}
                       /\ tmp'[Tmp(e.file)] = "empty" => \E w \in Downloads : Completes(w, Tmp(e.file))'
      BY <1>2 DEF TmpHolds, Completes, Tmp
    <3>1. CASE Tmp(e.file) = t
      BY <2>1, <3>1
    <3>2. CASE Tmp(e.file) # t
      BY <1>1, <2>1, <2>3, <2>4, <3>2 DEF WritersInv, TmpHolds
    <3> QED BY <3>1, <3>2
  <2>10. DiskHolds'
    <3> SUFFICES ASSUME NEW f \in AllFiles, Tmp(f) \notin crossed
                 PROVE /\ disk'[f] \in {"none", "flat", "empty", f.kind}
                       /\ disk'[f] = "empty" => f \in cut \/ \E w \in Downloads : Completes(w, f)'
      BY <1>2 DEF DiskHolds, Completes, Tmp
    <3>1. CASE f = d.file
      <4>1. tmp[t] = "empty" => \E w \in Downloads : Completes(w, t)
        BY <1>2, <3>1 DEF WritersInv, TmpHolds
      <4> QED BY <2>1, <2>5, <2>6, <3>1, <4>1
    <3>2. CASE f # d.file
      BY <1>1, <2>1, <2>4, <3>2 DEF WritersInv, DiskHolds
    <3> QED BY <3>1, <3>2
  <2> QED BY <2>7, <2>8, <2>9, <2>10 DEF WritersInv
<1> QED BY <1>4, <1>5 DEF Rename

\* Whatever else happens, who is writing goes on, and nobody begins.
LEMMA SameWriters ==
  ASSUME WritersInv, UNCHANGED <<disk, tmp, fd, shorn, cut, crossed>>,
         \A d \in Downloads : /\ dl[d] \in {"write", "stray"} => dl'[d] \in {"write", "stray"}
                              /\ dl'[d] \in {"write", "rename"} => dl'[d] = dl[d]
                              /\ dl'[d] = "stray" => dl[d] \in {"write", "stray"}
  PROVE  WritersInv'
<1>1. \A d \in Downloads : Involved(d)' => Involved(d)
  BY DEF Involved
<1>2. \A d \in Downloads : \A n : Completes(d, n) => Completes(d, n)'
  BY DEF Completes
<1>3. Opened'
  BY DEF WritersInv, Opened
<1>4. OneFile'
  BY <1>1 DEF WritersInv, OneFile
<1>5. TmpHolds'
  BY <1>1, <1>2 DEF WritersInv, TmpHolds
<1>6. DiskHolds'
  BY <1>2 DEF WritersInv, DiskHolds
<1> QED BY <1>3, <1>4, <1>5, <1>6 DEF WritersInv

LEMMA DownloadKeepsWriters ==
  ASSUME VersionInv, NEW d \in Downloads, DownloadStep(d)
  PROVE  WritersInv'
<1>1. TypeOK /\ WritersInv
  BY DEF VersionInv, DiskInv
<1>2. CASE Fetch(d)
  <2>1. /\ UNCHANGED <<disk, tmp, fd, shorn, cut, crossed>>
        /\ dl[d] \in {"asked", "again"} /\ dl'[d] \notin {"write", "rename", "stray"}
        /\ \A e \in Downloads \ {d} : dl'[e] = dl[e]
    BY <1>1, <1>2 DEF Fetch, Goes, TypeOK
  <2>2. \A e \in Downloads : /\ dl[e] \in {"write", "stray"} => dl'[e] \in {"write", "stray"}
                             /\ dl'[e] \in {"write", "rename"} => dl'[e] = dl[e]
                             /\ dl'[e] = "stray" => dl[e] \in {"write", "stray"}
    BY <2>1
  <2> QED BY <1>1, <2>1, <2>2, SameWriters
<1> QED BY <1>1, <1>2, OpenKeepsWriters, WriteKeepsWriters, RenameKeepsWriters DEF DownloadStep

-----------------------------------------------------------------------------
(* The steps of an install. *)

\* An install moves on, or ends, starting downloads of a phase that it has yet to come to.
LEMMA MovesOn ==
  ASSUME VersionInv, NEW j \in Jobs, NEW x \in JobRecord, NEW ds \in SUBSET Downloads,
         job' = [job EXCEPT ![j] = x], dl' = StartAll(ds),
         UNCHANGED <<disk, tmp, fd, shorn, launch, cut, crossed>>, mishaps' \in 0..MaxMishaps,
         natives' \in [Jobs -> {"none", "partial", "torn", "whole"}],
         \A i \in Jobs \ {j} : natives'[i] = natives[i],
         \A d \in ds : d.by = j /\ d.phase \in Pending(job[j].at) \ Pending(x.at),
         Pending(x.at) \subseteq Pending(job[j].at),
         x.version \in Manifest, job[j].at # "cancelled",
         x.at \in Phases => DownloadsOf(j, x.version, x.at) \subseteq ds,
         x.at \in {"virtual", "done"} => natives'[j] = "whole",
         x.at \in Phases \cup {"done"} =>
           \A p \in Passed(x.at) : \A d \in DownloadsOf(j, x.version, p) : There(d.file)
  PROVE  VersionInv'
<1>1. job'[j] = x /\ \A i \in Jobs \ {j} : job'[i] = job[i]
  BY DEF VersionInv, TypeOK
<1>2. \A d \in Downloads : dl'[d] = IF d \in ds THEN "asked" ELSE dl[d]
  BY DEF StartAll
<1>3. \A d \in ds : dl[d] = "idle"
  BY DEF VersionInv, JobsInv, NotYet
<1>4. TypeOK'
  <2>1. job' \in [Jobs -> JobRecord]
    BY DEF VersionInv, TypeOK, JobRecord
  <2>2. dl' \in [Downloads -> Live \cup Ended \cup {"idle"}]
    BY DEF VersionInv, TypeOK, StartAll, Live
  <2> QED BY <2>1, <2>2 DEF VersionInv, TypeOK, JobRecord
<1>5. Versioned'
  BY <1>1 DEF VersionInv, JobsInv, Versioned
<1>6. Strays'
  BY <1>1, <1>2 DEF VersionInv, JobsInv, Strays
<1>7. NotYet'
  <2> SUFFICES ASSUME NEW d \in Downloads, d.by \in Jobs, dl'[d] # "idle"
               PROVE d.phase \notin Pending(job'[d.by].at)
    BY DEF NotYet, Pending
  <2>1. CASE d \in ds
    BY <1>1, <2>1
  <2>2. CASE d \notin ds
    <3>1. d.phase \notin Pending(job[d.by].at)
      BY <1>2, <2>2 DEF VersionInv, JobsInv, NotYet
    <3> QED BY <1>1, <3>1
  <2> QED BY <2>1, <2>2
<1>8. Awaited'
  <2> SUFFICES ASSUME NEW i \in Jobs, job'[i].at \in Phases,
                      NEW d \in DownloadsOf(i, job'[i].version, job'[i].at)
               PROVE dl'[d] # "idle"
    BY DEF Awaited, DownloadsOf
  <2>1. job'[i].version \in Manifest
    BY <1>5 DEF Versioned, Phases
  <2>2. d \in Downloads
    BY <2>1, OfItsJob
  <2>3. CASE i = j
    BY <1>1, <1>2, <2>2, <2>3
  <2>4. CASE i # j
    <3>1. dl[d] # "idle"
      BY <1>1, <2>4 DEF VersionInv, JobsInv, Awaited
    <3> QED BY <1>2, <2>2, <3>1
  <2> QED BY <2>3, <2>4
<1>9. NativesDone'
  BY <1>1 DEF VersionInv, JobsInv, NativesDone
<1>10. EndedWell'
  BY <1>2 DEF VersionInv, DiskInv, EndedWell, There
<1>11. Present'
  <2> SUFFICES ASSUME NEW i \in Jobs, job'[i].at \in Phases \cup {"done"}, NEW p \in Passed(job'[i].at),
                      NEW d \in DownloadsOf(i, job'[i].version, p)
               PROVE There(d.file)
    BY DEF Present, There, Passed, Pending, DownloadsOf
  <2> QED BY <1>1 DEF VersionInv, DiskInv, Present
<1>12. \A d \in Downloads : /\ dl[d] \in {"write", "stray"} => dl'[d] \in {"write", "stray"}
                            /\ dl'[d] \in {"write", "rename"} => dl'[d] = dl[d]
                            /\ dl'[d] = "stray" => dl[d] \in {"write", "stray"}
  BY <1>2, <1>3
<1>13. WritersInv'
  BY <1>12, SameWriters DEF VersionInv, DiskInv
<1> QED BY <1>4, <1>5, <1>6, <1>7, <1>8, <1>9, <1>10, <1>11, <1>13 DEF VersionInv, JobsInv, DiskInv

\* Nothing is started where nothing is to be started.
LEMMA StartNone == TypeOK => StartAll({}) = dl
BY DEF TypeOK, StartAll

\* A record of an install at another stage.
LEMMA AtTyped ==
  ASSUME TypeOK, NEW j \in Jobs, NEW at \in Phases \cup {"done", "failed", "cancelled"}
  PROVE  /\ [job[j] EXCEPT !.at = at] \in JobRecord
         /\ [job[j] EXCEPT !.at = at].at = at
         /\ [job[j] EXCEPT !.at = at].version = job[j].version
<1>1. job[j] \in JobRecord
  BY DEF TypeOK, JobRecord
<1> QED BY <1>1 DEF JobRecord

LEMMA StartKeeps ==
  ASSUME VersionInv, NEW j \in Jobs, NEW v \in Manifest, Start(j, v)
  PROVE  VersionInv'
<1> DEFINE x == [at |-> "json", version |-> v]
<1>1. x \in JobRecord /\ x.at = "json" /\ x.version = v
  BY DEF JobRecord, Phases
<1>2. job' = [job EXCEPT ![j] = x] /\ job[j].at = "idle"
  BY DEF Start
<1> HIDE DEF x
<1>3. "json" \in Phases /\ Pending("idle") = Phases /\ Pending("json") = Phases \ {"json"} /\ Passed("json") = {}
  BY DEF Phases, Pending, Passed
<1>4. /\ DownloadsOf(j, v, "json") \subseteq Downloads
      /\ \A d \in DownloadsOf(j, v, "json") : d.by = j /\ d.phase = "json"
  BY <1>3, OfItsJob
<1>5. dl' = StartAll(DownloadsOf(j, v, "json")) /\ UNCHANGED <<disk, tmp, natives, fd, shorn, launch, cut, crossed, mishaps>>
  BY DEF Start
<1>6. natives' \in [Jobs -> {"none", "partial", "torn", "whole"}] /\ mishaps' \in 0..MaxMishaps
  BY <1>5 DEF VersionInv, TypeOK
<1>7. DownloadsOf(j, v, "json") \in SUBSET Downloads
      /\ \A d \in DownloadsOf(j, v, "json") : d.by = j /\ d.phase \in Pending(job[j].at) \ Pending(x.at)
  BY <1>1, <1>2, <1>3, <1>4
<1>8. /\ Pending(x.at) \subseteq Pending(job[j].at) /\ Passed(x.at) = {} /\ x.at \notin {"virtual", "done"}
      /\ job[j].at # "cancelled" /\ DownloadsOf(j, x.version, x.at) \subseteq DownloadsOf(j, v, "json")
  BY <1>1, <1>2, <1>3
<1> QED BY <1>1, <1>2, <1>5, <1>6, <1>7, <1>8, MovesOn

\* An install that ends badly has nothing to keep.
LEMMA EndsBadly ==
  ASSUME VersionInv, NEW j \in Jobs, job[j].at \in Phases, MoveTo(j, "failed"),
         UNCHANGED <<disk, tmp, natives, dl, fd, shorn, launch, cut, crossed>>, mishaps' \in 0..MaxMishaps
  PROVE  VersionInv'
<1> DEFINE x == [job[j] EXCEPT !.at = "failed"]
<1>1. x \in JobRecord /\ x.at = "failed" /\ x.version = job[j].version
  BY AtTyped DEF VersionInv
<1>2. job' = [job EXCEPT ![j] = x]
  BY DEF MoveTo
<1> HIDE DEF x
<1>3. job[j].version \in Manifest /\ job[j].at # "cancelled"
  BY DEF VersionInv, JobsInv, Versioned, Phases
<1>4. "failed" \notin Phases /\ Pending("failed") = {}
  BY DEF Phases, Pending
<1>5. dl' = StartAll({})
  BY StartNone DEF VersionInv
<1>6. natives' \in [Jobs -> {"none", "partial", "torn", "whole"}] /\ natives' = natives
  BY DEF VersionInv, TypeOK
<1> QED BY <1>1, <1>2, <1>3, <1>4, <1>5, <1>6, MovesOn

\* An install that has fetched what its phase fetches has everything behind it.
LEMMA PhaseHasFiles ==
  ASSUME VersionInv, NEW j \in Jobs, job[j].at \in Phases, Succeeded(j)
  PROVE  /\ job[j].version \in Manifest
         /\ \A p \in Passed(job[j].at) \cup {job[j].at, "natives", "virtual"} :
              \A d \in DownloadsOf(j, job[j].version, p) : There(d.file)
<1>1. job[j].version \in Manifest
  BY DEF VersionInv, JobsInv, Versioned, Phases
<1>2. \A d \in DownloadsOf(j, job[j].version, job[j].at) : There(d.file)
  <2> SUFFICES ASSUME NEW d \in DownloadsOf(j, job[j].version, job[j].at) PROVE There(d.file)
    OBVIOUS
  <2>1. d \in Downloads /\ d.by = j /\ d.phase = job[j].at
    BY <1>1, OfItsJob
  <2>2. dl[d] # "idle"
    BY DEF VersionInv, JobsInv, Awaited
  <2>3. d \in Mine(j)
    BY <2>1, <2>2 DEF Mine
  <2> QED BY <2>1, <2>3 DEF Succeeded, VersionInv, DiskInv, EndedWell
<1>3. \A p \in Passed(job[j].at) : \A d \in DownloadsOf(j, job[j].version, p) : There(d.file)
  BY DEF VersionInv, DiskInv, Present
<1> QED BY <1>1, <1>2, <1>3, NothingLast

LEMMA PhaseDoneKeeps == ASSUME VersionInv, NEW j \in Jobs, PhaseDone(j) PROVE VersionInv'
<1> DEFINE at == job[j].at
           v == job[j].version
           next == NextPhase[job[j].at]
           x == [job[j] EXCEPT !.at = next]
<1>1. at \in {"json", "jar", "libs", "index", "assets"} /\ at \in Phases /\ Succeeded(j)
  BY DEF PhaseDone, Phases
<1>2. /\ next \in Phases /\ next \in Pending(at) \ Pending(next) /\ Pending(next) \subseteq Pending(at)
      /\ Passed(next) \subseteq Passed(at) \cup {at, "natives", "virtual"}
      /\ next # "virtual"
  BY <1>1 DEF Phases, Pending, Passed, NextPhase
<1>3. x \in JobRecord /\ x.at = next /\ x.version = v
  BY <1>2, AtTyped DEF VersionInv
<1>4. job' = [job EXCEPT ![j] = x]
  BY DEF PhaseDone, MoveTo
<1> HIDE DEF x, next
<1>5. /\ v \in Manifest
      /\ \A p \in Passed(next) : \A d \in DownloadsOf(j, v, p) : There(d.file)
  BY <1>1, <1>2, PhaseHasFiles
<1>6. dl' = StartAll(DownloadsOf(j, v, next)) /\ UNCHANGED <<disk, tmp, natives, fd, shorn, launch, cut, crossed, mishaps>>
  BY DEF PhaseDone, next
<1>7. /\ DownloadsOf(j, v, next) \subseteq Downloads
      /\ \A d \in DownloadsOf(j, v, next) : d.by = j /\ d.phase = next
  BY <1>2, <1>5, OfItsJob
<1>8. natives' \in [Jobs -> {"none", "partial", "torn", "whole"}] /\ mishaps' \in 0..MaxMishaps
  BY <1>6 DEF VersionInv, TypeOK
<1>9. at # "cancelled" /\ next \notin {"virtual", "done"}
  BY <1>1, <1>2 DEF Phases
<1> QED BY <1>2, <1>3, <1>4, <1>5, <1>6, <1>7, <1>8, <1>9, MovesOn

LEMMA BadHashKeeps == ASSUME VersionInv, NEW j \in Jobs, BadHash(j) PROVE VersionInv'
<1> DEFINE v == job[j].version
           x == [job[j] EXCEPT !.at = "failed"]
<1>1. job[j].at = "index" /\ v \in Manifest
  BY DEF BadHash, VersionInv, JobsInv, Versioned
<1>2. x \in JobRecord /\ x.at = "failed" /\ x.version = v
  BY AtTyped DEF VersionInv
<1>3. job' = [job EXCEPT ![j] = x]
  BY DEF BadHash, MoveTo
<1>4. PICK k : dl' = StartAll({d \in DownloadsOf(j, v, "assets") : d.n <= k})
  BY DEF BadHash
<1> DEFINE ds == {d \in DownloadsOf(j, v, "assets") : d.n <= k}
<1>5. ds \in SUBSET Downloads /\ \A d \in ds : d.by = j /\ d.phase = "assets"
  BY <1>1, OfItsJob DEF Phases
<1>6. dl' = StartAll(ds)
  BY <1>4
<1> HIDE DEF x, ds
<1>7. "assets" \in Pending("index") /\ Pending("failed") = {} /\ "failed" \notin Phases
  BY DEF Pending, Phases
<1>8. UNCHANGED <<disk, tmp, natives, fd, shorn, launch, cut, crossed>>
  BY DEF BadHash
<1>9. natives' \in [Jobs -> {"none", "partial", "torn", "whole"}] /\ mishaps' \in 0..MaxMishaps
  BY <1>8, Inputs DEF VersionInv, TypeOK, BadHash, Mishap
<1>10. /\ \A d \in ds : d.by = j /\ d.phase \in Pending(job[j].at) \ Pending(x.at)
       /\ Pending(x.at) \subseteq Pending(job[j].at)
       /\ x.at \notin Phases \cup {"virtual", "done"} /\ job[j].at # "cancelled"
  BY <1>1, <1>2, <1>5, <1>7
<1> QED BY <1>1, <1>2, <1>3, <1>5, <1>6, <1>8, <1>9, <1>10, MovesOn

\* The natives, and the end.
LEMMA LastPhasesKeep ==
  ASSUME VersionInv, NEW j \in Jobs, ExtractBegins(j) \/ ExtractEnds(j) \/ CopyVirtual(j)
  PROVE  VersionInv'
<1>1. natives \in [Jobs -> {"none", "partial", "torn", "whole"}] /\ mishaps \in 0..MaxMishaps /\ TypeOK
  BY DEF VersionInv, TypeOK
<1>2. ASSUME UNCHANGED <<disk, tmp, job, dl, fd, shorn, launch, cut, crossed, mishaps>>,
             natives' \in [Jobs -> {"none", "partial", "torn", "whole"}],
             \A i \in Jobs : job[i].at \in {"virtual", "done"} => natives'[i] = "whole"
      PROVE VersionInv'
  <2>1. TypeOK'
    BY <1>1, <1>2 DEF TypeOK
  <2>2. JobsInv'
    <3>1. Versioned' /\ Strays' /\ NativesDone'
      BY <1>2 DEF VersionInv, JobsInv, Versioned, Strays, NativesDone
    <3>2. NotYet' /\ Awaited'
      BY <1>2 DEF VersionInv, JobsInv, NotYet, Awaited, Pending, DownloadsOf
    <3> QED BY <3>1, <3>2 DEF JobsInv
  <2>3. DiskInv'
    <3>1. EndedWell' /\ Present'
      BY <1>2 DEF VersionInv, DiskInv, EndedWell, Present, There, Passed, Pending, DownloadsOf
    <3>2. WritersInv'
      BY <1>2, SameWriters DEF VersionInv, DiskInv
    <3> QED BY <3>1, <3>2 DEF DiskInv
  <2> QED BY <2>1, <2>2, <2>3 DEF VersionInv
<1>3. CASE ExtractBegins(j)
  <2>1. /\ natives' = [natives EXCEPT ![j] = "partial"] /\ job[j].at = "natives"
        /\ UNCHANGED <<disk, tmp, job, dl, fd, shorn, launch, cut, crossed, mishaps>>
    BY <1>3 DEF ExtractBegins
  <2>2. natives' \in [Jobs -> {"none", "partial", "torn", "whole"}]
        /\ \A i \in Jobs \ {j} : natives'[i] = natives[i]
    BY <1>1, <2>1
  <2> QED BY <1>2, <2>1, <2>2 DEF VersionInv, JobsInv, NativesDone
<1>4. ASSUME NEW at \in {"virtual", "done"}, job[j].at \in {"natives", "virtual"}, MoveTo(j, at),
             natives' \in [Jobs -> {"none", "partial", "torn", "whole"}], natives'[j] = "whole",
             \A i \in Jobs \ {j} : natives'[i] = natives[i],
             UNCHANGED <<disk, tmp, dl, fd, shorn, launch, cut, crossed, mishaps>>
      PROVE VersionInv'
  <2> DEFINE x == [job[j] EXCEPT !.at = at]
  <2>1. x \in JobRecord /\ x.at = at /\ x.version = job[j].version
    BY <1>1, AtTyped DEF Phases
  <2>2. job' = [job EXCEPT ![j] = x]
    BY <1>4 DEF MoveTo
  <2> HIDE DEF x
  <2>3. job[j].at \in Phases /\ job[j].at # "cancelled" /\ job[j].version \in Manifest
    BY <1>4 DEF Phases, VersionInv, JobsInv, Versioned
  <2>4. /\ Pending(at) = {}
        /\ Passed(at) \subseteq Passed(job[j].at) \cup {"natives", "virtual"}
    BY <1>4 DEF Pending, Passed, Phases
  <2>5. \A p \in Passed(at) : \A d \in DownloadsOf(j, job[j].version, p) : There(d.file)
    BY <2>3, <2>4, NothingLast DEF VersionInv, DiskInv, Present
  <2>6. dl' = StartAll({})
    BY <1>1, <1>4, StartNone
  <2>7. at \in Phases => DownloadsOf(j, job[j].version, at) \subseteq {}
    BY <2>3, NothingLast DEF Phases
  <2> QED BY <1>1, <1>4, <2>1, <2>2, <2>3, <2>4, <2>5, <2>6, <2>7, MovesOn
<1>5. CASE ExtractEnds(j)
  <2>1. /\ natives' = [natives EXCEPT ![j] = "whole"] /\ natives[j] = "partial"
        /\ UNCHANGED <<disk, tmp, dl, fd, shorn, launch, cut, crossed, mishaps>>
    BY <1>5 DEF ExtractEnds
  <2>2. /\ natives' \in [Jobs -> {"none", "partial", "torn", "whole"}] /\ natives'[j] = "whole"
        /\ \A i \in Jobs \ {j} : natives'[i] = natives[i]
    BY <1>1, <2>1
  <2>3. CASE job[j].at = "natives"
    <3>1. MoveTo(j, "virtual")
      BY <1>5, <2>3 DEF ExtractEnds, MoveTo
    <3> QED BY <1>4, <2>1, <2>2, <2>3, <3>1
  <2>4. CASE job[j].at # "natives"
    <3>1. job' = job
      BY <1>5, <2>4 DEF ExtractEnds
    <3> QED BY <1>2, <2>1, <2>2, <3>1 DEF VersionInv, JobsInv, NativesDone
  <2> QED BY <2>3, <2>4
<1>6. CASE CopyVirtual(j)
  <2>1. /\ job[j].at = "virtual" /\ natives[j] = "whole" /\ natives' = natives
        /\ UNCHANGED <<disk, tmp, dl, fd, shorn, launch, cut, crossed, mishaps>>
        /\ MoveTo(j, "done") \/ MoveTo(j, "failed")
    BY <1>6 DEF CopyVirtual, VersionInv, JobsInv, NativesDone
  <2>2. CASE MoveTo(j, "done")
    BY <1>1, <1>4, <2>1, <2>2
  <2>3. CASE MoveTo(j, "failed")
    BY <1>1, <2>1, <2>3, EndsBadly DEF Phases
  <2> QED BY <2>1, <2>2, <2>3
<1> QED BY <1>3, <1>5, <1>6

-----------------------------------------------------------------------------
(* Cancels, crashes and launches. *)

LEMMA CancelKeeps == ASSUME VersionInv, NEW j \in Jobs, Cancel(j) PROVE VersionInv'
<1> DEFINE x == [job[j] EXCEPT !.at = "cancelled"]
<1>1. x \in JobRecord /\ x.at = "cancelled" /\ x.version = job[j].version
  BY AtTyped DEF VersionInv
<1>2. job' = [job EXCEPT ![j] = x] /\ job[j].at \in Phases
  BY DEF Cancel, MoveTo
<1> HIDE DEF x
<1>3. job'[j] = x /\ \A i \in Jobs \ {j} : job'[i] = job[i]
  BY <1>2 DEF VersionInv, TypeOK
<1>4. UNCHANGED <<disk, tmp, natives, fd, shorn, launch, cut, crossed>> /\ mishaps' \in 0..MaxMishaps
  BY Inputs DEF Cancel, Mishap, VersionInv, TypeOK
<1>5. \A d \in Downloads :
        /\ d.by # j => dl'[d] = dl[d]
        /\ dl'[d] = dl[d] \/ dl'[d] = "idle" \/ (dl[d] = "write" /\ dl'[d] = "stray")
        /\ dl[d] = "stray" => dl'[d] \in {"stray", "idle"}
        /\ dl'[d] = "stray" => dl[d] = "stray" \/ d.by = j
  BY DEF Cancel, VersionInv, TypeOK
<1>6. job[j].version \in Manifest /\ job[j].at \notin {"never", "idle", "cancelled"}
  BY <1>2 DEF VersionInv, JobsInv, Versioned, Phases
<1>7. "cancelled" \notin Phases /\ Pending("cancelled") = {}
  BY DEF Phases, Pending
<1>8. TypeOK'
  <2>1. job' \in [Jobs -> JobRecord]
    BY <1>1, <1>2 DEF VersionInv, TypeOK, JobRecord
  <2>2. dl' \in [Downloads -> Live \cup Ended \cup {"idle"}]
    BY DEF VersionInv, TypeOK, Cancel, Live
  <2> QED BY <1>4, <2>1, <2>2 DEF VersionInv, TypeOK, JobRecord
<1>9. Versioned' /\ NativesDone'
  BY <1>1, <1>3, <1>4, <1>6 DEF VersionInv, JobsInv, Versioned, NativesDone
<1>10. Strays'
  BY <1>1, <1>3, <1>5 DEF VersionInv, JobsInv, Strays
<1>11. NotYet'
  <2> SUFFICES ASSUME NEW d \in Downloads, d.by \in Jobs, dl'[d] # "idle"
               PROVE d.phase \notin Pending(job'[d.by].at)
    BY DEF NotYet, Pending
  <2>1. CASE d.by = j
    BY <1>1, <1>3, <1>7, <2>1
  <2>2. CASE d.by # j
    BY <1>3, <1>5, <2>2 DEF VersionInv, JobsInv, NotYet
  <2> QED BY <2>1, <2>2
<1>12. Awaited'
  <2> SUFFICES ASSUME NEW i \in Jobs, job'[i].at \in Phases,
                      NEW d \in DownloadsOf(i, job'[i].version, job'[i].at)
               PROVE dl'[d] # "idle"
    BY DEF Awaited, DownloadsOf
  <2>1. i # j /\ job'[i] = job[i]
    BY <1>1, <1>3, <1>7
  <2>2. job[i].version \in Manifest
    BY <2>1 DEF VersionInv, JobsInv, Versioned, Phases
  <2>3. d \in Downloads /\ d.by # j
    BY <2>1, <2>2, OfItsJob
  <2> QED BY <1>5, <2>1, <2>3 DEF VersionInv, JobsInv, Awaited
<1>13. EndedWell'
  BY <1>4, <1>5 DEF VersionInv, DiskInv, EndedWell, There
<1>14. Present'
  <2> SUFFICES ASSUME NEW i \in Jobs, job'[i].at \in Phases \cup {"done"}, NEW p \in Passed(job'[i].at),
                      NEW d \in DownloadsOf(i, job'[i].version, p)
               PROVE There(d.file)
    BY <1>4 DEF Present, There, Passed, Pending, DownloadsOf
  <2>1. job'[i] = job[i]
    BY <1>1, <1>3, <1>7
  <2> QED BY <2>1 DEF VersionInv, DiskInv, Present
<1>15. \A d \in Downloads : /\ dl[d] = "write" => dl'[d] \in {"write", "stray"}
                            /\ dl'[d] \in {"write", "rename"} => dl'[d] = dl[d]
  BY DEF Cancel, VersionInv, TypeOK
<1>16. \A d \in Downloads : dl[d] = "stray" => dl'[d] = "stray"
  <2> SUFFICES ASSUME NEW d \in Downloads, dl[d] = "stray" PROVE dl'[d] = "stray"
    OBVIOUS
  <2>1. d.by # j
    BY <1>6 DEF VersionInv, JobsInv, Strays
  <2> QED BY <1>5, <2>1
<1>17. \A d \in Downloads : /\ dl[d] \in {"write", "stray"} => dl'[d] \in {"write", "stray"}
                            /\ dl'[d] \in {"write", "rename"} => dl'[d] = dl[d]
                            /\ dl'[d] = "stray" => dl[d] \in {"write", "stray"}
  BY <1>5, <1>15, <1>16
<1>18. WritersInv'
  BY <1>4, <1>17, SameWriters DEF VersionInv, DiskInv
<1> QED BY <1>8, <1>9, <1>10, <1>11, <1>12, <1>13, <1>14, <1>18 DEF VersionInv, JobsInv, DiskInv

LEMMA CrashKeeps == ASSUME VersionInv, Crash PROVE VersionInv'
<1>1. \A j \in Jobs : IF job[j].at \in Phases
                      THEN /\ job'[j] \in JobRecord /\ job'[j].at = "cancelled"
                           /\ job'[j].version = job[j].version
                      ELSE job'[j] = job[j]
  BY AtTyped DEF VersionInv, Crash
<1>2. \A d \in Downloads : /\ dl'[d] = dl[d] \/ dl'[d] = "idle"
                           /\ dl'[d] \notin {"write", "rename", "stray"}
  BY DEF Crash, Live
<1>3. UNCHANGED <<disk, tmp>> /\ mishaps' \in 0..MaxMishaps
      /\ \A f \in AllFiles : Writing(f) \/ f \in cut => f \in cut'
  BY Inputs DEF Crash, Mishap, VersionInv, TypeOK
<1>4. \A j \in Jobs : natives[j] # "partial" => natives'[j] = natives[j]
  BY DEF Crash
<1>5. "cancelled" \notin Phases /\ Pending("cancelled") = {}
  BY DEF Phases, Pending
<1>6. TypeOK'
  <2>1. job' \in [Jobs -> JobRecord]
    <3>1. \A j \in Jobs : job'[j] \in JobRecord
      BY <1>1 DEF VersionInv, TypeOK, JobRecord
    <3>2. job' = [j \in Jobs |-> job'[j]]
      BY DEF Crash
    <3> QED BY <3>1, <3>2
  <2>2. dl' \in [Downloads -> Live \cup Ended \cup {"idle"}]
    BY DEF VersionInv, TypeOK, Crash
  <2>3. launch' \in [Launches -> LaunchRecord]
    <3>1. \A l \in Launches : launch[l] \in LaunchRecord
      BY DEF VersionInv, TypeOK, LaunchRecord
    <3>2. \A l \in Launches : [launch[l] EXCEPT !.at = "failed"] \in LaunchRecord
      BY <3>1 DEF LaunchRecord
    <3> QED BY <3>1, <3>2 DEF Crash
  <2>4. natives' \in [Jobs -> {"none", "partial", "torn", "whole"}]
    BY DEF VersionInv, TypeOK, Crash
  <2>5. /\ fd' \in [Downloads -> AllFiles \cup TmpNames \cup {None, Nowhere}] /\ cut' \subseteq AllFiles
        /\ shorn' \subseteq Downloads /\ crossed' \subseteq TmpNames
    BY DEF VersionInv, TypeOK, Crash
  <2> QED BY <1>3, <2>1, <2>2, <2>3, <2>4, <2>5 DEF VersionInv, TypeOK, JobRecord, LaunchRecord
<1>7. Versioned'
  BY <1>1 DEF VersionInv, JobsInv, Versioned, Phases
<1>8. Strays'
  BY <1>2 DEF Strays
<1>9. NotYet'
  <2> SUFFICES ASSUME NEW d \in Downloads, d.by \in Jobs, dl'[d] # "idle"
               PROVE d.phase \notin Pending(job'[d.by].at)
    BY DEF NotYet, Pending
  <2>1. CASE job[d.by].at \in Phases
    BY <1>1, <1>5, <2>1
  <2>2. CASE job[d.by].at \notin Phases
    BY <1>1, <1>2, <2>2 DEF VersionInv, JobsInv, NotYet
  <2> QED BY <2>1, <2>2
<1>10. Awaited'
  BY <1>1, <1>5 DEF Awaited
<1>11. NativesDone'
  BY <1>1, <1>4 DEF VersionInv, JobsInv, NativesDone
<1>12. EndedWell'
  BY <1>2, <1>3 DEF VersionInv, DiskInv, EndedWell, There
<1>13. Present'
  <2> SUFFICES ASSUME NEW i \in Jobs, job'[i].at \in Phases \cup {"done"}, NEW p \in Passed(job'[i].at),
                      NEW d \in DownloadsOf(i, job'[i].version, p)
               PROVE There(d.file)
    BY <1>3 DEF Present, There, Passed, Pending, DownloadsOf
  <2>1. job'[i] = job[i]
    BY <1>1, <1>5
  <2> QED BY <2>1 DEF VersionInv, DiskInv, Present
<1>14. WritersInv'
  <2>1. \A d \in Downloads : fd'[d] \notin TmpNames \cup AllFiles
    BY NoneIsNoFile DEF Crash
  <2>2. Opened'
    BY <2>1 DEF Opened
  <2>3. OneFile' /\ TmpHolds'
    BY <1>2 DEF OneFile, TmpHolds, Involved
  <2>4. DiskHolds'
    <3>1. crossed' = crossed
      BY DEF Crash
    <3>2. \A f \in AllFiles, w \in Downloads : Completes(w, f) => Writing(f)
      BY DEF Completes, Writing
    <3> QED BY <1>3, <3>1, <3>2 DEF VersionInv, DiskInv, WritersInv, DiskHolds
  <2> QED BY <2>2, <2>3, <2>4 DEF WritersInv
<1> QED BY <1>6, <1>7, <1>8, <1>9, <1>10, <1>11, <1>12, <1>13, <1>14 DEF VersionInv, JobsInv, DiskInv

\* A launch changes nothing but itself and its one download, which no install has made.
LEMMA LaunchKeeps ==
  ASSUME VersionInv, NEW l \in Launches, NEW x \in LaunchRecord,
         launch' = launch \/ launch' = [launch EXCEPT ![l] = x],
         \/ dl' = dl
         \/ dl[Migration(l)] = "idle" /\ dl' = [dl EXCEPT ![Migration(l)] = "asked"],
         UNCHANGED <<disk, tmp, job, natives, fd, shorn, cut, crossed, mishaps>>
  PROVE  VersionInv'
<1>1. Migration(l) \in Downloads /\ Migration(l).by \notin Jobs
  BY Inputs DEF Downloads, Migration
<1>2. \A d \in Downloads : dl'[d] = dl[d] \/ (d.by \notin Jobs /\ dl[d] = "idle" /\ dl'[d] = "asked")
  BY <1>1 DEF VersionInv, TypeOK
<1>3. TypeOK'
  <2>1. launch' \in [Launches -> LaunchRecord]
    BY DEF VersionInv, TypeOK, LaunchRecord
  <2>2. dl' \in [Downloads -> Live \cup Ended \cup {"idle"}]
    BY DEF VersionInv, TypeOK, Live
  <2> QED BY <2>1, <2>2 DEF VersionInv, TypeOK, LaunchRecord
<1>4. Versioned' /\ NativesDone' /\ Strays'
  BY <1>2 DEF VersionInv, JobsInv, Versioned, NativesDone, Strays
<1>5. NotYet'
  BY <1>2 DEF VersionInv, JobsInv, NotYet, Pending
<1>6. Awaited'
  <2> SUFFICES ASSUME NEW j \in Jobs, job[j].at \in Phases,
                      NEW d \in DownloadsOf(j, job[j].version, job[j].at)
               PROVE dl'[d] # "idle"
    BY DEF Awaited, DownloadsOf
  <2>1. d \in Downloads
    BY OfItsJob DEF VersionInv, JobsInv, Versioned, Phases
  <2> QED BY <1>2, <2>1 DEF VersionInv, JobsInv, Awaited
<1>7. EndedWell'
  BY <1>2 DEF VersionInv, DiskInv, EndedWell, There
<1>8. Present'
  BY DEF VersionInv, DiskInv, Present, There, Passed, Pending, DownloadsOf
<1>9. \A d \in Downloads : /\ dl[d] \in {"write", "stray"} => dl'[d] \in {"write", "stray"}
                           /\ dl'[d] \in {"write", "rename"} => dl'[d] = dl[d]
                           /\ dl'[d] = "stray" => dl[d] \in {"write", "stray"}
  BY <1>2
<1>10. WritersInv'
  BY <1>9, SameWriters DEF VersionInv, DiskInv
<1> QED BY <1>3, <1>4, <1>5, <1>6, <1>7, <1>8, <1>10 DEF VersionInv, JobsInv, DiskInv

LEMMA LaunchStepsKeep ==
  ASSUME VersionInv, NEW l \in Launches,
         (\E v \in Manifest \cup {Loader} : StartLaunch(l, v)) \/ Migrate(l) \/ Spawn(l)
  PROVE  VersionInv'
<1>1. launch[l] \in LaunchRecord
  BY DEF VersionInv, TypeOK, LaunchRecord
<1>2. CASE \E v \in Manifest \cup {Loader} : StartLaunch(l, v)
  <2>1. PICK v \in Manifest \cup {Loader} : StartLaunch(l, v)
    BY <1>2
  <2>2. [at |-> "migrate", version |-> v] \in LaunchRecord
    BY DEF LaunchRecord
  <2> QED BY <2>1, <2>2, LaunchKeeps DEF StartLaunch
<1>3. ASSUME NEW at \in {"read", "spawned", "failed"}, Answer(l, at),
             UNCHANGED <<disk, tmp, job, natives, dl, fd, shorn, cut, crossed, mishaps>>
      PROVE VersionInv'
  <2>1. [launch[l] EXCEPT !.at = at] \in LaunchRecord
    BY <1>1 DEF LaunchRecord
  <2> QED BY <1>3, <2>1, LaunchKeeps DEF Answer
<1>4. CASE Migrate(l)
  <2>1. UNCHANGED <<disk, tmp, job, natives, fd, shorn, cut, crossed, mishaps>>
    BY <1>4 DEF Migrate
  <2>2. \/ dl[Migration(l)] = "idle" /\ dl' = [dl EXCEPT ![Migration(l)] = "asked"] /\ UNCHANGED launch
        \/ UNCHANGED dl /\ (Answer(l, "read") \/ Answer(l, "failed"))
    BY <1>4 DEF Migrate
  <2>3. CASE UNCHANGED dl /\ (Answer(l, "read") \/ Answer(l, "failed"))
    BY <1>3, <2>1, <2>3
  <2>4. CASE dl[Migration(l)] = "idle" /\ dl' = [dl EXCEPT ![Migration(l)] = "asked"] /\ UNCHANGED launch
    BY <1>1, <2>1, <2>4, LaunchKeeps
  <2> QED BY <2>2, <2>3, <2>4
<1>5. CASE Spawn(l)
  <2>1. Answer(l, "spawned") \/ Answer(l, "failed")
    BY <1>5 DEF Spawn
  <2> QED BY <1>3, <1>5, <2>1 DEF Spawn
<1> QED BY <1>2, <1>4, <1>5

-----------------------------------------------------------------------------
(* The theorems. *)

LEMMA VersionStart == Init => VersionInv
<1> SUFFICES ASSUME Init PROVE VersionInv
  OBVIOUS
<1>1. PICK who \in Together : /\ job = [j \in Jobs |-> Asked(who, j)]
                              /\ launch = [l \in Launches |-> Asked(who, l)]
  BY DEF Init
<1>2. \A j \in Jobs : job[j] \in JobRecord /\ job[j].at \in {"never", "idle"}
  BY <1>1 DEF Asked, JobRecord
<1>3. \A l \in Launches : launch[l] \in LaunchRecord
  BY <1>1 DEF Asked, LaunchRecord
<1>4. TypeOK
  BY <1>1, <1>2, <1>3, Inputs DEF Init, TypeOK, JobRecord, LaunchRecord, Contents
<1>5. \A j \in Jobs : job[j].at \notin Phases \cup {"done", "virtual"}
  BY <1>2 DEF Phases
<1>6. JobsInv
  BY <1>2, <1>5 DEF Init, JobsInv, Versioned, Strays, NotYet, Awaited, NativesDone
<1>7. WritersInv
  <2>1. \A d \in Downloads : fd[d] \notin TmpNames \cup AllFiles /\ ~Involved(d)
    BY NoneIsNoFile DEF Init, Involved
  <2>2. \A f \in AllFiles : disk[f] \in {"none", "flat"}
    BY DEF Init
  <2> QED BY <2>1, <2>2 DEF WritersInv, Opened, OneFile, TmpHolds, DiskHolds
<1>8. DiskInv
  BY <1>5, <1>7 DEF Init, DiskInv, EndedWell, Present
<1> QED BY <1>4, <1>6, <1>8 DEF VersionInv

LEMMA VersionStep == VersionInv /\ [Next]_vars => VersionInv'
<1> SUFFICES ASSUME VersionInv, [Next]_vars PROVE VersionInv'
  OBVIOUS
<1>1. CASE UNCHANGED vars
  <2>1. TypeOK'
    BY <1>1 DEF vars, VersionInv, TypeOK
  <2>2. JobsInv'
    BY <1>1 DEF vars, VersionInv, JobsInv, Versioned, Strays, NotYet, Awaited, NativesDone, Pending, DownloadsOf
  <2>3. DiskInv'
    <3>1. EndedWell' /\ Present'
      BY <1>1 DEF vars, VersionInv, DiskInv, EndedWell, Present, There, Passed, Pending, DownloadsOf
    <3>2. WritersInv'
      BY <1>1, SameWriters DEF vars, VersionInv, DiskInv
    <3> QED BY <3>1, <3>2 DEF DiskInv
  <2> QED BY <2>1, <2>2, <2>3 DEF VersionInv
<1>2. ASSUME NEW d \in Downloads, DownloadStep(d) PROVE VersionInv'
  BY <1>2, DownloadTyped, DownloadKeepsJobs, DownloadKeepsPresent, DownloadKeepsWriters
  DEF VersionInv, DiskInv
<1>3. ASSUME NEW j \in Jobs, JobStep(j) PROVE VersionInv'
  <2>1. mishaps \in 0..MaxMishaps
    BY DEF VersionInv, TypeOK
  <2>2. CASE PhaseFailed(j) \/ Unusable(j) \/ ExtractFails(j)
    <3>1. job[j].at \in Phases /\ MoveTo(j, "failed")
          /\ UNCHANGED <<disk, tmp, natives, dl, fd, shorn, launch, cut, crossed, mishaps>>
      BY <2>2 DEF PhaseFailed, Unusable, ExtractFails, Phases
    <3> QED BY <2>1, <3>1, EndsBadly
  <2> QED BY <1>3, <2>2, PhaseDoneKeeps, LastPhasesKeep DEF JobStep
<1>4. ASSUME NEW j \in Jobs, (\E v \in Manifest : Start(j, v)) \/ BadHash(j) \/ Cancel(j) PROVE VersionInv'
  BY <1>4, StartKeeps, BadHashKeeps, CancelKeeps
<1> QED BY <1>1, <1>2, <1>3, <1>4, CrashKeeps, LaunchStepsKeep DEF Next, Going

(* The variables keep their types (install/version_installer.rs, launcher/service.rs). *)
THEOREM VersionTypeCorrect == Spec => []TypeOK
BY VersionStart, VersionStep, PTL DEF Spec, VersionInv

(* Under its final name stands the whole of a file and no other's bytes, but while a
   second writer of its temporary name writes, where one died, or where a version's
   JSON and its jar were written at once (atomic_write, mojang/cache.rs). *)
THEOREM TornByTwoWritersOnly == Spec => []TornOnlyByWriters
<1>1. VersionInv => TornOnlyByWriters
  <2>1. \A f \in AllFiles, w \in Downloads : Completes(w, f) => Writing(f)
    BY DEF Completes, Writing
  <2> QED BY <2>1 DEF VersionInv, DiskInv, WritersInv, DiskHolds, TornOnlyByWriters, Whole
<1> QED BY <1>1, VersionStart, VersionStep, PTL DEF Spec

(* An install that ended well has all its files, whatever other installs, cancels and
   crashes follow (install_version, install/version_installer.rs). *)
THEOREM InstalledIsWhole == Spec => []InstalledHasItsFiles
<1>1. VersionInv => InstalledHasItsFiles
  <2> SUFFICES ASSUME VersionInv, NEW j \in Jobs, job[j].at = "done"
               PROVE /\ natives[j] = "whole"
                     /\ \A p \in Phases : \A f \in ToSet(FilesOf[job[j].version][p]) : disk[f] # "none"
    BY DEF InstalledHasItsFiles
  <2>1. natives[j] = "whole"
    BY DEF VersionInv, JobsInv, NativesDone
  <2>2. Passed("done") = Phases
    BY DEF Passed, Pending, Phases
  <2>3. ASSUME NEW p \in Phases, NEW n \in DOMAIN FilesOf[job[j].version][p]
        PROVE disk[FilesOf[job[j].version][p][n]] # "none"
    <3> DEFINE d == [by |-> j, phase |-> p, n |-> n, file |-> FilesOf[job[j].version][p][n]]
    <3>1. d \in DownloadsOf(j, job[j].version, p)
      BY DEF DownloadsOf
    <3> QED BY <2>2, <3>1 DEF VersionInv, DiskInv, Present, There
  <2>4. \A s : \A f \in ToSet(s) : \E n \in DOMAIN s : f = s[n]
    BY DEF ToSet
  <2> QED BY <2>1, <2>3, <2>4
<1> QED BY <1>1, VersionStart, VersionStep, PTL DEF Spec

(* JavaInstall. *)

\* Who is in a runtime's temporary directory is there alone, unless it is overlapped,
OneBusy ==
  \A r \in Managed \ overlapped : \A u, w \in Busy(r) : u = w
\* and finds there what it has put there; what another one left there does no harm.
FindsItsFiles ==
  \A r \in Managed \ overlapped : \A u \in Uses :
    use[u].at = "unpack" /\ use[u].runtime = r =>
      /\ extracted[r] # Nil
      /\ \A f \in wrote[u] : extracted[r][f] = "whole"
      /\ r.source = "adoptium" => \A f \in begun[u] \ wrote[u] : extracted[r][f] = u
\* Who has not come to unpack has opened nothing.
Fresh ==
  \A u \in Uses :
    /\ wrote[u] \subseteq begun[u]
    /\ use[u].at \in {"idle", "index", "fetch", "clear"} => begun[u] = {}
\* What is downloaded is managed, and what is chosen new enough for who did not choose
\* a managed one.
Chosen ==
  \A u \in Uses :
    /\ use[u].at \in {"index", "fetch", "clear", "unpack", "orphan", "sweep"} => use[u].runtime \in Managed
    /\ begun[u] # {} => use[u].runtime \in Managed
    /\ use[u].at \notin {"idle", "failed"} =>
         /\ use[u].runtime \in Managed \cup Installed /\ use[u].want \in Majors
         /\ use[u].override \notin Managed => use[u].runtime.major >= use[u].want
\* A game that runs was given a runtime that is there.
Given ==
  \A u \in Uses : use[u].at = "spawned" /\ use[u].runtime \in Managed => HasExe(use[u].runtime)

JavaInv ==
  JavaTypeOK /\ OneBusy /\ FindsItsFiles /\ Fresh /\ Chosen /\ Given /\ WholeUnlessOverlapped

LEMMA RuntimesTyped ==
  /\ \A r \in Managed \cup Installed : r.major \in Majors /\ r.source \in {"mojang", "adoptium", "system"}
  /\ \A r \in Managed : r.source # "system"
  /\ \A r \in Installed : r.source = "system"
  /\ \A s \in {"mojang", "adoptium"}, m \in Majors : Runtime(s, m) \in Managed
  /\ \A s \in {"mojang", "adoptium"}, m \in Majors : Runtime(s, m).major = m /\ Runtime(s, m).source = s
<1>1. \A s, m : Runtime(s, m).major = m /\ Runtime(s, m).source = s
  BY DEF Runtime
<1>2. \A r \in Managed : \E s \in {"mojang", "adoptium"}, m \in Majors : r = Runtime(s, m)
  BY DEF Managed
<1>3. \A r \in Installed : \E m \in Majors : r = Runtime("system", m)
  BY DEF Installed
<1>4. \A s \in {"mojang", "adoptium"}, m \in Majors : Runtime(s, m) \in Managed
  BY DEF Managed
<1>5. \A r \in Managed : r.major \in Majors /\ r.source \in {"mojang", "adoptium"}
  BY <1>1, <1>2
<1>6. \A r \in Installed : r.major \in Majors /\ r.source = "system"
  BY <1>1, <1>3
<1> QED BY <1>1, <1>4, <1>5, <1>6

\* The files of a runtime, and one of them changed.
LEMMA PutTyped ==
  ASSUME NEW x \in [Files -> States] \cup {Nil}, NEW f \in Files, NEW c \in States
  PROVE  /\ Put(x, f, c) \in [Files -> States] /\ Put(x, f, c) # Nil
         /\ Put(x, f, c)[f] = c
         /\ x # Nil => \A g \in Files \ {f} : Put(x, f, c)[g] = x[g]
<1>1. Nothing \in [Files -> States]
  BY DEF Nothing, States
<1>2. PICK y \in [Files -> States] : y = (IF x = Nil THEN Nothing ELSE x)
  BY <1>1
<1>3. Put(x, f, c) = [y EXCEPT ![f] = c]
  BY <1>2 DEF Put
<1>4. Put(x, f, c) # Nil
  BY <1>3, NilIsNothing
<1> QED BY <1>2, <1>3, <1>4

\* A step of one use that unpacks nothing.
LEMMA Proceeds ==
  ASSUME JavaInv, NEW u \in Uses, NEW x \in Use, use' = [use EXCEPT ![u] = x],
         UNCHANGED <<dir, wrote>>, javaMishaps' \in 0..MaxJavaMishaps,
         begun' = begun \/ begun' = [begun EXCEPT ![u] = wrote[u]],
         overlapped \subseteq overlapped', overlapped' \subseteq Managed,
         x.at # "unpack",
         extracted' = extracted \/ /\ use[u].at = "sweep" /\ use[u].runtime \in Managed
                                   /\ extracted' = [extracted EXCEPT ![use[u].runtime] = Nil],
         x.at \in {"clear", "orphan", "sweep"} =>
           \/ u \in Busy(x.runtime) \/ Busy(x.runtime) = {} \/ x.runtime \in overlapped',
         x.runtime = use[u].runtime \/ begun[u] = {},
         x.at \in {"idle", "index", "fetch", "clear"} => begun[u] = {},
         x.at \in {"index", "fetch", "clear", "unpack", "orphan", "sweep"} => x.runtime \in Managed,
         x.at \notin {"idle", "failed"} =>
           /\ x.runtime \in Managed \cup Installed /\ x.want \in Majors
           /\ x.override \notin Managed => x.runtime.major >= x.want,
         x.at = "spawned" /\ x.runtime \in Managed => HasExe(x.runtime)
  PROVE JavaInv'
<1>1. use'[u] = x /\ \A w \in Uses \ {u} : use'[w] = use[w] /\ begun'[w] = begun[w]
  BY DEF JavaInv, JavaTypeOK
<1>2. (begun'[u] = begun[u] \/ begun'[u] = wrote[u]) /\ wrote[u] \subseteq begun[u]
  BY DEF JavaInv, JavaTypeOK, Fresh
<1>3. JavaTypeOK'
  <2>1. use' \in [Uses -> Use]
    BY DEF JavaInv, JavaTypeOK
  <2>2. extracted' \in [Managed -> [Files -> States] \cup {Nil}]
    <3>1. CASE extracted' = extracted
      BY <3>1 DEF JavaInv, JavaTypeOK
    <3>2. CASE extracted' = [extracted EXCEPT ![use[u].runtime] = Nil]
      BY <3>2 DEF JavaInv, JavaTypeOK
    <3> QED BY <3>1, <3>2
  <2>3. begun' \in [Uses -> SUBSET Files]
    BY DEF JavaInv, JavaTypeOK
  <2> QED BY <2>1, <2>2, <2>3 DEF JavaInv, JavaTypeOK
<1>4. OneBusy'
  <2> SUFFICES ASSUME NEW r \in Managed \ overlapped', NEW v \in Busy(r)', NEW w \in Busy(r)'
               PROVE v = w
    BY DEF OneBusy, Busy
  <2>1. r \notin overlapped
    OBVIOUS
  <2>2. \A y \in Uses \ {u} : y \in Busy(r)' <=> y \in Busy(r)
    BY <1>1 DEF Busy
  <2>3. u \in Busy(r)' => u \in Busy(r) \/ Busy(r) = {}
    <3>1. CASE begun'[u] # wrote[u] /\ x.runtime = r
      <4>1. begun[u] # wrote[u] /\ use[u].runtime = r
        BY <1>2, <3>1
      <4> QED BY <4>1 DEF Busy
    <3>2. CASE x.at \in {"clear", "orphan", "sweep"} /\ x.runtime = r
      BY <3>2
    <3> QED BY <1>1, <3>1, <3>2 DEF Busy
  <2>4. v \in Uses /\ w \in Uses
    BY DEF Busy
  <2> QED BY <2>1, <2>2, <2>3, <2>4 DEF JavaInv, OneBusy
<1>5. FindsItsFiles'
  <2> SUFFICES ASSUME NEW r \in Managed \ overlapped', NEW w \in Uses,
                      use'[w].at = "unpack", use'[w].runtime = r
               PROVE /\ extracted'[r] # Nil
                     /\ \A f \in wrote[w] : extracted'[r][f] = "whole"
                     /\ r.source = "adoptium" => \A f \in begun'[w] \ wrote[w] : extracted'[r][f] = w
    BY DEF FindsItsFiles
  <2>1. w # u /\ use'[w] = use[w] /\ begun'[w] = begun[w] /\ r \notin overlapped
    BY <1>1
  <2>2. /\ extracted[r] # Nil
        /\ \A f \in wrote[w] : extracted[r][f] = "whole"
        /\ r.source = "adoptium" => \A f \in begun[w] \ wrote[w] : extracted[r][f] = w
    BY <2>1 DEF JavaInv, FindsItsFiles
  <2>3. extracted'[r] = extracted[r]
    <3>1. CASE extracted' = extracted
      BY <3>1
    <3>2. CASE /\ use[u].at = "sweep" /\ use[u].runtime \in Managed
               /\ extracted' = [extracted EXCEPT ![use[u].runtime] = Nil]
      <4>1. w \in Busy(r)
        BY <2>1 DEF Busy
      <4>2. use[u].runtime = r => u \in Busy(r)
        BY <3>2 DEF Busy
      <4>3. use[u].runtime # r
        BY <2>1, <4>1, <4>2 DEF JavaInv, OneBusy
      <4> QED BY <3>2, <4>3 DEF JavaInv, JavaTypeOK
    <3> QED BY <3>1, <3>2
  <2> QED BY <2>1, <2>2, <2>3
<1>6. Fresh'
  <2> SUFFICES ASSUME NEW w \in Uses
               PROVE /\ wrote[w] \subseteq begun'[w]
                     /\ use'[w].at \in {"idle", "index", "fetch", "clear"} => begun'[w] = {}
    BY DEF Fresh
  <2> QED BY <1>1, <1>2 DEF JavaInv, Fresh
<1>7. Chosen'
  <2> SUFFICES ASSUME NEW w \in Uses
               PROVE /\ use'[w].at \in {"index", "fetch", "clear", "unpack", "orphan", "sweep"} =>
                          use'[w].runtime \in Managed
                     /\ begun'[w] # {} => use'[w].runtime \in Managed
                     /\ use'[w].at \notin {"idle", "failed"} =>
                          /\ use'[w].runtime \in Managed \cup Installed /\ use'[w].want \in Majors
                          /\ use'[w].override \notin Managed => use'[w].runtime.major >= use'[w].want
    BY DEF Chosen
  <2>1. CASE w = u
    <3>1. begun'[u] # {} => x.runtime \in Managed
      BY <1>2 DEF JavaInv, Chosen
    <3> QED BY <1>1, <2>1, <3>1
  <2>2. CASE w # u
    BY <1>1, <2>2 DEF JavaInv, Chosen
  <2> QED BY <2>1, <2>2
<1>8. Given'
  BY <1>1 DEF JavaInv, Given, HasExe
<1>9. WholeUnlessOverlapped'
  BY DEF JavaInv, WholeUnlessOverlapped
<1> QED BY <1>3, <1>4, <1>5, <1>6, <1>7, <1>8, <1>9 DEF JavaInv

\* Where a request begins is where the rules say.
LEMMA RouteRight ==
  ASSUME JavaInv, NEW want \in Majors, NEW o \in Managed \cup Installed \cup {Nil}
  PROVE /\ Route(want, o) \in Use
        /\ Route(want, o).at \in {"answered", "failed", "index", "fetch"}
        /\ Route(want, o).at \in {"index", "fetch"} => Route(want, o).runtime \in Managed
        /\ Route(want, o).at # "failed" =>
             /\ Route(want, o).runtime \in Managed \cup Installed /\ Route(want, o).want \in Majors
             /\ Route(want, o).override \notin Managed =>
                  Route(want, o).runtime.major >= Route(want, o).want
<1> DEFINE auto == Runtime(IF Known THEN "mojang" ELSE "adoptium", want)
           r == IF o = Nil THEN auto ELSE o
           at == IF r.source = "system"
                 THEN IF Suitable(r.major, want) THEN "answered" ELSE "failed"
                 ELSE IF r.source = "mojang" /\ ~Known THEN "failed"
                 ELSE IF HasExe(r) THEN "answered"
                 ELSE IF r.source = "mojang" THEN "index" ELSE "fetch"
<1>1. auto \in Managed /\ auto.major = want
  BY RuntimesTyped, JavaInputs
<1>2. r \in Managed \cup Installed /\ (o = Nil => r = auto) /\ (o # Nil => r = o)
  BY <1>1
<1>3. Route(want, o) = [at |-> at, want |-> want, override |-> o, runtime |-> r]
  BY DEF Route
<1>4. at \in {"answered", "failed", "index", "fetch"} /\ (at \in {"index", "fetch"} => r \in Managed)
  BY <1>2, RuntimesTyped
<1>5. at # "failed" /\ o \notin Managed => r.major >= want
  <2>1. CASE o = Nil
    BY <1>1, <1>2, <2>1, JavaInputs
  <2>2. CASE o \in Installed
    BY <1>2, <2>2, RuntimesTyped, NilIsNothing, JavaInputs DEF Suitable
  <2> QED BY <2>1, <2>2
<1> HIDE DEF r, at
<1> QED BY <1>2, <1>3, <1>4, <1>5 DEF Use

LEMMA AskKeeps ==
  ASSUME JavaInv, NEW u \in Uses, NEW want \in Majors, NEW o \in Managed \cup Installed \cup {Nil},
         Ask(u, want, o) \/ AskForGone(u, want, o)
  PROVE JavaInv'
<1>1. PICK x : x = Route(want, o)
  OBVIOUS
<1>2. /\ x \in Use /\ x.at \in {"answered", "failed", "index", "fetch"}
      /\ x.at \in {"index", "fetch"} => x.runtime \in Managed
      /\ x.at # "failed" => /\ x.runtime \in Managed \cup Installed /\ x.want \in Majors
                            /\ x.override \notin Managed => x.runtime.major >= x.want
  BY <1>1, RouteRight
<1>3. /\ UNCHANGED <<dir, extracted, begun, wrote, overlapped, javaMishaps>> /\ javaMishaps \in 0..MaxJavaMishaps
      /\ begun[u] = {} /\ overlapped \subseteq Managed
  BY DEF Ask, AskForGone, JavaInv, JavaTypeOK, Fresh
<1>4. CASE Ask(u, want, o)
  <2>1. use' = [use EXCEPT ![u] = x]
    BY <1>1, <1>4 DEF Ask
  <2> QED BY <1>2, <1>3, <2>1, Proceeds
<1>5. CASE AskForGone(u, want, o)
  <2>1. use' = [use EXCEPT ![u] = [x EXCEPT !.at = "failed"]]
    BY <1>1, <1>5 DEF AskForGone
  <2>2. [x EXCEPT !.at = "failed"] \in Use /\ [x EXCEPT !.at = "failed"].at = "failed"
    BY <1>2 DEF Use
  <2> QED BY <1>3, <2>1, <2>2, Proceeds
<1> QED BY <1>4, <1>5

\* The steps that change only how far a use is.
LEMMA ToKeeps ==
  ASSUME JavaInv, NEW u \in Uses,
         NEW at \in {"index", "fetch", "clear", "orphan", "sweep", "answered", "spawned", "failed"},
         To(u, at), UNCHANGED <<dir, wrote>>, javaMishaps' \in 0..MaxJavaMishaps,
         begun' = begun \/ begun' = [begun EXCEPT ![u] = wrote[u]],
         overlapped \subseteq overlapped', overlapped' \subseteq Managed,
         extracted' = extracted \/ /\ use[u].at = "sweep"
                                   /\ extracted' = [extracted EXCEPT ![use[u].runtime] = Nil],
         at \in {"clear", "orphan", "sweep"} =>
           \/ use[u].at \in {"clear", "unpack"} \/ Busy(use[u].runtime) = {}
           \/ use[u].runtime \in overlapped',
         at \in {"index", "fetch", "clear"} => use[u].at \in {"index", "fetch", "clear"},
         at # "failed" => use[u].at \notin {"idle", "failed"},
         at \in {"index", "fetch", "clear", "orphan", "sweep"} => use[u].runtime \in Managed,
         at = "spawned" => use[u].runtime \in Installed \/ HasExe(use[u].runtime)
  PROVE JavaInv'
<1> DEFINE x == [use[u] EXCEPT !.at = at]
<1>0. use[u] \in Use
  BY DEF JavaInv, JavaTypeOK
<1>1. /\ x \in Use /\ x.at = at /\ x.want = use[u].want /\ x.override = use[u].override
      /\ x.runtime = use[u].runtime
  BY <1>0 DEF Use
<1>2. use' = [use EXCEPT ![u] = x]
  BY DEF To
<1> HIDE DEF x
<1>3. \A r \in Installed : r \notin Managed
  BY RuntimesTyped
<1>4. use[u].at = "sweep" => use[u].runtime \in Managed
  BY DEF JavaInv, Chosen
<1>5. x.at \notin {"idle", "failed"} =>
        /\ x.runtime \in Managed \cup Installed /\ x.want \in Majors
        /\ x.override \notin Managed => x.runtime.major >= x.want
  BY <1>1 DEF JavaInv, Chosen
<1>6. x.at = "spawned" /\ x.runtime \in Managed => HasExe(x.runtime)
  BY <1>1, <1>3
<1>7. x.at \in {"clear", "orphan", "sweep"} =>
        \/ u \in Busy(x.runtime) \/ Busy(x.runtime) = {} \/ x.runtime \in overlapped'
  BY <1>1 DEF Busy
<1>8. x.at \in {"idle", "index", "fetch", "clear"} => begun[u] = {}
  BY <1>1 DEF JavaInv, Fresh
<1> QED BY <1>1, <1>2, <1>4, <1>5, <1>6, <1>7, <1>8, Proceeds

LEMMA IndexKeeps ==
  ASSUME JavaInv, NEW u \in Uses, Index(u)
  PROVE JavaInv'
<1> DEFINE r == use[u].runtime
           a == Runtime("adoptium", r.major)
<1>1. use[u].at = "index" /\ UNCHANGED <<dir, extracted, begun, wrote, overlapped, javaMishaps>>
      /\ javaMishaps \in 0..MaxJavaMishaps /\ overlapped \subseteq Managed
  BY DEF Index, JavaInv, JavaTypeOK
<1>2. /\ r \in Managed \cup Installed /\ use[u].want \in Majors /\ begun[u] = {}
      /\ use[u].override \notin Managed => r.major >= use[u].want
  BY <1>1 DEF JavaInv, Chosen, Fresh
<1>3. CASE r \in Managed /\ \E at \in {"answered", "fetch", "failed"} : To(u, at)
  <2>1. PICK at \in {"answered", "fetch", "failed"} : To(u, at)
    BY <1>3
  <2> QED BY <1>1, <1>3, <2>1, ToKeeps
<1>4. CASE \E at \in {"answered", "fetch"} : use' = [use EXCEPT ![u].runtime = a, ![u].at = at]
  <2>1. PICK at \in {"answered", "fetch"} : use' = [use EXCEPT ![u].runtime = a, ![u].at = at]
    BY <1>4
  <2>2. a \in Managed /\ a.major = r.major
    BY <1>2, RuntimesTyped
  <2>3. use[u] \in Use
    BY DEF JavaInv, JavaTypeOK
  <2> DEFINE x == [use[u] EXCEPT !.runtime = a, !.at = at]
  <2> HIDE DEF a
  <2>4. x \in Use
    BY <2>2, <2>3 DEF Use
  <2>5. x.runtime = a /\ x.at = at /\ x.want = use[u].want /\ x.override = use[u].override
    BY <2>2, <2>3 DEF Use
  <2>6. use' = [use EXCEPT ![u] = x]
    BY <2>1
  <2> HIDE DEF x
  <2>7. x.at \notin {"spawned", "unpack", "clear", "orphan", "sweep"}
    BY <2>5
  <2> QED BY <1>1, <1>2, <2>2, <2>4, <2>5, <2>6, <2>7, Proceeds
<1>5. r \in Managed
  BY <1>1 DEF JavaInv, Chosen
<1> QED BY <1>3, <1>4, <1>5 DEF Index

\* Who begins to unpack has been in the directory since it began to clear it, and has
\* unpacked nothing yet.
LEMMA ClearKeeps ==
  ASSUME JavaInv, NEW u \in Uses, Clear(u)
  PROVE JavaInv'
<1> DEFINE r == use[u].runtime
           x == [use[u] EXCEPT !.at = "unpack"]
<1>1. /\ use[u] \in Use /\ r \in Managed /\ use[u].want \in Majors /\ use[u].at = "clear"
      /\ use[u].override \notin Managed => r.major >= use[u].want
      /\ begun[u] = {} /\ wrote[u] = {}
  BY DEF Clear, JavaInv, JavaTypeOK, Chosen, Fresh
<1>2. /\ x \in Use /\ x.at = "unpack" /\ x.want = use[u].want /\ x.override = use[u].override
      /\ x.runtime = r
  BY <1>1 DEF Use
<1>3. use' = [use EXCEPT ![u] = x]
  BY DEF Clear, To
<1> HIDE DEF x
<1>4. use'[u] = x /\ \A w \in Uses \ {u} : use'[w] = use[w]
  BY <1>3 DEF JavaInv, JavaTypeOK
<1>5. UNCHANGED <<dir, begun, wrote, overlapped, javaMishaps>>
  BY DEF Clear
<1>6. PICK y \in {Nil, extracted[r]} : extracted' = [extracted EXCEPT ![r] = IF y = Nil THEN Nothing ELSE y]
  BY DEF Clear
<1>7. Nothing \in [Files -> States] /\ Nothing # Nil
  BY NilIsNothing DEF Nothing, States
<1>8. extracted'[r] \in [Files -> States] /\ extracted'[r] # Nil
      /\ \A q \in Managed \ {r} : extracted'[q] = extracted[q]
  BY <1>1, <1>6, <1>7 DEF JavaInv, JavaTypeOK
<1>9. JavaTypeOK'
  <2>1. use' \in [Uses -> Use]
    BY <1>2, <1>3 DEF JavaInv, JavaTypeOK
  <2>2. extracted' \in [Managed -> [Files -> States] \cup {Nil}]
    BY <1>1, <1>6, <1>7 DEF JavaInv, JavaTypeOK
  <2> QED BY <1>5, <2>1, <2>2 DEF JavaInv, JavaTypeOK
<1>10. \A q \in Managed : Busy(q)' = Busy(q)
  <2> SUFFICES ASSUME NEW q \in Managed, NEW w \in Uses PROVE w \in Busy(q)' <=> w \in Busy(q)
    BY DEF Busy
  <2> QED BY <1>1, <1>2, <1>4, <1>5 DEF Busy
<1>11. OneBusy'
  BY <1>5, <1>10 DEF JavaInv, OneBusy
<1>12. FindsItsFiles'
  <2> SUFFICES ASSUME NEW q \in Managed \ overlapped, NEW w \in Uses,
                      use'[w].at = "unpack", use'[w].runtime = q
               PROVE /\ extracted'[q] # Nil
                     /\ \A f \in wrote[w] : extracted'[q][f] = "whole"
                     /\ q.source = "adoptium" => \A f \in begun[w] \ wrote[w] : extracted'[q][f] = w
    BY <1>5 DEF FindsItsFiles
  <2>1. CASE w = u
    BY <1>1, <1>2, <1>4, <1>8, <2>1
  <2>2. CASE w # u
    <3>1. w \in Busy(q) /\ u \in Busy(r)
      BY <1>1, <1>4, <2>2 DEF Busy
    <3>2. q # r
      BY <2>2, <3>1 DEF JavaInv, OneBusy
    <3> QED BY <1>4, <1>8, <2>2, <3>2 DEF JavaInv, FindsItsFiles
  <2> QED BY <2>1, <2>2
<1>13. Chosen' /\ Fresh'
  <2>1. \A w \in Uses : w # u => use'[w] = use[w]
    BY <1>4
  <2> QED BY <1>1, <1>2, <1>4, <1>5, <2>1 DEF JavaInv, Chosen, Fresh
<1>14. Given' /\ WholeUnlessOverlapped'
  BY <1>2, <1>4, <1>5 DEF JavaInv, Given, HasExe, WholeUnlessOverlapped
<1> QED BY <1>9, <1>11, <1>12, <1>13, <1>14 DEF JavaInv

\* Who opens or writes a file is in the directory.
LEMMA WriterIsBusy ==
  ASSUME JavaInv, NEW u \in Uses,
         use[u].at \in {"unpack", "orphan"} \/ begun[u] # wrote[u]
  PROVE  use[u].runtime \in Managed /\ u \in Busy(use[u].runtime)
BY DEF JavaInv, Chosen, Fresh, Busy

LEMMA BeginKeeps ==
  ASSUME JavaInv, NEW u \in Uses, NEW f \in Files, Begin(u, f)
  PROVE JavaInv'
<1>0. PICK r : r = use[u].runtime
  OBVIOUS
<1>1. /\ use[u].at \in {"unpack", "orphan"} /\ r \in Managed /\ u \in Busy(r) /\ f \notin begun[u]
      /\ f \notin wrote[u]
  BY <1>0, WriterIsBusy DEF Begin, JavaInv, Fresh
<1>2. begun' = [begun EXCEPT ![u] = begun[u] \cup {f}] /\ UNCHANGED <<use, dir, wrote, javaMishaps>>
  BY DEF Begin
<1>3. /\ begun'[u] = begun[u] \cup {f} /\ \A w \in Uses \ {u} : begun'[w] = begun[w]
      /\ begun' \in [Uses -> SUBSET Files]
  BY <1>2 DEF JavaInv, JavaTypeOK
<1>4. overlapped \subseteq overlapped' /\ overlapped' \subseteq Managed
  BY <1>0, <1>1 DEF Begin, JavaInv, JavaTypeOK
<1>5. u \in States /\ extracted[r] \in [Files -> States] \cup {Nil}
  BY <1>1 DEF States, JavaInv, JavaTypeOK
<1>6. /\ extracted' \in [Managed -> [Files -> States] \cup {Nil}]
      /\ \A q \in Managed \ {r} : extracted'[q] = extracted[q]
      /\ r.source = "adoptium" => extracted'[r] = Put(extracted[r], f, u)
      /\ r.source # "adoptium" => extracted'[r] = extracted[r]
  <2>1. CASE r.source = "adoptium"
    <3>1. extracted' = [extracted EXCEPT ![r] = Put(extracted[r], f, u)]
      BY <1>0, <2>1 DEF Begin
    <3> QED BY <1>1, <1>5, <2>1, <3>1, PutTyped DEF JavaInv, JavaTypeOK
  <2>2. CASE r.source # "adoptium"
    <3>1. extracted' = extracted
      BY <1>0, <2>2 DEF Begin
    <3> QED BY <2>2, <3>1 DEF JavaInv, JavaTypeOK
  <2> QED BY <2>1, <2>2
<1>7. JavaTypeOK'
  BY <1>2, <1>3, <1>4, <1>6 DEF JavaInv, JavaTypeOK
<1>8. \A q \in Managed : Busy(q)' = Busy(q)
  <2> SUFFICES ASSUME NEW q \in Managed, NEW w \in Uses PROVE w \in Busy(q)' <=> w \in Busy(q)
    BY DEF Busy
  <2>1. CASE w = u
    BY <1>1, <1>2, <2>1 DEF Busy
  <2>2. CASE w # u
    BY <1>2, <1>3, <2>2 DEF Busy
  <2> QED BY <2>1, <2>2
<1>9. OneBusy'
  BY <1>4, <1>8 DEF JavaInv, OneBusy
<1>10. FindsItsFiles'
  <2> SUFFICES ASSUME NEW q \in Managed \ overlapped', NEW w \in Uses,
                      use[w].at = "unpack", use[w].runtime = q
               PROVE /\ extracted'[q] # Nil
                     /\ \A g \in wrote[w] : extracted'[q][g] = "whole"
                     /\ q.source = "adoptium" => \A g \in begun'[w] \ wrote[w] : extracted'[q][g] = w
    BY <1>2 DEF FindsItsFiles
  <2>1. /\ extracted[q] # Nil
        /\ \A g \in wrote[w] : extracted[q][g] = "whole"
        /\ q.source = "adoptium" => \A g \in begun[w] \ wrote[w] : extracted[q][g] = w
    BY <1>4 DEF JavaInv, FindsItsFiles
  <2>2. w \in Busy(q) /\ q \notin overlapped
    BY <1>4 DEF Busy
  <2>3. CASE q # r
    <3>1. w # u
      BY <1>0, <2>3
    <3> QED BY <1>3, <1>6, <2>1, <2>3, <3>1
  <2>4. CASE q = r
    <3>1. w = u
      BY <1>1, <2>2, <2>4 DEF JavaInv, OneBusy
    <3>2. wrote[u] \subseteq Files /\ begun[u] \subseteq Files
      BY DEF JavaInv, JavaTypeOK
    <3>3. CASE r.source = "adoptium"
      <4>1. /\ extracted'[r] # Nil /\ extracted'[r][f] = u
            /\ \A g \in Files \ {f} : extracted'[r][g] = extracted[r][g]
        <5>1. PICK x : x = extracted[r]
          OBVIOUS
        <5>2. x \in [Files -> States] \cup {Nil} /\ x # Nil /\ u \in States
          BY <1>5, <2>1, <2>4, <5>1
        <5>3. /\ Put(x, f, u) # Nil /\ Put(x, f, u)[f] = u
              /\ \A g \in Files \ {f} : Put(x, f, u)[g] = x[g]
          BY <5>2, PutTyped
        <5>4. extracted'[r] = Put(x, f, u)
          BY <1>6, <3>3, <5>1
        <5> QED BY <5>1, <5>3, <5>4
      <4>2. \A g \in wrote[u] : g # f /\ g \in Files
        BY <1>1, <3>2
      <4>3. \A g \in begun'[u] \ wrote[u] : g = f \/ (g \in Files \ {f} /\ g \in begun[u] \ wrote[u])
        BY <1>3, <3>2
      <4> QED BY <2>1, <2>4, <3>1, <4>1, <4>2, <4>3
    <3>4. CASE r.source # "adoptium"
      BY <1>6, <2>1, <2>4, <3>4
    <3> QED BY <3>3, <3>4
  <2> QED BY <2>3, <2>4
<1>11. Fresh' /\ Chosen'
  <2>1. \A w \in Uses : w # u => begun'[w] = begun[w]
    BY <1>3
  <2> QED BY <1>0, <1>1, <1>2, <1>3, <2>1 DEF JavaInv, Fresh, Chosen
<1>12. Given' /\ WholeUnlessOverlapped'
  BY <1>2, <1>4 DEF JavaInv, Given, HasExe, WholeUnlessOverlapped
<1> QED BY <1>7, <1>9, <1>10, <1>11, <1>12 DEF JavaInv

LEMMA EndKeeps ==
  ASSUME JavaInv, NEW u \in Uses, NEW f \in Files, End(u, f)
  PROVE JavaInv'
<1>0. PICK r : r = use[u].runtime
  OBVIOUS
<1>1. r \in Managed /\ u \in Busy(r) /\ f \in begun[u] /\ f \notin wrote[u]
  BY <1>0, WriterIsBusy DEF End
<1>2. wrote' = [wrote EXCEPT ![u] = wrote[u] \cup {f}] /\ UNCHANGED <<use, begun, overlapped, javaMishaps>>
  BY DEF End
<1>3. /\ wrote'[u] = wrote[u] \cup {f} /\ \A w \in Uses \ {u} : wrote'[w] = wrote[w]
      /\ wrote' \in [Uses -> SUBSET Files]
  BY <1>2 DEF JavaInv, JavaTypeOK
<1>4. r.source \in {"adoptium", "mojang"}
  BY <1>0 DEF End
<1>5. dir[r] \in [Files -> States] \cup {Nil} /\ extracted[r] \in [Files -> States] \cup {Nil}
      /\ "whole" \in States
  BY <1>1 DEF JavaInv, JavaTypeOK, States
<1> DEFINE Done(x) == IF x # Nil /\ x[f] = u THEN [x EXCEPT ![f] = "whole"] ELSE x
<1>6. ASSUME NEW x \in [Files -> States] \cup {Nil}
      PROVE /\ Done(x) \in [Files -> States] \cup {Nil}
            /\ x = Nil <=> Done(x) = Nil
            /\ x # Nil => \A g \in Files : Done(x)[g] = x[g] \/ Done(x)[g] = "whole"
            /\ x # Nil /\ x[f] = u => Done(x)[f] = "whole"
  <2>1. CASE x # Nil /\ x[f] = u
    <3>1. Done(x) = [x EXCEPT ![f] = "whole"] /\ [x EXCEPT ![f] = "whole"] \in [Files -> States]
      BY <1>5, <2>1
    <3>2. Done(x) # Nil
      BY <3>1, NilIsNothing
    <3> QED BY <2>1, <3>1, <3>2
  <2>2. CASE ~(x # Nil /\ x[f] = u)
    BY <2>2
  <2> QED BY <2>1, <2>2
<1> HIDE DEF Done
<1>7. /\ dir' \in [Managed -> [Files -> States] \cup {Nil}]
      /\ \A q \in Managed \ {r} : dir'[q] = dir[q]
      /\ dir'[r] = dir[r] \/ dir'[r] = Done(dir[r])
  <2>1. CASE r.source = "adoptium"
    <3>1. dir' = [dir EXCEPT ![r] = Done(dir[r])]
      BY <1>0, <2>1 DEF End, Done
    <3> QED BY <1>1, <1>5, <1>6, <3>1 DEF JavaInv, JavaTypeOK
  <2>2. CASE r.source = "mojang"
    <3>1. dir' = dir
      BY <1>0, <2>2 DEF End
    <3> QED BY <3>1 DEF JavaInv, JavaTypeOK
  <2> QED BY <1>4, <2>1, <2>2
<1>8. /\ extracted' \in [Managed -> [Files -> States] \cup {Nil}]
      /\ \A q \in Managed \ {r} : extracted'[q] = extracted[q]
      /\ r.source = "adoptium" => extracted'[r] = Done(extracted[r])
      /\ r.source = "mojang" /\ use[u].at = "unpack" /\ r \notin overlapped =>
           extracted'[r] = Put(extracted[r], f, "whole")
  <2>1. CASE r.source = "adoptium"
    <3>1. extracted' = [extracted EXCEPT ![r] = Done(extracted[r])]
      BY <1>0, <2>1 DEF End, Done
    <3> QED BY <1>1, <1>5, <1>6, <2>1, <3>1 DEF JavaInv, JavaTypeOK
  <2>2. CASE r.source = "mojang"
    <3>1. \/ \E c \in {"whole"} \cup {w \in Uses : r \in overlapped} :
               extracted' = [extracted EXCEPT ![r] = Put(extracted[r], f, c)]
          \/ use[u].at # "unpack" /\ extracted' = extracted
      BY <1>0, <2>2 DEF End
    <3>2. CASE use[u].at # "unpack" /\ extracted' = extracted
      BY <2>2, <3>2 DEF JavaInv, JavaTypeOK
    <3>3. ASSUME NEW c \in {"whole"} \cup {w \in Uses : r \in overlapped},
                 extracted' = [extracted EXCEPT ![r] = Put(extracted[r], f, c)]
          PROVE /\ extracted' \in [Managed -> [Files -> States] \cup {Nil}]
                /\ \A q \in Managed \ {r} : extracted'[q] = extracted[q]
                /\ r \notin overlapped => extracted'[r] = Put(extracted[r], f, "whole")
      <4>1. c \in States
        BY DEF States
      <4>2. Put(extracted[r], f, c) \in [Files -> States]
        BY <1>5, <4>1, PutTyped
      <4> QED BY <1>1, <3>3, <4>2 DEF JavaInv, JavaTypeOK
    <3> QED BY <2>2, <3>1, <3>2, <3>3
  <2> QED BY <1>4, <2>1, <2>2
<1>9. JavaTypeOK'
  BY <1>2, <1>3, <1>7, <1>8 DEF JavaInv, JavaTypeOK
<1>10. \A q \in Managed : \A w \in Busy(q)' : w \in Busy(q)
  <2> SUFFICES ASSUME NEW q \in Managed, NEW w \in Uses, w \in Busy(q)' PROVE w \in Busy(q)
    BY DEF Busy
  <2>1. CASE w = u
    BY <1>0, <1>1, <1>2, <2>1 DEF Busy
  <2>2. CASE w # u
    BY <1>2, <1>3, <2>2 DEF Busy
  <2> QED BY <2>1, <2>2
<1>11. OneBusy'
  BY <1>2, <1>10 DEF JavaInv, OneBusy
<1>12. FindsItsFiles'
  <2> SUFFICES ASSUME NEW q \in Managed \ overlapped, NEW w \in Uses,
                      use[w].at = "unpack", use[w].runtime = q
               PROVE /\ extracted'[q] # Nil
                     /\ \A g \in wrote'[w] : extracted'[q][g] = "whole"
                     /\ q.source = "adoptium" => \A g \in begun[w] \ wrote'[w] : extracted'[q][g] = w
    BY <1>2 DEF FindsItsFiles
  <2>1. /\ extracted[q] # Nil
        /\ \A g \in wrote[w] : extracted[q][g] = "whole"
        /\ q.source = "adoptium" => \A g \in begun[w] \ wrote[w] : extracted[q][g] = w
    BY DEF JavaInv, FindsItsFiles
  <2>2. w \in Busy(q)
    BY DEF Busy
  <2>3. CASE q # r
    <3>1. w # u
      BY <1>0, <2>3
    <3> QED BY <1>3, <1>8, <2>1, <2>3, <3>1
  <2>4. CASE q = r
    <3>1. w = u
      BY <1>1, <2>2, <2>4 DEF JavaInv, OneBusy
    <3>2. wrote[u] \subseteq Files /\ begun[u] \subseteq Files
      BY DEF JavaInv, JavaTypeOK
    <3>3. CASE r.source = "adoptium"
      <4>1. extracted'[r] = Done(extracted[r]) /\ extracted[r][f] = u
        BY <1>1, <1>8, <2>1, <2>4, <3>1, <3>3
      <4>2. \A g \in Files \ {f} : Done(extracted[r])[g] = extracted[r][g]
        BY <1>5, <2>1, <2>4 DEF Done
      <4> QED BY <1>1, <1>3, <1>5, <1>6, <2>1, <2>4, <3>1, <3>2, <4>1, <4>2
    <3>4. CASE r.source = "mojang"
      <4>1. extracted'[r] = Put(extracted[r], f, "whole")
        BY <1>8, <2>4, <3>1, <3>4
      <4>2. /\ extracted'[r] # Nil /\ extracted'[r][f] = "whole"
            /\ \A g \in Files \ {f} : extracted'[r][g] = extracted[r][g]
        <5>1. PICK x : x = extracted[r]
          OBVIOUS
        <5>2. x \in [Files -> States] \cup {Nil} /\ x # Nil /\ "whole" \in States
          BY <1>5, <2>1, <2>4, <5>1 DEF States
        <5>3. /\ Put(x, f, "whole") # Nil /\ Put(x, f, "whole")[f] = "whole"
              /\ \A g \in Files \ {f} : Put(x, f, "whole")[g] = x[g]
          BY <5>2, PutTyped
        <5> QED BY <4>1, <5>1, <5>3
      <4> QED BY <1>3, <2>1, <2>4, <3>1, <3>2, <3>4, <4>2
    <3> QED BY <1>4, <3>3, <3>4
  <2> QED BY <2>3, <2>4
<1>13. Fresh' /\ Chosen'
  <2>1. \A w \in Uses : w # u => wrote'[w] = wrote[w]
    BY <1>3
  <2>2. wrote'[u] \subseteq begun[u]
    BY <1>1, <1>3 DEF JavaInv, Fresh
  <2> QED BY <1>2, <2>1, <2>2 DEF JavaInv, Fresh, Chosen
<1>14. Given'
  <2> SUFFICES ASSUME NEW w \in Uses, use[w].at = "spawned", use[w].runtime \in Managed
               PROVE dir'[use[w].runtime] # Nil /\ dir'[use[w].runtime][Exe] # "none"
    BY <1>2 DEF Given, HasExe
  <2>1. dir[use[w].runtime] # Nil /\ dir[use[w].runtime][Exe] # "none"
    BY DEF JavaInv, Given, HasExe
  <2> QED BY <1>5, <1>6, <1>7, <2>1, JavaInputs
<1>15. WholeUnlessOverlapped'
  <2> SUFFICES ASSUME NEW q \in Managed \ overlapped PROVE dir'[q] \in {Nil, Complete}
    BY <1>2 DEF WholeUnlessOverlapped
  <2>1. dir[q] \in {Nil, Complete}
    BY DEF JavaInv, WholeUnlessOverlapped
  <2>2. CASE q = r
    <3>1. Done(Nil) = Nil
      BY DEF Done
    <3>2. Done(Complete) = Complete
      BY DEF Done, Complete
    <3> QED BY <1>7, <2>1, <2>2, <3>1, <3>2
  <2>3. CASE q # r
    BY <1>7, <2>1, <2>3
  <2> QED BY <2>2, <2>3
<1> QED BY <1>9, <1>11, <1>12, <1>13, <1>14, <1>15 DEF JavaInv

\* The rename gives the name a directory with every file, for who renames has
\* unpacked them all and has been alone.
LEMMA RenameKeeps ==
  ASSUME JavaInv, NEW u \in Uses, RenameRuntime(u)
  PROVE JavaInv'
<1> DEFINE x == [use[u] EXCEPT !.at = "answered"]
<1>0. PICK r : r = use[u].runtime
  OBVIOUS
<1>1. /\ use[u] \in Use /\ r \in Managed /\ use[u].want \in Majors
      /\ use[u].override \notin Managed => r.major >= use[u].want
      /\ use[u].at = "unpack" /\ wrote[u] = Files
      /\ UNCHANGED <<begun, wrote, overlapped, javaMishaps>>
  BY <1>0 DEF RenameRuntime, Unpacked, JavaInv, JavaTypeOK, Chosen
<1>2. CASE To(u, "sweep") /\ UNCHANGED <<dir, extracted>>
  BY <1>0, <1>1, <1>2, ToKeeps DEF JavaInv, JavaTypeOK
<1>3. CASE /\ extracted[r] # Nil /\ dir[r] \in {Nil, Nothing} /\ To(u, "answered")
           /\ dir' = [dir EXCEPT ![r] = extracted[r]]
           /\ extracted' = [extracted EXCEPT ![r] = Nil]
  <2>1. /\ x \in Use /\ x.at = "answered" /\ x.want = use[u].want
        /\ x.override = use[u].override /\ x.runtime = r
    BY <1>0, <1>1 DEF Use
  <2>2. use' = [use EXCEPT ![u] = x]
    BY <1>3 DEF To
  <2> HIDE DEF x
  <2>3. use'[u] = x /\ \A w \in Uses \ {u} : use'[w] = use[w]
    BY <2>2 DEF JavaInv, JavaTypeOK
  <2>4. /\ \A q \in Managed \ {r} : extracted'[q] = extracted[q] /\ dir'[q] = dir[q]
        /\ dir'[r] = extracted[r]
    BY <1>1, <1>3 DEF JavaInv, JavaTypeOK
  <2>5. JavaTypeOK'
    <3>1. use' \in [Uses -> Use]
      BY <2>1, <2>2 DEF JavaInv, JavaTypeOK
    <3>2. dir' \in [Managed -> [Files -> States] \cup {Nil}]
      BY <1>1, <1>3 DEF JavaInv, JavaTypeOK
    <3>3. extracted' \in [Managed -> [Files -> States] \cup {Nil}]
      BY <1>1, <1>3 DEF JavaInv, JavaTypeOK
    <3> QED BY <1>1, <3>1, <3>2, <3>3 DEF JavaInv, JavaTypeOK
  <2>6. OneBusy'
    <3>1. \A q \in Managed : \A w \in Busy(q)' : w \in Busy(q)
      <4> SUFFICES ASSUME NEW q \in Managed, NEW w \in Uses, w \in Busy(q)' PROVE w \in Busy(q)
        BY DEF Busy
      <4>1. CASE w = u
        BY <1>0, <1>1, <2>1, <2>3, <4>1 DEF Busy
      <4>2. CASE w # u
        BY <1>1, <2>3, <4>2 DEF Busy
      <4> QED BY <4>1, <4>2
    <3> QED BY <1>1, <3>1 DEF JavaInv, OneBusy
  <2>7. FindsItsFiles'
    <3> SUFFICES ASSUME NEW q \in Managed \ overlapped, NEW w \in Uses,
                        use'[w].at = "unpack", use'[w].runtime = q
                 PROVE /\ extracted'[q] # Nil
                       /\ \A f \in wrote[w] : extracted'[q][f] = "whole"
                       /\ q.source = "adoptium" => \A f \in begun[w] \ wrote[w] : extracted'[q][f] = w
      BY <1>1 DEF FindsItsFiles
    <3>1. w # u /\ use'[w] = use[w]
      BY <2>1, <2>3
    <3>2. w \in Busy(q) /\ u \in Busy(r)
      BY <1>0, <1>1, <3>1 DEF Busy
    <3>3. q # r
      BY <3>1, <3>2 DEF JavaInv, OneBusy
    <3> QED BY <2>4, <3>1, <3>3 DEF JavaInv, FindsItsFiles
  <2>8. Fresh' /\ Chosen'
    <3>1. \A w \in Uses : w # u => use'[w] = use[w]
      BY <2>3
    <3> QED BY <1>0, <1>1, <2>1, <2>3, <3>1 DEF JavaInv, Fresh, Chosen
  <2>9. Given'
    <3> SUFFICES ASSUME NEW w \in Uses, use'[w].at = "spawned", use'[w].runtime \in Managed
                 PROVE dir'[use'[w].runtime] # Nil /\ dir'[use'[w].runtime][Exe] # "none"
      BY DEF Given, HasExe
    <3>1. w # u /\ use'[w] = use[w]
      BY <2>1, <2>3
    <3>2. dir[use[w].runtime] # Nil /\ dir[use[w].runtime][Exe] # "none"
      BY <3>1 DEF JavaInv, Given, HasExe
    <3>3. Nothing[Exe] = "none"
      BY JavaInputs DEF Nothing
    <3> QED BY <1>3, <2>4, <3>1, <3>2, <3>3
  <2>10. WholeUnlessOverlapped'
    <3> SUFFICES ASSUME NEW q \in Managed \ overlapped PROVE dir'[q] \in {Nil, Complete}
      BY <1>1 DEF WholeUnlessOverlapped
    <3>1. CASE q = r
      <4>1. \A f \in Files : extracted[r][f] = "whole"
        BY <1>0, <1>1, <3>1 DEF JavaInv, FindsItsFiles
      <4>2. extracted[r] \in [Files -> States]
        BY <1>1, <1>3 DEF JavaInv, JavaTypeOK
      <4>3. extracted[r] = Complete
        BY <4>1, <4>2 DEF Complete
      <4> QED BY <2>4, <3>1, <4>3
    <3>2. CASE q # r
      BY <2>4, <3>2 DEF JavaInv, WholeUnlessOverlapped
    <3> QED BY <3>1, <3>2
  <2> QED BY <2>5, <2>6, <2>7, <2>8, <2>9, <2>10 DEF JavaInv
<1> QED BY <1>0, <1>2, <1>3 DEF RenameRuntime

\* The steps that go on, and those that end a use.
LEMMA OthersKeep ==
  ASSUME JavaInv, NEW u \in Uses,
         Fetched(u) \/ OrphanEnds(u) \/ Swept(u) \/ CheckBinary(u) \/ Fails(u) \/ CancelUse(u)
  PROVE JavaInv'
<1>1. /\ use[u].at \in {"index", "fetch", "clear", "unpack", "orphan", "sweep"} => use[u].runtime \in Managed
      /\ overlapped \subseteq Managed /\ javaMishaps \in 0..MaxJavaMishaps
  BY DEF JavaInv, JavaTypeOK, Chosen
<1>2. CASE Fetched(u)
  <2>1. /\ use[u].at = "fetch" /\ To(u, "clear") /\ UNCHANGED <<dir, extracted, begun, wrote, javaMishaps>>
        /\ overlapped' = overlapped \cup {q \in {use[u].runtime} : Busy(use[u].runtime) # {}}
    BY <1>2 DEF Fetched
  <2>2. /\ overlapped \subseteq overlapped' /\ overlapped' \subseteq Managed
        /\ Busy(use[u].runtime) = {} \/ use[u].runtime \in overlapped'
    BY <1>1, <2>1
  <2> QED BY <1>1, <2>1, <2>2, ToKeeps
<1>3. CASE OrphanEnds(u)
  BY <1>1, <1>3, ToKeeps DEF OrphanEnds
<1>4. CASE Swept(u)
  BY <1>1, <1>4, ToKeeps DEF Swept, Removed
<1>5. CASE CheckBinary(u)
  <2>1. CASE use[u].runtime \in Installed \/ HasExe(use[u].runtime)
    BY <1>1, <1>5, <2>1, ToKeeps DEF CheckBinary
  <2>2. CASE ~(use[u].runtime \in Installed \/ HasExe(use[u].runtime))
    BY <1>1, <1>5, <2>2, ToKeeps DEF CheckBinary
  <2> QED BY <2>1, <2>2
<1>6. javaMishaps < MaxJavaMishaps /\ javaMishaps' = javaMishaps + 1 => javaMishaps' \in 0..MaxJavaMishaps
  BY <1>1, JavaInputs
<1>7. CASE Fails(u)
  <2>1. /\ use[u].at \in {"index", "fetch", "clear", "unpack"} /\ javaMishaps' \in 0..MaxJavaMishaps
        /\ begun' = begun \/ begun' = [begun EXCEPT ![u] = wrote[u]]
        /\ UNCHANGED <<dir, extracted, wrote, overlapped>>
    BY <1>6, <1>7 DEF Fails, JavaMishap
  <2>2. CASE To(u, "failed")
    BY <1>1, <2>1, <2>2, ToKeeps
  <2>3. CASE use[u].at \in {"clear", "unpack"} /\ To(u, "sweep")
    BY <1>1, <2>1, <2>3, ToKeeps
  <2> QED BY <1>7, <2>2, <2>3 DEF Fails
<1>8. CASE CancelUse(u)
  <2>1. /\ use[u].at \in {"index", "fetch", "clear", "unpack"} /\ javaMishaps' \in 0..MaxJavaMishaps
        /\ UNCHANGED <<dir, extracted, begun, wrote, overlapped>>
    BY <1>6, <1>8 DEF CancelUse, JavaMishap
  <2>2. CASE use[u].at = "clear" /\ To(u, "sweep")
    BY <1>1, <2>1, <2>2, ToKeeps
  <2>3. CASE use[u].at = "unpack" /\ To(u, "orphan")
    BY <1>1, <2>1, <2>3, ToKeeps
  <2>4. CASE To(u, "failed")
    BY <1>1, <2>1, <2>4, ToKeeps
  <2> QED BY <1>8, <2>2, <2>3, <2>4 DEF CancelUse
<1> QED BY <1>2, <1>3, <1>4, <1>5, <1>7, <1>8

\* After a crash nobody is unpacking.
LEMMA JavaCrashKeeps == ASSUME JavaInv, JavaCrash PROVE JavaInv'
<1>1. \A u \in Uses : use[u] \in Use /\ [use[u] EXCEPT !.at = "failed"] \in Use
                       /\ [use[u] EXCEPT !.at = "failed"].at = "failed"
                       /\ [use[u] EXCEPT !.at = "failed"].runtime = use[u].runtime
  BY DEF JavaInv, JavaTypeOK, Use
<1>2. \A u \in Uses : /\ use'[u] \in Use /\ use'[u].runtime = use[u].runtime
                       /\ \/ use'[u] = use[u] /\ use[u].at \in {"idle", "spawned"}
                          \/ use'[u].at = "failed"
  BY <1>1 DEF JavaCrash
<1>3. /\ UNCHANGED <<dir, extracted, wrote, overlapped>> /\ javaMishaps' \in 0..MaxJavaMishaps
      /\ begun' = wrote
  BY JavaInputs DEF JavaCrash, JavaMishap, JavaInv, JavaTypeOK
<1>4. use' \in [Uses -> Use]
  <2>1. use' = [u \in Uses |-> use'[u]]
    BY DEF JavaCrash
  <2> QED BY <1>2, <2>1
<1>5. JavaTypeOK'
  BY <1>3, <1>4 DEF JavaInv, JavaTypeOK
<1>6. \A u \in Uses : use'[u].at \notin {"clear", "unpack", "orphan", "sweep", "index", "fetch"}
  BY <1>2
<1>7. OneBusy'
  BY <1>3, <1>6 DEF OneBusy, Busy
<1>8. FindsItsFiles'
  BY <1>6 DEF FindsItsFiles
<1>9. Fresh' /\ Chosen'
  <2>1. \A u \in Uses : wrote[u] \subseteq begun[u] /\ (wrote[u] # {} => begun[u] # {})
    BY DEF JavaInv, Fresh
  <2> QED BY <1>2, <1>3, <2>1 DEF JavaInv, Fresh, Chosen
<1>10. Given' /\ WholeUnlessOverlapped'
  BY <1>2, <1>3 DEF JavaInv, Given, HasExe, WholeUnlessOverlapped
<1> QED BY <1>5, <1>7, <1>8, <1>9, <1>10 DEF JavaInv

LEMMA JavaStart == JavaInit => JavaInv
<1> SUFFICES ASSUME JavaInit PROVE JavaInv
  OBVIOUS
<1>1. \A u \in Uses : use[u].at = "idle" /\ begun[u] = {} /\ wrote[u] = {}
  BY DEF JavaInit
<1>2. JavaTypeOK
  BY JavaInputs DEF JavaInit, JavaTypeOK, Use
<1>3. WholeUnlessOverlapped
  BY DEF JavaInit, WholeUnlessOverlapped
<1> QED BY <1>1, <1>2, <1>3 DEF JavaInv, OneBusy, Busy, FindsItsFiles, Fresh, Chosen, Given

LEMMA JavaStep == JavaInv /\ [JavaNext]_javaVars => JavaInv'
<1> SUFFICES ASSUME JavaInv, [JavaNext]_javaVars PROVE JavaInv'
  OBVIOUS
<1>1. CASE UNCHANGED javaVars
  BY <1>1 DEF javaVars, JavaInv, JavaTypeOK, OneBusy, Busy, FindsItsFiles, Fresh, Chosen, Given, HasExe,
              WholeUnlessOverlapped
<1>2. ASSUME NEW u \in Uses, NEW ask \in Asks, Ask(u, ask[1], ask[2]) \/ AskForGone(u, ask[1], ask[2])
      PROVE JavaInv'
  <2>1. ask[1] \in Majors /\ ask[2] \in Managed \cup Installed \cup {Nil}
    BY AsksForVersions
  <2> QED BY <1>2, <2>1, AskKeeps
<1>3. ASSUME NEW u \in Uses, UseStep(u) \/ Fails(u) \/ CancelUse(u) PROVE JavaInv'
  BY <1>3, IndexKeeps, ClearKeeps, BeginKeeps, EndKeeps, RenameKeeps, OthersKeep DEF UseStep
<1> QED BY <1>1, <1>2, <1>3, JavaCrashKeeps DEF JavaNext

(* The variables keep their types (java/service.rs, mojang_jre.rs, adoptium.rs). *)
THEOREM JavaTypeCorrect == JavaSpec => []JavaTypeOK
BY JavaStart, JavaStep, PTL DEF JavaSpec, JavaInv

(* A runtime under its final name is complete, whatever failed, was cancelled or died
   (the rename at the end of install_mojang_variant and install_adoptium), unless two
   writers met in its temporary directory, the orphans of cancelled launches counted. *)
THEOREM RuntimesWhole == JavaSpec => []WholeUnlessOverlapped
BY JavaStart, JavaStep, PTL DEF JavaSpec, JavaInv

(* A game is started with a runtime that is complete and new enough for its version,
   but for an override that names a managed one (resolve_java, java/service.rs). *)
THEOREM GamesHaveTheirJava == JavaSpec => []StartsWithItsJava
<1>1. JavaInv => StartsWithItsJava
  <2> SUFFICES ASSUME JavaInv, NEW u \in Uses, use[u].at = "spawned"
               PROVE /\ use[u].runtime \in Managed \ overlapped => dir[use[u].runtime] = Complete
                     /\ use[u].override \notin Managed => use[u].runtime.major >= use[u].want
    BY DEF StartsWithItsJava
  <2>1. use[u].runtime \in Managed \ overlapped => dir[use[u].runtime] = Complete
    BY DEF JavaInv, Given, HasExe, WholeUnlessOverlapped
  <2> QED BY <2>1 DEF JavaInv, Chosen
<1> QED BY <1>1, JavaStart, JavaStep, PTL DEF JavaSpec
===============================================================================
