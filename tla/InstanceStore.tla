----------------------------- MODULE InstanceStore -----------------------------
(***************************************************************************)
(* The directories of the instances and their manifests, instance.json     *)
(* (instance/store.rs, services/instance_service.rs).                      *)
(*                                                                         *)
(* Rename, set group, Java override, loader, launch stamp and play time    *)
(* are all read-modify-write: the manifest is read, one field is set and   *)
(* the whole is written back through atomic_write (mojang/cache.rs), which *)
(* writes instance.tmp and renames it.  Nothing locks an instance.         *)
(*                                                                         *)
(* A manifest is the set of what it contains the effect of: its creation   *)
(* (for an instance there at first, the slug) and the operations since.    *)
(* Files are followed as inodes, for two writers open the same temporary   *)
(* file, and one may rename it while the other is still writing it.        *)
(***************************************************************************)

CONSTANTS Slugs,             \* names of instance directories
          Instances,         \* the instances there are at first
          Fields,            \* the fields an edit sets
          Writers,           \* the operations of one behaviour
          ManifestRequests,  \* what an operation may be asked to do
          ManifestMishaps,   \* which of "cut", "crash", "stat" may happen
          NoFile             \* no directory entry, no instance

ManifestRequest == [kind : {"create", "clone", "edit", "record", "delete"},
                    slug : Slugs, field : Fields]

Inodes == Writers \cup Slugs   \* a file bears the name of its creator

ASSUME InstancesAssumption == Instances \subseteq Slugs
ASSUME ManifestRequestsAssumption == ManifestRequests \subseteq ManifestRequest
ASSUME InodesAssumption == Slugs \cap Writers = {} /\ NoFile \notin Inodes

\* What is in a file: a manifest, nothing yet, or bytes of two manifests.
Manifests == (SUBSET Inodes) \ {{}}
Empty == {}
Mixed == {NoFile}

VARIABLES
  asked,      \* what each operation is asked to do
  stage,      \* how far it has got
  target,     \* the instance it writes or deletes
  seen,       \* the manifest it has read
  fd,         \* the file it has open for writing
  dir,        \* the instance directories there are
  tmp,        \* the file instance.tmp of an instance names
  manifest,   \* the file its instance.json names
  content,    \* what is in each file
  table,      \* (of the model) the manifests, were every operation done in one
              \* step; {} if there is none
  clash       \* (of the model) instances on which two operations overlapped

storeVars == <<asked, stage, target, seen, fd, dir, tmp, manifest, content, table, clash>>

StoreStages == {"start", "pick", "copy", "mkdir", "open", "write", "rename", "rmdir", "done"}

Doing(o) == asked[o].kind
Underway(o) == stage[o] \notin {"start", "done"}
Readable(s) == manifest[s] # NoFile /\ content[manifest[s]] \notin {Empty, Mixed}

StoreInit ==
  /\ asked \in [Writers -> ManifestRequests]
  /\ stage = [o \in Writers |-> "start"]
  /\ target = [o \in Writers |-> NoFile]
  /\ seen = [o \in Writers |-> {}]
  /\ fd = [o \in Writers |-> NoFile]
  /\ dir = Instances
  /\ tmp = [s \in Slugs |-> NoFile]
  /\ manifest = [s \in Slugs |-> IF s \in Instances THEN s ELSE NoFile]
  /\ content = [i \in Inodes |-> IF i \in Instances THEN {i} ELSE Empty]
  /\ table = [s \in Slugs |-> IF s \in Instances THEN {s} ELSE {}]
  /\ clash = {}

Advance(o, from, to) == stage[o] = from /\ stage' = [stage EXCEPT ![o] = to]

\* From here on operation o writes or deletes instance s.
Aim(o, s) ==
  /\ target' = [target EXCEPT ![o] = s]
  /\ clash' = IF \E p \in Writers \ {o} : Underway(p) /\ target[p] = s
                THEN clash \cup {s} ELSE clash

-----------------------------------------------------------------------------
(* The steps of the operations. *)

\* An operation that needs the manifest reads it, if there is one to be read.
Read(o) ==
  LET s == asked[o].slug IN
  /\ Doing(o) \in {"edit", "record", "clone"}
  /\ Readable(s)
  /\ Advance(o, "start", IF Doing(o) = "clone" THEN "pick" ELSE "mkdir")
  /\ seen' = [seen EXCEPT ![o] = content[manifest[s]]]
  /\ IF Doing(o) = "clone" THEN UNCHANGED <<target, clash>> ELSE Aim(o, s)
  /\ UNCHANGED <<asked, fd, dir, tmp, manifest, content, table>>

\* InstanceNotFound, or a manifest that cannot be parsed.
NoManifest(o) ==
  /\ \/ Doing(o) \in {"edit", "record", "clone"} /\ ~Readable(asked[o].slug)
     \/ Doing(o) = "delete" /\ asked[o].slug \notin dir
  /\ Advance(o, "start", "done")
  /\ UNCHANGED <<asked, target, seen, fd, dir, tmp, manifest, content, table, clash>>

\* unique_slug looks for a name no directory has, and takes an error of
\* try_exists for a yes; nothing reserves the name.
Pick(o, s) ==
  /\ \/ Doing(o) = "create" /\ Advance(o, "start", "mkdir")
     \/ Doing(o) = "clone" /\ Advance(o, "pick", "copy")
  /\ s \notin dir \/ "stat" \in ManifestMishaps
  /\ Aim(o, s)
  /\ UNCHANGED <<asked, seen, fd, dir, tmp, manifest, content, table>>

\* A clone copies mods/ and config/ before it has a manifest; a manifest is
\* written after the directories it needs.
MakeDirs(o) ==
  /\ Advance(o, "copy", "mkdir") \/ Advance(o, "mkdir", "open")
  /\ dir' = dir \cup {target[o]}
  /\ UNCHANGED <<asked, target, seen, fd, tmp, manifest, content, table, clash>>

\* Plausible bug: the temporary file is opened without truncating it.
OpenKeeping(o) ==
  LET s == target[o]
      file == IF tmp[s] = NoFile THEN o ELSE tmp[s] IN
  /\ Advance(o, "open", "write")
  /\ s \in dir
  /\ fd' = [fd EXCEPT ![o] = file]
  /\ tmp' = [tmp EXCEPT ![s] = file]
  /\ content' = IF tmp[s] = NoFile THEN [content EXCEPT ![file] = Empty] ELSE content
  /\ UNCHANGED <<asked, target, seen, dir, manifest, table, clash>>

\* atomic_write: instance.tmp is created, or truncated if it is there.
Open(o) ==
  LET s == target[o]
      file == IF tmp[s] = NoFile THEN o ELSE tmp[s] IN
  /\ Advance(o, "open", "write")
  /\ s \in dir
  /\ fd' = [fd EXCEPT ![o] = file]
  /\ tmp' = [tmp EXCEPT ![s] = file]
  /\ content' = [content EXCEPT ![file] = Empty]
  /\ UNCHANGED <<asked, target, seen, dir, manifest, table, clash>>

\* What stays of a manifest that an operation makes anew or sets a field of: a clone
\* takes the group of its original along, an edit replaces those of its field.
Edits(field) == {p \in Writers : Doing(p) = "edit" /\ asked[p].field = field}
Kept(o, old) ==
  IF Doing(o) = "create" THEN {}
  ELSE IF Doing(o) = "clone" THEN seen[o] \cap Edits("group")
  ELSE IF Doing(o) = "edit" THEN old \ Edits(asked[o].field)
  ELSE old

\* What an operation makes of a manifest.
Updated(o, old) == {o} \cup Kept(o, old)

\* The whole manifest is written.  If another writer has got in since the file
\* was truncated, the end of its bytes may show behind these.
Write(o) ==
  \E result \in {Updated(o, seen[o]), Mixed} :
    /\ Advance(o, "write", "rename")
    /\ result = Mixed => content[fd[o]] # Empty
    /\ content' = [content EXCEPT ![fd[o]] = result]
    /\ fd' = [fd EXCEPT ![o] = NoFile]
    /\ UNCHANGED <<asked, target, seen, dir, tmp, manifest, table, clash>>

\* The rename is where the operation takes effect.
Rename(o) ==
  LET s == target[o] IN
  /\ Advance(o, "rename", "done")
  /\ tmp[s] # NoFile
  /\ manifest' = [manifest EXCEPT ![s] = tmp[s]]
  /\ tmp' = [tmp EXCEPT ![s] = NoFile]
  /\ table' = [table EXCEPT ![s] = Updated(o, table[s])]
  /\ UNCHANGED <<asked, target, seen, fd, dir, content, clash>>

\* delete_instance: remove_dir_all takes the files away, then the directory,
\* which must still be empty.
RemoveFiles(o) ==
  LET s == asked[o].slug IN
  /\ Doing(o) = "delete"
  /\ s \in dir
  /\ Advance(o, "start", "rmdir")
  /\ Aim(o, s)
  /\ tmp' = [tmp EXCEPT ![s] = NoFile]
  /\ manifest' = [manifest EXCEPT ![s] = NoFile]
  /\ table' = [table EXCEPT ![s] = {}]
  /\ UNCHANGED <<asked, seen, fd, dir, content>>

RemoveDir(o) ==
  LET s == target[o] IN
  /\ Advance(o, "rmdir", "done")
  /\ dir' = IF tmp[s] = NoFile /\ manifest[s] = NoFile THEN dir \ {s} ELSE dir
  /\ UNCHANGED <<asked, target, seen, fd, tmp, manifest, content, table, clash>>

\* A step fails, or its task is dropped: a file operation that is under way
\* then is carried out by the blocking pool all the same, which is the step
\* followed by this one.
BreakOff(o) ==
  /\ \/ Underway(o) /\ "cut" \in ManifestMishaps
     \/ stage[o] = "open" /\ target[o] \notin dir
     \/ stage[o] = "rename" /\ tmp[target[o]] = NoFile
  /\ stage' = [stage EXCEPT ![o] = "done"]
  /\ fd' = [fd EXCEPT ![o] = NoFile]
  /\ UNCHANGED <<asked, target, seen, dir, tmp, manifest, content, table, clash>>

\* The process ends; operations that have not begun are those of the next one.
StoreCrash ==
  /\ "crash" \in ManifestMishaps
  /\ \E o \in Writers : Underway(o)
  /\ stage' = [o \in Writers |-> IF Underway(o) THEN "done" ELSE stage[o]]
  /\ fd' = [o \in Writers |-> NoFile]
  /\ UNCHANGED <<asked, target, seen, dir, tmp, manifest, content, table, clash>>

StoreStep(o) ==
  \/ Read(o) \/ NoManifest(o) \/ (\E s \in Slugs : Pick(o, s)) \/ MakeDirs(o)
  \/ Open(o) \/ Write(o) \/ Rename(o) \/ RemoveFiles(o) \/ RemoveDir(o) \/ BreakOff(o)

StoreNext == StoreCrash \/ \E o \in Writers : StoreStep(o)

StoreSpec == StoreInit /\ [][StoreNext]_storeVars

-----------------------------------------------------------------------------
(* Properties. *)

\* Types; a file is open for writing exactly between its opening and its rename.
StoreTypeOK ==
  /\ asked \in [Writers -> ManifestRequests]
  /\ stage \in [Writers -> StoreStages]
  /\ target \in [Writers -> Slugs \cup {NoFile}]
  /\ seen \in [Writers -> SUBSET Inodes]
  /\ fd \in [Writers -> Inodes \cup {NoFile}]
  /\ dir \subseteq Slugs
  /\ tmp \in [Slugs -> Inodes \cup {NoFile}]
  /\ manifest \in [Slugs -> Inodes \cup {NoFile}]
  /\ content \in [Inodes -> Manifests \cup {Empty, Mixed}]
  /\ table \in [Slugs -> SUBSET Inodes]
  /\ clash \subseteq Slugs
  /\ \A o \in Writers : fd[o] # NoFile <=> stage[o] = "write"

\* Operations on an instance that do not overlap have their effects one after
\* the other, whatever fails, crashes or happens to other instances: readers
\* see whole manifests, no update is lost, what is deleted stays deleted.
SerialUnlessClash ==
  \A s \in Slugs \ clash :
    IF table[s] = {} THEN manifest[s] = NoFile
                     ELSE manifest[s] # NoFile /\ content[manifest[s]] = table[s]
=============================================================================
