# Verification of ichr

ichr (`src/`) is a terminal launcher for Minecraft: it keeps instances, logs in
to Microsoft accounts, installs game versions, modloaders, mods, packs and
modpacks, and starts games. Its drawing is a pure function of its state; what is
hard about it is everything that runs in the background: jobs that are queued,
cancelled and dropped at any await point, several of them writing the same
files, and an interface that learns about them from messages that arrive late.

These modules model that: the job pool, the files and records the jobs change,
and the state machine of the interface that starts jobs and receives their
messages. TLC checks them on small instances, TLAPS proves the main results for
every value of the constants.

Paths below are relative to `src/src/`.

## 1. The system

### How it runs

The event loop (`tui/run.rs:216-260`) selects over the terminal's input, a tick
and the *action channel*. It takes one key or one action at a time, calls
`update` (`tui/app.rs`), the only code that changes `AppState`, and runs the
effects `update` returned before it takes the next. An effect is either

- a **job**: `TaskManager::spawn_task` gives it an id, a child of the root
  cancellation token and, in time, a permit of a semaphore; or
- a **detached task** (`tokio::spawn`): no id, no permit, nobody can cancel it.

Both tell the interface what they do by sending actions. Three facts shape every
module:

1. A cancelled job's body is *dropped* at the await point it has reached. Nothing
   after that point runs: no end message, no clean-up that is written as code
   after an await. What has a destructor (the ledger's lock guard, the child
   process with `kill_on_drop`) is released, what does not (files, directories,
   rows of the interface) stays. A call that the blocking pool is executing is
   carried out all the same.
2. Detached tasks started one after another answer in any order, and an answer
   names the instance it is for, seldom the request it answers.
3. No file is locked between processes and, apart from the mod ledger, none
   between tasks. Files are replaced by `atomic_write` (`mojang/cache.rs`): write
   `<name>.tmp`, rename.

### Components

| component | state | operations | talks to |
|---|---|---|---|
| task pool (`tasks/`) | semaphore, tokens, event channel | spawn, cancel, cancel all, progress, completed | every job; the pump; `active_jobs` |
| mod ledger (`mods/ledger.rs`, `mods/installer.rs`, `mods/service.rs`, `mods/curseforge/service.rs`) | `mods/`, `installed-mods.toml`, a lock per instance | install from Modrinth or CurseForge, enable, disable, uninstall | task pool, services |
| launch control (`launcher/service.rs`, `launcher/spawn.rs`, arms of `tui/app.rs`) | `running_instances`, the game process, modals | launch, stop, delete, reports | task pool, event loop, instances, Java, accounts |
| modloaders (`loader/`) | `versions/<id>`, `libraries/`, installer cache, staging, `manifest.loader` | install (2 pipelines), remove | task pool, instances |
| instances (`instance/store.rs`, `services/instance_service.rs`) | one directory and `instance.json` each | create, clone, edit a field, delete, launch stamp, play time | every component that writes a manifest |
| mod browsing (arms of `tui/app.rs`, `tui/run.rs`, `tui/views/mod_browser.rs`, `cf_browser.rs`) | the view, questions on their way, `running_mod_jobs` | search, pick, confirm, fail | mod ledger, services |
| modpack import (`modpack/`) | a new instance, `modpack_imports` | the eight steps of an import, roll-back | instances, loaders, mod ledger |
| accounts (`auth/`) | `accounts.json`, keyring, encrypted file, the login in progress | add (device code), remove, activate, refresh | launch control |
| Java runtimes (`java/`) | `runtimes/<component>` | resolve, download, extract | launch control |
| packs (`packs/`, arms of `tui/`) | `resourcepacks/`, `shaderpacks/`, pack rows of the ledger | install, drop a file, toggle, uninstall | mod ledger, services |
| installed lists (arms of `tui/`) | lists of mods and packs, the installed sets, marks on search results | fetch, search, toggle, uninstall, install | mod ledger, packs, mod browsing |
| game version install (`install/`, `mojang/client.rs`) | version JSON, libraries, assets, natives | install | launch control, task pool |
| version metadata, launch command (`mojang/`, `launcher/`) | none: pure functions | merge of `inheritsFrom`, rules, class path, arguments | launch control |
| dependency resolution (`mods/dep_resolve.rs`, `mods/installer.rs`) | none: a walk over answers, then a plan | resolve, confirm, install the plan | mod browsing, mod ledger |
| loader dialogs (arms of `tui/`) | pickers, `running_loader_installs` | pick, confirm, cancel, progress | modloaders, launch control |
| login dialogue (arms of `tui/`, `auth/device_code.rs`) | the accounts view, `add_account_cancel`, the code shown | add, cancel, remove, activate | accounts |
| event loop (`tui/run.rs`) | the bounded action channel | keys, effects, shutdown | everything |
| drawing, icons, service clients, configuration, paths, logging | caches and settings | | |

### What is hard, and what makes each component correct

The main hazards, each at its line, are in `PROJECT.json`. In short:

- **Task pool.** Permits must survive every way a job can end; a job that is cancelled
  must end although its body does not cooperate; `Completed` must be the last word on a
  job, or its progress row stays for ever.
- **Mod ledger.** `installed-mods.toml` is read, changed and replaced while other
  operations run and are cut off; files and rows must say the same. The install takes
  the lock for the row only, the download and the rename are outside it.
- **Launch control.** The guard against a second launch reads what the interface
  has been *told*, not what is; a stopped launch must end with its game; the
  running badge must not stay, nor an unknown game go on.
- **Modloaders.** The manifest is the commit point: what it names must be
  installed, although the parts are shared by all instances, several installs run
  at once and removals delete shared files.
- **Instances.** Six kinds of read-modify-write on one manifest and no lock.
- **Mod browsing.** Answers arrive for a view that has moved on; a lock is given
  back by whichever install of the instance ends first.
- **Accounts.** The list is rewritten by keys and by every launch, without a lock, and of
  a launch's rewriting the interface is told nothing;
  the token is looked for in two places, and a failing keyring decides call by
  call in which of them the newest one ends up.
- **Modpack import.** A free name is looked for and taken in two steps; the instance is
  listed before it is filled, and its removal, by that name, after a failure is code
  after an await; all imports share one key in the map of
  tokens.
- **Installed lists.** Fetches, searches and changes start together and answer in any
  order, so that a list may be read before the change it is meant to show; marks on
  results come from three sources; keys act on what the list shows.
- **Packs.** Only toggles and uninstalls hold the lock over row and file; installs and
  dropped files of one pack meet in one temporary name.
- **Game versions.** Downloads are detached from the install that waits for them and
  go on after it is cancelled, beside those of the next one; two writers of one file
  share its temporary name, and so do a writer of a version's JSON and one of its jar.
  What the launch composes from the JSONs must be what the install fetched.
- **Java.** A runtime is judged by its executable, and two launches that miss it unpack
  into one directory; an extraction goes on when its launch is gone, and two files of a
  runtime can have one temporary name.
- **Dialogues.** Esc cancels what the interface has been told of; a picker is checked
  when it opens and obeyed later, and the list can launch the instance while the change
  goes on; one handle stands for all logins; the code of a login
  may come after its end.
- **Dependencies.** The ledger is read once, before a walk of many requests; what is
  required must all come along, once, whatever cycles there are.

Lesser hazards, without a property of their own.

- Files: two mods whose files share a name (`mods/filter.rs:252`); a staging directory
  left by a cancelled install (`loader/service.rs:489`), an extraction directory left by
  a crash (`java/mojang_jre.rs:235`) or a directory left by a failed clone
  (`services/instance_service.rs:143`); an installer that failed its check and is
  trusted the next time (`loader/service.rs:300`); two loader installs that share
  libraries (`loader/service.rs:727`); a temporary file left by a crash, which the next
  writer truncates (`mojang/cache.rs:24`), or shared by two writers (`:23`); rows an
  import was dropped between (`modpack/service.rs:290`); `unique_slug` returning a name
  it has not looked up (`instance/slug.rs:82`); a runtime renamed into place without its
  executable, which blocks the installs after it; the Adoptium fallback that asks for
  the index although the runtime is installed; a merge that replaces only the first
  library of a name; a dropped pack with the content of another one, which takes over
  its row; a disabled pack that is installed again beside its `.disabled` file.
- Interface: the rows of an older query shown for a newer one (`tui/app.rs:2553`), a
  highlight beyond a shorter list (`:2564`); a picker or a failure that replaces the view
  another key was meant for (`:4021`, and `LoaderInstalled`, `LaunchFailed`,
  `AccountAdded`); versions of a loader that arrive late (`:2158`); a failed dependency
  walk, or a failed fetch of versions, that answers as the end of an install
  (`run.rs:1521`, `app.rs:2422`); a deletion confirmed after a launch that was announced
  while its modal was open (`:1714`); a highlight that an answer resets (`:3279`); a pack
  lock that is documented and never filled (`:455`); a browser that says it loads and has
  asked for nothing (`:4623`); an install end that would forget its lock (`:4085`).
- Pool: a game holds a permit while it runs (`tui/run.rs:997`); the loop sends to its
  own bounded channel (`:1066`); a download that waits for a permit
  (`version_installer.rs:208`).

## 2. The modules

| module | is | used by |
|---|---|---|
| `JobPool` | the abstract pool: bounded work, one life per job | instantiated by `TaskManager` |
| `TaskManager` | task pool, event channel, pump, progress rows | `TasksProofs`, `MCTasks` |
| `LaunchControl` | keys, launch jobs, games, messages | `TasksProofs`, `MCTasks`, `MCLaunchControl` |
| `ItemLedger` | the abstract table: every mutation is atomic | instantiated by `ModLedger` |
| `ModLedger` | files and rows of the mods of one instance | `ModLedgerProofs`, `MCModLedger` |
| `LoaderInstall` | both install pipelines and the removal | `LoaderProofs`, `MCLoaderInstall`, `MCInstalls` |
| `LoaderDialogs` | pickers, progress and cancel key of loaders and Java | `LoaderProofs`, `MCInstalls` |
| `DepResolve` | the walk over dependencies, its dialogue, the install of the plan | `LoaderProofs`, `MCInstalls`, `MCDepResolve` |
| `AccountStore` | the account list and the two tiers of refresh tokens | `StoresProofs`, `MCStores` |
| `InstanceStore` | instance directories and manifests, file by file | `StoresProofs`, `MCStores` |
| `PackFiles` | files and rows of the packs of one instance | `StoresProofs`, `MCStores` |
| `ModBrowsing` | browsers, pickers, answers and locks of the interface | `BrowsingProofs`, `MCBrowsing` |
| `ModpackImport` | imports, their instances and their dialogue | `BrowsingProofs`, `MCBrowsing` |
| `InstalledLists` | what the interface knows of mods and packs, against the ledger | `InstalledListsProofs`, `MCInstalledLists` |
| `AccountsView` | the accounts shown, the logins and their dialogue | `AccountsViewProofs`, `MCAccountsView` |
| `VersionMeta` | the merge of version JSONs, rules, natives, class path | `VersionInstall` |
| `VersionInstall` | the install of a game version and the launch that reads it | `LaunchFilesProofs`, `MCLaunchFiles` |
| `JavaInstall` | which runtime is taken, and its download | `LaunchFilesProofs`, `MCLaunchFiles` |

An MC module that holds several machines has a variable `subject`, fixed at the
start (`MCLaunchFiles` takes the machine whose inputs are asked for): the machines
share no state, so that a behaviour follows one of them and a run is the union of
their state spaces. Each machine's fairness is stated where its subject is chosen.

Conventions. Actions bear the name of the function, action or effect they stand
for. Variables marked *(of the model)* are history: no guard of an action reads
them and they exist to state a property exactly. Operators commented *Plausible
bug* are not used by the specifications; they are the mutated forms that
`PROJECT.json` lists, one for each property, and show that the property can
break. Bounds are constants named in the guards.

### TaskManager (`tasks/manager.rs`, `tasks/job.rs`)

`pc` follows the spawned tokio task of a job: *spawned* until its first poll,
*queued* in `acquire_owned`, *granted*, *body* while the body future is being
polled, *closing* between the end of the select and the send of `Completed`,
*done*. `waiters`/`permits` are the fair semaphore, `events` the channel with its
capacity (a full channel makes its sender wait), `rows` is
`AppState.active_jobs`. A child token is cancelled by itself (`cancelled`) or
through the root (`rootCancelled`). `ObserveCancel` may happen at any await point
of the body: the select is biased towards the token. `BodyReturns` remains
possible after the cancellation, for one poll can see the body finish.
Jobs in `Forwarded` report progress on a channel of their own with a forwarder
task, as the mod installs of `run.rs` do.

### ModLedger (`mods/ledger.rs` and its callers)

An operation walks `Begin`, then for installs `Fetch` (the verified `.tmp` is
there) and `Check`, then `LockAndRead`, the file move (`Rename`, `Remove`) of
enable, disable and uninstall, `Write` (the replaced `installed-mods.toml`, lock given
back), and for installs `Place`, the rename of the `.tmp`, which the code does
after the row is written and without the lock. `disk` holds the files in the
forms *jar*, *disabled* and *temporary*, `ledger` the rows. `Fail`, `Cancel` and
`Crash` cut an operation off anywhere.

### LaunchControl (launch arms of `tui/app.rs`, `launcher/`)

`running` is `running_instances`, what the interface believes; `reached` and `alive`
are what is. The two are joined by `chan`, the order of the actions sent.
`StopKey` takes the entry out and cancels the token in one step, as
`StopInstance` does. `Drop` is the pool's reaction (no end action is ever sent),
`Kill` the `kill_on_drop` that follows it. `After` is the effect of the three
messages on `running`: the two end messages name the instance, not the launch.

### LoaderInstall (`loader/service.rs` and the pipelines)

`Start` is the re-attach check and the choice of pipeline. Fabric and Quilt:
`Profile`, a set of library downloads (`PutLib`, `LibsReady`), `WriteJson`,
`WriteManifest`. Forge and NeoForge: `Jar`, `Verify`, `Stage`, `Run`, harvest of
the libraries (same actions), `WriteJson`, `WriteManifest`, `Cleanup`. Removal:
`ReadLoader`, `DeleteVersion`, `ClearLoader`. The version JSONs, libraries and
installer JARs are shared by all operations.

### InstanceStore (`instance/store.rs`, `services/instance_service.rs`, `mojang/cache.rs`)

The finest module: directory entries (`dir`, `tmp`, `manifest`) point to inodes
with `content`, since two writers that open the same `instance.tmp` share the
inode and one may rename it while the other still writes. A manifest's content is
the set of operations whose effect is in it, which is what tells a lost update
from a kept one. `table` (of the model) is what the manifests would be if every
operation were one step, taken at its rename.

### ModBrowsing (browser, picker and install arms of `tui/app.rs`)

`view` is the modal or browser shown, with the request whose answer it displays;
`asked` is the bag of requests whose answers may come next, in any order; `job`
the installs under way, `locked` is `running_mod_jobs`. One action for each
`Action` variant; a handler's whole match arm, the requests it sends included, is
one step.

### AccountStore (`auth/service.rs`, `auth/store.rs`)

An operation is a login, a removal, an activation or the refresh before a launch.
It gets its token (`Login`, `LoadToken`, `Refresh`), stores or deletes it
(`StoreInKeyring` or, when the keyring fails, `FallBack` and `WriteEnc`;
`DeleteFromKeyring`, `ReadEnc`, `WriteEnc`), then reads the list and replaces it
(`LoadList`, `SaveList`). A token is named after the operation it was issued to,
so that the newest one can be told. `CutShort` is a failure, a stopped launch or a
crash between any two steps. `torn` and `stale` (of the model) collect the accounts
for which overlap, cut or keyring failure excuse the two agreements stated.

### ModpackImport (`modpack/`, import arms of `tui/`)

`stage` walks the steps of `import_mrpack`: `Choose` (a name no directory has; nothing
is reserved), `Create` (the directory, unless another import has made it meanwhile, and
the manifest), `Fetch` one `.tmp` after another, `UpsertRow` one row after another,
`RenameJar` one jar after another, `Overrides`, `Loader`, `FinalWrite`. `StepFails`
leads to `Rollback` when there is a directory; `FinalWriteFails` does not, as in the
code. `Drop` is the pool's reaction to a cancelled token; only in the poll in which the
token fires may `StepFails` report the cancellation. `home` is the import that made a
directory, so that a name used again can be told; `DeleteInstance` may come at any time,
for the list shows the instance while it is filled. `Rollback` removes whatever
directory has the name by then. `reused` (of the model) are the names that two imports
have taken, or that were deleted under one. `running` is the one entry of
`running_modpack_imports`, under the empty slug, for all imports.

### InstalledLists (list, browser and pack arms of `tui/app.rs`, effects of `tui/run.rs`)

A *list* is the mods, the resource packs or the shader packs of one instance, and
`ledger` its rows; `at`, `of` and the variables after them are the view. A `task` is
an effect under way with its result (`Work`), which the interface takes in one more
step (`Answer`), one action for each message. A change of the ledger is one step here,
as `ModLedger` shows it to be; what differs between mods and packs is kept: a mod is
asked for a state and looked at first, a pack is turned; a removed mod leaves the list
shown, a change of packs fetches the list again; a failed fetch of mods answers with an
empty list, one of packs does not answer. `behind` (of the model) collects the lists
for which an answer was out of date or untrue when it came: a list read before a change
and told after it, a toggle announced when another one has turned the item back, an
install that does not name the mods it brought along. A fetch that agrees takes the list
out again. `crossed` marks a task during which another one changed the same item.

### LoaderDialogs (picker and install arms of `tui/app.rs`, `tui/views/`)

`view` is the dialogue with its instance and loader, `token` is
`running_loader_installs`, `job` what has been spawned: fetches of versions, installs,
removals, changes of Java. `launch` has the games of an instance: launches asked for,
games announced, and whether `running_instances` has an entry (`Running`). A launch from
the list is refused by that entry alone, so that the same instance can be launched again
before the first game is announced, and the end of either game, or `StopInstance`, takes
the entry. An install is announced (`LoaderInstallStarted`) before its entry is there,
and Esc in the progress dialogue takes the entry if it is (`CancelLoaderInstall`). Every
answer of an instance that ends an install or looks like one (`LoaderInstallFailed`,
also sent for a fetch) takes the entry out. `lost` (of the model) collects the instances
of which the interface has no entry although an install goes on, `late` those a game of
which was announced while a dialogue of theirs was open or a change of theirs going on,
`twice` those launched again before the last game ended. A change goes on from the key
that starts it to the end of its job (`Changing`).

### AccountsView (account arms of `tui/`, `auth/device_code.rs`)

A login asks for a code, polls, goes through the services, saves and tells
(`CodeRequested`, `Approved`, `LoginStep`, `Told`); its handle is sent by the loop to
itself (`TokenCreated`), its code through a forwarder (`AuthStarted`). `task` are the
detached tasks that change or read the list, each answered with the whole list, and the
launches that refresh their account's token. Whoever changes the list reads it
(`LoadAccounts`, `Known` of a login) and writes the whole of it in a later step
(`SaveAccounts`, `Persist`, `RefreshSaved` of a launch, which tells nobody), without a
lock: what another has written in between is undone. `handle` is `add_account_cancel`,
one for all logins. `behind` (of the model) says that the last list told was out of date
or could not be read, or that a launch has since put back a list it had read before a
change; `crossed`, `late` and `dead` (of the model) collect the overlapping logins, the
codes that came after the end and the logins that ended without a word.

### PackFiles (`packs/`)

An operation is an install, a dropped file, a toggle or an uninstall. An install writes
`<file>.tmp`, then the row, then renames; a dropped file is written under its own name,
then its row; toggle and uninstall hold the ledger's lock over both. `files` gives the
content of every name, whole, torn or absent, and `spoilt` (of the model) the targets
that two operations, a cut or a failure have left in a state the code does not repair.

### VersionMeta, VersionInstall (`mojang/`, `install/`, `launcher/`)

`VersionMeta` holds operators: `Lineage` and `Resolve` follow `inheritsFrom`, refuse
chains that are broken, circular or too deep and merge what is left; the rules and
natives choose the libraries; the class path is theirs. `VersionInstall` runs the seven
phases of an install (`Start`, the downloads of a phase, `PhaseDone`, natives), each
download a task with its semaphore, its temporary file and `atomic_write`, on its own
once it is spawned: a cancelled install does not end them. A write has two steps: `Open`
truncates the temporary name, `WriteBytes` puts the bytes into the file that was opened,
wherever a rename has moved it by then. `disk` and `tmp` tell *whose* bytes a name holds:
`with_extension("tmp")` makes one temporary name of a version's JSON and its jar
(`cache.rs:22`), so that the whole JSON can end up under the jar's name, or a mixture of
the two. `crossed` (of the model) are the temporary names that two different files were
being written to at once, `shorn` the downloads whose file another one has truncated. A
launch migrates an old
loader JSON, reads the chain from disk and spawns. The install and the launch use the
same operators, the one on what the servers publish and the other on what is on disk.

### JavaInstall (`java/`)

A use (a launch, or a loader install) resolves a runtime: the override, an installed one
that is new enough, a Mojang component or Adoptium. A missing one is fetched into
`<name>.tmp` (`extracted`), cleared first, and renamed (`dir`), each a function from the
runtime's files to how complete they are. A file is begun (`Begin`) and ended (`End`) in
two steps: an Adoptium archive's one after another in a blocking task, which goes on when
its launch is gone (*orphan*, `OrphanEnds`); Mojang's in parallel, each by `atomic_write`,
whose temporary name two files with one `Stem` share (`java.policy`, `java.security`).
Removals and writes already handed to the runtime's threads go on as well (*sweep*,
`Swept`). Whoever is in the temporary directory, or has a write going on there, is
`Busy`. `overlapped` (of the model) are the runtimes in whose temporary directory two
were, or two files of which were written to one temporary name at once. `Asks` is what
the uses may ask for.

### DepResolve (`mods/dep_resolve.rs`, `mods/installer.rs`)

The dependency graph is a parameter of the behaviour: `needs` and `bars` of every
version, any of them, cycles included. `ReadLedger` takes `known`; `TakeVersion` pops
the queue and leaves in `required` and `barred` what it still has to come to, in any
order (`Satisfied`, `Required`, `Incompatible`); `Resolved` shows the dialogue with
`planned` and `conflicts`. The install has a task for each version of the plan
(`Download`, `UpsertRow`, `Place`), of which the first that fails ends the others. The
project of the chosen version is not marked from the start, as in the code, so that a
mod that requires it plans its newest version as well. `gone` (of the model) are the
projects others have removed since the ledger was read.

## 3. What TLC checks

| run | instance | holds |
|---|---|---|
| `tasks` | 3 jobs, 2 permits, channel of 2, 1 progress each, one job forwarded; or 2 instances, 2 launches | permits conserved, `Completed` last, refinement of `JobPool`, `cancel_all` drains; launches tracked unless overlapped, stopped launches die with their games, badges clear |
| `mod_ledger` | 2 mods, 2 versions of one, 3 operations, errors, cancellation, crash | files and rows agree unless disturbed, refinement of `ItemLedger`, every operation ends |
| `installs` | 2 instances, a Fabric and a Forge version sharing a library, 3 operations, errors, cancellation, crash; or 2 instances, one loader, 3 jobs of the dialogues, 2 games; or 3 projects with every graph, one change by others, one mishap | manifest after JSON, JSON after libraries; one install per instance unless lost, progress that will close, nothing changed under a game, from the key to the end of the change, unless announced late or launched twice; every requirement present, no failure without a reason |
| `stores` | 2 accounts, 3 operations of which one is a refresh, keyring failures, cuts, crash; or 2 slugs, 2 fields, 3 operations, cuts, crash; or 2 packs and a local one, 2 names, 2 contents, 3 operations | one active account, entry and token agree, the newest token found; serial effect unless operations clash; rows have their file and files their row unless spoilt |
| `browsing` | 2 instances, 2 mods, 2 queries, 2 requests on their way, 2 installs, 3 of both together; or 2 imports, one of a modpack with a loader and a file that is not for clients, one of a modpack with a file outside `mods/`, 2 directories | versions are of the mod, locks agree with installs; whole or gone unless cut or reused, token kept |
| `installed_lists` | mods and resource packs of an instance, 3 items, 2 tasks under way | lists, sets and marks agree with the ledger unless *behind*; a mod gets the state asked for |
| `accounts_view` | 2 accounts, one there, 2 logins, 2 tasks or launches, 3 keys | accounts shown are current unless behind, Esc reaches the login shown, a code shown is live, a cancelled login ends |
| `launch_files` | 4 versions (one under a loader, one with an index that lists an object twice, one without a client), 2 installs, an install and a launch, or 2 launches, one mishap; or 2 uses of 2 Java majors, one offered, one mishap | a name holds its own file, whole, unless two writers met; installed has its files, launch finds them, everything ends; runtime whole unless overlapped, game starts with its Java |

The exceptions (*disturbed*, *overlapped*, *clash*, *torn*, *stale*, *cut*, ...) are
exact: each is a set of the model that grows only in the named situation. A companion
run shows that what the repository says without them does not hold:

| run | claim of the repository | what happens |
|---|---|---|
| `mod_ledger_update` | `ledger.rs:5-8`: file and row change together | another version of a mod replaces the row and leaves the old jar |
| `launch_control_twice` | `app.rs:420`, `1875`: a second launch is a no-op | it is not until the first has been announced; the first game cannot be stopped any more |
| `dep_conflict` | `dep_confirm_modal.rs:161`: a conflict is with an installed mod (`dep_resolve.rs:16`: that one aborts) | a project listed as incompatible that is not installed blocks the install |
| `loader_install_shared` | `domain/instance.rs:84-86`: no loader points at a missing JSON | a removal deletes the JSON other instances use |

More disagreements came up while modelling, and the modules make each of them
an exception of a property:

- `job.rs:23` calls `Completed` the terminal event of a job; the mod installs send
  progress through a forwarder, and theirs may come after it and leave a row
  (`TaskManager.CompletedIsLast`, jobs in `Forwarded`).
- `app.rs:427` says the mod key is rejected while an install of the instance is in
  flight; the first of two installs to end frees it (`ModBrowsing.LockTracksInstalls`,
  `overlapped`).
- `modpack/service.rs:9` and `:97` say that a cancelled import leaves nothing, since
  the manifest is written last. It is written first (`create_instance`) and the
  roll-back is not run by a job that is dropped: a cancelled import usually leaves an
  instance that is listed and half filled (`ModpackImport.WholeOrGone`, `cut`). A
  failure of step 8 leaves it too, but complete.
- `cache.rs:17` promises an atomic write. Two writers of one manifest share the
  temporary file, and one may rename what the other has just truncated
  (`InstanceStore.SerialUnlessClash`, `clash`). The name is made with `with_extension`,
  so that two different files of one stem share it as well: a version's JSON can be
  renamed to its jar (`VersionInstall.TornOnlyByWriters`, `crossed`), one file of a Java
  runtime to another (`JavaInstall.WholeUnlessOverlapped`, `overlapped`), and the
  executable is then taken as proof that the runtime is complete.
- `modpack/service.rs:98` says that a failure removes the instance the import had partly
  created. `unique_slug` reserves nothing (`instance/slug.rs:66`), so that two imports
  can create one instance, and the roll-back of one removes the other's files
  (`ModpackImport.WholeOrGone`, `reused`).
- The list of accounts that a launch writes back may undo an activation the interface
  shows (`auth/service.rs:282`; `AccountsView.AccountsAreCurrent`, `behind`).
- `app.rs:457` calls the installed set "independent of the search/install timing race".
  It is not where answers cross: a ledger read before an install and told after it takes
  the mod out of the set again, and the mods an install brought along are never told
  (`InstalledLists.MarksAreCurrent`, `behind`).
- `app.rs:4623` goes back to the browser "while install runs", as loading, and makes no
  search: the browser says so until a key of the query is pressed
  (`InstalledLists` has the view, and no property about it).
- `app.rs:446` says one import runs at a time; nothing keeps a second one from being
  started before the first has announced itself (`ModpackImport.TokenKept`, `crossed`).
- `run.rs:1361` takes the token of a loader install for cancelled after Esc; before the
  install is announced there is none (`LoaderDialogs.EscCancels`, which does not hold;
  `lost`). Java can be changed under a game announced while the picker was open
  (`LoaderDialogs.JavaKeptWhilePlaying`, `late`), and a loader under a game launched from
  the list while the install runs (`LoaderDialogs.NotWhilePlaying`, `late`).
- `run.rs:1104` says a cancelled login returns to the list of accounts; it does so
  whatever view the user has gone on to, or not at all where another message came first
  (`AccountsView.CancelReturnsToList`).
- `packs/install.rs:84` calls ledger and files 1:1; a dropped file that is cut off leaves
  a file without a row (`PackFiles.OneToOne`, `spoilt`).
- `launcher/service.rs` refuses a version whose jar is absent; a loader's version is
  looked up under another id than the jar it needs (`VersionInstall.JarBeforeSpawn`).
- The check of the Java version is skipped for a managed runtime named by the instance
  (`JavaInstall.NeverTooOld`; `StartsWithItsJava` has the exception).
- `dep_resolve.rs:9` says each project is processed once; the chosen one is not marked
  and may be planned again (`DepResolve.EachProjectOnce`; if both are one version their
  downloads meet in one temporary name, the exception of `FailsForAReason`).

The definitions named here as not holding are in the modules, without a run.

### Bounds, and why they are enough

- **Three jobs on two permits** is the smallest pool with a holder, a waiter and
  a third job that waits behind; a channel of two fills while three jobs
  announce. One progress per job is enough to come before or after `Completed`.
- **Three operations** on files: the lost update and the torn file need two
  writers, the third is a bystander, a reader or a repair. Two mods (two
  instances, two names) separate *the same* from *another*; two versions make an
  update.
- **Two launches**: a first and the one that overlaps it; two instances to tell
  tracking one from tracking both.
- **Two imports** on two directories let names be used again and tokens be mixed
  up; two files each let an import be dropped between the first and the second.
- **Two accounts** and three operations: one to be active, one to take its place,
  and a refresh that meets a login and a removal.
- **Two requests on their way** let a stale answer meet a newer one, beside an install;
  two installs let one end while another runs, beside a request. Two mods and a query
  that hides the first make a row move under the highlight.
- **Three projects**, of which every graph is taken: a chain, a diamond closed by the
  chosen version, cycles of two and of three, a project that requires the chosen one.
- **Two logins** beside one of two accounts are a login and the one that overlaps it or
  follows it; three keys open the list, change it and start a login or a launch.
- **Two games** are a launch and the second one of the same instance, or of another; one
  loader is enough, for nothing depends on which is chosen but the answer of a fetch.
- **Two installs** of game versions with one permit for libraries and two for assets: the
  second waits for the first, an object that is listed twice has two writers, and the JSON
  of one install meets the jar of the other.
- **Two files** of a runtime, its executable and one with the same stem, let a runtime be
  judged by the first and lack the second, or have one's bytes under the other's name;
  `Asks` has the overrides that are decided differently.
- **Two tasks under way** beside a view are a change and the fetch, search or second
  change it races with; two lists make an answer that is about another one, two mods an
  install that brings one along.
- The proofs remove the bounds for the modules that have them.
- `CHECK_DEADLOCK FALSE` in every configuration: launches, jobs and operations of
  a behaviour are bounded, and an idle launcher is not an error.
- Symmetry is used in runs without liveness only: over the operations of `stores`, over
  instances, directories and places of jobs in `browsing`, over jobs and instances in
  `installs`, over the two projects that are not the chosen one in `dep_conflict`, over
  the places of tasks in `installed_lists`; no definition singles one of them out.

### Fairness

Weak fairness stands for the tokio runtime: it polls every task that can go on.
`TaskManager` has it for the pump, the first poll, the grant and the observation
of a cancelled token, and strong fairness for the send of `Completed`: the
channel's waiters are FIFO, so a sender that finds it full again and again is
served. None of the bodies is fair: a game may run for ever. `ModLedger` has it
for the next step of an operation (file calls and downloads return).
`LaunchControl` has it for the message loop, the job's own steps, the drop of a
cancelled job and the death of a killed process, not for keys nor for
`GameEnds`. `AccountsView` has it for what the tasks and the services do and for the
messages, not for keys nor for the user who enters the code; `VersionInstall` for the
steps of installs and downloads, as one action, for there are finitely many of them. The
other modules state safety only.

## 4. What TLAPS proves

For every value of the constants that satisfies their (named) assumptions:

| module | theorem | says |
|---|---|---|
| `TasksProofs` | `TypeCorrect`, `PermitsNeverLeak` | permits stay in range and are conserved |
| | `RefinesJobPool` | the manager implements the abstract pool |
| | `AnnouncedOnce`, `AnnouncedLast` | `Completed` once, and after it no progress on that channel |
| | `LaunchTypeCorrect`, `LaunchesTracked` | a launch that was announced is tracked unless overlapped |
| `ModLedgerProofs` | `TypeCorrect`, `RowsUnique` | the lock is held in the critical section only; one row per mod |
| | `NoLostUpdate` | the ledger implements the abstract table |
| | `FilesAgree` | files and rows agree unless disturbed |
| `LoaderProofs` | `TypeCorrect`, `ManifestWrittenLast`, `LibrariesFirst` | manifest after JSON, JSON after libraries |
| | `DialogTypeCorrect`, `OneInstallHolds`, `ProgressCloses` | one install per instance unless lost; a progress dialogue will be closed |
| | `ChangedWhenIdle` | no game runs while its loader or Java is being changed, unless announced late or launched twice |
| | `ResolveTypeCorrect`, `DependenciesArePresent` | after a good install all it requires is in the ledger, or was removed by others |
| | `FailsForAReasonHolds` | an install fails by a mishap, or by a file that was planned twice |
| | `NothingBarredHolds`, `PlannedOnceHolds` | nothing installed is barred by what comes with it or was there; nothing is planned that was there |
| `BrowsingProofs` | `TypeCorrect`, `LocksTrackInstalls` | an instance is locked exactly while an install of it runs, unless overlapped |
| | `VersionsAreOfTheMod` | versions shown and installed are those of the mod, unless mixed |
| | `ImportTypeCorrect`, `TokenIsKept` | Escape has the token of the import that is shown, unless crossed |
| | `WholeOrGoneHolds` | an import leaves a complete instance or none, unless cut or reused |
| `StoresProofs` | `TypeCorrect`, `ActiveIsUnique` | never two active accounts, whatever overlaps or is cut |
| | `EntriesAndTokens` | an account is listed exactly when it has a token, unless torn |
| | `NewestIsFound` | the token that is found is the one issued last, unless torn or stale |
| | `StoreTypeCorrect`, `SerialHolds` | operations on a manifest have their effects one after the other, unless they overlapped (`clash`) |
| | `PackTypeCorrect`, `RowsHaveTheirFileHolds` | a row names a whole file with its content, unless spoilt or in use |
| | `FilesHaveTheirRowHolds` | a pack file is the file of a row, unless spoilt or in use |
| `AccountsViewProofs` | `TypeCorrect`, `ShownIsStored` | the accounts shown are those on disk, unless behind (a launch that puts an old list back included) |
| | `EscReachesItsLogin`, `ShownCodeIsLive` | Esc reaches the login shown, unless crossed; its code is live, unless late or dead |
| `InstalledListsProofs` | `TypeCorrect`, `ListShownIsCurrent` | a list shown agrees with the ledger, unless behind |
| | `SetAndMarksAreCurrent` | so do the installed set and the marks |
| | `ModsGetWhatWasAsked` (`[][A]_vars`) | a mod gets the state it was asked for, unless crossed |
| `LaunchFilesProofs` | `VersionTypeCorrect`, `TornByTwoWritersOnly` | a name holds the whole of its own file, unless a second writer of its temporary name writes, or died, or a JSON and a jar were written to it at once |
| | `InstalledIsWhole` | an install that ended well has its files, for good |
| | `JavaTypeCorrect`, `RuntimesWhole` | every file of a runtime under its name is complete, unless overlapped |
| | `GamesHaveTheirJava` | games start with a complete Java, unless overlapped, that is new enough |

The arguments:

- **Pool.** `PermitInv` says that the free permits and the tasks in *granted*,
  *body* or *closing* add up to `MaxConcurrent`; it needs the set of those tasks to be
  finite, and the queue to hold exactly the *queued* tasks, once each. The
  refinement maps `pc` to the life of a job and reads the bound off `PermitInv`.
  `OrderInv` relates `pc` to the channel: a `Completed` in it belongs to a *done*
  task, which sends nothing more, so nothing of that job is behind it.
- **Ledger.** `LedgerInv` says that an operation in its critical section holds the
  lock and that its snapshot is the ledger as it stands: nobody writes without the
  lock. Refinement and uniqueness follow. `FilesInv` adds what each stage of an
  operation has done to the files of its mod, and that a mod on which two
  operations are in flight, or one was cut between two effects, is disturbed.
- **Launches.** The invariant is needed because the interface is behind the jobs:
  `Begun` (launches not yet issued have left no trace), `Truthful` (messages in the
  channel fit the stage of their job), `Alone` (an instance never overlapped has
  one job in flight), `Behind` (a message of an ended job stands before the start
  message of its successor), and tracking itself.
- **Loaders.** `PipelineOK` says which stages each kind of operation can be in,
  `WrittenFirst` that at *manifest* the JSON has been written (or removed by
  someone since), `LibsFirst` that at *json* the Fabric libraries are in place;
  libraries are never deleted, which makes the rest inductive.
- **Accounts.** One active account in the file is inductive only together with one
  active account in every list that was read (`SeenOneActive`). For the agreement,
  `Alone` says that operations in flight together have torn their accounts,
  `SnapshotsHold` that for the others what was read is what is there, `StagesHold`
  what each stage has done to entry and token, `Settled` that without an operation
  both agree. For the newest token, `Fresh` says where it is at each stage: still to be
  found, in the operation's hands, or stored; the encrypted file is written only when the
  keyring has none.
- **Manifests.** Of two operations under way on one instance the later has marked it
  (`Single`), so that on the others whatever is there is one operation's doing:
  what it has read is the manifest as it would be had every operation been one
  step, the file it has open is the one `instance.tmp` names, and empty, and what it
  has written is what it makes of that manifest (`UndisturbedHold`). It needs to know
  that writers of other instances cannot touch these files although inodes are
  shared: a file never leaves the instance it was created for (`FilesAtHome`), not
  by a rename, not by an open file that has lost its name, not by a temporary file a
  crash left behind.
- **Packs.** Two things must be known of whatever is under way. Operations that overlap
  have spoilt what they are about (`Overlaps`), also when a row put down meanwhile makes
  them overlap that did not when they began; and an operation that adds a pack has
  spoilt what its row displaces (`Displacements`), also the rows that came after it
  began. What is left is a pack with one drop, with downloads of one and the same file,
  or with one toggle or uninstall, and `InOrder` says what its files and rows are then:
  a drop is ahead of its row, a toggle or uninstall for one step ahead of its row
  (`RowHolds`), which the lock keeps others from reading (`LockHolds`). Downloads that
  share their temporary file are the hard case, for the first to be done renames what
  the others may still be writing: a row may be ahead of its file only as long as
  somebody is writing it under its name or is to rename it (`InstallHolds`), a temporary
  file is torn only while one of them writes it, and one that finds it gone finds the
  file whole or being written (`DownloadHolds`). `NothingHalfDone` shows that where no
  operation cut short leaves a pack spoilt, it leaves it in order.
- **Dialogues.** `EntriesLive` says that an entry of `running_loader_installs` is that of
  an announced install that goes on, `NoneWhileChoosing` that where a loader is being
  chosen the instance has no install, `LostKnown` that the installs without an entry are
  those of the instances in `lost`. One install per instance follows because an install
  starts from a dialogue only. For the games, `OneGame` says that
  an instance that was not launched twice has one game, of which the interface knows when
  it has been announced, and `PlayingIsLate` that one which runs while a dialogue of its
  instance is open, or a change going on, was announced after it began.
- **Dependencies.** The walk misses nothing, whatever the graph: of every version in the
  plan either it is still in the queue, or all that it requires has been met or is in
  `required` (`NothingMissed`), and what it bars is listed or in `barred`
  (`NothingUnlisted`); what has been met was known or is planned (`MetIsKnown`). The
  install carries this to the ledger: a release that is listed has its row, or others
  have removed it (`RowsPutDown`). A download whose file is gone when it is to be renamed
  has shared it (`FilesWait`), and only `Root`'s newest version and the chosen one have
  one file.
- **Browsing.** Locks: two installs of one instance have met (`OneEach`), so that for the
  others the end that frees the lock is the install's own. Versions: what an open picker
  has asked for (`PickerAsks`) and what the walk over dependencies was asked for
  (`DepsAsked`) are of the mod shown; answers are matched by instance, which is enough
  unless two mods of one instance were asked for.
- **Imports.** `AloneUnlessCrossed`: an import that has crossed no other is alone, with
  nothing in the channel but its own start; then the one token is its own. For the
  directory: `OwnersOK` ties a directory to the import that made it, unless two did,
  `KeepsItsDir` says what it holds at each stage (`Contents`) as long as it was not
  deleted and used again, `WholeAtTheEnd` what is left.
- **Accounts view.** For the list: of the tasks only launches are not asked to tell
  (`Doing`); the answer that ends the last of the others compares what was read with
  what is there, and a launch that changes the file after it says so in `behind`. Logins
  start in order and their handles come in order (`InOrder`), so that the one `handle`
  is that of the last login; a login that has not crossed another is the last
  (`HandleKept`). A code is received after its handle, and one received after the end is
  late (`CodeAfterToken`).
- **Installed lists.** Nothing agrees while tasks are under way, so the invariant says how
  far it may differ (`Explained`): wherever the list, the set or a mark differs from the
  ledger, a task accounts for it, a fetch that will bring the list as it is, an uninstall
  of the item or a toggle of it not yet told, or the list is in `behind`. Without tasks
  nothing accounts for a difference, and there is none. Steps are sorted by what they do
  to the tasks (asking, beginning, going on, ending), with a lemma for each. For toggles:
  rivals that change one item are `crossed` (`RivalsCrossed`), so that an uncrossed toggle
  finds what it has seen (`CheckedTurns`).

- **Game versions.** Whose bytes: who holds a file open is writing it, under its
  temporary or its final name (`Opened`); unless the name is crossed, all who may still
  put bytes into a temporary file or rename it write one file (`OneFile`), and what is not
  whole there has a writer that nobody has truncated and that completes it
  (`TmpHolds`). A rename moves the file with its writers, which carries this over to the
  final name (`DiskHolds`); names of files and temporary names differ (`NamesDiffer`). It
  needs that no download is started over one that is writing: the downloads of a phase
  are idle until the install comes to it (`NotYet`), and what writes on without its
  install belongs to a cancelled one (`Strays`). Installed files: the
  install leaves a phase when all its downloads have answered, and it has started all of
  them (`Awaited`); an answer means a file (`EndedWell`), and no step takes one away
  (`StaysThere`), so that whatever the phases behind an install fetched is `Present`.
  Which files a version has does not matter to the argument.
- **Java.** Who is in the temporary directory of a runtime that is not overlapped is
  there alone (`OneBusy`), writes and extractions that have outlived their launch
  included, and each file it has ended is complete there (`FindsItsFiles`); who has not
  come to unpack has opened nothing (`Fresh`). What others left there does no harm, since
  who renames has ended every file itself. `Chosen` carries the choice
  of a runtime to the start of the game, and a game that was given a runtime keeps it
  (`Given`), for a rename replaces nothing that has its executable.

The assumptions on the constants are named in the modules and as weak as the proofs
allow: bounds are naturals, the chosen version is not named like a project
(`GraphAssumption`), the value that stands for *nothing* is not an element of the sets
it is told from (`DialogsAssumption`, `BoundsAssumption`, `ListsAssumption`,
`NoTaskIsNone`), operations and accounts, installs and launches are different things
(`NoneAssumption`, `Inputs`), the lists of one instance hold different items
(`ListsAssumption`). The ledger of packs that is there at first has one row for an id
and for a file (`PreinstalledAssumption`): it starts in order. TLC evaluates each of
them.

### Model-checked only

Liveness (`CancelAllDrains`, `EveryOpEnds`, `StopKills`, `BadgeClears`,
`CancelledLoginEnds`, `EverythingEnds`): temporal reasoning with fairness is out of this
prover's reach. `LaunchFindsFiles` of `VersionInstall`, and what `VersionMeta` computes:
both follow chains of versions, and induction over data is out of reach as well.

## 5. Not modelled, and why

- The action channel is unbounded here; in the code it holds 256 actions and some
  effects send to it from the loop that drains it (hazard at `tui/run.rs:1066`).
- `LaunchControl` takes the preparation of a launch as one step that may fail
  (`VersionInstall` and `JavaInstall` have its parts), and a deletion as instantaneous.
- Formats, hashes and network protocols: a download ends in any way it can end.
- `AccountStore` takes the device code, its polling and the chain of services as one
  step, for they touch no file; `AccountsView` has the dialogue of a login, and leaves the
  tokens to `AccountStore`. An error of `try_exists` is taken by the code for an absent
  file (`auth/store.rs:206`, `:326`), and so would be an empty list or an absent token;
  `AccountStore` takes a file that cannot be looked at for one that cannot be read.
- `ModpackImport` takes the extraction of the overrides and the install of a loader as
  one step each (the second is `LoaderInstall`), and leaves out a download that is
  aborted in a call of the blocking pool and writes after the roll-back: a file
  without a manifest, which is not listed.
- `ModBrowsing` leaves out the highlight of pickers, scrolling, icons, the
  detail pane and two actions nothing sends.
- `InstalledLists` leaves out CurseForge installs (their end tells no list and no set),
  the pickers between a browser and an install, the other instances, and the files: a
  row is what a list shows. An id is taken to be in one list only, as the ids of
  Modrinth projects are.
- Drawing, logging, configuration and paths: no state anything depends on.
- `VersionInstall` leaves out the cache of the version manifest and its age, the paths
  inside archives and libraries without a SHA-1; the command line (arguments,
  placeholders) is formatting. `JavaInstall` leaves out the detection of the system's
  runtimes, which only reads.
- `DepResolve` leaves out what is optional or embedded, which is only listed, and
  dependencies named by a version, which are looked up first; `mods/filter.rs` chooses
  the newest file that fits, a sort.
- `LoaderDialogs` leaves out the highlight and the filters of the version list.

## 6. What would come next

1. The event loop with its bounded channel of 256 actions: who can wait for whom.
2. Abstract specifications: an atomic account list, an atomic store of manifests for
   `InstanceStore` (serial unless clash, as a refinement).
