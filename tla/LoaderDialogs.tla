----------------------------- MODULE LoaderDialogs -----------------------------
(***************************************************************************)
(* The dialogues that change an instance's loader or its Java: the pickers,*)
(* the confirmation and the progress of an install (tui/app.rs, the event  *)
(* maps of tui/views, the effects in tui/run.rs).                          *)
(*                                                                         *)
(* There is one active view.  Keys move it, and so do the answers of jobs  *)
(* started from views left long ago: the end of any loader install, the    *)
(* failure of any launch.  Esc in the progress dialogue cancels through    *)
(* running_loader_installs, where an install appears when its job tells    *)
(* that it has started, which takes a place in the pool of jobs.           *)
(*                                                                         *)
(* What an instance is shown to have (a loader, which) is taken as         *)
(* anything, and so is what the highlighted row is.  LoaderInstall has     *)
(* what an install does, LaunchControl the launches.                       *)
(***************************************************************************)
EXTENDS Naturals

CONSTANTS Slugs, Loaders,
          Jobs,     \* places for jobs: bound on those under way
          MaxGames, \* bound on the games of two instances
          Nil       \* no instance, loader or job

ASSUME DialogsAssumption ==
  /\ Nil \notin Slugs /\ Nil \notin Loaders /\ Nil \notin Jobs
  /\ MaxGames \in Nat

VARIABLES
  view,      \* active_view: which dialogue, of which instance, for which loader,
             \* and the answer its list of versions is from
  token,     \* running_loader_installs: instance -> its install
  job,       \* the jobs and tasks: what for, and how far
  cancelled, \* jobs whose token is cancelled
  launch,    \* instance -> its games: launches asked for, those announced that go
             \* on, and whether running_instances has an entry
  late,      \* (of the model) instances a game of which was announced while one
             \* of their dialogues was open or a change of theirs going on
  twice,     \* (of the model) instances launched again before the last game ended
  lost       \* (of the model) instances with an install that the interface has lost

dialogVars == <<view, token, job, cancelled, launch, late, twice, lost>>

View(at, s, l) == [at |-> at, slug |-> s, loader |-> l, from |-> Nil]
List == View("list", Nil, Nil)
NoJob == [kind |-> "none", slug |-> Nil, loader |-> Nil, at |-> "none"]

InstallsFor(j, s) == job[j].kind = "install" /\ job[j].slug = s
Running(s) == launch[s].known
Games(s) == launch[s].asked + launch[s].playing

DialogInit ==
  /\ view = List
  /\ token = [s \in Slugs |-> Nil]
  /\ job = [j \in Jobs |-> NoJob]
  /\ cancelled = {}
  /\ launch = [s \in Slugs |-> [asked |-> 0, playing |-> 0, known |-> FALSE]]
  /\ late = {} /\ twice = {} /\ lost = {}

\* An effect starts a job, or a task that needs no place in the pool.
StartJob(kind, s, l, at) ==
  \E j \in Jobs :
    /\ job[j] = NoJob
    /\ job' = [job EXCEPT ![j] = [kind |-> kind, slug |-> s, loader |-> l, at |-> at]]

-----------------------------------------------------------------------------
(* Keys. *)

Show(v) ==
  /\ view' = v
  /\ UNCHANGED <<token, job, cancelled, launch>>

\* Plausible bug: only a second launch is guarded against.
OpenOverAnother(s) ==
  /\ view = List /\ ~Running(s)
  /\ Show(View("picker", s, Nil))

OpenLoaderPicker(s) ==
  /\ view = List /\ ~Running(s) /\ token[s] = Nil
  /\ Show(View("picker", s, Nil))

\* The None row of an instance with a loader, or a loader's row.
LoaderPickerSelect ==
  /\ view.at = "picker"
  /\ \/ Show(View("confirm", view.slug, Nil))
     \/ \E l \in Loaders :
          /\ view' = View("versions", view.slug, l)
          /\ StartJob("fetch", view.slug, l, "working")
          /\ UNCHANGED <<token, cancelled, launch>>

BeginInstall(s) ==
  /\ view' = View("progress", s, Nil)
  /\ StartJob("install", s, Nil, "queued")
  /\ UNCHANGED <<token, cancelled, launch>>

\* A version other than the instance's own: at once if it has no loader.
LoaderVersionSelect ==
  /\ view.at = "versions" /\ view.from # Nil
  /\ \/ BeginInstall(view.slug)
     \/ Show(View("confirm", view.slug, view.loader))

ConfirmLoaderSwitch ==
  /\ view.at = "confirm"
  /\ \/ view.loader # Nil /\ BeginInstall(view.slug)
     \/ /\ view.loader = Nil
        /\ view' = List
        /\ StartJob("remove", view.slug, Nil, "working")
        /\ UNCHANGED <<token, cancelled, launch>>

\* Plausible bug: the guard of the loader's picker is not repeated here.
OpenJavaOnly(s) == view = List /\ Show(View("java", s, Nil))

OpenJavaPicker(s) == view = List /\ ~Running(s) /\ Show(View("java", s, Nil))

\* Auto or a detected runtime; the Manual row only closes.
JavaPickerSelect ==
  /\ view.at = "java"
  /\ view' = List
  /\ StartJob("java", view.slug, Nil, "working")
  /\ UNCHANGED <<token, cancelled, launch>>

\* A dialogue with a text to type; it may end in a change that tells no view.
OpenForm == view = List /\ Show(View("other", Nil, Nil))

\* Esc, and the Manual row.
Leave ==
  \/ view.at \in {"picker", "confirm", "java", "other"} /\ Show(List)
  \/ view.at = "versions" /\ Show(View("picker", view.slug, Nil))

\* Esc in the progress dialogue.
CancelLoaderInstall ==
  /\ view.at = "progress"
  /\ cancelled' = cancelled \cup ({token[view.slug]} \ {Nil})
  /\ token' = [token EXCEPT ![view.slug] = Nil]
  /\ view' = List
  /\ UNCHANGED <<job, launch>>

LaunchInstance(s) ==
  /\ view = List /\ ~Running(s)
  /\ Games(s) < MaxGames /\ \A r \in Slugs \ {s} : Games(s) + Games(r) < MaxGames
  /\ launch' = [launch EXCEPT ![s].asked = @ + 1]
  /\ UNCHANGED <<view, token, job, cancelled>>

\* The game is taken to be over at once; it is killed.
StopInstance(s) ==
  /\ view = List /\ Running(s)
  /\ launch' = [launch EXCEPT ![s].playing = @ - 1, ![s].known = FALSE]
  /\ UNCHANGED <<view, token, job, cancelled>>

-----------------------------------------------------------------------------
(* Answers. *)

Over(j) ==
  /\ job' = [job EXCEPT ![j] = NoJob]
  /\ cancelled' = cancelled \ {j}
Working(j, kind) == job[j].kind = kind /\ job[j].at = "working"

LoaderInstallStarted(j) ==
  /\ job[j].kind = "install" /\ job[j].at = "queued"
  /\ job' = [job EXCEPT ![j].at = "working"]
  /\ token' = [token EXCEPT ![job[j].slug] = j]
  /\ UNCHANGED <<view, cancelled, launch>>

\* A cancelled job is dropped, or sees it and tells the same as a success.
Dropped(j) ==
  /\ Working(j, "install") /\ j \in cancelled
  /\ Over(j)
  /\ UNCHANGED <<view, token, launch>>

\* The end of an install or of a removal.
LoaderInstalled(j) ==
  /\ Working(j, "install") \/ Working(j, "remove")
  /\ Over(j)
  /\ token' = [token EXCEPT ![job[j].slug] = Nil]
  /\ view' = List
  /\ UNCHANGED launch

\* Plausible bug: a failure is shown only where a version was being chosen.
FailedElsewhere(j) ==
  /\ \E kind \in {"install", "remove", "fetch"} : Working(j, kind)
  /\ Over(j)
  /\ token' = [token EXCEPT ![job[j].slug] = Nil]
  /\ view' = IF view.at = "versions" THEN View("other", Nil, Nil) ELSE view
  /\ UNCHANGED launch

\* A fetch of versions that fails, and a removal, tell the same.
LoaderInstallFailed(j) ==
  /\ \E kind \in {"install", "remove", "fetch"} : Working(j, kind)
  /\ Over(j)
  /\ token' = [token EXCEPT ![job[j].slug] = Nil]
  /\ view' = View("other", Nil, Nil)
  /\ UNCHANGED launch

LoaderVersionsLoaded(j) ==
  /\ Working(j, "fetch")
  /\ Over(j)
  /\ view' = IF view.at = "versions" /\ view.slug = job[j].slug /\ view.loader = job[j].loader
             THEN [view EXCEPT !.from = <<job[j].slug, job[j].loader>>] ELSE view
  /\ UNCHANGED <<token, launch>>

\* JavaOverrideSet, JavaOverrideFailed.
JavaOverrideEnds(j) ==
  /\ Working(j, "java")
  /\ Over(j)
  /\ view' \in {view, List}
  /\ UNCHANGED <<token, launch>>

LaunchJobStarted(s) ==
  /\ launch[s].asked > 0
  /\ launch' = [launch EXCEPT ![s].asked = @ - 1, ![s].playing = @ + 1, ![s].known = TRUE]
  /\ UNCHANGED <<view, token, job, cancelled>>

\* InstanceExited, LaunchFailed: whichever game it was, the instance's entry goes.
GameEnds(s) ==
  /\ launch[s].playing > 0
  /\ launch' = [launch EXCEPT ![s].playing = @ - 1, ![s].known = FALSE]
  /\ view' \in {view, View("other", Nil, Nil)}
  /\ UNCHANGED <<token, job, cancelled>>

Keys ==
  \/ \E s \in Slugs : OpenLoaderPicker(s) \/ OpenJavaPicker(s) \/ LaunchInstance(s) \/ StopInstance(s)
  \/ LoaderPickerSelect \/ LoaderVersionSelect \/ ConfirmLoaderSwitch
  \/ JavaPickerSelect \/ OpenForm \/ Leave \/ CancelLoaderInstall

Answers ==
  \/ \E j \in Jobs : \/ LoaderInstallStarted(j) \/ Dropped(j) \/ LoaderInstalled(j)
                     \/ LoaderInstallFailed(j) \/ LoaderVersionsLoaded(j)
                     \/ JavaOverrideEnds(j)
  \/ \E s \in Slugs : LaunchJobStarted(s) \/ GameEnds(s)

\* An install that goes on, that no key can cancel and no dialogue shows.
Lost(s) ==
  /\ ~(view.at = "progress" /\ view.slug = s)
  /\ \E j \in Jobs \ cancelled : InstallsFor(j, s) /\ token[s] # j

\* The loader or the Java of s is being changed.
Changing(s) ==
  \E j \in Jobs : job[j].slug = s /\ job[j].kind \in {"install", "remove", "java"}
Choosing(s) == view.slug = s /\ view.at \in {"picker", "versions", "confirm", "java"}

Noted ==
  /\ late' = {s \in Slugs : /\ s \in late \/ launch'[s].playing > launch[s].playing
                            /\ Choosing(s)' \/ Changing(s)'}
  /\ twice' = {s \in Slugs : Games(s)' > 1 \/ (s \in twice /\ Games(s)' > 0)}
  /\ lost' = {s \in Slugs : Lost(s)' \/ (s \in lost /\ \E j \in Jobs : InstallsFor(j, s)')}

DialogNext == (Keys \/ Answers) /\ Noted

DialogSpec == DialogInit /\ [][DialogNext]_dialogVars

-----------------------------------------------------------------------------
(* Properties. *)

\* An instance has one loader install at a time that is not cancelled, unless the
\* interface had lost sight of one: its dialogue was left before the install was
\* announced, or another answer for the instance took its token.
OneInstall ==
  \A s \in Slugs \ lost : \A i, j \in Jobs \ cancelled :
    InstallsFor(i, s) /\ InstallsFor(j, s) => i = j

\* The loader or the Java of an instance is not changed under its game, from the
\* key that begins the change to its last step, unless the game was announced
\* while the dialogue was open already or the change going on (nothing keeps the
\* instance from being launched then), or the instance was launched twice at once,
\* when the end of one game hides the other.
NotWhilePlaying ==
  \A s \in Slugs : Changing(s) /\ launch[s].playing > 0 => s \in late \cup twice

\* While the progress dialogue is open an install goes on, whose end will close it.
ProgressIsLive ==
  view.at = "progress" => \E j \in Jobs \ cancelled : InstallsFor(j, view.slug)

\* run.rs:1361 says of the cancel key that the token has already been cancelled:
\* after it no install of the instance goes on uncancelled.
EscCancels ==
  [][CancelLoaderInstall => \A j \in Jobs : InstallsFor(j, view.slug) => j \in cancelled']_dialogVars

\* run.rs says that Java cannot be changed while the game runs.
JavaKeptWhilePlaying ==
  [][JavaPickerSelect => ~Running(view.slug)]_dialogVars
=============================================================================
