----------------------------- MODULE LaunchControl -----------------------------
(***************************************************************************)
(* Starting, stopping and watching games: the keys of the instance list    *)
(* and the launch arms of update (tui/app.rs, tui/run.rs), the launch job  *)
(* (Effect::LaunchInstance, launcher/service.rs) and the game it waits for *)
(* (launcher/spawn.rs).                                                    *)
(*                                                                         *)
(* The terminal interface learns what the jobs do from the action channel, *)
(* in the order it was sent; running_instances is its picture of them.     *)
(* Keys are handled at once, effects included.  The job is the body of a   *)
(* TaskManager task: once its token is cancelled it is dropped at its next *)
(* poll, and the game with it (kill_on_drop).                              *)
(***************************************************************************)
EXTENDS Naturals, Sequences

CONSTANTS Slugs,         \* the instances there are at first
          MaxLaunches,   \* bound on the launches of a behaviour
          None           \* no launch, no instance

Launches == 1..MaxLaunches

ASSUME LaunchAssumption == MaxLaunches \in Nat /\ None \notin Launches \cup Slugs

VARIABLES
  next,       \* the number of the next launch
  slug,       \* the instance a launch is for
  reached,    \* how far its job has got
  stopped,    \* launches whose token is cancelled
  alive,      \* launches whose game is alive
  chan,       \* the actions on their way to the interface
  running,    \* running_instances: instance -> launch
  confirm,    \* the instance whose deletion the modal asks to confirm
  failed,     \* is LaunchFailedModal shown?
  shown,      \* AppState.instances
  disk,       \* the instances whose directory is there
  overlapped  \* (of the model) instances launched again before the last job ended

launchVars == <<next, slug, reached, stopped, alive, chan, running, confirm,
                failed, shown, disk, overlapped>>

Stages == {"none", "queued", "preparing", "playing", "ending", "done"}
InFlight(j) == reached[j] \notin {"none", "done"}
Tracked(j) == running[slug[j]] = j

LaunchInit ==
  /\ next = 1
  /\ slug = [j \in Launches |-> None]
  /\ reached = [j \in Launches |-> "none"]
  /\ stopped = {} /\ alive = {}
  /\ chan = <<>>
  /\ running = [s \in Slugs |-> None]
  /\ confirm = None /\ failed = FALSE
  /\ shown = Slugs /\ disk = Slugs
  /\ overlapped = {}

-----------------------------------------------------------------------------
(* Keys. *)

AtList(s) == confirm = None /\ ~failed /\ s \in shown

\* The launch key spawns a job unless the instance is known to be running.
LaunchKey(s) ==
  /\ AtList(s)
  /\ running[s] = None
  /\ next \in Launches
  /\ next' = next + 1
  /\ slug' = [slug EXCEPT ![next] = s]
  /\ reached' = [reached EXCEPT ![next] = "queued"]
  /\ overlapped' = IF \E j \in Launches : slug[j] = s /\ InFlight(j)
                     THEN overlapped \cup {s} ELSE overlapped
  /\ UNCHANGED <<stopped, alive, chan, running, confirm, failed, shown, disk>>

\* Plausible bug: the badge is cleared, the job goes on.
StopKeyBadge(s) ==
  /\ AtList(s)
  /\ running[s] # None
  /\ running' = [running EXCEPT ![s] = None]
  /\ UNCHANGED <<next, slug, reached, stopped, alive, chan, confirm, failed, shown,
                 disk, overlapped>>

\* StopInstance takes the launch out of running_instances and cancels it; the
\* effect that follows (KillProcess) finds nothing to cancel any more.
StopKey(s) ==
  /\ AtList(s)
  /\ running[s] # None
  /\ running' = [running EXCEPT ![s] = None]
  /\ stopped' = stopped \cup {running[s]}
  /\ UNCHANGED <<next, slug, reached, alive, chan, confirm, failed, shown, disk, overlapped>>

Dialog(asked, failure) ==
  /\ confirm' = asked
  /\ failed' = failure
  /\ UNCHANGED <<next, slug, reached, stopped, alive, chan, running, shown, overlapped>>

\* The delete key asks for confirmation unless the instance is known to be running.
DeleteKey(s) ==
  AtList(s) /\ running[s] = None /\ Dialog(s, failed) /\ UNCHANGED disk

\* ConfirmDelete spawns the deletion; it is taken to happen at once.
ConfirmDelete ==
  /\ confirm # None
  /\ Dialog(None, failed)
  /\ disk' = disk \ {confirm}

\* Escape closes whichever modal is shown.
CloseModal ==
  (confirm # None \/ failed) /\ Dialog(None, FALSE) /\ UNCHANGED disk

-----------------------------------------------------------------------------
(* The job of a launch. *)

Move(j, stage) ==
  /\ reached' = [reached EXCEPT ![j] = stage]
  /\ UNCHANGED <<next, slug, stopped, running, confirm, failed, shown, disk, overlapped>>

\* The job gets its permit and hands its token to the interface first.
AnnounceLaunch(j) ==
  /\ reached[j] = "queued"
  /\ Move(j, "preparing")
  /\ chan' = Append(chan, <<"started", j>>)
  /\ UNCHANGED alive

\* launch_instance gets to spawning the game, or fails before.
Spawn(j) ==
  /\ reached[j] = "preparing" /\ slug[j] \in disk
  /\ Move(j, "playing")
  /\ alive' = alive \cup {j}
  /\ UNCHANGED chan
FailEarly(j) ==
  /\ reached[j] = "preparing"
  /\ Move(j, "ending")
  /\ UNCHANGED <<alive, chan>>

\* The game ends by itself, and launch_instance returns.
GameEnds(j) ==
  /\ reached[j] = "playing"
  /\ Move(j, "ending")
  /\ alive' = alive \ {j}
  /\ UNCHANGED chan

\* InstanceExited after a clean end, LaunchFailed otherwise.
Report(j, kind) ==
  /\ reached[j] = "ending"
  /\ kind \in {"exited", "failed"}
  /\ Move(j, "done")
  /\ chan' = Append(chan, <<kind, j>>)
  /\ UNCHANGED alive

\* The select of spawn_task sees the token cancelled and drops the body: no
\* further action is sent.
Drop(j) ==
  /\ j \in stopped /\ reached[j] \in {"preparing", "playing", "ending"}
  /\ Move(j, "done")
  /\ UNCHANGED <<alive, chan>>

\* Plausible bug: the command is built without kill_on_drop.
KillNothing(j) == FALSE /\ UNCHANGED launchVars

\* kill_on_drop: the game of a dropped job is killed.
Kill(j) ==
  /\ j \in alive /\ reached[j] = "done"
  /\ alive' = alive \ {j}
  /\ UNCHANGED <<next, slug, reached, stopped, chan, running, confirm, failed, shown,
                 disk, overlapped>>

-----------------------------------------------------------------------------
(* The interface receives an action. *)

\* Plausible bug: only InstanceExited takes the entry out.
AfterExitedOnly(kind, j) ==
  CASE kind = "started" -> [running EXCEPT ![slug[j]] = j]
    [] kind = "exited" -> [running EXCEPT ![slug[j]] = None]
    [] kind = "failed" -> running

\* Both end actions name the instance, not the launch.
After(kind, j) ==
  CASE kind = "started" -> [running EXCEPT ![slug[j]] = j]
    [] OTHER -> [running EXCEPT ![slug[j]] = None]

Receive ==
  /\ chan # <<>>
  /\ LET kind == Head(chan)[1] IN
       /\ running' = After(kind, Head(chan)[2])
       /\ IF kind = "failed" THEN failed' = TRUE /\ confirm' = None
                             ELSE UNCHANGED <<failed, confirm>>
  /\ chan' = Tail(chan)
  /\ UNCHANGED <<next, slug, reached, stopped, alive, shown, disk, overlapped>>

\* A FetchInstances ends, and its list is received.
Refresh ==
  /\ shown # disk
  /\ shown' = disk
  /\ UNCHANGED <<next, slug, reached, stopped, alive, chan, running, confirm, failed,
                 disk, overlapped>>

Keys == CloseModal \/ ConfirmDelete
        \/ \E s \in Slugs : LaunchKey(s) \/ StopKey(s) \/ DeleteKey(s)
Job(j) == \/ AnnounceLaunch(j) \/ Spawn(j) \/ FailEarly(j) \/ GameEnds(j) \/ Drop(j) \/ Kill(j)
          \/ \E kind \in {"exited", "failed"} : Report(j, kind)

LaunchNext == Keys \/ Receive \/ Refresh \/ \E j \in Launches : Job(j)

LaunchSpec == LaunchInit /\ [][LaunchNext]_launchVars

\* The runtime polls ready tasks, a killed process dies and the interface reads
\* its channel; nobody has to press a key, and no game has to end by itself.  A
\* launch takes each of these steps once and an action is received once, so that
\* none of them can hold up another for ever.
LaunchProgress ==
  \/ Receive
  \/ \E j \in Launches :
       \/ AnnounceLaunch(j) \/ Drop(j) \/ Kill(j) \/ Spawn(j) \/ FailEarly(j)
       \/ \E kind \in {"exited", "failed"} : Report(j, kind)

LaunchFairSpec == LaunchSpec /\ WF_launchVars(LaunchProgress)

-----------------------------------------------------------------------------
(* Properties. *)

\* Types; a game is alive only while its job waits for it or was just dropped.
LaunchTypeOK ==
  /\ next \in 1..(MaxLaunches + 1)
  /\ slug \in [Launches -> Slugs \cup {None}]
  /\ reached \in [Launches -> Stages]
  /\ stopped \subseteq Launches
  /\ alive \subseteq {j \in Launches : \/ reached[j] = "playing"
                                       \/ reached[j] = "done" /\ j \in stopped}
  /\ chan \in Seq({"started", "exited", "failed"} \X Launches)
  /\ running \in [Slugs -> Launches \cup {None}]
  /\ confirm \in Slugs \cup {None} /\ failed \in BOOLEAN
  /\ shown \subseteq Slugs /\ disk \subseteq Slugs
  /\ overlapped \subseteq Slugs

Announced(j) == /\ reached[j] \in {"preparing", "playing", "ending"}
                /\ \A i \in 1..Len(chan) : chan[i] # <<"started", j>>

\* A launch whose start the interface has seen is tracked until it ends or is
\* stopped, so that its game can be stopped and its instance is not launched
\* again: for every instance that was never launched over a job of its own.
TrackedUnlessOverlapped ==
  \A j \in Launches :
    (Announced(j) /\ j \notin stopped /\ slug[j] \notin overlapped) => Tracked(j)

\* The same without the exception: app.rs:420 and app.rs:1875 claim that every
\* launch job is tracked and that a second launch is a no-op.
EveryLaunchTracked ==
  \A j \in Launches : (Announced(j) /\ j \notin stopped) => Tracked(j)

\* A stopped launch ends, and its game with it.
StopKills ==
  \A j \in Launches : (j \in stopped) ~> (reached[j] = "done" /\ j \notin alive)

\* The running badge does not stay: the entry of a launch that is over goes.
BadgeClears ==
  \A j \in Launches :
    (reached[j] = "done" /\ Tracked(j)) ~> ~(reached[j] = "done" /\ Tracked(j))
=============================================================================
