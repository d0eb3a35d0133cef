------------------------------ MODULE Screens -------------------------------
(***************************************************************************)
(* The action tier of one explorer (mandala-tui: app.rs, screen.rs,        *)
(* deploy.rs, event.rs): its one screen slot, the jobs behind the screens, *)
(* the timers that poll them, the watch over runs whose screen was left,   *)
(* and the drift refresh owed to every completed mutation.  Beside it, the *)
(* runs: deploys that own themselves and commands launched by an agent's   *)
(* tool call (runner.rs, server.rs), which start, register and end on      *)
(* their own.                                                              *)
(*                                                                         *)
(* Left out: what the screens draw, scrolling, tabs and the toggles of the *)
(* modals.  The cursor of the runs list may be on any row it lists, and    *)
(* the keys that quit end the model where it stands.                       *)
(***************************************************************************)
EXTENDS FiniteSets

CONSTANTS
  Runs,      \* registry runs
  Deploys,   \* those of kind deploy; the others are commands
  Tasks,     \* task screens ever opened (ping, reboot)
  NoRun,
  NoTask

ASSUME ScreensAssumption ==
  /\ IsFiniteSet(Runs) /\ IsFiniteSet(Tasks)
  /\ Deploys \subseteq Runs
  /\ NoRun \notin Runs /\ NoTask \notin Tasks

VARIABLES
  run,        \* life of each run
  screen,     \* AppState.screen
  deploy,     \* App.deploy: the run of the DeployJob and whether its id is known
  task,       \* App.task: the TaskJob and whether its exit was handled
  proc,       \* the subprocess of each task
  watched,    \* App.watched_runs, all with after_mutation
  timers,     \* Deadlines
  jobs,       \* the evaluation and the survey under way
  inbox,      \* runs named by ok settles the loop has not handled
  auto,       \* auto_attached_runs
  quit,       \* App.quit
  followed,   \* history: runs shown, by id, with a refresh to follow
  refreshed   \* history: runs whose continuation refreshed drift after they ended

vars == <<run, screen, deploy, task, proc, watched, timers, jobs, inbox, auto, quit, followed,
          refreshed>>
history == <<followed, refreshed>>
outside == <<run, proc, inbox>>

RunLife  == {"none", "starting", "live", "settled", "died", "failed", "pruned"}
Listed   == {"live", "settled", "died"}     \* registry::open_run finds it
Kinds    == {"none", "confirm", "reboot", "task", "log", "deploy", "runs"}
TimerIds == {"DeployPoll", "AttachedLogPoll", "RunWatchPoll", "SpinnerTick"}

NoScreen  == [kind |-> "none", run |-> NoRun, after |-> FALSE, attached |-> FALSE,
              standalone |-> FALSE, finished |-> FALSE, armed |-> FALSE, rows |-> {}, live |-> {}]
NoDeploy  == [run |-> NoRun, known |-> FALSE]
NoJob     == [task |-> NoTask, exited |-> FALSE]
Screen(k) == [NoScreen EXCEPT !.kind = k]

-----------------------------------------------------------------------------
(* The drift refresh. *)

(* sync_spinner *)
Synced(ts, js) == ts \cup (IF js # {} THEN {"SpinnerTick"} ELSE {})

(* after_mutation: a completed run asks for both jobs, whichever already   *)
(* runs; a cancel (no rc) asks for nothing.                                *)
Refresh(completed) == jobs \cup (IF completed THEN {"eval", "survey"} ELSE {})

(* finish_screen, with the timers ts that remain armed. *)
FinishScreen(after, completed, r, ts) ==
  /\ screen' = NoScreen
  /\ jobs' = Refresh(after /\ completed)
  /\ timers' = Synced(ts, jobs')
  /\ refreshed' = refreshed \cup (IF after /\ completed /\ r \in Runs THEN {r} ELSE {})

(* watch_run *)
Watch(r, ts) ==
  /\ watched' = watched \cup {r}
  /\ timers' = ts \cup {"RunWatchPoll"}

Idle == ~quit /\ screen.kind = "none"
On(k) == ~quit /\ screen.kind = k

-----------------------------------------------------------------------------
(* Screens that open. *)

(* DeployRun::returncode: an owned run has one once its process exited, an *)
(* attached one once it has an rc or no live pid.                          *)
ReturnCode(r) == run[r] \notin {"none", "starting", "live"}

(* DeployJob::tick: discover_run finds the run once the engine registered. *)
Discovered(j) == [j EXCEPT !.known = @ \/ run[j.run] \in Listed]

Following(j, after) == followed \cup (IF j.known /\ after THEN {j.run} ELSE {})

(* start_deploy, attached to a registered run. *)
ShowDeploy(r, after, standalone) ==
  /\ screen' = [Screen("deploy") EXCEPT !.run = r, !.after = after, !.attached = TRUE,
                                        !.standalone = standalone, !.finished = ReturnCode(r)]
  /\ deploy' = [run |-> r, known |-> TRUE]
  /\ timers' = timers \cup {"DeployPoll"}
  /\ followed' = Following(deploy', after)

(* push_attached_log *)
PushAttachedLog(r, after, standalone) ==
  /\ screen' = [Screen("log") EXCEPT !.run = r, !.after = after, !.standalone = standalone]
  /\ timers' = timers \cup {"AttachedLogPoll"}
  /\ followed' = followed \cup (IF after THEN {r} ELSE {})
  /\ UNCHANGED deploy

Show(r, after, standalone) ==
  IF r \in Deploys THEN ShowDeploy(r, after, standalone) ELSE PushAttachedLog(r, after, standalone)

(* The explorer, `tui deploy` (run_deploy) or `tui attach` (run_attach). *)
Init ==
  /\ task = NoJob
  /\ proc = [t \in Tasks |-> "none"]
  /\ watched = {} /\ jobs = {} /\ inbox = {} /\ auto = {} /\ followed = {} /\ refreshed = {}
  /\ quit = FALSE
  /\ \E others \in [Runs -> {"none", "live"}] :
       \/ run = others /\ screen = NoScreen /\ deploy = NoDeploy /\ timers = {}
       \/ \E r \in Deploys :
            /\ run \in {[others EXCEPT ![r] = "starting"], [others EXCEPT ![r] = "live"]}
            /\ screen = [Screen("deploy") EXCEPT !.run = r, !.standalone = TRUE,
                                                 !.attached = run[r] = "live"]
            /\ deploy = [run |-> r, known |-> screen.attached]
            /\ timers = {"DeployPoll"}
       \/ \E r \in Runs \ Deploys :
            /\ run = [others EXCEPT ![r] = "live"]
            /\ screen = [Screen("log") EXCEPT !.run = r, !.standalone = TRUE]
            /\ deploy = NoDeploy
            /\ timers = {"AttachedLogPoll"}

(* dispatch: D and R open their modal, a the list of the registry's runs   *)
(* (RunsState::load), live as their pid is at that moment.                 *)
OpenModal(k) ==
  /\ Idle /\ k \in {"confirm", "reboot"}
  /\ screen' = Screen(k)
  /\ UNCHANGED <<outside, deploy, task, watched, timers, jobs, auto, quit, history>>

OpenRuns ==
  /\ Idle \/ On("runs")
  /\ screen' = [Screen("runs") EXCEPT !.rows = {r \in Runs : run[r] \in Listed},
                                      !.live = {r \in Runs : run[r] = "live"}]
  /\ UNCHANGED <<outside, deploy, task, watched, timers, jobs, auto, quit, history>>

(* Cancel of a modal, close of the runs list; y on the reboot modal where  *)
(* reboot_argv knows no command.                                           *)
Cancel ==
  /\ On("confirm") \/ On("reboot") \/ On("runs")
  /\ screen' = NoScreen
  /\ UNCHANGED <<outside, deploy, task, watched, timers, jobs, auto, quit, history>>

(* y on the deploy modal: DeployRun::start spawns the engine, which owns   *)
(* the run and has not registered it yet, or fails.                        *)
ConfirmDeploy(r) ==
  /\ On("confirm") /\ r \in Deploys /\ run[r] = "none"
  /\ \/ /\ run' = [run EXCEPT ![r] = "starting"]
        /\ deploy' = [run |-> r, known |-> FALSE]
        /\ screen' = [Screen("deploy") EXCEPT !.run = r, !.after = TRUE]
        /\ timers' = timers \cup {"DeployPoll"}
     \/ screen' = NoScreen /\ UNCHANGED <<run, deploy, timers>>
  /\ UNCHANGED <<proc, inbox, task, watched, jobs, auto, quit, history>>

(* push_task *)
PushTask(t, after) ==
  /\ proc[t] = "none"
  /\ screen' = [Screen("task") EXCEPT !.after = after]
  /\ \/ /\ proc' = [proc EXCEPT ![t] = "running"]
        /\ task' = [task |-> t, exited |-> FALSE]
     \/ /\ proc' = [proc EXCEPT ![t] = "failed"]    \* to launch: exited, without an rc
        /\ task' = [task |-> t, exited |-> TRUE]
  /\ UNCHANGED <<run, inbox, deploy, watched, timers, jobs, auto, quit, history>>

(* dispatch of p; y on the reboot modal. *)
Ping(t) == Idle /\ PushTask(t, FALSE)
ConfirmReboot(t) == On("reboot") /\ PushTask(t, TRUE)

(* attach_run_manual: the row's liveness is that of the listing. *)
Activate(r) ==
  /\ On("runs") /\ r \in screen.rows
  /\ \/ run[r] \in Listed /\ Show(r, r \in screen.live, FALSE)
     \/ /\ run[r] \notin Listed /\ r \in Deploys      \* the run is gone
        /\ screen' = NoScreen /\ UNCHANGED <<deploy, timers, followed>>
     \/ /\ run[r] \notin Listed /\ r \notin Deploys
        /\ PushAttachedLog(r, r \in screen.live, FALSE)
  /\ UNCHANGED <<outside, task, watched, jobs, auto, quit, refreshed>>

(* Mutant: an auto-attach takes the slot of whatever is shown. *)
AttachRunOver(r) ==
  /\ ~quit /\ r \in inbox
  /\ inbox' = inbox \ {r}
  /\ \/ /\ run[r] = "live" /\ r \notin auto
        /\ auto' = auto \cup {r}
        /\ Show(r, TRUE, FALSE)
     \/ /\ run[r] # "live" \/ r \in auto
        /\ UNCHANGED <<screen, deploy, timers, followed, auto>>
  /\ UNCHANGED <<run, proc, task, watched, jobs, quit, refreshed>>

(* attach_run: never over an open screen, never a run whose pid is gone,   *)
(* never the same run twice.                                               *)
AttachRun(r) ==
  /\ ~quit /\ r \in inbox
  /\ inbox' = inbox \ {r}
  /\ \/ /\ screen.kind = "none" /\ run[r] = "live" /\ r \notin auto
        /\ auto' = auto \cup {r}
        /\ Show(r, TRUE, FALSE)
     \/ /\ screen.kind # "none" \/ run[r] # "live" \/ r \in auto
        /\ UNCHANGED <<screen, deploy, timers, followed, auto>>
  /\ UNCHANGED <<run, proc, task, watched, jobs, quit, refreshed>>

(* attach_run for a settle that names no run (a refused call, a command    *)
(* that did not launch): the newest run of the kind, whichever that is by  *)
(* now, under the same conditions.                                         *)
AttachNewest(r) ==
  /\ ~quit /\ screen.kind = "none" /\ run[r] = "live" /\ r \notin auto
  /\ auto' = auto \cup {r}
  /\ Show(r, TRUE, FALSE)
  /\ UNCHANGED <<outside, task, watched, jobs, quit, refreshed>>

-----------------------------------------------------------------------------
(* Screens that close. *)

(* Close of a task screen: SIGTERM to a task not known to have exited; its *)
(* rc is there only once TaskExited was handled.                           *)
CloseTask ==
  /\ On("task")
  /\ task' = NoJob
  /\ FinishScreen(screen.after, proc[task.task] = "gone", NoRun, timers)
  /\ UNCHANGED <<outside, deploy, watched, auto, quit, followed>>

(* attached_close_rc: an rc only once the run has settled with one. *)
CloseRc(r) == run[r] = "settled"

(* Close of an attached log: detach, and watch a run that has no rc yet. *)
CloseLog ==
  LET r == screen.run
      ts == timers \ {"AttachedLogPoll"}
  IN
  /\ On("log")
  /\ \/ /\ screen.standalone
        /\ quit' = TRUE
        /\ screen' = NoScreen /\ timers' = ts
        /\ UNCHANGED <<watched, jobs, refreshed>>
     \/ /\ ~screen.standalone /\ screen.after /\ ~CloseRc(r)
        /\ Watch(r, ts)
        /\ screen' = NoScreen
        /\ UNCHANGED <<jobs, quit, refreshed>>
     \/ /\ ~screen.standalone /\ (screen.after => CloseRc(r))
        /\ FinishScreen(screen.after, CloseRc(r), r, ts)
        /\ UNCHANGED <<watched, quit>>
  /\ UNCHANGED <<outside, deploy, task, auto, followed>>

(* Close of the deploy screen: never terminates.  A run still going is     *)
(* watched, when its id is known.                                          *)
CloseDeploy ==
  LET r == screen.run
      ts == timers \ {"DeployPoll"}
      detached == ~ReturnCode(r) /\ deploy.known /\ screen.after
  IN
  /\ On("deploy") /\ ~screen.armed
  /\ deploy' = NoDeploy
  /\ quit' = screen.standalone
  /\ \/ /\ detached
        /\ Watch(r, ts)
        /\ screen' = NoScreen
        /\ UNCHANGED <<jobs, refreshed>>
     \/ /\ ~detached
        /\ FinishScreen(screen.after /\ ~screen.standalone, ReturnCode(r), r, ts)
        /\ UNCHANGED watched
  /\ UNCHANGED <<outside, task, auto, followed>>

(* ctrl-k arms the terminate of a run not seen to have finished; the next  *)
(* key is y, which signals it, or anything else, which does not.           *)
ArmTerminate ==
  /\ On("deploy") /\ ~screen.armed /\ ~screen.finished
  /\ screen' = [screen EXCEPT !.armed = TRUE]
  /\ UNCHANGED <<outside, deploy, task, watched, timers, jobs, auto, quit, history>>

Disarm ==
  /\ On("deploy") /\ screen.armed
  /\ screen' = [screen EXCEPT !.armed = FALSE]
  /\ UNCHANGED <<outside, deploy, task, watched, timers, jobs, auto, quit, history>>

-----------------------------------------------------------------------------
(* Timers and events. *)

(* DeployPoll: a tick while the deploy screen is up, then armed again. *)
DeployPoll ==
  /\ ~quit /\ "DeployPoll" \in timers
  /\ \/ /\ On("deploy") /\ deploy # NoDeploy
        /\ deploy' = Discovered(deploy)
        /\ followed' = Following(deploy', screen.after)
        /\ screen' = [screen EXCEPT !.finished = ReturnCode(deploy.run)]
        /\ UNCHANGED timers
     \/ /\ ~On("deploy") \/ deploy = NoDeploy
        /\ timers' = timers \ {"DeployPoll"}
        /\ UNCHANGED <<screen, deploy, followed>>
  /\ UNCHANGED <<outside, task, watched, jobs, auto, quit, refreshed>>

(* Mutant: one settled run ends the watch of the others. *)
RunWatchPollOnce ==
  LET over == {r \in watched : run[r] # "live"}
      rc   == {r \in over : run[r] = "settled"}
  IN
  /\ ~quit /\ "RunWatchPoll" \in timers
  /\ watched' = watched \ over
  /\ jobs' = Refresh(rc # {})
  /\ refreshed' = refreshed \cup rc
  /\ timers' = Synced(IF over = {} THEN timers ELSE timers \ {"RunWatchPoll"}, jobs')
  /\ UNCHANGED <<outside, screen, deploy, task, auto, quit, followed>>

(* poll_watched_runs: a run with an rc, or with a dead pid, or pruned, is  *)
(* watched no more; only the first refreshes (after_mutation of no rc is   *)
(* that of a cancel).  Armed again while any run is left.                  *)
RunWatchPoll ==
  LET over == {r \in watched : run[r] # "live"}
      rc   == {r \in over : run[r] = "settled"}
  IN
  /\ ~quit /\ "RunWatchPoll" \in timers
  /\ watched' = watched \ over
  /\ jobs' = Refresh(rc # {})
  /\ refreshed' = refreshed \cup rc
  /\ timers' = Synced(IF watched' = {} THEN timers \ {"RunWatchPoll"} ELSE timers, jobs')
  /\ UNCHANGED <<outside, screen, deploy, task, auto, quit, followed>>

(* SpinnerTick stops once no job runs. *)
SpinnerTick ==
  /\ ~quit /\ "SpinnerTick" \in timers /\ jobs = {}
  /\ timers' = timers \ {"SpinnerTick"}
  /\ UNCHANGED <<outside, screen, deploy, task, watched, jobs, auto, quit, history>>

(* S, and the end of either job. *)
RefreshDrift ==
  /\ Idle
  /\ jobs' = Refresh(TRUE)
  /\ timers' = Synced(timers, jobs')
  /\ UNCHANGED <<outside, screen, deploy, task, watched, auto, quit, history>>

JobDone(j) ==
  /\ ~quit /\ j \in jobs
  /\ jobs' = jobs \ {j}
  /\ UNCHANGED <<outside, screen, deploy, task, watched, timers, auto, quit, history>>

(* The pump task reaps the child; TaskExited is handled later, by the      *)
(* screen of that task only.                                               *)
TaskEnds(t) ==
  /\ proc[t] = "running"
  /\ proc' = [proc EXCEPT ![t] = "reaped"]
  /\ UNCHANGED <<run, inbox, screen, deploy, task, watched, timers, jobs, auto, quit, history>>

TaskExited(t) ==
  /\ ~quit /\ proc[t] = "reaped"
  /\ proc' = [proc EXCEPT ![t] = "gone"]
  /\ task' = IF task.task = t THEN [task EXCEPT !.exited = TRUE] ELSE task
  /\ UNCHANGED <<run, inbox, screen, deploy, watched, timers, jobs, auto, quit, history>>

-----------------------------------------------------------------------------
(* Runs, which no screen owns. *)

RunsOnly == UNCHANGED <<proc, screen, deploy, task, watched, timers, jobs, auto, quit, history>>

(* launch_deploy, launch_command: registered before the tool settles ok. *)
Launched(r) ==
  /\ run[r] = "none"
  /\ run' = [run EXCEPT ![r] = "live"]
  /\ inbox' = inbox \cup {r}
  /\ RunsOnly

(* tool_deploy; tool_reboot, whose command may fail to launch: that run is *)
(* registered with an rc, and the settle names no run (AttachNewest).      *)
AgentDeploys(r) == r \in Deploys /\ Launched(r)

AgentReboots(r) ==
  /\ r \notin Deploys
  /\ \/ Launched(r)
     \/ run[r] = "none" /\ run' = [run EXCEPT ![r] = "settled"] /\ UNCHANGED inbox /\ RunsOnly

(* The engine of an operator's deploy registers its run. *)
Register(r) ==
  /\ run[r] = "starting"
  /\ run' = [run EXCEPT ![r] = "live"]
  /\ UNCHANGED inbox /\ RunsOnly

(* It ends with its rc in meta.json, or without one (killed, or a command  *)
(* whose launcher died before it could reap); before registering, nowhere. *)
RunEnds(r) ==
  /\ \/ run[r] = "live" /\ \E e \in {"settled", "died"} : run' = [run EXCEPT ![r] = e]
     \/ run[r] = "starting" /\ run' = [run EXCEPT ![r] = "failed"]
  /\ UNCHANGED inbox /\ RunsOnly

(* prune_runs *)
Prune(r) ==
  /\ run[r] \in {"settled", "died"}
  /\ run' = [run EXCEPT ![r] = "pruned"]
  /\ UNCHANGED inbox /\ RunsOnly

-----------------------------------------------------------------------------
Operator ==
  \/ \E k \in {"confirm", "reboot"} : OpenModal(k)
  \/ OpenRuns \/ Cancel \/ CloseTask \/ CloseLog \/ CloseDeploy \/ ArmTerminate \/ Disarm
  \/ RefreshDrift
  \/ \E r \in Runs : ConfirmDeploy(r) \/ Activate(r)
  \/ \E t \in Tasks : Ping(t) \/ ConfirmReboot(t)

Loop ==
  \/ DeployPoll \/ RunWatchPoll \/ SpinnerTick
  \/ \E j \in {"eval", "survey"} : JobDone(j)
  \/ \E t \in Tasks : TaskExited(t)
  \/ \E r \in Runs : AttachRun(r) \/ AttachNewest(r)

World ==
  \/ \E t \in Tasks : TaskEnds(t)
  \/ \E r \in Runs : AgentDeploys(r) \/ AgentReboots(r) \/ Register(r) \/ RunEnds(r) \/ Prune(r)

Next == Operator \/ Loop \/ World

Spec == Init /\ [][Next]_vars

-----------------------------------------------------------------------------
(* The screen slot, the jobs behind it and the timers never part: a job is *)
(* polled exactly while its screen is up, a run is watched only while the  *)
(* watch timer runs, a task job is that of the screen and believed to have *)
(* exited only when it did (handle, on_screen_action, watch_run).          *)
SlotMatchesJobs ==
  /\ (screen.kind = "deploy") <=> (deploy # NoDeploy)
  /\ (screen.kind = "deploy") <=> ("DeployPoll" \in timers)
  /\ screen.kind = "deploy" => deploy.run = screen.run
  /\ (screen.kind = "log") <=> ("AttachedLogPoll" \in timers)
  /\ watched # {} => "RunWatchPoll" \in timers
  /\ jobs # {} => "SpinnerTick" \in timers
  /\ (screen.kind = "task") <=> (task # NoJob)
  /\ task # NoJob /\ task.exited => proc[task.task] \in {"gone", "failed"}

(* watch_run: "leaving the view backgrounds the run, the post-settlement   *)
(* refresh survives".  A run that was shown here with a refresh to follow  *)
(* and is no longer on screen is being watched by a timer that will fire,  *)
(* or has had its refresh after it ended with an rc: in whatever order it  *)
(* was left, listed, re-attached and ended.                                *)
RefreshOwed ==
  ~quit =>
    \A r \in followed :
      run[r] \in {"live", "settled"} /\ screen.run # r =>
        r \in refreshed \/ (r \in watched /\ "RunWatchPoll" \in timers)

=============================================================================
