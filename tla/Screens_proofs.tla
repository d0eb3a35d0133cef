--------------------------- MODULE Screens_proofs ----------------------------
(***************************************************************************)
(* Proofs about Screens for any runs and tasks: the screen slot, the jobs   *)
(* and the timers never part, and the refresh a backgrounded run is owed is *)
(* neither lost nor left without a timer.                                   *)
(***************************************************************************)
EXTENDS Screens, TLAPS

(* AppState.screen, App.deploy and App.task as records. *)
ScreenType == [kind : Kinds, run : Runs \cup {NoRun}, after : BOOLEAN, attached : BOOLEAN,
               standalone : BOOLEAN, finished : BOOLEAN, armed : BOOLEAN,
               rows : SUBSET Runs, live : SUBSET Runs]
DeployType == [run : Runs \cup {NoRun}, known : BOOLEAN]
TaskType   == [task : Tasks \cup {NoTask}, exited : BOOLEAN]
ProcLife   == {"none", "running", "reaped", "gone", "failed"}

(* The types of the state. *)
TypeOK ==
  /\ run \in [Runs -> RunLife]
  /\ screen \in ScreenType
  /\ deploy \in DeployType
  /\ task \in TaskType
  /\ proc \in [Tasks -> ProcLife]
  /\ watched \subseteq Runs
  /\ inbox \subseteq Runs
  /\ followed \subseteq Runs

(* The slot names a run exactly while a screen shows one. *)
SlotInv ==
  /\ SlotMatchesJobs
  /\ screen.kind \in {"deploy", "log"} => screen.run \in Runs
  /\ screen.kind \notin {"deploy", "log"} => screen.run = NoRun
  /\ deploy # NoDeploy => deploy.run \in Runs
  /\ task # NoJob => task.task \in Tasks

(* A run that was registered, whatever became of it: it never goes back. *)
Past == {"live", "settled", "died", "pruned"}

(* Only runs that were registered are listed, known or followed. *)
PastInv ==
  /\ \A r \in followed : run[r] \in Past
  /\ \A r \in screen.live : run[r] \in Past
  /\ deploy # NoDeploy /\ deploy.known => run[deploy.run] \in Past
  /\ deploy # NoDeploy /\ ~deploy.known => deploy.run \notin followed

(* Why the refresh of a followed run is not lost, its screen up or not.  A
   screen that re-attached to it without a refresh of its own does not count. *)
Kept(r) ==
  \/ r \in refreshed
  \/ r \in watched /\ "RunWatchPoll" \in timers
  \/ screen.run = r /\ screen.after

OwedInv == ~quit => \A r \in followed : run[r] \in {"live", "settled"} => Kept(r)

(* The inductive invariant. *)
WInv == TypeOK /\ SlotInv /\ PastInv /\ OwedInv

-----------------------------------------------------------------------------
(* The screens the model builds, field by field. *)
LEMMA PlainScreen ==
  ASSUME NEW k \in Kinds
  PROVE  /\ Screen(k) \in ScreenType
         /\ Screen(k).kind = k /\ Screen(k).run = NoRun /\ Screen(k).live = {}
BY DEF Screen, NoScreen, ScreenType, Kinds

(* The empty slot. *)
LEMMA EmptySlot ==
  NoScreen \in ScreenType /\ NoScreen.kind = "none" /\ NoScreen.run = NoRun /\ NoScreen.live = {}
BY DEF NoScreen, ScreenType, Kinds

(* The list of runs: rows R, of which L were live. *)
Listing(R, L) == [Screen("runs") EXCEPT !.rows = R, !.live = L]

(* Its fields. *)
LEMMA RunsScreen ==
  ASSUME NEW R \in SUBSET Runs, NEW L \in SUBSET Runs
  PROVE  /\ Listing(R, L) \in ScreenType /\ Listing(R, L).kind = "runs"
         /\ Listing(R, L).run = NoRun /\ Listing(R, L).live = L
BY DEF Listing, Screen, NoScreen, ScreenType, Kinds

(* The screens of a registered run, and of a command's log. *)
Attached(r, a, f) ==
  [Screen("deploy") EXCEPT !.run = r, !.after = a, !.attached = TRUE,
                           !.standalone = FALSE, !.finished = f]
Logged(r, a) == [Screen("log") EXCEPT !.run = r, !.after = a, !.standalone = FALSE]

(* A deploy screen attached to a registered run. *)
LEMMA AttachedScreen ==
  ASSUME NEW r \in Runs, NEW a \in BOOLEAN, NEW f \in BOOLEAN
  PROVE  /\ Attached(r, a, f) \in ScreenType /\ Attached(r, a, f).kind = "deploy"
         /\ Attached(r, a, f).run = r /\ Attached(r, a, f).after = a /\ Attached(r, a, f).live = {}
BY DEF Attached, Screen, NoScreen, ScreenType, Kinds

(* The deploy screen of a run the operator confirmed. *)
LEMMA ConfirmedScreen ==
  ASSUME NEW r \in Runs, NEW x, x = [Screen("deploy") EXCEPT !.run = r, !.after = TRUE]
  PROVE  x \in ScreenType /\ x.kind = "deploy" /\ x.run = r /\ x.after = TRUE /\ x.live = {}
BY DEF Screen, NoScreen, ScreenType, Kinds

(* The log of a command's run. *)
LEMMA LogScreen ==
  ASSUME NEW r \in Runs, NEW a \in BOOLEAN
  PROVE  /\ Logged(r, a) \in ScreenType /\ Logged(r, a).kind = "log"
         /\ Logged(r, a).run = r /\ Logged(r, a).after = a /\ Logged(r, a).live = {}
BY DEF Logged, Screen, NoScreen, ScreenType, Kinds

(* The screen of a task. *)
LEMMA TaskScreen ==
  ASSUME NEW a \in BOOLEAN, NEW x, x = [Screen("task") EXCEPT !.after = a]
  PROVE  x \in ScreenType /\ x.kind = "task" /\ x.run = NoRun /\ x.live = {}
BY DEF Screen, NoScreen, ScreenType, Kinds

(* A mark on the deploy screen changes nothing else of it. *)
LEMMA MarkedScreen ==
  ASSUME NEW x \in ScreenType, NEW b \in BOOLEAN, NEW y,
         y = [x EXCEPT !.armed = b] \/ y = [x EXCEPT !.finished = b]
  PROVE  /\ y \in ScreenType /\ y.kind = x.kind /\ y.run = x.run /\ y.after = x.after
         /\ y.live = x.live
BY DEF ScreenType

(* The jobs of the slot. *)
LEMMA JobFields ==
  /\ NoDeploy \in DeployType /\ NoDeploy.run = NoRun /\ NoJob \in TaskType /\ NoJob.task = NoTask
  /\ \A r \in Runs, k \in BOOLEAN :
       LET j == [run |-> r, known |-> k] IN j \in DeployType /\ j.run = r /\ j.known = k /\ j # NoDeploy
  /\ \A t \in Tasks, x \in BOOLEAN :
       LET j == [task |-> t, exited |-> x] IN j \in TaskType /\ j.task = t /\ j.exited = x /\ j # NoJob
BY ScreensAssumption DEF NoDeploy, DeployType, NoJob, TaskType

-----------------------------------------------------------------------------
(* The moves of the model, field by field *)

Modal == {"none", "confirm", "reboot", "runs"}

(* What the screens and the loop leave alone. *)
RunsKept == UNCHANGED <<run, watched, jobs, refreshed>>

(* Modals and the list of runs come and go. *)
AtModal ==
  /\ screen.kind \in Modal /\ screen'.kind \in Modal /\ screen'.run = NoRun
  /\ \A r \in screen'.live : r \in Runs /\ run[r] = "live"
  /\ RunsKept /\ UNCHANGED <<proc, deploy, task, timers, quit, followed>>

(* A deploy is shown: k when the run is known, a when its refresh follows. *)
AtShow(r, k, a) ==
  /\ screen.kind \in Modal /\ r \in Runs
  /\ screen'.kind = "deploy" /\ screen'.run = r /\ screen'.live = {}
  /\ deploy' # NoDeploy /\ deploy'.run = r /\ deploy'.known = k
  /\ timers' = timers \cup {"DeployPoll"}
  /\ \/ a /\ screen'.after /\ followed' = followed \cup {r}
     \/ ~a /\ followed' = followed
  /\ UNCHANGED <<proc, task, watched, jobs, quit, refreshed>>

(* The log of a command is shown. *)
AtLog(r, a) ==
  /\ screen.kind \in Modal /\ r \in Runs
  /\ screen'.kind = "log" /\ screen'.run = r /\ screen'.live = {}
  /\ timers' = timers \cup {"AttachedLogPoll"}
  /\ \/ a /\ screen'.after /\ followed' = followed \cup {r}
     \/ ~a /\ followed' = followed
  /\ RunsKept /\ UNCHANGED <<proc, deploy, task, quit>>

(* A task starts, or fails to. *)
AtTask(t) ==
  /\ screen.kind \in Modal /\ t \in Tasks
  /\ screen'.kind = "task" /\ screen'.run = NoRun /\ screen'.live = {}
  /\ task' # NoJob /\ task'.task = t
  /\ proc[t] = "none" /\ \A u \in Tasks \ {t} : proc'[u] = proc[u]
  /\ task'.exited => proc'[t] = "failed"
  /\ RunsKept /\ UNCHANGED <<deploy, timers, quit, followed>>

(* Show, from the list or from the inbox. *)
LEMMA ShowMoves ==
  ASSUME TypeOK, NEW r \in Runs, NEW a \in BOOLEAN, Show(r, a, FALSE), screen.kind \in Modal,
         RunsKept, UNCHANGED <<proc, task, quit>>
  PROVE  /\ screen' \in ScreenType /\ deploy' \in DeployType /\ followed' \subseteq Runs
         /\ \/ AtShow(r, TRUE, a) /\ run' = run
            \/ AtLog(r, a)
<1>1. CASE r \in Deploys
  <2>0. ShowDeploy(r, a, FALSE)
    BY <1>1 DEF Show
  <2>1. ReturnCode(r) \in BOOLEAN
    BY DEF ReturnCode
  <2>2. /\ screen' \in ScreenType /\ screen'.kind = "deploy" /\ screen'.run = r
        /\ screen'.after = a /\ screen'.live = {}
    <3>1. screen' = Attached(r, a, ReturnCode(r))
      BY <2>0 DEF ShowDeploy, Attached
    <3> QED BY <2>1, <3>1, AttachedScreen
  <2>3. deploy' \in DeployType /\ deploy'.run = r /\ deploy'.known = TRUE /\ deploy' # NoDeploy
    BY <2>0, JobFields DEF ShowDeploy
  <2>4. CASE a
    BY <2>0, <2>2, <2>3, <2>4 DEF ShowDeploy, Following, AtShow, RunsKept, TypeOK
  <2>5. CASE ~a
    BY <2>0, <2>2, <2>3, <2>5 DEF ShowDeploy, Following, AtShow, RunsKept, TypeOK
  <2> QED BY <2>4, <2>5
<1>2. CASE r \notin Deploys
  <2>0. PushAttachedLog(r, a, FALSE)
    BY <1>2 DEF Show
  <2>2. /\ screen' \in ScreenType /\ screen'.kind = "log" /\ screen'.run = r
        /\ screen'.after = a /\ screen'.live = {}
    <3>1. screen' = Logged(r, a)
      BY <2>0 DEF PushAttachedLog, Logged
    <3> QED BY <3>1, LogScreen
  <2>4. CASE a
    BY <2>0, <2>2, <2>4 DEF PushAttachedLog, AtLog, RunsKept, TypeOK
  <2>5. CASE ~a
    BY <2>0, <2>2, <2>5 DEF PushAttachedLog, AtLog, RunsKept, TypeOK
  <2> QED BY <2>4, <2>5
<1> QED BY <1>1, <1>2

(* A log pushed for a run that is gone. *)
LEMMA LogMoves ==
  ASSUME TypeOK, NEW r \in Runs, NEW a \in BOOLEAN, PushAttachedLog(r, a, FALSE),
         screen.kind \in Modal, RunsKept, UNCHANGED <<proc, task, quit>>
  PROVE  screen' \in ScreenType /\ deploy' \in DeployType /\ followed' \subseteq Runs /\ AtLog(r, a)
<1>2. /\ screen' \in ScreenType /\ screen'.kind = "log" /\ screen'.run = r
      /\ screen'.after = a /\ screen'.live = {}
  <2>1. screen' = Logged(r, a)
    BY DEF PushAttachedLog, Logged
  <2> QED BY <2>1, LogScreen
<1>4. CASE a
  BY <1>2, <1>4 DEF PushAttachedLog, AtLog, RunsKept, TypeOK
<1>5. CASE ~a
  BY <1>2, <1>5 DEF PushAttachedLog, AtLog, RunsKept, TypeOK
<1> QED BY <1>4, <1>5

(* y on the deploy modal. *)
LEMMA ConfirmMoves ==
  ASSUME TypeOK, NEW r \in Runs, ConfirmDeploy(r)
  PROVE  /\ TypeOK'
         /\ \/ AtModal
            \/ /\ AtShow(r, FALSE, FALSE)
               /\ run[r] = "none" /\ run' = [run EXCEPT ![r] = "starting"]
<1>0. /\ screen.kind = "confirm" /\ run[r] = "none"
      /\ UNCHANGED <<proc, inbox, task, watched, jobs, auto, quit, followed, refreshed>>
  BY DEF ConfirmDeploy, On, history
<1>1. CASE /\ run' = [run EXCEPT ![r] = "starting"]
           /\ deploy' = [run |-> r, known |-> FALSE]
           /\ screen' = [Screen("deploy") EXCEPT !.run = r, !.after = TRUE]
           /\ timers' = timers \cup {"DeployPoll"}
  <2>1. screen' \in ScreenType /\ screen'.kind = "deploy" /\ screen'.run = r /\ screen'.live = {}
    BY <1>1, ConfirmedScreen
  <2>2. deploy' \in DeployType /\ deploy'.run = r /\ deploy'.known = FALSE /\ deploy' # NoDeploy
    BY <1>1, JobFields
  <2>3. run' \in [Runs -> RunLife]
    BY <1>1 DEF TypeOK, RunLife
  <2>4. AtShow(r, FALSE, FALSE)
    BY <1>0, <1>1, <2>1, <2>2 DEF AtShow, Modal
  <2> QED BY <1>0, <1>1, <2>1, <2>2, <2>3, <2>4 DEF TypeOK
<1>2. CASE screen' = NoScreen /\ UNCHANGED <<run, deploy, timers>>
  BY <1>0, <1>2, EmptySlot DEF AtModal, Modal, RunsKept, TypeOK
<1> QED BY <1>1, <1>2 DEF ConfirmDeploy

(* attach_run_manual. *)
LEMMA ActivateMoves ==
  ASSUME TypeOK, NEW r \in Runs, Activate(r)
  PROVE  /\ TypeOK'
         /\ \/ AtModal
            \/ AtShow(r, TRUE, r \in screen.live) /\ run[r] \in Listed /\ run' = run
            \/ AtLog(r, r \in screen.live)
<1>0. /\ screen.kind \in Modal /\ RunsKept /\ UNCHANGED <<proc, task, quit>>
      /\ (r \in screen.live) \in BOOLEAN /\ UNCHANGED inbox
  BY DEF Activate, On, Modal, outside, RunsKept
<1>1. CASE run[r] \in Listed /\ Show(r, r \in screen.live, FALSE)
  <2>1. /\ screen' \in ScreenType /\ deploy' \in DeployType /\ followed' \subseteq Runs
        /\ \/ AtShow(r, TRUE, r \in screen.live) /\ run' = run
           \/ AtLog(r, r \in screen.live)
    BY <1>0, <1>1, ShowMoves
  <2> QED BY <1>0, <1>1, <2>1 DEF TypeOK, RunsKept
<1>2. CASE screen' = NoScreen /\ UNCHANGED <<deploy, timers, followed>>
  BY <1>0, <1>2, EmptySlot DEF AtModal, Modal, RunsKept, TypeOK
<1>3. CASE PushAttachedLog(r, r \in screen.live, FALSE)
  <2>1. /\ screen' \in ScreenType /\ deploy' \in DeployType /\ followed' \subseteq Runs
        /\ AtLog(r, r \in screen.live)
    BY <1>0, <1>3, LogMoves
  <2> QED BY <1>0, <2>1 DEF TypeOK, RunsKept
<1> QED BY <1>1, <1>2, <1>3 DEF Activate

(* attach_run. *)
LEMMA AttachMoves ==
  ASSUME TypeOK, NEW r \in Runs, AttachRun(r) \/ AttachNewest(r)
  PROVE  /\ TypeOK'
         /\ \/ AtShow(r, TRUE, TRUE) /\ run[r] = "live" /\ run' = run
            \/ AtLog(r, TRUE) /\ run[r] = "live"
            \/ UNCHANGED <<run, screen, deploy, task, proc, watched, timers, jobs, quit, history>>
<1>0. RunsKept /\ UNCHANGED <<proc, task, quit>> /\ (inbox' = inbox \ {r} \/ inbox' = inbox)
  BY DEF AttachRun, AttachNewest, RunsKept, outside
<1>1. CASE screen.kind = "none" /\ run[r] = "live" /\ Show(r, TRUE, FALSE)
  <2>1. /\ screen' \in ScreenType /\ deploy' \in DeployType /\ followed' \subseteq Runs
        /\ \/ AtShow(r, TRUE, TRUE) /\ run' = run
           \/ AtLog(r, TRUE)
    BY <1>0, <1>1, ShowMoves DEF Modal
  <2> QED BY <1>0, <1>1, <2>1 DEF TypeOK, RunsKept
<1>2. CASE UNCHANGED <<screen, deploy, timers, followed, auto>>
  BY <1>0, <1>2 DEF TypeOK, RunsKept, history
<1> QED BY <1>1, <1>2 DEF AttachRun, AttachNewest

(* push_task. *)
LEMMA TaskMoves ==
  ASSUME TypeOK, NEW t \in Tasks, NEW a \in BOOLEAN, PushTask(t, a), screen.kind \in Modal
  PROVE  TypeOK' /\ AtTask(t)
<1>0. /\ proc[t] = "none" /\ RunsKept /\ UNCHANGED <<inbox, deploy, timers, quit, followed>>
  BY DEF PushTask, RunsKept, history
<1>1. screen' \in ScreenType /\ screen'.kind = "task" /\ screen'.run = NoRun /\ screen'.live = {}
  BY TaskScreen DEF PushTask
<1>2. CASE proc' = [proc EXCEPT ![t] = "running"] /\ task' = [task |-> t, exited |-> FALSE]
  <2>1. task' \in TaskType /\ task'.task = t /\ task'.exited = FALSE /\ task' # NoJob
    BY <1>2, JobFields
  <2>2. proc' \in [Tasks -> ProcLife] /\ \A u \in Tasks \ {t} : proc'[u] = proc[u]
    BY <1>2 DEF TypeOK, ProcLife
  <2> QED BY <1>0, <1>1, <2>1, <2>2 DEF TypeOK, AtTask, RunsKept
<1>3. CASE proc' = [proc EXCEPT ![t] = "failed"] /\ task' = [task |-> t, exited |-> TRUE]
  <2>1. task' \in TaskType /\ task'.task = t /\ task' # NoJob
    BY <1>3, JobFields
  <2>2. /\ proc' \in [Tasks -> ProcLife] /\ \A u \in Tasks \ {t} : proc'[u] = proc[u]
        /\ proc'[t] = "failed"
    BY <1>3 DEF TypeOK, ProcLife
  <2> QED BY <1>0, <1>1, <2>1, <2>2 DEF TypeOK, AtTask, RunsKept
<1> QED BY <1>2, <1>3 DEF PushTask

(* The modals and the list of runs. *)
LEMMA ModalMoves ==
  ASSUME TypeOK, (\E k \in {"confirm", "reboot"} : OpenModal(k)) \/ OpenRuns \/ Cancel
  PROVE  TypeOK' /\ AtModal
<1>0. /\ screen.kind \in Modal /\ RunsKept
      /\ UNCHANGED <<proc, inbox, deploy, task, timers, quit, followed>>
  BY DEF OpenModal, OpenRuns, Cancel, Idle, On, Modal, RunsKept, outside, history
<1>1. ASSUME NEW k \in {"confirm", "reboot"}, OpenModal(k) PROVE TypeOK' /\ AtModal
  BY <1>0, <1>1, PlainScreen DEF OpenModal, Kinds, Modal, AtModal, TypeOK, RunsKept
<1>2. CASE OpenRuns
  <2>1. /\ screen' \in ScreenType /\ screen'.kind = "runs" /\ screen'.run = NoRun
        /\ screen'.live = {r \in Runs : run[r] = "live"}
    <3>1. screen' = Listing({r \in Runs : run[r] \in Listed}, {r \in Runs : run[r] = "live"})
      BY <1>2 DEF OpenRuns, Listing
    <3> QED BY <3>1, RunsScreen
  <2> QED BY <1>0, <2>1 DEF Modal, AtModal, TypeOK, RunsKept
<1>3. CASE Cancel
  BY <1>0, <1>3, EmptySlot DEF Cancel, Modal, AtModal, TypeOK, RunsKept
<1> QED BY <1>1, <1>2, <1>3

-----------------------------------------------------------------------------
(* What the moves keep.  A timer other than the spinner's is named by an
   equivalence in the slot invariant, or needed by a watched run. *)
LEMMA ModalKeeps ==
  ASSUME TypeOK, SlotInv, PastInv, OwedInv, AtModal
  PROVE  SlotInv' /\ PastInv' /\ OwedInv'
<1> USE DEF AtModal, RunsKept, Modal
<1>1. SlotInv'
  BY DEF SlotInv, SlotMatchesJobs
<1>2. PastInv'
  BY DEF PastInv, Past
<1>3. OwedInv'
  <2>1. screen.run = NoRun /\ followed \subseteq Runs
    BY DEF SlotInv, TypeOK
  <2> QED BY <2>1, ScreensAssumption DEF OwedInv, Kept
<1> QED BY <1>1, <1>2, <1>3

(* A deploy screen opens. *)
LEMMA ShowKeeps ==
  ASSUME TypeOK, SlotInv, PastInv, OwedInv, NEW r \in Runs, NEW k \in BOOLEAN, NEW a \in BOOLEAN,
         AtShow(r, k, a), a => k,
         \/ run' = run /\ k /\ run[r] \in Past
         \/ run' = [run EXCEPT ![r] = "starting"] /\ ~k /\ run[r] = "none"
  PROVE  SlotInv' /\ PastInv' /\ OwedInv'
<1> USE DEF AtShow, Modal
<1>0. screen.run = NoRun /\ followed \subseteq Runs /\ run \in [Runs -> RunLife]
  BY DEF SlotInv, TypeOK
<1>1. SlotInv'
  BY DEF SlotInv, SlotMatchesJobs
<1>2. \A q \in followed : run'[q] \in Past /\ run'[q] = run[q]
  BY <1>0 DEF PastInv, Past
<1>3. ~k => r \notin followed
  BY <1>0 DEF PastInv, Past
<1>4. k => run'[r] \in Past
  BY <1>0
<1>5. \A q \in followed' : q \in followed \/ (a /\ q = r)
  OBVIOUS
<1>6. PastInv'
  BY <1>2, <1>3, <1>4, <1>5 DEF PastInv
<1>7. OwedInv'
  <2> SUFFICES ASSUME ~quit, NEW q \in followed', run'[q] \in {"live", "settled"} PROVE Kept(q)'
    BY DEF OwedInv
  <2>1. CASE q \in followed
    <3>1. q \in refreshed \/ (q \in watched /\ "RunWatchPoll" \in timers)
      BY <1>0, <1>2, <2>1, ScreensAssumption DEF OwedInv, Kept
    <3> QED BY <3>1 DEF Kept
  <2>2. CASE a /\ q = r
    BY <2>2 DEF Kept
  <2> QED BY <1>5, <2>1, <2>2
<1> QED BY <1>1, <1>6, <1>7

(* A log opens. *)
LEMMA LogKeeps ==
  ASSUME TypeOK, SlotInv, PastInv, OwedInv, NEW r \in Runs, NEW a \in BOOLEAN,
         AtLog(r, a), a => run[r] \in Past
  PROVE  SlotInv' /\ PastInv' /\ OwedInv'
<1> USE DEF AtLog, Modal, RunsKept
<1>0. screen.run = NoRun /\ followed \subseteq Runs /\ deploy = NoDeploy
  BY DEF SlotInv, SlotMatchesJobs, TypeOK
<1>1. SlotInv'
  BY DEF SlotInv, SlotMatchesJobs
<1>5. \A q \in followed' : q \in followed \/ (a /\ q = r)
  OBVIOUS
<1>6. PastInv'
  BY <1>0, <1>5 DEF PastInv
<1>7. OwedInv'
  <2> SUFFICES ASSUME ~quit, NEW q \in followed', run[q] \in {"live", "settled"} PROVE Kept(q)'
    BY DEF OwedInv
  <2>1. CASE q \in followed
    <3>1. q \in refreshed \/ (q \in watched /\ "RunWatchPoll" \in timers)
      BY <1>0, <2>1, ScreensAssumption DEF OwedInv, Kept
    <3> QED BY <3>1 DEF Kept
  <2>2. CASE a /\ q = r
    BY <2>2 DEF Kept
  <2> QED BY <1>5, <2>1, <2>2
<1> QED BY <1>1, <1>6, <1>7

(* A task screen opens. *)
LEMMA TaskKeeps ==
  ASSUME TypeOK, SlotInv, PastInv, OwedInv, NEW t \in Tasks, AtTask(t)
  PROVE  SlotInv' /\ PastInv' /\ OwedInv'
<1> USE DEF AtTask, Modal, RunsKept
<1>1. SlotInv'
  BY DEF SlotInv, SlotMatchesJobs
<1>2. PastInv'
  BY DEF PastInv
<1>3. OwedInv'
  <2>1. screen.run = NoRun /\ followed \subseteq Runs
    BY DEF SlotInv, TypeOK
  <2> QED BY <2>1, ScreensAssumption DEF OwedInv, Kept
<1> QED BY <1>1, <1>2, <1>3

-----------------------------------------------------------------------------
(* finish_screen: the slot is free, the spinner runs while a job does, and no
   other timer is touched. *)
LEMMA FinishEffect ==
  ASSUME NEW after, NEW completed, NEW r, NEW ts, FinishScreen(after, completed, r, ts)
  PROVE  /\ screen' = NoScreen
         /\ jobs' # {} => "SpinnerTick" \in timers'
         /\ \A x : x # "SpinnerTick" => (x \in timers' <=> x \in ts)
         /\ refreshed \subseteq refreshed'
         /\ after /\ completed /\ r \in Runs => r \in refreshed'
BY DEF FinishScreen, Synced

(* A closed task screen. *)
LEMMA CloseTaskKeeps ==
  ASSUME TypeOK, SlotInv, PastInv, OwedInv, CloseTask
  PROVE  TypeOK' /\ SlotInv' /\ PastInv' /\ OwedInv'
<1>0. /\ screen.kind = "task" /\ task' = NoJob
      /\ UNCHANGED <<run, proc, inbox, deploy, watched, quit, followed>>
      /\ screen' = NoScreen
      /\ jobs' # {} => "SpinnerTick" \in timers'
      /\ \A x : x # "SpinnerTick" => (x \in timers' <=> x \in timers)
      /\ refreshed \subseteq refreshed'
  BY FinishEffect DEF CloseTask, On, outside
<1>1. screen'.kind = "none" /\ screen'.run = NoRun /\ screen'.live = {} /\ screen' \in ScreenType
  BY <1>0, EmptySlot
<1>2. TypeOK'
  BY <1>0, <1>1, JobFields DEF TypeOK
<1>3. SlotInv'
  BY <1>0, <1>1 DEF SlotInv, SlotMatchesJobs
<1>4. PastInv'
  BY <1>0, <1>1 DEF PastInv
<1>5. OwedInv'
  <2>1. screen.run = NoRun /\ followed \subseteq Runs
    BY <1>0 DEF SlotInv, TypeOK
  <2>2. \A q \in followed : Kept(q) => Kept(q)'
    BY <1>0, <2>1, ScreensAssumption DEF Kept
  <2> QED BY <1>0, <2>2 DEF OwedInv
<1> QED BY <1>2, <1>3, <1>4, <1>5

(* A closed log: the run settled, or it is watched from here on, unless the
   explorer ends with its screen. *)
LEMMA CloseLogKeeps ==
  ASSUME TypeOK, SlotInv, PastInv, OwedInv, CloseLog
  PROVE  TypeOK' /\ SlotInv' /\ PastInv' /\ OwedInv'
<1>0. /\ ~quit /\ screen.kind = "log" /\ screen.run \in Runs
      /\ UNCHANGED <<run, proc, inbox, deploy, task, followed>>
  BY DEF CloseLog, On, outside, SlotInv
<1>n. /\ NoScreen.kind = "none" /\ NoScreen.run = NoRun /\ NoScreen.live = {}
      /\ NoScreen \in ScreenType
  BY EmptySlot
<1>1. /\ screen' = NoScreen
      /\ watched \subseteq watched' /\ watched' \subseteq Runs /\ refreshed \subseteq refreshed'
      /\ jobs' # {} => "SpinnerTick" \in timers'
      /\ "AttachedLogPoll" \notin timers'
      /\ "DeployPoll" \in timers' <=> "DeployPoll" \in timers
      /\ "RunWatchPoll" \in timers => "RunWatchPoll" \in timers'
      /\ watched' # {} => "RunWatchPoll" \in timers'
      /\ quit' \/ (run[screen.run] \in {"live", "settled"} /\ screen.after
                      => screen.run \in refreshed' \/ screen.run \in watched')
  <2> DEFINE ts == timers \ {"AttachedLogPoll"}
  <2>1. CASE /\ quit' = TRUE /\ screen' = NoScreen /\ timers' = ts
             /\ UNCHANGED <<watched, jobs, refreshed>>
    BY <2>1 DEF SlotInv, SlotMatchesJobs, TypeOK
  <2>2. CASE Watch(screen.run, ts) /\ screen' = NoScreen /\ UNCHANGED <<jobs, quit, refreshed>>
    BY <1>0, <2>2 DEF Watch, SlotInv, SlotMatchesJobs, TypeOK
  <2>3. CASE /\ ~screen.standalone /\ (screen.after => CloseRc(screen.run))
             /\ FinishScreen(screen.after, CloseRc(screen.run), screen.run, ts)
             /\ UNCHANGED <<watched, quit>>
    <3>1. /\ screen' = NoScreen
          /\ jobs' # {} => "SpinnerTick" \in timers'
          /\ \A x : x # "SpinnerTick" => (x \in timers' <=> x \in ts)
          /\ refreshed \subseteq refreshed'
          /\ screen.after /\ CloseRc(screen.run) /\ screen.run \in Runs => screen.run \in refreshed'
      BY <2>3, FinishEffect
    <3>2. /\ "DeployPoll" \in timers' <=> "DeployPoll" \in timers
          /\ "RunWatchPoll" \in timers => "RunWatchPoll" \in timers'
          /\ "AttachedLogPoll" \notin timers'
      BY <3>1
    <3> QED BY <1>0, <2>3, <3>1, <3>2 DEF SlotInv, SlotMatchesJobs, TypeOK
  <2> QED BY <2>1, <2>2, <2>3 DEF CloseLog
<1>2. TypeOK'
  BY <1>0, <1>n, <1>1 DEF TypeOK
<1>3. SlotInv'
  BY <1>0, <1>n, <1>1 DEF SlotInv, SlotMatchesJobs
<1>4. PastInv'
  BY <1>0, <1>n, <1>1 DEF PastInv
<1>5. OwedInv'
  <2> SUFFICES ASSUME ~quit', NEW q \in followed, run[q] \in {"live", "settled"} PROVE Kept(q)'
    BY <1>0 DEF OwedInv
  <2>1. Kept(q)
    BY <1>0 DEF OwedInv
  <2>2. CASE q \in refreshed \/ (q \in watched /\ "RunWatchPoll" \in timers)
    BY <1>1, <2>2 DEF Kept
  <2>3. CASE screen.run = q /\ screen.after
    BY <1>1, <2>3 DEF Kept
  <2> QED BY <2>1, <2>2, <2>3 DEF Kept
<1> QED BY <1>2, <1>3, <1>4, <1>5

(* A closed deploy screen: the run ended, or it is known and watched from here
   on, unless the explorer ends with its screen. *)
LEMMA CloseDeployKeeps ==
  ASSUME TypeOK, SlotInv, PastInv, OwedInv, CloseDeploy
  PROVE  TypeOK' /\ SlotInv' /\ PastInv' /\ OwedInv'
<1> DEFINE r == screen.run
           ts == timers \ {"DeployPoll"}
           detached == ~ReturnCode(r) /\ deploy.known /\ screen.after
<1>0. /\ ~quit /\ screen.kind = "deploy" /\ r \in Runs /\ deploy' = NoDeploy
      /\ quit' = screen.standalone /\ deploy # NoDeploy /\ deploy.run = r
      /\ UNCHANGED <<run, proc, inbox, task, followed>>
  BY DEF CloseDeploy, On, outside, SlotInv, SlotMatchesJobs
<1>n. /\ NoScreen.kind = "none" /\ NoScreen.run = NoRun /\ NoScreen.live = {}
      /\ NoScreen \in ScreenType
  BY EmptySlot
<1>k. r \in followed => deploy.known
  BY <1>0 DEF PastInv
<1>1. /\ screen' = NoScreen
      /\ watched \subseteq watched' /\ watched' \subseteq Runs /\ refreshed \subseteq refreshed'
      /\ jobs' # {} => "SpinnerTick" \in timers'
      /\ "DeployPoll" \notin timers'
      /\ "AttachedLogPoll" \in timers' <=> "AttachedLogPoll" \in timers
      /\ "RunWatchPoll" \in timers => "RunWatchPoll" \in timers'
      /\ watched' # {} => "RunWatchPoll" \in timers'
      /\ quit' \/ (run[r] \in {"live", "settled"} /\ screen.after /\ r \in followed
                      => r \in refreshed' \/ r \in watched')
  <2>2. CASE detached /\ Watch(r, ts) /\ screen' = NoScreen /\ UNCHANGED <<jobs, refreshed>>
    BY <1>0, <2>2 DEF Watch, SlotInv, SlotMatchesJobs, TypeOK
  <2>3. CASE /\ ~detached
             /\ FinishScreen(screen.after /\ ~screen.standalone, ReturnCode(r), r, ts)
             /\ UNCHANGED watched
    <3>1. /\ screen' = NoScreen
          /\ jobs' # {} => "SpinnerTick" \in timers'
          /\ \A x : x # "SpinnerTick" => (x \in timers' <=> x \in ts)
          /\ refreshed \subseteq refreshed'
          /\ screen.after /\ ~screen.standalone /\ ReturnCode(r) /\ r \in Runs => r \in refreshed'
      BY <2>3, FinishEffect
    <3>2. /\ "AttachedLogPoll" \in timers' <=> "AttachedLogPoll" \in timers
          /\ "RunWatchPoll" \in timers => "RunWatchPoll" \in timers'
          /\ "DeployPoll" \notin timers'
      BY <3>1
    <3>3. screen.after /\ r \in followed => ReturnCode(r)
      BY <1>k, <2>3
    <3> QED BY <1>0, <2>3, <3>1, <3>2, <3>3 DEF SlotInv, SlotMatchesJobs, TypeOK
  <2> QED BY <2>2, <2>3 DEF CloseDeploy
<1>2. TypeOK'
  BY <1>0, <1>n, <1>1, JobFields DEF TypeOK
<1>3. SlotInv'
  BY <1>0, <1>n, <1>1 DEF SlotInv, SlotMatchesJobs
<1>4. PastInv'
  BY <1>0, <1>n, <1>1 DEF PastInv
<1>5. OwedInv'
  <2> SUFFICES ASSUME ~quit', NEW q \in followed, run[q] \in {"live", "settled"} PROVE Kept(q)'
    BY <1>0 DEF OwedInv
  <2>1. Kept(q)
    BY <1>0 DEF OwedInv
  <2>2. CASE q \in refreshed \/ (q \in watched /\ "RunWatchPoll" \in timers)
    BY <1>1, <2>2 DEF Kept
  <2>3. CASE screen.run = q /\ screen.after
    BY <1>1, <2>3 DEF Kept
  <2> QED BY <2>1, <2>2, <2>3 DEF Kept
<1> QED BY <1>2, <1>3, <1>4, <1>5

-----------------------------------------------------------------------------
(* Arming and disarming the terminate. *)
LEMMA MarkKeeps ==
  ASSUME TypeOK, SlotInv, PastInv, OwedInv, ArmTerminate \/ Disarm
  PROVE  TypeOK' /\ SlotInv' /\ PastInv' /\ OwedInv'
<1>0. UNCHANGED <<run, proc, inbox, deploy, task, watched, timers, jobs, quit, followed, refreshed>>
  BY DEF ArmTerminate, Disarm, outside, history
<1>1. /\ screen' \in ScreenType /\ screen'.kind = screen.kind /\ screen'.run = screen.run
      /\ screen'.after = screen.after /\ screen'.live = screen.live
  <2>1. screen' = [screen EXCEPT !.armed = TRUE] \/ screen' = [screen EXCEPT !.armed = FALSE]
    BY DEF ArmTerminate, Disarm
  <2> QED BY <2>1, MarkedScreen DEF TypeOK
<1> QED
  BY <1>0, <1>1 DEF TypeOK, SlotInv, SlotMatchesJobs, PastInv, OwedInv, Kept

(* A tick of the deploy screen: the run may become known, and is then followed. *)
LEMMA DeployPollKeeps ==
  ASSUME TypeOK, SlotInv, PastInv, OwedInv, DeployPoll
  PROVE  TypeOK' /\ SlotInv' /\ PastInv' /\ OwedInv'
<1>0. /\ UNCHANGED <<run, proc, inbox, task, watched, jobs, quit, refreshed>>
      /\ ~quit /\ screen.kind = "deploy" /\ deploy # NoDeploy /\ deploy.run \in Runs
      /\ screen.run = deploy.run
  BY DEF DeployPoll, outside, SlotInv, SlotMatchesJobs, On
<1>1. /\ deploy' = Discovered(deploy)
      /\ followed' = Following(deploy', screen.after)
      /\ screen' = [screen EXCEPT !.finished = ReturnCode(deploy.run)]
      /\ UNCHANGED timers
  BY <1>0 DEF DeployPoll, On
<1>2. /\ screen' \in ScreenType /\ screen'.kind = screen.kind /\ screen'.run = screen.run
      /\ screen'.after = screen.after /\ screen'.live = screen.live
  <2>1. ReturnCode(deploy.run) \in BOOLEAN
    BY DEF ReturnCode
  <2> QED BY <1>1, <2>1, MarkedScreen DEF TypeOK
<1>3. /\ deploy' \in DeployType /\ deploy'.run = deploy.run
      /\ deploy'.known <=> (deploy.known \/ run[deploy.run] \in Listed)
  BY <1>1 DEF Discovered, TypeOK, DeployType
<1>4. deploy' # NoDeploy
  BY <1>0, <1>3, JobFields, ScreensAssumption
<1>5. deploy'.known => run[deploy.run] \in Past
  BY <1>0, <1>3 DEF PastInv, Past, Listed
<1>6. CASE deploy'.known /\ screen.after
  <2>1. followed' = followed \cup {deploy.run}
    BY <1>1, <1>3, <1>6 DEF Following
  <2>2. TypeOK'
    BY <1>0, <1>2, <1>3, <2>1 DEF TypeOK
  <2>3. SlotInv'
    BY <1>0, <1>1, <1>2, <1>3, <1>4 DEF SlotInv, SlotMatchesJobs
  <2>4. PastInv'
    BY <1>0, <1>2, <1>3, <1>5, <1>6, <2>1 DEF PastInv
  <2>5. OwedInv'
    <3> SUFFICES ASSUME NEW q \in followed', run[q] \in {"live", "settled"} PROVE Kept(q)'
      BY <1>0 DEF OwedInv
    <3>1. CASE q = deploy.run
      BY <1>0, <1>2, <1>6, <3>1 DEF Kept
    <3>2. CASE q \in followed
      BY <1>0, <1>1, <1>2, <3>2 DEF OwedInv, Kept
    <3> QED BY <2>1, <3>1, <3>2
  <2> QED BY <2>2, <2>3, <2>4, <2>5
<1>7. CASE ~(deploy'.known /\ screen.after)
  <2>1. followed' = followed
    BY <1>1, <1>7 DEF Following
  <2>2. TypeOK'
    BY <1>0, <1>2, <1>3, <2>1 DEF TypeOK
  <2>3. SlotInv'
    BY <1>0, <1>1, <1>2, <1>3, <1>4 DEF SlotInv, SlotMatchesJobs
  <2>4. PastInv'
    BY <1>0, <1>2, <1>3, <1>5, <2>1 DEF PastInv
  <2>5. OwedInv'
    BY <1>0, <1>1, <1>2, <2>1 DEF OwedInv, Kept
  <2> QED BY <2>2, <2>3, <2>4, <2>5
<1> QED BY <1>6, <1>7

(* A poll of the watched runs: the settled ones are refreshed, the live ones
   keep the timer. *)
LEMMA WatchPollKeeps ==
  ASSUME TypeOK, SlotInv, PastInv, OwedInv, RunWatchPoll
  PROVE  TypeOK' /\ SlotInv' /\ PastInv' /\ OwedInv'
<1> DEFINE over == {r \in watched : run[r] # "live"}
           rc == {r \in over : run[r] = "settled"}
           ts == IF watched' = {} THEN timers \ {"RunWatchPoll"} ELSE timers
<1>0. /\ UNCHANGED <<run, proc, inbox, screen, deploy, task, quit, followed>>
      /\ "RunWatchPoll" \in timers
      /\ watched' = watched \ over /\ refreshed' = refreshed \cup rc
      /\ timers' = Synced(ts, jobs')
  BY DEF RunWatchPoll, outside
<1>1. /\ jobs' # {} => "SpinnerTick" \in timers'
      /\ watched' # {} => "RunWatchPoll" \in timers'
      /\ "DeployPoll" \in timers' <=> "DeployPoll" \in timers
      /\ "AttachedLogPoll" \in timers' <=> "AttachedLogPoll" \in timers
  BY <1>0 DEF Synced
<1>2. TypeOK'
  BY <1>0 DEF TypeOK
<1>3. SlotInv'
  BY <1>0, <1>1 DEF SlotInv, SlotMatchesJobs
<1>4. PastInv'
  BY <1>0 DEF PastInv
<1>5. OwedInv'
  <2> SUFFICES ASSUME ~quit, NEW q \in followed, run[q] \in {"live", "settled"} PROVE Kept(q)'
    BY <1>0 DEF OwedInv
  <2>1. Kept(q)
    BY DEF OwedInv
  <2>2. CASE q \in watched
    BY <1>0, <1>1, <2>2 DEF Kept
  <2>3. CASE q \notin watched
    BY <1>0, <2>1, <2>3 DEF Kept
  <2> QED BY <2>2, <2>3
<1> QED BY <1>2, <1>3, <1>4, <1>5

(* The spinner and the jobs it stands for. *)
LEMMA JobsKeep ==
  ASSUME TypeOK, SlotInv, PastInv, OwedInv,
         SpinnerTick \/ RefreshDrift \/ \E j \in {"eval", "survey"} : JobDone(j)
  PROVE  TypeOK' /\ SlotInv' /\ PastInv' /\ OwedInv'
<1>0. UNCHANGED <<run, proc, inbox, screen, deploy, task, watched, quit, followed, refreshed>>
  BY DEF SpinnerTick, RefreshDrift, JobDone, outside, history
<1>1. /\ jobs' # {} => "SpinnerTick" \in timers'
      /\ "DeployPoll" \in timers' <=> "DeployPoll" \in timers
      /\ "AttachedLogPoll" \in timers' <=> "AttachedLogPoll" \in timers
      /\ "RunWatchPoll" \in timers' <=> "RunWatchPoll" \in timers
  <2>1. CASE SpinnerTick
    BY <2>1 DEF SpinnerTick
  <2>2. CASE RefreshDrift
    BY <2>2 DEF RefreshDrift, Synced
  <2>3. ASSUME NEW j \in {"eval", "survey"}, JobDone(j)
        PROVE  jobs # {} /\ timers' = timers
    BY <2>3 DEF JobDone
  <2> QED BY <2>1, <2>2, <2>3 DEF SlotInv, SlotMatchesJobs
<1>2. TypeOK' /\ PastInv'
  BY <1>0 DEF TypeOK, PastInv
<1>3. SlotInv'
  BY <1>0, <1>1 DEF SlotInv, SlotMatchesJobs
<1>4. OwedInv'
  BY <1>0, <1>1 DEF OwedInv, Kept
<1> QED BY <1>2, <1>3, <1>4

(* A task's process ends; its exit is handled. *)
LEMMA ProcessesKeep ==
  ASSUME TypeOK, SlotInv, PastInv, OwedInv, NEW t \in Tasks, TaskEnds(t) \/ TaskExited(t)
  PROVE  TypeOK' /\ SlotInv' /\ PastInv' /\ OwedInv'
<1>0. UNCHANGED <<run, inbox, screen, deploy, watched, timers, jobs, quit, followed, refreshed>>
  BY DEF TaskEnds, TaskExited, history
<1>1. PastInv' /\ OwedInv'
  BY <1>0 DEF PastInv, OwedInv, Kept
<1>2. CASE TaskEnds(t)
  <2>1. /\ proc[t] = "running" /\ proc' \in [Tasks -> ProcLife] /\ task' = task
        /\ \A u \in Tasks : proc'[u] = IF u = t THEN "reaped" ELSE proc[u]
    BY <1>2 DEF TaskEnds, TypeOK, ProcLife
  <2>2. task # NoJob /\ task.exited => proc'[task.task] \in {"gone", "failed"}
    <3>1. task # NoJob /\ task.exited => proc[task.task] \in {"gone", "failed"} /\ task.task \in Tasks
      BY DEF SlotInv, SlotMatchesJobs
    <3>2. CASE task.task = t
      BY <2>1, <3>1, <3>2
    <3>3. CASE task.task # t
      BY <2>1, <3>1, <3>3
    <3> QED BY <3>2, <3>3
  <2>3. SlotInv'
    BY <1>0, <2>1, <2>2 DEF SlotInv, SlotMatchesJobs
  <2> QED BY <1>0, <1>1, <2>1, <2>3 DEF TypeOK
<1>3. CASE TaskExited(t)
  <2>1. /\ proc' \in [Tasks -> ProcLife] /\ proc[t] = "reaped"
        /\ \A u \in Tasks : proc'[u] = IF u = t THEN "gone" ELSE proc[u]
    BY <1>3 DEF TaskExited, TypeOK, ProcLife
  <2>2. CASE task.task = t
    <3>1. /\ task' \in TaskType /\ task'.task = t /\ task' # NoJob /\ task # NoJob
      <4>1. task' = [task EXCEPT !.exited = TRUE]
        BY <1>3, <2>2 DEF TaskExited
      <4>2. task' \in TaskType /\ task'.task = t
        BY <2>2, <4>1 DEF TypeOK, TaskType
      <4>3. t # NoTask
        BY ScreensAssumption
      <4> QED BY <2>2, <4>2, <4>3, JobFields
    <3>2. SlotInv'
      BY <1>0, <2>1, <3>1 DEF SlotInv, SlotMatchesJobs
    <3> QED BY <1>0, <1>1, <2>1, <3>1, <3>2 DEF TypeOK
  <2>3. CASE task.task # t
    <3>1. task' = task
      BY <1>3, <2>3 DEF TaskExited
    <3>2. task # NoJob /\ task.exited => proc'[task.task] \in {"gone", "failed"}
      <4>1. task # NoJob /\ task.exited => proc[task.task] \in {"gone", "failed"} /\ task.task \in Tasks
        BY DEF SlotInv, SlotMatchesJobs
      <4> QED BY <2>1, <2>3, <4>1
    <3>3. SlotInv'
      BY <1>0, <3>1, <3>2 DEF SlotInv, SlotMatchesJobs
    <3> QED BY <1>0, <1>1, <2>1, <3>1, <3>3 DEF TypeOK
  <2> QED BY <2>2, <2>3
<1> QED BY <1>2, <1>3

(* A run starts, registers, ends or is pruned, on its own. *)
LEMMA RunsKeep ==
  ASSUME TypeOK, SlotInv, PastInv, OwedInv, NEW r \in Runs,
         AgentDeploys(r) \/ AgentReboots(r) \/ Register(r) \/ RunEnds(r) \/ Prune(r)
  PROVE  TypeOK' /\ SlotInv' /\ PastInv' /\ OwedInv'
<1>0. UNCHANGED <<proc, screen, deploy, task, watched, timers, jobs, quit, followed, refreshed>>
  BY DEF AgentDeploys, AgentReboots, Launched, Register, RunEnds, Prune, RunsOnly, history
<1>1. inbox' \subseteq Runs
  BY DEF AgentDeploys, AgentReboots, Launched, Register, RunEnds, Prune, TypeOK
<1>2. \E s \in RunLife :
         /\ run' = [run EXCEPT ![r] = s]
         /\ run[r] \in Past => s \in Past /\ (s \in {"live", "settled"} => run[r] = "live")
  BY DEF AgentDeploys, AgentReboots, Launched, Register, RunEnds, Prune, RunLife, Past
<1>3. /\ run' \in [Runs -> RunLife]
      /\ \A q \in Runs : run[q] \in Past
            => /\ run'[q] \in Past
               /\ run'[q] \in {"live", "settled"} => run[q] \in {"live", "settled"}
  BY <1>2 DEF TypeOK
<1>4. TypeOK'
  BY <1>0, <1>1, <1>3 DEF TypeOK
<1>5. SlotInv'
  BY <1>0 DEF SlotInv, SlotMatchesJobs
<1>6. PastInv'
  <2>1. screen.live \subseteq Runs /\ followed \subseteq Runs
    BY DEF TypeOK, ScreenType
  <2>2. deploy # NoDeploy => deploy.run \in Runs
    BY DEF SlotInv
  <2> QED BY <1>0, <1>3, <2>1, <2>2 DEF PastInv
<1>7. OwedInv'
  <2>1. \A q \in followed : run'[q] \in {"live", "settled"} => run[q] \in {"live", "settled"}
    BY <1>3 DEF PastInv, TypeOK
  <2> QED BY <1>0, <2>1 DEF OwedInv, Kept
<1> QED BY <1>4, <1>5, <1>6, <1>7

-----------------------------------------------------------------------------
(* The explorer starts with an empty slot, or standalone on one run. *)
LEMMA InitInv == Init => WInv
<1> SUFFICES ASSUME Init PROVE WInv
  OBVIOUS
<1>0. /\ task = NoJob /\ proc = [t \in Tasks |-> "none"] /\ quit = FALSE
      /\ watched = {} /\ jobs = {} /\ inbox = {} /\ followed = {}
  BY DEF Init
<1>p. proc \in [Tasks -> ProcLife] /\ task \in TaskType
  BY <1>0, JobFields DEF ProcLife
<1>1. PICK others \in [Runs -> {"none", "live"}] :
       \/ run = others /\ screen = NoScreen /\ deploy = NoDeploy /\ timers = {}
       \/ \E r \in Deploys :
            /\ run \in {[others EXCEPT ![r] = "starting"], [others EXCEPT ![r] = "live"]}
            /\ screen = [Screen("deploy") EXCEPT !.run = r, !.standalone = TRUE,
                                                 !.attached = run[r] = "live"]
            /\ deploy = [run |-> r, known |-> screen.attached]
            /\ timers = {"DeployPoll"}
       \/ \E r \in Runs \ Deploys :
            /\ run = [others EXCEPT ![r] = "live"]
            /\ screen = [Screen("log") EXCEPT !.run = r, !.standalone = TRUE]
            /\ deploy = NoDeploy
            /\ timers = {"AttachedLogPoll"}
  BY DEF Init
<1>r. ASSUME run \in [Runs -> RunLife], screen \in ScreenType, deploy \in DeployType,
             screen.live = {}, SlotInv, deploy # NoDeploy /\ deploy.known => run[deploy.run] \in Past
      PROVE  WInv
  BY <1>0, <1>p, <1>r DEF WInv, TypeOK, PastInv, OwedInv
<1>2. CASE run = others /\ screen = NoScreen /\ deploy = NoDeploy /\ timers = {}
  <2>1. SlotInv
    BY <1>0, <1>2, EmptySlot DEF SlotInv, SlotMatchesJobs
  <2>2. run \in [Runs -> RunLife]
    BY <1>2 DEF RunLife
  <2> QED BY <1>2, <1>r, <2>1, <2>2, EmptySlot, JobFields
<1>3. ASSUME NEW r \in Deploys,
             run \in {[others EXCEPT ![r] = "starting"], [others EXCEPT ![r] = "live"]},
             screen = [Screen("deploy") EXCEPT !.run = r, !.standalone = TRUE,
                                               !.attached = run[r] = "live"],
             deploy = [run |-> r, known |-> screen.attached],
             timers = {"DeployPoll"}
      PROVE  WInv
  <2>0. r \in Runs
    BY ScreensAssumption
  <2>1. run \in [Runs -> RunLife]
    BY <1>3 DEF RunLife
  <2>2. /\ screen \in ScreenType /\ screen.kind = "deploy" /\ screen.run = r /\ screen.live = {}
        /\ screen.attached <=> run[r] = "live"
    BY <1>3, <2>0 DEF Screen, NoScreen, ScreenType, Kinds
  <2>3. deploy \in DeployType /\ deploy.run = r /\ deploy # NoDeploy /\ deploy.known = screen.attached
    BY <1>3, <2>0, <2>2, JobFields DEF ScreenType
  <2>4. SlotInv
    BY <1>0, <1>3, <2>0, <2>2, <2>3 DEF SlotInv, SlotMatchesJobs
  <2> QED BY <1>r, <2>1, <2>2, <2>3, <2>4 DEF Past
<1>4. ASSUME NEW r \in Runs \ Deploys,
             run = [others EXCEPT ![r] = "live"],
             screen = [Screen("log") EXCEPT !.run = r, !.standalone = TRUE],
             deploy = NoDeploy,
             timers = {"AttachedLogPoll"}
      PROVE  WInv
  <2>1. run \in [Runs -> RunLife]
    BY <1>4 DEF RunLife
  <2>2. screen \in ScreenType /\ screen.kind = "log" /\ screen.run = r /\ screen.live = {}
    BY <1>4 DEF Screen, NoScreen, ScreenType, Kinds
  <2>4. SlotInv
    BY <1>0, <1>4, <2>2 DEF SlotInv, SlotMatchesJobs
  <2> QED BY <1>r, <1>4, <2>1, <2>2, <2>4, JobFields
<1> QED BY <1>1, <1>2, <1>3, <1>4

(* The invariant is inductive: one step per key, timer, event or outside move. *)
LEMMA WInvStep == WInv /\ [Next]_vars => WInv'
<1> SUFFICES ASSUME TypeOK, SlotInv, PastInv, OwedInv, [Next]_vars
             PROVE  TypeOK' /\ SlotInv' /\ PastInv' /\ OwedInv'
  BY DEF WInv
<1>0. CASE UNCHANGED vars
  BY <1>0 DEF vars, TypeOK, SlotInv, SlotMatchesJobs, PastInv, OwedInv, Kept
<1>1. CASE (\E k \in {"confirm", "reboot"} : OpenModal(k)) \/ OpenRuns \/ Cancel
  BY <1>1, ModalMoves, ModalKeeps
<1>2. ASSUME NEW r \in Runs, ConfirmDeploy(r) PROVE TypeOK' /\ SlotInv' /\ PastInv' /\ OwedInv'
  BY <1>2, ConfirmMoves, ModalKeeps, ShowKeeps
<1>3. ASSUME NEW r \in Runs, Activate(r) PROVE TypeOK' /\ SlotInv' /\ PastInv' /\ OwedInv'
  <2>1. Listed \subseteq Past /\ (r \in screen.live) \in BOOLEAN /\ (r \in screen.live => run[r] \in Past)
    BY DEF Listed, Past, PastInv
  <2> QED BY <1>3, <2>1, ActivateMoves, ModalKeeps, ShowKeeps, LogKeeps
<1>4. ASSUME NEW r \in Runs, AttachRun(r) \/ AttachNewest(r)
      PROVE  TypeOK' /\ SlotInv' /\ PastInv' /\ OwedInv'
  <2>1. CASE UNCHANGED <<run, screen, deploy, task, proc, watched, timers, jobs, quit, history>>
    BY <1>4, <2>1, AttachMoves
       DEF history, SlotInv, SlotMatchesJobs, PastInv, OwedInv, Kept
  <2>2. CASE run[r] = "live"
    BY <1>4, <2>1, <2>2, AttachMoves, ShowKeeps, LogKeeps DEF Past
  <2> QED BY <1>4, <2>1, <2>2, AttachMoves
<1>5. ASSUME NEW t \in Tasks, Ping(t) \/ ConfirmReboot(t)
      PROVE  TypeOK' /\ SlotInv' /\ PastInv' /\ OwedInv'
  <2>1. screen.kind \in Modal /\ \E a \in BOOLEAN : PushTask(t, a)
    BY <1>5 DEF Ping, ConfirmReboot, Idle, On, Modal
  <2> QED BY <2>1, TaskMoves, TaskKeeps
<1>6. ASSUME NEW t \in Tasks, TaskExited(t) \/ TaskEnds(t)
      PROVE  TypeOK' /\ SlotInv' /\ PastInv' /\ OwedInv'
  BY <1>6, ProcessesKeep
<1>7. ASSUME NEW r \in Runs,
             AgentDeploys(r) \/ AgentReboots(r) \/ Register(r) \/ RunEnds(r) \/ Prune(r)
      PROVE  TypeOK' /\ SlotInv' /\ PastInv' /\ OwedInv'
  BY <1>7, RunsKeep
<1> QED
  BY <1>0, <1>1, <1>2, <1>3, <1>4, <1>5, <1>6, <1>7, CloseTaskKeeps, CloseLogKeeps,
     CloseDeployKeeps, MarkKeeps, DeployPollKeeps, WatchPollKeeps, JobsKeep
     DEF Next, Operator, Loop, World

(* In any order of keys, timers, settles and runs that end by themselves the
   action tier of the explorer stays consistent (app.rs, handle). *)
THEOREM ScreensInvariance == Spec => []WInv
BY InitInv, WInvStep, PTL DEF Spec

(* The slot, its job and its timer never part. *)
THEOREM SlotStaysMatched == Spec => []SlotMatchesJobs
<1>1. WInv => SlotMatchesJobs
  BY DEF WInv, SlotInv
<1> QED BY <1>1, ScreensInvariance, PTL

(* watch_run and poll_watched_runs: the refresh owed to a run that left the
   screen is never lost. *)
THEOREM RefreshSurvives == Spec => []RefreshOwed
<1>1. WInv => RefreshOwed
  BY DEF WInv, OwedInv, Kept, RefreshOwed
<1> QED BY <1>1, ScreensInvariance, PTL

=============================================================================
