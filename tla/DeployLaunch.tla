---------------------------- MODULE DeployLaunch ----------------------------
(***************************************************************************)
(* The life of one deploy run outside the deploy itself (mandala-core,     *)
(* runner.rs and registry.rs): a frontend allocates a launch directory and *)
(* starts a supervisor, the supervisor starts and reaps the native engine, *)
(* the engine registers the run and settles its meta.json, other frontends *)
(* prune launch directories and runs and judge the run's outcome from the  *)
(* registry.  Any process may be killed between two steps.  An engine can  *)
(* also be started directly, without frontend and supervisor.              *)
(*                                                                         *)
(* A pid is alive while its process runs or is a zombie nobody reaped; pids*)
(* are not recycled.  What the host event files say is one value: a host   *)
(* that began has not ended, or none has begun ("open"); every host that   *)
(* began has succeeded and some have yet to begin, held back by the        *)
(* throttle ("some"); all have succeeded ("ok"); one failed or rolled back *)
(* ("bad").                                                                *)
(***************************************************************************)
EXTENDS Naturals

CONSTANTS
  MaxKills,    \* bound: processes killed
  MaxReads     \* bound: verdicts each observer reaches

ASSUME LaunchAssumption == MaxKills \in Nat /\ MaxReads \in Nat

VARIABLES
  front,       \* the frontend that launches: DeployRun::start and discover_run
  sup,         \* the supervisor process: run_deploy_supervisor
  eng,         \* the engine process: `deploy run`
  launch,      \* the launch directory: "none", "present", "removed"
  request,     \* supervisor.json is in it
  active,      \* active.json names the supervisor's pid
  locks,       \* processes that hold the shared lock on active.lock
  logged,      \* the run id is in the launch log
  captured,    \* capture_at_entry accepted the supervisor's pid
  run,         \* the run directory: "none", "present", "removed"
  meta,        \* meta.json
  hosts,       \* the host events on disk
  build,       \* the build's done event: "none", "ok", "bad"
  prune,       \* another frontend's prune: what it has judged so far
  seen,        \* the metadata that prune listed
  watch,       \* an ObservedRun: where its liveness() stands
  wmeta,       \* the metadata that liveness() read
  verdict,     \* its last verdict
  join,        \* an attached DeployRun: where its returncode() stands
  joinRc,      \* its last return code, "none" while the run is not finished
  kills, reads \* bounds spent

launcher == <<front, launch, request, active, locks>>
engine   == <<eng, captured, logged, run, meta, hosts, build>>
pruner   == <<prune, seen>>
watcher  == <<watch, wmeta, verdict>>
joiner   == <<join, joinRc>>
vars     == <<launcher, sup, engine, pruner, watcher, joiner, kills, reads>>

NoMeta   == [pid |-> FALSE, sup |-> FALSE, rc |-> "none"]
Metas    == [pid : BOOLEAN, sup : BOOLEAN, rc : {"none", "0", "1"}]

FrontSt  == {"idle", "allocated", "locked", "spawned", "running", "unfound",
             "attached", "undiscovered", "failed", "dead"}
SupSt    == {"none", "born", "armed", "waiting", "reaped", "zombie", "gone"}
EngSt    == {"none", "entry", "planning", "allocated", "registered", "building",
             "deploying", "settling", "settled", "zombie", "gone"}

SupRuns  == sup \in {"born", "armed", "waiting", "reaped"}
EngRuns  == eng \notin {"none", "zombie", "gone"}
FrontRuns == front # "dead"

(* registry::pid_alive of the supervisor's and the engine's pid. *)
SupAlive == SupRuns \/ sup = "zombie"
EngAlive == EngRuns \/ eng = "zombie"

Init ==
  /\ front = "idle" /\ sup = "none" /\ eng = "none"
  /\ launch = "none" /\ request = FALSE /\ active = FALSE /\ locks = {}
  /\ logged = FALSE /\ captured = FALSE
  /\ run = "none" /\ meta = NoMeta /\ hosts = "open" /\ build = "none"
  /\ prune = "idle" /\ seen = NoMeta
  /\ watch = "idle" /\ wmeta = NoMeta /\ verdict = "none"
  /\ join = "idle" /\ joinRc = "none"
  /\ kills = 0 /\ reads = 0

----------------------------------------------------------------------------
(* The frontend: DeployRun::start_supervised and discover_run *)

(* new_deploy_launch_dir: the directory's name carries the frontend's pid. *)
AllocLaunch ==
  /\ front = "idle" /\ eng = "none"
  /\ front' = "allocated"
  /\ launch' = "present"
  /\ UNCHANGED <<request, active, locks, sup, engine, pruner, watcher, joiner, kills, reads>>

(* Log and request are written, then the shared lock is taken; any of it may
   fail, as it does without the directory. *)
LockLaunch ==
  /\ front = "allocated"
  /\ \/ /\ launch = "present"
        /\ front' = "locked"
        /\ request' = TRUE
        /\ locks' = locks \cup {"front"}
     \/ /\ front' = "failed"
        /\ request' \in BOOLEAN /\ (request' => launch = "present")
        /\ UNCHANGED locks
  /\ UNCHANGED <<launch, active, sup, engine, pruner, watcher, joiner, kills, reads>>

(* Mutant: the lock is not inherited. *)
SpawnSupervisorUnlocked ==
  /\ front = "locked"
  /\ front' = "spawned"
  /\ sup' = "born"
  /\ UNCHANGED <<locks, launch, request, active, engine, pruner, watcher, joiner, kills, reads>>

(* The supervisor inherits the lock (inherit_launch_lock in pre_exec). *)
SpawnSupervisor ==
  /\ front = "locked"
  /\ front' = "spawned"
  /\ sup' = "born"
  /\ locks' = locks \cup {"sup"}
  /\ UNCHANGED <<launch, request, active, engine, pruner, watcher, joiner, kills, reads>>

SpawnFails ==
  /\ front = "locked"
  /\ front' = "failed"
  /\ request' = FALSE
  /\ locks' = locks \ {"front"}
  /\ UNCHANGED <<launch, active, sup, engine, pruner, watcher, joiner, kills, reads>>

(* write_launch_pid; the frontend's own handle on the lock closes on return. *)
PublishPid ==
  /\ front = "spawned"
  /\ \/ launch = "present" /\ active' = TRUE /\ front' = "running"
     \/ front' = "failed" /\ UNCHANGED active
  /\ locks' = locks \ {"front"}
  /\ UNCHANGED <<launch, request, sup, engine, pruner, watcher, joiner, kills, reads>>

(* discover_run: does the log name a run that can be opened?  If not, has the
   supervisor exited (try_wait, which reaps it)?  Then the error is final, else
   the caller polls again. *)
DiscoverRun ==
  /\ front = "running"
  /\ front' = IF logged /\ run = "present" THEN "attached" ELSE "unfound"
  /\ UNCHANGED <<launch, request, active, locks, sup, engine, pruner, watcher, joiner, kills, reads>>

(* Mutant: the supervisor's exit is not looked at. *)
PollExitIgnored ==
  /\ front = "unfound"
  /\ front' = "running"
  /\ UNCHANGED <<sup, launch, request, active, locks, engine, pruner, watcher, joiner, kills, reads>>

PollExit ==
  /\ front = "unfound"
  /\ IF sup = "zombie"
     THEN front' = "undiscovered" /\ sup' = "gone"
     ELSE front' = "running" /\ UNCHANGED sup
  /\ UNCHANGED <<launch, request, active, locks, engine, pruner, watcher, joiner, kills, reads>>

(* An attached frontend reaps its supervisor when it next polls. *)
ReapSupervisor ==
  /\ sup = "zombie"
  /\ front \in {"attached", "failed", "dead"}
  /\ sup' = "gone"
  /\ UNCHANGED <<launcher, engine, pruner, watcher, joiner, kills, reads>>

----------------------------------------------------------------------------
(* The supervisor: run_deploy_supervisor *)

SupExit(unlocked) == sup' = "zombie" /\ locks' = unlocked \ {"sup"}

(* It publishes its own pid, takes the request and removes it; whatever fails
   of that ends it. *)
SupArm ==
  /\ sup = "born"
  /\ \/ /\ launch = "present" /\ request
        /\ active' = TRUE
        /\ request' = FALSE
        /\ sup' = "armed"
        /\ UNCHANGED locks
     \/ /\ SupExit(locks)
        /\ \/ UNCHANGED <<active, request>>
           \/ launch = "present" /\ active' = TRUE /\ request' = FALSE
  /\ UNCHANGED <<front, launch, engine, pruner, watcher, joiner, kills, reads>>

(* The engine inherits the lock's descriptor as well. *)
SpawnEngine ==
  /\ sup = "armed"
  /\ sup' = "waiting"
  /\ eng' = "entry"
  /\ locks' = locks \cup {"eng"}
  /\ UNCHANGED <<front, launch, request, active, captured, logged, run, meta,
                 hosts, build, pruner, watcher, joiner, kills, reads>>

EngineSpawnFails ==
  /\ sup = "armed"
  /\ SupExit(locks)
  /\ UNCHANGED <<front, launch, request, active, engine, pruner, watcher, joiner, kills, reads>>

(* wait_std reaps the engine, then the supervisor exits with its code. *)
ReapEngine ==
  /\ sup = "waiting" /\ eng = "zombie"
  /\ eng' = "gone"
  /\ sup' = "reaped"
  /\ UNCHANGED <<launcher, captured, logged, run, meta, hosts, build,
                 pruner, watcher, joiner, kills, reads>>

SupExits ==
  /\ sup = "reaped"
  /\ SupExit(locks)
  /\ UNCHANGED <<front, launch, request, active, engine, pruner, watcher, joiner, kills, reads>>

----------------------------------------------------------------------------
(* The engine: `deploy run` *)

engineRest == <<sup, front, launch, request, active, pruner, watcher, joiner, kills, reads>>

(* The process ends: a live parent has to reap it, otherwise init does. *)
EngExit == eng' = (IF SupRuns THEN "zombie" ELSE "gone") /\ locks' = locks \ {"eng"}

(* Somebody runs the engine from a shell. *)
DirectLaunch ==
  /\ front = "idle" /\ eng = "none"
  /\ eng' = "entry"
  /\ UNCHANGED <<locks, captured, logged, run, meta, hosts, build, engineRest>>

(* capture_at_entry: the hint counts only while the supervisor is the parent. *)
Capture ==
  /\ eng = "entry"
  /\ captured' = SupRuns
  /\ eng' = "planning"
  /\ UNCHANGED <<locks, logged, run, meta, hosts, build, engineRest>>

(* Preflight or registration fails before there is a run to speak of. *)
PreflightFails ==
  /\ eng \in {"planning", "allocated"}
  /\ EngExit
  /\ UNCHANGED <<captured, logged, run, meta, hosts, build, engineRest>>

AllocRun ==
  /\ eng = "planning"
  /\ eng' = "allocated"
  /\ run' = "present"
  /\ UNCHANGED <<locks, captured, logged, meta, hosts, build, engineRest>>

Register ==
  /\ eng = "allocated"
  /\ eng' = "registered"
  /\ meta' = [pid |-> TRUE, sup |-> captured, rc |-> "none"]
  /\ UNCHANGED <<locks, captured, logged, run, hosts, build, engineRest>>

(* record_controller_failure and record_build_failure: rc 1, unless even that
   cannot be written; then the error is dropped. *)
RecordFailure == meta' \in {meta, [meta EXCEPT !.rc = "1"]}

PublishRunId ==
  /\ eng = "registered"
  /\ \/ eng' = "building" /\ logged' = TRUE /\ UNCHANGED <<meta, locks>>
     \/ RecordFailure /\ EngExit /\ UNCHANGED logged
  /\ UNCHANGED <<captured, run, hosts, build, engineRest>>

(* build_profiles: profiles to deploy, of a batch that succeeded or of one whose
   successes were recovered; a recorded failure; or one of the early `?`
   returns, which leave meta.json without an rc. *)
Build ==
  /\ eng = "building"
  /\ \/ build' \in {"ok", "bad"} /\ eng' = "deploying" /\ UNCHANGED <<meta, locks>>
     \/ build' \in {"none", "bad"} /\ RecordFailure /\ EngExit
     \/ build' \in {"ok", "bad"} /\ EngExit /\ UNCHANGED meta
  /\ UNCHANGED <<captured, logged, run, hosts, engineRest>>

(* One host fails or rolls back while others still run. *)
HostFails ==
  /\ eng = "deploying"
  /\ hosts' = "bad"
  /\ UNCHANGED <<eng, locks, captured, logged, run, meta, build, engineRest>>

(* The hosts that hold a permit have succeeded; the next ones begin. *)
HostSucceeds ==
  /\ eng = "deploying" /\ hosts = "open"
  /\ hosts' = "some"
  /\ UNCHANGED <<eng, locks, captured, logged, run, meta, build, engineRest>>

HostBegins ==
  /\ eng = "deploying" /\ hosts = "some"
  /\ hosts' = "open"
  /\ UNCHANGED <<eng, locks, captured, logged, run, meta, build, engineRest>>

(* Every host task has ended and its events are on disk. *)
HostsEnd ==
  /\ eng = "deploying"
  /\ hosts' = IF hosts = "bad" THEN "bad" ELSE "ok"
  /\ eng' = "settling"
  /\ UNCHANGED <<locks, captured, logged, run, meta, build, engineRest>>

(* Mutant: the return code forgets the hosts. *)
SettleProcessOnly ==
  /\ eng = "settling"
  /\ meta' = [meta EXCEPT !.rc = "0"]
  /\ eng' = "settled"
  /\ UNCHANGED <<locks, captured, logged, run, hosts, build, engineRest>>

(* settle_fan_out: build and host outcomes make the return code; when that
   cannot be written, record_controller_failure writes another. *)
Settle ==
  /\ eng = "settling"
  /\ \/ meta' = [meta EXCEPT !.rc = IF hosts = "ok" /\ build = "ok" THEN "0" ELSE "1"]
     \/ RecordFailure
  /\ eng' = "settled"
  /\ UNCHANGED <<locks, captured, logged, run, hosts, build, engineRest>>

EngExits ==
  /\ eng = "settled"
  /\ EngExit
  /\ UNCHANGED <<captured, logged, run, meta, hosts, build, engineRest>>

----------------------------------------------------------------------------
(* Kills.  The supervisor and the engine lead their own process groups, so the
   frontend's death does not reach them. *)

Kill == kills < MaxKills /\ kills' = kills + 1

KillFront ==
  /\ front \notin {"idle", "dead"}
  /\ Kill
  /\ front' = "dead"
  /\ locks' = locks \ {"front"}
  /\ UNCHANGED <<launch, request, active, sup, engine, pruner, watcher, joiner, reads>>

(* init reaps the engine of a dead supervisor. *)
KillSup ==
  /\ SupRuns
  /\ Kill
  /\ SupExit(locks)
  /\ eng' = IF eng = "zombie" THEN "gone" ELSE eng
  /\ UNCHANGED <<front, launch, request, active, captured, logged, run, meta,
                 hosts, build, pruner, watcher, joiner, reads>>

KillEng ==
  /\ EngRuns
  /\ Kill
  /\ EngExit
  /\ UNCHANGED <<front, launch, request, active, sup, captured, logged, run, meta,
                 hosts, build, pruner, watcher, joiner, reads>>

----------------------------------------------------------------------------
(* Pruning by another frontend.  Which inactive entries exceed the cap or the
   age limit is left open: any may. *)

(* launch_engine_alive *)
LaunchEngineAlive ==
  /\ logged /\ run = "present"
  /\ \/ meta.pid /\ EngAlive
     \/ meta.sup /\ SupAlive

(* prune_deploy_launches, the scan: the exclusive lock can be had, and neither
   the published pid, nor without one the allocator, nor the engine lives. *)
LaunchInactive ==
  /\ locks = {}
  /\ ~(IF active THEN SupAlive ELSE FrontRuns)
  /\ ~LaunchEngineAlive

JudgeLaunch ==
  /\ prune = "idle"
  /\ launch = "present"
  /\ LaunchInactive
  /\ prune' = "launch"
  /\ UNCHANGED <<launcher, sup, engine, seen, watcher, joiner, kills, reads>>

(* ... and the removal, which asks for the lock again. *)
RemoveLaunch ==
  /\ prune = "launch"
  /\ launch' = IF locks = {} THEN "removed" ELSE launch
  /\ prune' = "idle"
  /\ UNCHANGED <<front, request, active, locks, sup, engine, seen, watcher, joiner, kills, reads>>

(* prune_policy lists every run's metadata first ... *)
ListRuns ==
  /\ prune = "idle"
  /\ run = "present"
  /\ seen' = meta
  /\ prune' = "runs"
  /\ UNCHANGED <<launcher, sup, engine, watcher, joiner, kills, reads>>

(* Mutant: a run without metadata is nobody's. *)
RunSparedByMeta == (seen.pid /\ EngAlive) \/ (seen.sup /\ SupAlive)

(* ... then spares the runs with a live pid; one without metadata is protected
   by the pid in its name. *)
RunSpared ==
  \/ (seen.pid \/ seen = NoMeta) /\ EngAlive
  \/ seen.sup /\ SupAlive

RemoveRun ==
  /\ prune = "runs"
  /\ run' = IF RunSpared THEN run ELSE "removed"
  /\ prune' = "idle"
  /\ UNCHANGED <<launcher, sup, eng, captured, logged, meta, hosts, build, seen,
                 watcher, joiner, kills, reads>>

----------------------------------------------------------------------------
(* Judging the run from the registry.  meta.json goes with the directory. *)

ReadMeta == IF run = "present" THEN meta ELSE NoMeta

(* ObservedRun::liveness, three reads at three moments: the metadata, whether
   the supervisor lives, whether the engine lives; then the events. *)
WatchMeta ==
  /\ watch = "idle" /\ run # "none" /\ reads < MaxReads
  /\ reads' = reads + 1
  /\ wmeta' = ReadMeta
  /\ watch' = "sup"
  /\ UNCHANGED <<launcher, sup, engine, pruner, verdict, joiner, kills>>

WatchSup ==
  /\ watch = "sup"
  /\ \/ /\ wmeta.rc = "none" /\ wmeta.sup /\ ~SupAlive
        /\ verdict' = "failed"
        /\ watch' = "idle"
     \/ /\ ~(wmeta.rc = "none" /\ wmeta.sup /\ ~SupAlive)
        /\ watch' = "pid"
        /\ UNCHANGED verdict
  /\ UNCHANGED <<launcher, sup, engine, pruner, wmeta, joiner, kills, reads>>

WatchPid ==
  /\ watch = "pid"
  /\ \/ wmeta.pid /\ EngAlive /\ verdict' = "running" /\ watch' = "idle"
     \/ ~(wmeta.pid /\ EngAlive) /\ watch' = "judge" /\ UNCHANGED verdict
  /\ UNCHANGED <<launcher, sup, engine, pruner, wmeta, joiner, kills, reads>>

(* EventTailer: what it has read once it has polled.  The files of a removed
   run are gone, and how far it had read them before is open. *)
Tailed ==
  IF run = "present" THEN {hosts} ELSE {h \in {"open", "some", hosts} : hosts = "open" => h = "open"}

(* A host that never began has an empty event file and does not count, so "some"
   is judged like "ok"; failed and rolled-back are one verdict here. *)
Judged(h) ==
  IF h = "bad" THEN "failed"
  ELSE IF wmeta.rc # "none" THEN (IF wmeta.rc = "0" THEN "finished" ELSE "failed")
  ELSE IF h \in {"some", "ok"} THEN "finished"
  ELSE IF run = "present" /\ build = "bad" THEN "failed"
  ELSE "unknown"

WatchJudge ==
  /\ watch = "judge"
  /\ \E h \in Tailed : verdict' = Judged(h)
  /\ watch' = "idle"
  /\ UNCHANGED <<launcher, sup, engine, pruner, wmeta, joiner, kills, reads>>

(* An attached DeployRun: finished(), then returncode() on a second read. *)
Finished ==
  LET m == ReadMeta IN
  \/ m.rc # "none"
  \/ m.sup /\ ~SupAlive
  \/ ~(m.pid /\ EngAlive)

JoinFinished ==
  /\ join = "idle" /\ run # "none" /\ reads < MaxReads
  /\ reads' = reads + 1
  /\ IF Finished THEN join' = "finished" /\ UNCHANGED joinRc
                 ELSE joinRc' = "none" /\ UNCHANGED join
  /\ UNCHANGED <<launcher, sup, engine, pruner, watcher, kills>>

(* effective_deploy_returncode, then the dead supervisor, then the hosts. *)
Returncode(h) ==
  LET m == ReadMeta
  IN IF m.rc # "none" THEN (IF h = "bad" THEN "1" ELSE m.rc)
     ELSE IF m.sup /\ ~SupAlive THEN "1"
     ELSE IF h = "bad" THEN "1" ELSE "0"

JoinReturncode ==
  /\ join = "finished"
  /\ \E h \in Tailed : joinRc' = Returncode(h)
  /\ join' = "idle"
  /\ UNCHANGED <<launcher, sup, engine, pruner, watcher, kills, reads>>

----------------------------------------------------------------------------
FrontStep == LockLaunch \/ SpawnSupervisor \/ SpawnFails \/ PublishPid \/ DiscoverRun \/ PollExit
SupStep   == SupArm \/ SpawnEngine \/ EngineSpawnFails \/ ReapEngine \/ SupExits
EngStep   == \/ Capture \/ PreflightFails \/ AllocRun \/ Register \/ PublishRunId
             \/ Build \/ HostFails \/ HostSucceeds \/ HostBegins \/ HostsEnd \/ Settle \/ EngExits
PruneStep == JudgeLaunch \/ RemoveLaunch \/ ListRuns \/ RemoveRun
WatchStep == WatchMeta \/ WatchSup \/ WatchPid \/ WatchJudge
JoinStep  == JoinFinished \/ JoinReturncode

Next ==
  \/ AllocLaunch \/ FrontStep \/ ReapSupervisor
  \/ SupStep \/ DirectLaunch \/ EngStep
  \/ KillFront \/ KillSup \/ KillEng
  \/ PruneStep \/ WatchStep \/ JoinStep

Spec == Init /\ [][Next]_vars

(* A process that is not killed goes on: builds and host tasks end. *)
FairSpec ==
  /\ Spec
  /\ WF_vars(FrontStep) /\ WF_vars(SupStep)
  /\ WF_vars(EngStep) /\ WF_vars(HostsEnd)

----------------------------------------------------------------------------
(* Properties *)

(* Type correctness. *)
TypeOK ==
  /\ front \in FrontSt /\ sup \in SupSt /\ eng \in EngSt
  /\ launch \in {"none", "present", "removed"}
  /\ run \in {"none", "present", "removed"}
  /\ request \in BOOLEAN /\ active \in BOOLEAN
  /\ logged \in BOOLEAN /\ captured \in BOOLEAN
  /\ locks \subseteq {"front", "sup", "eng"}
  /\ meta \in Metas /\ seen \in Metas /\ wmeta \in Metas
  /\ hosts \in {"open", "some", "ok", "bad"} /\ build \in {"none", "ok", "bad"}
  /\ prune \in {"idle", "launch", "runs"}
  /\ watch \in {"idle", "sup", "pid", "judge"}
  /\ verdict \in {"none", "running", "finished", "failed", "unknown"}
  /\ join \in {"idle", "finished"} /\ joinRc \in {"none", "0", "1"}
  /\ kills \in 0..MaxKills /\ reads \in 0..MaxReads

(* "this also covers a frontend dying between spawn and publication" (runner.rs,
   lock_launch): a prune never removes the launch directory of a launch whose
   frontend is still preparing it, or whose supervisor or engine still runs,
   whoever was killed in between. *)
LaunchInUse ==
  \/ front \in {"allocated", "locked", "spawned"}
  \/ SupRuns
  \/ EngRuns

PruneSparesLaunch == launch = "removed" => ~LaunchInUse

(* A prune never removes the run directory of a live engine, not even one it
   listed before the engine had written its metadata. *)
PruneSparesRun == run = "removed" => ~EngRuns

(* The verdict on a settled run is what its hosts did: an observer that read a
   return code says "finished" exactly when that code is 0 and every host
   succeeded, however late it read the events and whether or not the run was
   pruned under it. *)
SettledVerdict ==
  (watch = "idle" /\ wmeta.rc # "none") =>
     \/ verdict = "running"
     \/ verdict = "finished" /\ wmeta.rc = "0" /\ hosts = "ok"
     \/ verdict = "failed" /\ wmeta.rc = "1"

(* launch_deploy's loop over discover_run ends: a launched run is attached, or
   the launch is reported as failed. *)
DiscoveryEnds ==
  front = "running" ~> front \in {"attached", "undiscovered", "dead"}
=============================================================================
