---------------------------- MODULE DeployEngine ----------------------------
(***************************************************************************)
(* A registered deploy run from the batch build to settlement               *)
(* (engines/deploy.rs) and what any other frontend reads of it: the JSONL   *)
(* streams the engine appends (EventWriter of runner.rs, with the budget of *)
(* build.jsonl), the tailer that demuxes them (EventTailer, HostRun,        *)
(* BuildModel) and the verdict on a run whose pid is gone                   *)
(* (ObservedRun::liveness of registry.rs).                                  *)
(*                                                                          *)
(* A record is appended in two steps, so a reader or a kill can meet it     *)
(* without its newline.  What happens on a host is HostActivation's matter: *)
(* here a deployment ends in one of the four ways the engine tells apart.   *)
(***************************************************************************)
EXTENDS Naturals, Sequences, FiniteSets, SequencesExt

CONSTANTS Hosts,      \* the plan's targets
          Plans,      \* the flags of the run: [halt, dry, boot, magic]
          Throttle,   \* permits of the fan-out's semaphore
          MaxIo,      \* I/O errors met by the engine
          MaxLines,   \* lines of nix on stderr, and diagnostics of failed derivations
          MaxSize,    \* bytes of a line's record
          LogMax,     \* BUILD_LOG_MAX_BYTES
          Reserve,    \* TERMINAL_RESERVE
          Notice,     \* room kept for the truncation notice
          None

ASSUME HostsAssumption == Hosts # {} /\ IsFiniteSet(Hosts) /\ "build" \notin Hosts
ASSUME PlansAssumption ==
  Plans \subseteq [halt : BOOLEAN, dry : BOOLEAN, boot : BOOLEAN, magic : BOOLEAN]
ASSUME ThrottleAssumption == Throttle \in Nat \ {0}
ASSUME BudgetAssumption ==
  /\ LogMax \in Nat /\ Reserve \in Nat /\ Notice \in Nat \ {0}
  /\ Reserve >= Notice + 2 /\ LogMax > Reserve + Notice
ASSUME BoundsAssumption == MaxIo \in Nat /\ MaxLines \in Nat /\ MaxSize \in Nat

Streams == Hosts \cup {"build"}

VARIABLES
  plan,      \* the run's flags
  pc,        \* the engine: the next step of the run, "exited" or "killed"
  buildRc,   \* exit of nix build, None before it ended
  event_error, \* the build's outcome is an I/O error
  lines,     \* lines read from nix; later the diagnostics written
  realised,  \* profiles whose store path exists after the build
  paths, failures,  \* BuiltProfiles
  meta,      \* meta.json: [build_rc, rc, summary]
  log,       \* complete and partial records of every stream
  partial,   \* the stream whose last record has no newline yet
  bytes, truncated, \* EventFile of build.jsonl
  task,      \* per host: the next step of its task, "none" before the fan-out, "joined" after it
  outcome,   \* per host: its disposition, then how its deployment ended
  result,    \* HostDeployResult.state, None before the task is joined
  io,        \* I/O errors so far
  seen, view, buildView  \* a tailer: offsets, HostRun.state, BuildModel

evars == <<plan, pc, buildRc, event_error, lines, realised, paths, failures>>
wvars == <<log, partial, bytes, truncated>>
hvars == <<task, outcome, result>>
tvars == <<seen, view, buildView>>
vars == <<plan, pc, buildRc, event_error, lines, realised, paths, failures, meta, log,
          partial, bytes, truncated, task, outcome, result, io, seen, view, buildView>>

----------------------------------------------------------------------------
(* HostState; the engine itself emits no milestone of evaluating or building. *)
Terminal == {"confirmed", "reboot-pending", "rolled-back", "failed"}
HostStates == Terminal \cup {"pending", "evaluating", "building", "copying", "activating", "waiting"}
ASSUME NoneAssumption == None \notin Nat /\ None \notin Streams /\ None \notin HostStates

(* HostRun::feed: milestones set the state unless it is terminal, a rollback
   wins even then, and a non-zero status flags a host that has no verdict. *)
MilestoneState ==
  [copy |-> "copying", activate |-> "activating", wait |-> "waiting",
   confirm |-> "confirmed", reboot |-> "reboot-pending", rollback |-> "rolled-back"]

Feed(state, event) ==
  CASE event \in DOMAIN MilestoneState ->
         IF state \notin Terminal \/ event = "rollback" THEN MilestoneState[event] ELSE state
    [] event = "done1" -> IF state \in Terminal THEN state ELSE "failed"
    [] OTHER -> state

(* BuildModel::feed, as far as the verdict goes: a done record carries the rc. *)
FeedBuild(rc, event) == IF event[1] = "done" THEN event[2] ELSE rc

(* The complete records of a stream: poll stops before a line without newline. *)
Complete(s) == IF partial = s THEN Front(log[s]) ELSE log[s]


----------------------------------------------------------------------------
Init ==
  /\ plan \in Plans
  /\ pc = "resolve" /\ buildRc = None /\ event_error = FALSE /\ lines = 0
  /\ realised = {} /\ paths = {} /\ failures = {}
  /\ meta = [build_rc |-> None, rc |-> None, summary |-> None]
  /\ log = [s \in Streams |-> <<>>] /\ partial = None /\ bytes = 0 /\ truncated = FALSE
  /\ task = [h \in Hosts |-> "none"]
  /\ outcome = [h \in Hosts |-> None] /\ result = [h \in Hosts |-> None]
  /\ io = 0
  /\ seen = [s \in Streams |-> 0] /\ view = [h \in Hosts |-> None] /\ buildView = None

(* The engine's threads are between two writes; nothing else runs while one of
   them is inside write_all under the writer's lock. *)
Running == pc \notin {"exited", "killed"} /\ partial = None
Io(k) == io + k <= MaxIo /\ io' = io + k

(* EventWriter::emit on a host's stream. *)
Emit(h, event) ==
  /\ log' = [log EXCEPT ![h] = Append(@, event)]
  /\ partial' = h
  /\ UNCHANGED <<bytes, truncated>>

(* A faulty variant of Budget. *)
BudgetWithoutReserve(terminal) == LogMax - Notice

(* EventWriter::emit_at on build.jsonl: the budget keeps a reserve for terminal
   records, and the first record over it is replaced by one notice. *)
Budget(terminal) == IF terminal THEN LogMax - Notice ELSE LogMax - Reserve - Notice

EmitBuild(event, size, terminal) ==
  IF (truncated /\ ~terminal) \/ bytes + size > Budget(terminal)
    THEN /\ truncated' = TRUE
         /\ IF ~truncated /\ bytes + 1 <= LogMax
              THEN /\ log' = [log EXCEPT !["build"] = Append(@, <<"notice">>)]
                   /\ bytes' = bytes + 1 /\ partial' = "build"
              ELSE UNCHANGED <<log, bytes, partial>>
    ELSE /\ log' = [log EXCEPT !["build"] = Append(@, event)]
         /\ bytes' = bytes + size /\ partial' = "build"
         /\ UNCHANGED truncated

(* write_all returns: the record has its newline. *)
Flush ==
  /\ pc # "killed" /\ partial # None
  /\ partial' = None
  /\ UNCHANGED <<log, bytes, truncated, meta, io>>
  /\ UNCHANGED evars /\ UNCHANGED hvars /\ UNCHANGED tvars

(* record_build_failure after k I/O errors; its own failure is ignored. *)
RecordBuildFailure(rc, k) ==
  \/ Io(k) /\ meta' = [meta EXCEPT !.build_rc = rc, !.rc = rc]
  \/ Io(k + 1) /\ UNCHANGED meta

----------------------------------------------------------------------------
(* build_profiles_with.  resolve_profiles fails: recorded. *)
ResolveFails ==
  /\ Running /\ pc = "resolve"
  /\ RecordBuildFailure(1, 0)
  /\ pc' = "exited"
  /\ UNCHANGED <<plan, buildRc, event_error, lines, realised, paths, failures>>
  /\ UNCHANGED wvars /\ UNCHANGED hvars /\ UNCHANGED tvars

ResolveProfiles ==
  /\ Running /\ pc = "resolve"
  /\ pc' = "open"
  /\ UNCHANGED <<plan, buildRc, event_error, lines, realised, paths, failures, meta, io>>
  /\ UNCHANGED wvars /\ UNCHANGED hvars /\ UNCHANGED tvars

(* EventWriter::new for the build stream: its error returns at once. *)
OpenBuildStream ==
  /\ Running /\ pc = "open"
  /\ \/ pc' = "start" /\ Io(0)
     \/ pc' = "exited" /\ Io(1)
  /\ UNCHANGED <<plan, buildRc, event_error, lines, realised, paths, failures, meta>>
  /\ UNCHANGED wvars /\ UNCHANGED hvars /\ UNCHANGED tvars

BuildStart ==
  /\ Running /\ pc = "start"
  /\ \/ /\ EmitBuild(<<"start">>, 1, FALSE)
        /\ pc' = "spawn" /\ Io(0) /\ UNCHANGED meta
     \/ /\ RecordBuildFailure(1, 1)
        /\ pc' = "exited" /\ UNCHANGED wvars
  /\ UNCHANGED <<plan, buildRc, event_error, lines, realised, paths, failures>>
  /\ UNCHANGED hvars /\ UNCHANGED tvars

(* spawn_std fails: a done record whose own failure is ignored, and 127. *)
SpawnFails ==
  /\ Running /\ pc = "spawn"
  /\ \/ EmitBuild(<<"done", 127>>, 1, TRUE) /\ RecordBuildFailure(127, 0)
     \/ UNCHANGED wvars /\ RecordBuildFailure(127, 1)
  /\ pc' = "exited"
  /\ UNCHANGED <<plan, buildRc, event_error, lines, realised, paths, failures>>
  /\ UNCHANGED hvars /\ UNCHANGED tvars

SpawnBuild ==
  /\ Running /\ pc = "spawn"
  /\ pc' = "building"
  /\ UNCHANGED <<plan, buildRc, event_error, lines, realised, paths, failures, meta, io>>
  /\ UNCHANGED wvars /\ UNCHANGED hvars /\ UNCHANGED tvars

(* The stderr reader: a line of nix becomes a record; after the first failed
   write it keeps draining the pipe and writes nothing more. *)
NixLine ==
  /\ Running /\ pc = "building" /\ lines < MaxLines
  /\ lines' = lines + 1
  /\ \/ /\ ~event_error /\ Io(0)
        /\ \E size \in 1..MaxSize : EmitBuild(<<"line">>, size, FALSE)
        /\ UNCHANGED event_error
     \/ ~event_error /\ Io(1) /\ event_error' = TRUE /\ UNCHANGED wvars
     \/ event_error /\ Io(0) /\ UNCHANGED <<event_error, log, partial, bytes, truncated>>
  /\ UNCHANGED <<plan, pc, buildRc, realised, paths, failures, meta>>
  /\ UNCHANGED hvars /\ UNCHANGED tvars

(* nix exits 0 with every profile, 1 with those it could build, or interrupted
   (130, 143 or a signal); waiting for it may fail and return at once. *)
NixExits ==
  /\ Running /\ pc = "building"
  /\ \/ /\ Io(0) /\ pc' = "outcome"
        /\ \E rc \in {0, 1, 130}, S \in SUBSET Hosts :
             /\ rc = 0 => S = Hosts
             /\ buildRc' = rc /\ realised' = S
     \/ Io(1) /\ pc' = "exited" /\ UNCHANGED <<buildRc, realised>>
  /\ lines' = 0
  /\ UNCHANGED <<plan, event_error, paths, failures, meta>>
  /\ UNCHANGED wvars /\ UNCHANGED hvars /\ UNCHANGED tvars

(* Whether the build's outcome is an error that ends the run, and the rc it
   ends with; a failed build that is not halted is recovered host by host. *)
BuildEnds == event_error \/ buildRc = 130 \/ (buildRc # 0 /\ plan.halt)
EndRc == IF event_error THEN 1 ELSE buildRc

(* The outcome: links of a successful build are mapped, a failed one is probed
   profile by profile (recover_profiles); either may meet an unusable link. *)
BuildOutcome ==
  /\ Running /\ pc = "outcome"
  /\ pc' = "final"
  /\ \/ BuildEnds /\ Io(0) /\ UNCHANGED <<paths, failures, event_error>>
     \/ /\ ~BuildEnds /\ Io(0)
        /\ paths' = realised /\ failures' = Hosts \ realised
        /\ UNCHANGED event_error
     \/ ~BuildEnds /\ Io(1) /\ event_error' = TRUE /\ UNCHANGED <<paths, failures>>
  /\ UNCHANGED <<plan, buildRc, lines, realised, meta>>
  /\ UNCHANGED wvars /\ UNCHANGED hvars /\ UNCHANGED tvars

(* The final progress and the done record; a failed write is recorded. *)
BuildTerminal(event, next) ==
  /\ \/ EmitBuild(event, 1, TRUE) /\ pc' = next /\ Io(0) /\ UNCHANGED meta
     \/ RecordBuildFailure(1, 1) /\ pc' = "exited" /\ UNCHANGED wvars
  /\ UNCHANGED <<plan, buildRc, event_error, lines, realised, paths, failures>>
  /\ UNCHANGED hvars /\ UNCHANGED tvars

FinalProgress == Running /\ pc = "final" /\ BuildTerminal(<<"progress">>, "done")
BuildDone ==
  Running /\ pc = "done" /\ BuildTerminal(<<"done", IF BuildEnds THEN EndRc ELSE buildRc>>, "report")

(* A line for each failed node of the forest, whatever nix's exit; none when no
   node failed.  A failed write returns at once. *)
FailedDerivations ==
  /\ Running /\ pc = "report"
  /\ \/ pc' = "record" /\ Io(0) /\ lines' = 0 /\ UNCHANGED wvars
     \/ /\ lines < MaxLines /\ lines' = lines + 1
        /\ EmitBuild(<<"line">>, 1, FALSE) /\ UNCHANGED pc /\ Io(0)
     \/ pc' = "exited" /\ Io(1) /\ lines' = 0 /\ UNCHANGED wvars
  /\ UNCHANGED <<plan, buildRc, event_error, realised, paths, failures, meta>>
  /\ UNCHANGED hvars /\ UNCHANGED tvars

(* The end of build_profiles_with: profiles and build_rc into meta.json, then
   fan_out_with up to its first await: a host without a profile is reported by
   abnormal_host, every other one gets a task. *)
RecordBuild ==
  /\ Running /\ pc = "record"
  /\ \/ /\ ~BuildEnds /\ Io(0) /\ pc' = "fanout"
        /\ meta' = [meta EXCEPT !.build_rc = buildRc]
        /\ task' = [h \in Hosts |-> IF h \in failures THEN "abnormal" ELSE "queued"]
     \/ ~BuildEnds /\ Io(1) /\ pc' = "exited" /\ UNCHANGED <<meta, task>>
     \/ BuildEnds /\ RecordBuildFailure(EndRc, 0) /\ pc' = "exited" /\ UNCHANGED task
  /\ UNCHANGED <<plan, buildRc, event_error, lines, realised, paths, failures>>
  /\ UNCHANGED <<outcome, result>> /\ UNCHANGED wvars /\ UNCHANGED tvars

----------------------------------------------------------------------------
(* fan_out_with.  The runtime has one thread: abnormal_host runs without an
   await, before any other task moves. *)
Active ==
  {h \in Hosts : task[h] \notin {"none", "queued", "panicked", "abnormal", "abnormalDone", "joined"}}
FanningOut == Running /\ pc = "fanout"
Awaiting == FanningOut /\ \A h \in Hosts : task[h] \notin {"abnormal", "abnormalDone"}

(* A host's task moves to a stage without writing. *)
Go(h, stage) ==
  /\ task' = [task EXCEPT ![h] = stage]
  /\ UNCHANGED result /\ UNCHANGED wvars
(* A host's task writes a record and moves on; a failed write goes through
   failed_host, whose own line and status it still tries to write. *)
EmitThen(h, event, stage) ==
  /\ \/ Emit(h, event) /\ Io(0) /\ task' = [task EXCEPT ![h] = stage]
     \/ UNCHANGED wvars /\ Io(1) /\ task' = [task EXCEPT ![h] = "done1"]
  /\ UNCHANGED result
HostUnchanged == UNCHANGED meta /\ UNCHANGED evars /\ UNCHANGED tvars

Permit(h) ==
  /\ Awaiting /\ task[h] = "queued" /\ Cardinality(Active) < Throttle
  /\ Go(h, "start") /\ Io(0) /\ UNCHANGED outcome /\ HostUnchanged

(* deploy_host_with: without a stream or its start record the task ends with a
   failure nothing in the stream shows. *)
HostStart(h) ==
  /\ Awaiting /\ task[h] = "start"
  /\ \/ /\ Emit(h, "start") /\ Io(0)
        /\ task' = [task EXCEPT ![h] = "copy"] /\ UNCHANGED result
     \/ /\ UNCHANGED wvars /\ Io(1)
        /\ task' = [task EXCEPT ![h] = "joined"]
        /\ result' = [result EXCEPT ![h] = "failed"]
  /\ UNCHANGED outcome /\ HostUnchanged

(* Settings or definitions are refused before the copy. *)
HostRefused(h) ==
  /\ Awaiting /\ task[h] = "copy"
  /\ Go(h, "done1") /\ Io(0) /\ UNCHANGED outcome /\ HostUnchanged

CopyMilestone(h) ==
  /\ Awaiting /\ task[h] = "copy"
  /\ EmitThen(h, "copy", "push") /\ UNCHANGED outcome /\ HostUnchanged

(* push_profile, and the sink that may have lost a line meanwhile. *)
Push(h) ==
  /\ Awaiting /\ task[h] = "push"
  /\ \/ Go(h, "resolve") /\ Io(0)
     \/ Go(h, "done1") /\ (Io(0) \/ Io(1))
  /\ UNCHANGED outcome /\ HostUnchanged

(* resolve_activation_disposition: staging when boot was asked for or the
   preflight needs it; a dry run of a staging ends here. *)
Resolve(h) ==
  /\ Awaiting /\ task[h] = "resolve"
  /\ \/ \E staged \in BOOLEAN :
          /\ plan.boot => staged
          /\ Io(0)
          /\ Go(h, IF staged /\ plan.dry THEN "reboot" ELSE "activate")
          /\ outcome' = [outcome EXCEPT ![h] = IF staged THEN "staged"
                                               ELSE IF plan.dry THEN "preview" ELSE "switch"]
     \/ Go(h, "done1") /\ (Io(0) \/ Io(1)) /\ UNCHANGED outcome
  /\ HostUnchanged

RebootMilestone(h) ==
  /\ Awaiting /\ task[h] = "reboot"
  /\ EmitThen(h, "reboot", "done0") /\ UNCHANGED outcome /\ HostUnchanged

ActivateMilestone(h) ==
  /\ Awaiting /\ task[h] = "activate"
  /\ EmitThen(h, "activate", IF outcome[h] = "switch" /\ plan.magic THEN "wait" ELSE "deploy")
  /\ UNCHANGED outcome /\ HostUnchanged

WaitMilestone(h) ==
  /\ Awaiting /\ task[h] = "wait"
  /\ EmitThen(h, "wait", "deploy") /\ UNCHANGED outcome /\ HostUnchanged

(* stage_profile_for_boot or deploy_profile ends; only a switch rolls back. *)
Deploy(h) ==
  /\ Awaiting /\ task[h] = "deploy"
  /\ \/ Go(h, "milestone") /\ Io(0) /\ UNCHANGED outcome
     \/ Go(h, "done1") /\ (Io(0) \/ Io(1)) /\ UNCHANGED outcome
     \/ /\ outcome[h] = "switch" /\ Go(h, "milestone") /\ Io(0)
        /\ outcome' = [outcome EXCEPT ![h] = "rolled-back"]
  /\ HostUnchanged

LastMilestone(h) ==
  /\ Awaiting /\ task[h] = "milestone"
  /\ \/ outcome[h] = "rolled-back" /\ EmitThen(h, "rollback", "rolled")
     \/ outcome[h] = "staged" /\ EmitThen(h, "reboot", "done0")
     \/ outcome[h] \in {"switch", "preview"} /\ EmitThen(h, "confirm", "done0")
  /\ UNCHANGED outcome /\ HostUnchanged

(* host_result: the status record; when it cannot be written the result is a
   failure whatever the host's state.  The permit is dropped with the task. *)
ResultState(h) ==
  CASE task[h] = "done0" -> IF outcome[h] = "staged" THEN "reboot-pending" ELSE "confirmed"
    [] task[h] = "rolled" -> "rolled-back"
    [] OTHER -> "failed"

HostDone(h) ==
  /\ Awaiting /\ task[h] \in {"done0", "rolled", "done1"}
  /\ \/ /\ Emit(h, IF task[h] = "done0" THEN "done0" ELSE "done1") /\ Io(0)
        /\ result' = [result EXCEPT ![h] = ResultState(h)]
     \/ /\ UNCHANGED wvars /\ Io(1)
        /\ result' = [result EXCEPT ![h] = "failed"]
  /\ task' = [task EXCEPT ![h] = "joined"]
  /\ UNCHANGED outcome /\ HostUnchanged

(* A faulty variant of Panic. *)
PanicKeepsPermit(h) ==
  /\ Awaiting /\ task[h] \in {"push", "resolve", "deploy"}
  /\ Go(h, "leaked") /\ Io(0) /\ UNCHANGED outcome /\ HostUnchanged

(* The task panics in the deploy library; the permit is dropped with it. *)
Panic(h) ==
  /\ Awaiting /\ task[h] \in {"push", "resolve", "deploy"}
  /\ Go(h, "panicked") /\ Io(0) /\ UNCHANGED outcome /\ HostUnchanged

(* The join error of a panicked task is met, maybe after steps of other tasks,
   and reported by abnormal_host. *)
JoinFails(h) ==
  /\ Awaiting /\ task[h] = "panicked"
  /\ Go(h, "abnormal") /\ Io(0) /\ UNCHANGED outcome /\ HostUnchanged

(* abnormal_host: a second writer appends to the same stream.  Without a stream
   there is nothing to write to; a lost start record is ignored. *)
AbnormalStart(h) ==
  /\ FanningOut /\ task[h] = "abnormal"
  /\ \/ /\ (Emit(h, "start") /\ Io(0)) \/ (UNCHANGED wvars /\ Io(1))
        /\ task' = [task EXCEPT ![h] = "abnormalDone"] /\ UNCHANGED result
     \/ /\ UNCHANGED wvars /\ Io(1)
        /\ task' = [task EXCEPT ![h] = "joined"]
        /\ result' = [result EXCEPT ![h] = "failed"]
  /\ UNCHANGED outcome /\ HostUnchanged

AbnormalDone(h) ==
  /\ FanningOut /\ task[h] = "abnormalDone"
  /\ \/ Emit(h, "done1") /\ Io(0)
     \/ UNCHANGED wvars /\ Io(1)
  /\ task' = [task EXCEPT ![h] = "joined"]
  /\ result' = [result EXCEPT ![h] = "failed"]
  /\ UNCHANGED outcome /\ HostUnchanged

(* settle_fan_out, and record_controller_failure when meta.json cannot be
   written. *)
Unsuccessful == {"failed", "rolled-back"}
SettledRc ==
  IF meta.build_rc # 0 \/ \E h \in Hosts : result[h] \in Unsuccessful THEN 1 ELSE 0

(* A faulty variant of Settle. *)
SettleWithoutJoining ==
  /\ FanningOut /\ \E h \in Hosts : task[h] = "joined"
  /\ Io(0) /\ meta' = [meta EXCEPT !.rc = SettledRc, !.summary = result]
  /\ pc' = "exited"
  /\ UNCHANGED <<plan, buildRc, event_error, lines, realised, paths, failures>>
  /\ UNCHANGED hvars /\ UNCHANGED wvars /\ UNCHANGED tvars

Settle ==
  /\ FanningOut /\ \A h \in Hosts : task[h] = "joined"
  /\ \/ Io(0) /\ meta' = [meta EXCEPT !.rc = SettledRc, !.summary = result]
     \/ Io(1) /\ meta' = [meta EXCEPT !.rc = 1]
     \/ Io(2) /\ UNCHANGED meta
  /\ pc' = "exited"
  /\ UNCHANGED <<plan, buildRc, event_error, lines, realised, paths, failures>>
  /\ UNCHANGED hvars /\ UNCHANGED wvars /\ UNCHANGED tvars

(* The engine is killed inside a write: the record stays without its newline.
   Kills between two records are DeployLaunch's. *)
KillMidRecord ==
  /\ pc \notin {"exited", "killed"} /\ partial # None
  /\ pc' = "killed"
  /\ UNCHANGED <<plan, buildRc, event_error, lines, realised, paths, failures, meta, io>>
  /\ UNCHANGED hvars /\ UNCHANGED wvars /\ UNCHANGED tvars

----------------------------------------------------------------------------
New(s) == SubSeq(Complete(s), seen[s] + 1, Len(Complete(s)))

(* EventTailer::route: the records of a host make its HostRun. *)
Route ==
  /\ view' = [h \in Hosts |-> IF New(h) = <<>> THEN view[h]
                              ELSE FoldLeft(Feed, IF view[h] = None THEN "pending" ELSE view[h], New(h))]
  /\ buildView' = FoldLeft(FeedBuild, buildView, New("build"))

(* A faulty variant of Poll. *)
PollPastPartial ==
  /\ \E s \in Streams : seen[s] < Len(log[s])
  /\ seen' = [s \in Streams |-> Len(log[s])]
  /\ Route
  /\ UNCHANGED <<meta, io>> /\ UNCHANGED evars /\ UNCHANGED hvars /\ UNCHANGED wvars

(* EventTailer::poll: of every file the complete lines after its offset. *)
Poll ==
  /\ \E s \in Streams : seen[s] < Len(Complete(s))
  /\ seen' = [s \in Streams |-> Len(Complete(s))]
  /\ Route
  /\ UNCHANGED <<meta, io>> /\ UNCHANGED evars /\ UNCHANGED hvars /\ UNCHANGED wvars

(* ObservedRun::liveness of an unsupervised run whose pid is gone. *)
Judged == {h \in Hosts : view[h] # None}
Verdict ==
  IF \E h \in Judged : view[h] = "rolled-back" THEN "rolled-back"
  ELSE IF \E h \in Judged : view[h] = "failed" THEN "failed"
  ELSE IF meta.rc # None THEN IF meta.rc = 0 THEN "finished" ELSE "failed"
  ELSE IF Judged # {} /\ \A h \in Judged : view[h] \in Terminal THEN "finished"
  ELSE IF buildView \notin {0, None} THEN "failed" ELSE "unknown"

BuildStep == \/ ResolveFails \/ ResolveProfiles \/ OpenBuildStream \/ BuildStart \/ SpawnFails
             \/ SpawnBuild \/ NixLine \/ NixExits \/ BuildOutcome \/ FinalProgress
             \/ BuildDone \/ FailedDerivations \/ RecordBuild
HostStep(h) == \/ Permit(h) \/ HostStart(h) \/ HostRefused(h) \/ CopyMilestone(h) \/ Push(h)
               \/ Resolve(h) \/ RebootMilestone(h) \/ ActivateMilestone(h)
               \/ WaitMilestone(h) \/ Deploy(h) \/ LastMilestone(h) \/ HostDone(h)
               \/ JoinFails(h) \/ AbnormalStart(h) \/ AbnormalDone(h)

Next ==
  \/ BuildStep \/ Flush \/ Settle \/ KillMidRecord
  \/ \E h \in Hosts : HostStep(h) \/ Panic(h)
  \/ Poll

(* The engine is scheduled and every command it waits for ends. *)
Spec == Init /\ [][Next]_vars /\ WF_vars(BuildStep) /\ WF_vars(Flush) /\ WF_vars(Settle)
             /\ \A h \in Hosts : WF_vars(HostStep(h))

----------------------------------------------------------------------------
Drained == \A s \in Streams : seen[s] = Len(Complete(s))

(* Once a run has settled and a frontend has read its streams, it judges the
   run finished exactly when every target ended well and the build succeeded:
   the verdict never contradicts the results the engine summarised. *)
FinishedIsTrue ==
  pc = "exited" /\ meta.summary # None /\ Drained =>
    (Verdict = "finished" <=>
       buildRc = 0 /\ \A h \in Hosts : result[h] \in {"confirmed", "reboot-pending"})

(* What the stream of a joined host shows is its result: a success and a
   rollback always, and a host shown as failed never ended well, whatever
   record was cut off by a read, lost by a write or followed by a panic. *)
StreamMatchesResult ==
  Drained => \A h \in Hosts : task[h] = "joined" /\ partial # h =>
    /\ result[h] # "failed" => view[h] = result[h]
    /\ view[h] \in Unsuccessful => result[h] \in Unsuccessful

(* Without an I/O error a run that ends by itself leaves its rc in meta.json,
   and the done record of a build that ran is in build.jsonl however long nix's
   output was. *)
ExitIsDurable ==
  pc = "exited" /\ io = 0 =>
    /\ meta.rc # None
    /\ buildRc # None => \E i \in DOMAIN log["build"] : log["build"][i][1] = "done"

(* The fan-out settles: permits come back from every task, also one that
   panicked, and every task is joined. *)
FanOutEnds == (pc = "fanout") ~> (pc \in {"exited", "killed"})
=============================================================================
