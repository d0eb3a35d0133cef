--------------------------- MODULE HostActivation ---------------------------
(***************************************************************************)
(* One host's deploy task (engines/deploy.rs, deploy_host_with) against    *)
(* its target: copy, the choice between a live switch, boot-only staging   *)
(* and a dry preview, the canary protocol of deploy_profile (activate, wait*)
(* and confirm as three concurrent ssh commands joined by two biased       *)
(* selects), boot staging with its recovery, and the report to the run.    *)
(*                                                                         *)
(* An ssh command is lost when its transport fails: the controller sees a  *)
(* failure whether or not the target has executed it.  The controller may  *)
(* be killed at any moment; what runs on the target goes on ("local process*)
(* ownership, not remote rollback authority", docs/deploy-termination.md). *)
(* activate-rs is external, modelled from what the code says of it, with   *)
(* auto-rollback on.  A retry starts once the activation of the attempt    *)
(* before it has ended on the target.                                      *)
(***************************************************************************)
EXTENDS Naturals

CONSTANT MaxAttempts   \* bound: deploys of this closure to this host

ASSUME AttemptsAssumption == MaxAttempts \in Nat

VARIABLES
  ctl,         \* where the controller's task stands
  plan,        \* the options of this attempt
  report,      \* the HostState the task returned
  recovery,    \* what recover_boot_stage reported
  prev,        \* the profile stage_profile_for_boot resolved
  attempts,    \* deploys begun so far
  sshAct,      \* the activate command, as the controller sees it
  sshWait,     \* the wait command
  sshConf,     \* the confirm command; "removed", "missing": rm ran, its answer is due
  act,         \* activate-rs on the target
  canary,      \* the canary file exists
  profile,     \* the generation the profile link names: "old", "new"
  running,     \* the generation that is live
  boot,        \* the boot default
  was          \* history: the live generation when the attempt began

controller == <<ctl, plan, report, recovery, prev, attempts, was>>
commands   == <<sshAct, sshWait, sshConf>>
target     == <<act, canary, profile, running, boot>>
vars       == <<controller, commands, target>>

Plans == [boot : BOOLEAN, dry : BOOLEAN, magic : BOOLEAN]
Gens  == {"old", "new"}
CtlSt == {"idle", "copy", "resolve", "activate", "plain", "clear", "spawn", "spawnWait",
          "first", "second", "confirming", "settling", "previous", "setProfile",
          "setBoot", "restoreProfile", "restoreBoot", "done", "dead"}
ActSt == {"none", "switching", "live", "waiting", "kept", "rolledBack", "failed"}

(* activate-rs has ended on the target. *)
ActEnded == act \in {"none", "kept", "rolledBack", "failed"}

Init ==
  /\ ctl = "idle" /\ plan = [boot |-> FALSE, dry |-> FALSE, magic |-> TRUE]
  /\ report = "none" /\ recovery = "none" /\ prev = "old" /\ attempts = 0
  /\ sshAct = "none" /\ sshWait = "none" /\ sshConf = "none"
  /\ act = "none" /\ canary = FALSE
  /\ profile = "old" /\ running = "old" /\ boot = "old" /\ was = "old"

Goto(s) == ctl' = s

(* The task returns.  A report that cannot be written to the host's event
   stream is a failure; the local side of commands still running is killed. *)
Done(r) ==
  /\ Goto("done")
  /\ report' \in {r, "failed"}
  /\ sshAct' = "none" /\ sshWait' = "none" /\ sshConf' = "none"

----------------------------------------------------------------------------
(* deploy_host_with up to the activation *)

Begin ==
  /\ ctl \in {"idle", "done", "dead"}
  /\ ActEnded
  /\ attempts < MaxAttempts
  /\ attempts' = attempts + 1
  /\ plan' \in Plans
  /\ Goto("copy")
  /\ report' = "none" /\ recovery' = "none"
  /\ act' = "none"
  /\ was' = running
  /\ UNCHANGED <<prev, commands, canary, profile, running, boot>>

(* push_profile copies the closure, which changes no generation. *)
Copy ==
  /\ ctl = "copy"
  /\ \/ Goto("resolve") /\ UNCHANGED <<report, commands>>
     \/ Done("failed")
  /\ UNCHANGED <<plan, recovery, prev, attempts, was, target>>

(* Mutant: a boot request is left to the preflight. *)
ResolveByPreflight ==
  /\ ctl = "resolve"
  /\ \E staged \in BOOLEAN :
       \/ staged /\ plan.dry /\ Done("reboot-pending")
       \/ staged /\ ~plan.dry /\ Goto("previous") /\ UNCHANGED <<report, commands>>
       \/ ~staged /\ Goto("activate") /\ UNCHANGED <<report, commands>>
  /\ UNCHANGED <<plan, recovery, prev, attempts, was, target>>

(* resolve_activation_disposition: what was asked for, or what the target's own
   preflight answers; a target without the contract switches as before. *)
Resolve ==
  /\ ctl = "resolve"
  /\ \E staged \in IF plan.boot THEN {TRUE} ELSE BOOLEAN :
       \/ staged /\ plan.dry /\ Done("reboot-pending")
       \/ staged /\ ~plan.dry /\ Goto("previous") /\ UNCHANGED <<report, commands>>
       \/ ~staged /\ Goto("activate") /\ UNCHANGED <<report, commands>>
       \/ ~plan.boot /\ Done("failed")
  /\ UNCHANGED <<plan, recovery, prev, attempts, was, target>>

----------------------------------------------------------------------------
(* deploy_profile *)

(* Settings it does not support end it at once. *)
Activate ==
  /\ ctl = "activate"
  /\ \/ Goto(IF plan.dry \/ ~plan.magic THEN "plain" ELSE "clear") /\ UNCHANGED <<report, commands>>
     \/ Done("failed")
  /\ UNCHANGED <<plan, recovery, prev, attempts, was, target>>

(* The command reaches the target and runs, or it is lost before that; a dry
   activation only looks. *)
StartActivate ==
  /\ sshAct' \in {"running", "err"}
  /\ act' \in IF plan.dry \/ sshAct' = "err" THEN {act} ELSE {"switching"}
  /\ UNCHANGED <<canary, profile, running, boot>>

(* Without the canary protocol: run the command and take its exit. *)
PlainStart ==
  /\ ctl = "plain" /\ sshAct = "none"
  /\ StartActivate
  /\ UNCHANGED <<controller, sshWait, sshConf>>

PlainExit ==
  /\ ctl = "plain"
  /\ \/ sshAct = "ok" /\ Done("confirmed")
     \/ sshAct = "err" /\ Done("failed")
  /\ UNCHANGED <<plan, recovery, prev, attempts, was, target>>

(* Mutant: the canary of an earlier attempt stays. *)
ClearStaleCanaryNot ==
  /\ ctl = "clear"
  /\ Goto("spawn")
  /\ UNCHANGED <<plan, report, recovery, prev, attempts, was, commands, target>>

(* clear_stale_canary: rm -f, answered, lost after it ran, or lost before. *)
ClearStaleCanary ==
  /\ ctl = "clear"
  /\ \/ canary' = FALSE /\ Goto("spawn") /\ UNCHANGED <<report, commands>>
     \/ canary' \in {FALSE, canary} /\ Done("failed")
  /\ UNCHANGED <<plan, recovery, prev, attempts, was, act, profile, running, boot>>

SpawnActivate ==
  /\ ctl = "spawn"
  /\ \/ StartActivate /\ Goto("spawnWait") /\ UNCHANGED <<report, sshWait, sshConf>>
     \/ Done("failed") /\ UNCHANGED target
  /\ UNCHANGED <<plan, recovery, prev, attempts, was>>

(* A waiter that cannot be spawned drops, and so kills, the activate command. *)
SpawnWait ==
  /\ ctl = "spawnWait"
  /\ \/ sshWait' = "running" /\ Goto("first") /\ UNCHANGED <<report, sshAct, sshConf>>
     \/ Done("failed")
  /\ UNCHANGED <<plan, recovery, prev, attempts, was, target>>

(* The first select: the waiter is asked first. *)
FirstWait ==
  /\ ctl = "first"
  /\ \/ sshWait = "ok" /\ Goto("second") /\ sshConf' = "sent" /\ UNCHANGED <<report, sshAct, sshWait>>
     \/ sshWait = "err" /\ Done("failed")
  /\ UNCHANGED <<plan, recovery, prev, attempts, was, target>>

(* Mutant: an activation that fails does not end the first select. *)
FirstActivateOk ==
  /\ ctl = "first" /\ sshWait = "running"
  /\ sshAct = "ok" /\ Goto("confirming") /\ sshConf' = "sent"
  /\ UNCHANGED <<sshAct, sshWait, plan, report, recovery, prev, attempts, was, target>>

FirstActivate ==
  /\ ctl = "first" /\ sshWait = "running"
  /\ \/ sshAct = "ok" /\ Goto("confirming") /\ sshConf' = "sent" /\ UNCHANGED <<report, sshAct, sshWait>>
     \/ sshAct = "err" /\ Done("failed")
  /\ UNCHANGED <<plan, recovery, prev, attempts, was, target>>

(* The second select: the activation is asked first. *)
SecondActivate ==
  /\ ctl = "second"
  /\ \/ sshAct = "ok" /\ Goto("confirming") /\ UNCHANGED <<report, commands>>
     \/ sshAct = "err" /\ Done("rolled-back")           \* RollbackExit
  /\ UNCHANGED <<plan, recovery, prev, attempts, was, target>>

SecondConfirm ==
  /\ ctl = "second" /\ sshAct = "running"
  /\ sshConf \in {"ok", "err"}
  /\ Goto("settling")
  /\ UNCHANGED <<plan, report, recovery, prev, attempts, was, commands, target>>

(* Mutant: a timely confirmation makes up for a failed activation. *)
SettleConfirmedOnly ==
  /\ ctl = "settling"
  /\ sshAct \in {"ok", "err"}
  /\ \/ sshConf = "ok" /\ Done("confirmed")
     \/ sshConf = "err" /\ Done("rolled-back")
  /\ UNCHANGED <<plan, recovery, prev, attempts, was, target>>

(* The confirmation is in, the activation is awaited: a confirmation counts only
   with an activation that succeeded. *)
SettleConfirmed ==
  /\ ctl = "settling"
  /\ sshAct \in {"ok", "err"}
  /\ \/ sshConf = "ok" /\ sshAct = "ok" /\ Done("confirmed")
     \/ sshConf = "ok" /\ sshAct = "err" /\ Done("failed")
     \/ sshConf = "err" /\ Done("rolled-back")          \* ConfirmExit
  /\ UNCHANGED <<plan, recovery, prev, attempts, was, target>>

(* The activation has succeeded, the confirmation is awaited. *)
AwaitConfirm ==
  /\ ctl = "confirming"
  /\ \/ sshConf = "ok" /\ Done("confirmed")
     \/ sshConf = "err" /\ Done("rolled-back")          \* ConfirmExit
  /\ UNCHANGED <<plan, recovery, prev, attempts, was, target>>

----------------------------------------------------------------------------
(* stage_profile_for_boot and recover_boot_stage.  A command that fails has run
   or has not by the time the controller learns of it: one that outlives its
   connection and lands later is left out. *)

ResolvePrevious ==
  /\ ctl = "previous"
  /\ \/ prev' = profile /\ Goto("setProfile") /\ UNCHANGED <<report, commands>>
     \/ Done("failed") /\ UNCHANGED prev
  /\ UNCHANGED <<plan, recovery, attempts, was, target>>

SetProfile ==
  /\ ctl = "setProfile"
  /\ \/ profile' = "new" /\ Goto("setBoot")
     \/ profile' \in {"new", profile} /\ Goto("restoreProfile")
  /\ UNCHANGED <<plan, report, recovery, prev, attempts, was, commands, act, canary, running, boot>>

SetBoot ==
  /\ ctl = "setBoot"
  /\ \/ boot' = "new" /\ Done("reboot-pending")
     \/ boot' \in {"new", boot} /\ Goto("restoreProfile") /\ UNCHANGED <<report, commands>>
  /\ UNCHANGED <<plan, recovery, prev, attempts, was, act, canary, profile, running>>

RestoreProfile ==
  /\ ctl = "restoreProfile"
  /\ \/ profile' = prev /\ recovery' = "restored"
     \/ profile' \in {prev, profile} /\ recovery' = "failed"
  /\ Goto("restoreBoot")
  /\ UNCHANGED <<plan, report, prev, attempts, was, commands, act, canary, running, boot>>

(* Mutant: only the profile is restored. *)
RestoreBootNot ==
  /\ ctl = "restoreBoot"
  /\ Done("failed")
  /\ UNCHANGED <<plan, recovery, prev, attempts, was, target>>

(* The boot default is restored whether or not the profile was; the error names
   every restore that failed. *)
RestoreBoot ==
  /\ ctl = "restoreBoot"
  /\ \/ boot' = prev /\ UNCHANGED recovery
     \/ boot' \in {prev, boot} /\ recovery' = "failed"
  /\ Done("failed")
  /\ UNCHANGED <<plan, prev, attempts, was, act, canary, profile, running>>

(* The engine is killed; its ssh children go with it or are not listened to. *)
KillController ==
  /\ ctl \notin {"idle", "done", "dead"}
  /\ Goto("dead")
  /\ sshAct' = "none" /\ sshWait' = "none" /\ sshConf' = "none"
  /\ UNCHANGED <<plan, report, recovery, prev, attempts, was, target>>

----------------------------------------------------------------------------
(* The target: activate-rs, and what becomes of the commands *)

Generation(g) == profile' = g /\ running' = g /\ boot' = g

(* The switch succeeds, or fails and is rolled back at once. *)
Switch ==
  /\ act = "switching"
  /\ \/ Generation("new") /\ act' = IF plan.magic THEN "live" ELSE "kept"
     \/ Generation("old") /\ act' = "failed"
  /\ UNCHANGED <<controller, commands, canary>>

CreateCanary ==
  /\ act = "live"
  /\ canary' = TRUE
  /\ act' = "waiting"
  /\ UNCHANGED <<controller, commands, profile, running, boot>>

(* The canary was removed in time: the generation stays. *)
Keep ==
  /\ act = "waiting" /\ ~canary
  /\ act' = "kept"
  /\ UNCHANGED <<controller, commands, canary, profile, running, boot>>

(* confirm_timeout: roll back, and leave the canary behind. *)
ConfirmTimeout ==
  /\ act = "waiting" /\ canary
  /\ Generation("old")
  /\ act' = "rolledBack"
  /\ UNCHANGED <<controller, commands, canary>>

(* Exits reach the controller. *)
ActivateExits ==
  /\ sshAct = "running"
  /\ \/ plan.dry /\ sshAct' \in {"ok", "err"}
     \/ ~plan.dry /\ act = "kept" /\ sshAct' = "ok"
     \/ ~plan.dry /\ act \in {"rolledBack", "failed"} /\ sshAct' = "err"
  /\ UNCHANGED <<controller, sshWait, sshConf, target>>

(* The waiter takes the mere existence of the canary as readiness. *)
WaiterExits ==
  /\ sshWait = "running" /\ canary
  /\ sshWait' = "ok"
  /\ UNCHANGED <<controller, sshAct, sshConf, target>>

(* confirm_profile: rm fails when there is no canary. *)
RunConfirm ==
  /\ sshConf = "sent"
  /\ canary' = FALSE
  /\ sshConf' = IF canary THEN "removed" ELSE "missing"
  /\ UNCHANGED <<controller, sshAct, sshWait, act, profile, running, boot>>

ConfirmAnswers ==
  /\ sshConf \in {"removed", "missing"}
  /\ sshConf' = IF sshConf = "removed" THEN "ok" ELSE "err"
  /\ UNCHANGED <<controller, sshAct, sshWait, target>>

(* A transport fails, or activation_timeout ends the waiter. *)
Lose ==
  /\ \/ sshAct = "running" /\ sshAct' = "err" /\ UNCHANGED <<sshWait, sshConf>>
     \/ sshWait = "running" /\ sshWait' = "err" /\ UNCHANGED <<sshAct, sshConf>>
     \/ sshConf \in {"sent", "removed", "missing"} /\ sshConf' = "err" /\ UNCHANGED <<sshAct, sshWait>>
  /\ UNCHANGED <<controller, target>>

(* Somebody else removes the canary. *)
CanaryRemoved ==
  /\ canary
  /\ canary' = FALSE
  /\ UNCHANGED <<controller, commands, act, profile, running, boot>>

----------------------------------------------------------------------------
ControllerStep ==
  \/ Copy \/ Resolve \/ Activate \/ PlainStart \/ PlainExit
  \/ ClearStaleCanary \/ SpawnActivate \/ SpawnWait
  \/ FirstWait \/ FirstActivate \/ SecondActivate \/ SecondConfirm
  \/ SettleConfirmed \/ AwaitConfirm
  \/ ResolvePrevious \/ SetProfile \/ SetBoot \/ RestoreProfile \/ RestoreBoot

TargetStep ==
  \/ Switch \/ CreateCanary \/ Keep \/ ConfirmTimeout
  \/ ActivateExits \/ WaiterExits \/ RunConfirm \/ ConfirmAnswers

Next == Begin \/ ControllerStep \/ TargetStep \/ KillController \/ Lose \/ CanaryRemoved

Spec == Init /\ [][Next]_vars

(* The engine polls its task, a switch ends and a reachable target answers. *)
FairSpec == Spec /\ WF_vars(ControllerStep) /\ WF_vars(TargetStep)

----------------------------------------------------------------------------
(* Properties *)

(* Type correctness. *)
TypeOK ==
  /\ ctl \in CtlSt /\ plan \in Plans
  /\ report \in {"none", "confirmed", "reboot-pending", "failed", "rolled-back"}
  /\ recovery \in {"none", "restored", "failed"}
  /\ attempts \in 0..MaxAttempts
  /\ sshAct \in {"none", "running", "ok", "err"}
  /\ sshWait \in {"none", "running", "ok", "err"}
  /\ sshConf \in {"none", "sent", "removed", "missing", "ok", "err"}
  /\ act \in ActSt /\ canary \in BOOLEAN
  /\ prev \in Gens /\ profile \in Gens /\ running \in Gens /\ boot \in Gens /\ was \in Gens

(* A host reported confirmed runs, and will boot, the new generation: no race
   between the waiter, the confirmation and the confirm timeout, and no retry
   over a leftover canary, reports success for a host that rolled back. *)
ConfirmedIsLive ==
  report = "confirmed" /\ ~plan.dry => running = "new" /\ profile = "new" /\ boot = "new"

(* "a retry of the same immutable closure must remove that stale predecessor
   before either the new activation or waiter can observe it" (deploy.rs): a
   confirmation goes out only once this attempt's activation has created its
   canary, so it can never vouch for a switch that has not happened. *)
ConfirmAfterCanary == sshConf # "none" => act \in {"waiting", "kept", "rolledBack"}

(* Boot-only staging and dry runs never touch the live system, and a host
   reported as staged will boot the new generation. *)
StagedNotLive ==
  /\ plan.boot \/ plan.dry => running = was
  /\ report = "reboot-pending" => /\ running = was
                                  /\ plan.dry \/ (profile = "new" /\ boot = "new")

(* "Failure after mutation restores both the prior profile and its boot
   default" (deploy.rs, stage_profile_for_boot): when the report says restored,
   both are, whichever commands were lost before or after they ran. *)
RecoveryIsTrue == ctl = "done" /\ recovery = "restored" => profile = prev /\ boot = prev

(* A host's task always ends, whatever fails on the target and whichever
   command is lost: no select waits for a command that cannot end. *)
TaskEnds == ctl = "copy" ~> ctl \in {"done", "dead"}
=============================================================================
