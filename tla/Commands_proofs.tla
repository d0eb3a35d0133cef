--------------------------- MODULE Commands_proofs ---------------------------
(***************************************************************************)
(* Proofs about the commands of a deployment: HostActivation for any number *)
(* of attempts, what a host's report says about the target, and             *)
(* ProcessGroups for any number of tasks, pids, commands and signals, whom   *)
(* the registry's signals reach.                                            *)
(***************************************************************************)
EXTENDS HostActivation, ProcessGroups, TLAPS

----------------------------------------------------------------------------
(* HostActivation. *)


(* The task has ssh commands out. *)
Racing == {"spawnWait", "first", "second", "confirming", "settling"}

(* Before its activate command an attempt has no activation on the target. *)
Quiet == {"copy", "resolve", "activate", "clear", "spawn", "previous", "setProfile",
          "setBoot", "restoreProfile", "restoreBoot"}

(* The activation has reached its canary. *)
Reached == {"waiting", "kept", "rolledBack"}

(* Commands and their exits match the task and the activation. *)
CommandInv ==
  /\ ctl \notin Racing \cup {"plain"} => sshAct = "none" /\ sshWait = "none" /\ sshConf = "none"
  /\ ctl = "plain" => sshWait = "none" /\ sshConf = "none" /\ (plan.dry \/ ~plan.magic)
  /\ ctl = "spawnWait" => sshWait = "none"
  /\ ctl \in Quiet => act = "none"
  /\ ctl \in Racing \cup {"spawn"} => (canary => act \in Reached)
  /\ sshWait = "ok" => act \in Reached
  /\ sshAct = "ok" /\ ~plan.dry => act = "kept"
  /\ ctl = "confirming" => sshAct = "ok"
  /\ ctl \in Racing \cup {"clear", "spawn"} => ~plan.dry
  /\ ConfirmAfterCanary

(* What the activation means for the generations. *)
GenerationInv ==
  /\ act \in {"live", "waiting", "kept"} => running = "new" /\ profile = "new" /\ boot = "new"
  /\ act = "none" => running = was
  /\ ctl \in Racing \cup {"activate", "plain", "clear", "spawn"} => ~plan.boot
  /\ ctl = "setBoot" => profile = "new"
  /\ act # "none" => ~plan.boot /\ ~plan.dry
  /\ StagedNotLive

(* What a report, once made, rests on. *)
ReportInv ==
  /\ report # "none" => ctl = "done"
  /\ report = "confirmed" /\ ~plan.dry => act = "kept"
  /\ report = "reboot-pending" => act = "none"
  /\ recovery # "none" => act = "none" /\ ctl \in {"restoreBoot", "done", "dead"}
  /\ ctl = "restoreBoot" /\ recovery = "restored" => profile = prev
  /\ RecoveryIsTrue

(* The inductive invariant. *)
AInv == TypeOK /\ CommandInv /\ GenerationInv /\ ReportInv

----------------------------------------------------------------------------
(* Every step keeps the types of the state. *)
LEMMA TypeStep == TypeOK /\ [Next]_vars => TypeOK'
<1> SUFFICES ASSUME TypeOK, [Next]_vars PROVE TypeOK'
  OBVIOUS
<1> USE DEF TypeOK, Plans, Gens, CtlSt, ActSt
<1> USE DEF controller, commands, target
<1>0. CASE UNCHANGED vars
  BY <1>0 DEF vars
<1>1. CASE Begin
  BY <1>1, AttemptsAssumption DEF Begin, Goto, ActEnded
<1>2. CASE Copy
  BY <1>2 DEF Copy, Goto, Done
<1>3. CASE Resolve
  BY <1>3 DEF Resolve, Goto, Done
<1>4. CASE Activate
  BY <1>4 DEF Activate, Goto, Done
<1>5. CASE PlainStart
  BY <1>5 DEF PlainStart, StartActivate
<1>6. CASE PlainExit
  BY <1>6 DEF PlainExit, Goto, Done
<1>7. CASE ClearStaleCanary
  <2>1. canary' \in BOOLEAN
    BY <1>7, canary \in BOOLEAN DEF ClearStaleCanary, Goto, Done
  <2>2. ctl' \in CtlSt /\ report' \in {report, "failed"}
    BY <1>7 DEF ClearStaleCanary, Goto, Done
  <2>3. sshAct' \in {sshAct, "none"} /\ sshWait' \in {sshWait, "none"} /\ sshConf' \in {sshConf, "none"}
    BY <1>7 DEF ClearStaleCanary, Goto, Done
  <2>4. UNCHANGED <<plan, recovery, prev, attempts, was, act, profile, running, boot>>
    BY <1>7 DEF ClearStaleCanary, Goto, Done
  <2> QED BY <2>1, <2>2, <2>3, <2>4
<1>8. CASE SpawnActivate
  BY <1>8 DEF SpawnActivate, Goto, Done, StartActivate
<1>9. CASE SpawnWait
  BY <1>9 DEF SpawnWait, Goto, Done
<1>10. CASE FirstWait
  BY <1>10 DEF FirstWait, Goto, Done
<1>11. CASE FirstActivate
  BY <1>11 DEF FirstActivate, Goto, Done
<1>12. CASE SecondActivate
  BY <1>12 DEF SecondActivate, Goto, Done
<1>13. CASE SecondConfirm
  BY <1>13 DEF SecondConfirm, Goto
<1>14. CASE SettleConfirmed
  BY <1>14 DEF SettleConfirmed, Goto, Done
<1>15. CASE AwaitConfirm
  BY <1>15 DEF AwaitConfirm, Goto, Done
<1>16. CASE ResolvePrevious
  BY <1>16 DEF ResolvePrevious, Goto, Done
<1>17. CASE SetProfile
  BY <1>17 DEF SetProfile, Goto
<1>18. CASE SetBoot
  BY <1>18 DEF SetBoot, Goto, Done
<1>19. CASE RestoreProfile
  BY <1>19 DEF RestoreProfile, Goto
<1>20. CASE RestoreBoot
  BY <1>20 DEF RestoreBoot, Goto, Done
<1>21. CASE Switch
  BY <1>21 DEF Switch, Generation
<1>22. CASE CreateCanary
  BY <1>22 DEF CreateCanary
<1>23. CASE Keep
  BY <1>23 DEF Keep
<1>24. CASE ConfirmTimeout
  BY <1>24 DEF ConfirmTimeout, Generation
<1>25. CASE ActivateExits
  BY <1>25 DEF ActivateExits
<1>26. CASE WaiterExits
  BY <1>26 DEF WaiterExits
<1>27. CASE RunConfirm
  <2>1. canary' \in BOOLEAN
    BY <1>27, canary \in BOOLEAN DEF RunConfirm
  <2>2. sshConf' \in {"removed", "missing"}
    BY <1>27 DEF RunConfirm
  <2>3. UNCHANGED <<controller, sshAct, sshWait, act, profile, running, boot>>
    BY <1>27 DEF RunConfirm
  <2> QED BY <2>1, <2>2, <2>3
<1>28. CASE ConfirmAnswers
  BY <1>28 DEF ConfirmAnswers
<1>29. CASE KillController
  BY <1>29 DEF KillController, Goto
<1>30. CASE Lose
  BY <1>30 DEF Lose
<1>31. CASE CanaryRemoved
  <2>1. canary' \in BOOLEAN
    BY <1>31, canary \in BOOLEAN DEF CanaryRemoved
  <2>2. UNCHANGED controller
    BY <1>31 DEF CanaryRemoved
  <2>3. UNCHANGED <<commands, act, profile, running, boot>>
    BY <1>31 DEF CanaryRemoved
  <2> QED BY <2>1, <2>2, <2>3
<1> QED
  BY <1>0, <1>1, <1>2, <1>3, <1>4, <1>5, <1>6, <1>7, <1>8, <1>9, <1>10, <1>11, <1>12, <1>13,
    <1>14, <1>15, <1>16, <1>17, <1>18, <1>19, <1>20, <1>21, <1>22, <1>23, <1>24, <1>25,
    <1>26, <1>27, <1>28, <1>29, <1>30, <1>31
  DEF Next, ControllerStep, TargetStep

(* Every step keeps commands and activation in step. *)
LEMMA CommandStep == TypeOK /\ CommandInv /\ [Next]_vars => CommandInv'
<1> SUFFICES ASSUME TypeOK, CommandInv, [Next]_vars PROVE CommandInv'
  OBVIOUS
<1> USE DEF TypeOK, CtlSt, ActSt, Plans, CommandInv, ConfirmAfterCanary, Racing, Quiet, Reached
<1> USE DEF controller, commands, target
<1>0. CASE UNCHANGED vars
  BY <1>0 DEF vars
<1>1. CASE Begin
  BY <1>1 DEF Begin, Goto, ActEnded
<1>2. CASE Copy
  BY <1>2 DEF Copy, Goto, Done
<1>3. CASE Resolve
  BY <1>3 DEF Resolve, Goto, Done
<1>4. CASE Activate
  BY <1>4 DEF Activate, Goto, Done
<1>5. CASE PlainStart
  BY <1>5 DEF PlainStart, StartActivate
<1>6. CASE PlainExit
  BY <1>6 DEF PlainExit, Goto, Done
<1>7. CASE ClearStaleCanary
  BY <1>7 DEF ClearStaleCanary, Goto, Done
<1>8. CASE SpawnActivate
  BY <1>8 DEF SpawnActivate, Goto, Done, StartActivate
<1>9. CASE SpawnWait
  BY <1>9 DEF SpawnWait, Goto, Done
<1>10. CASE FirstWait
  BY <1>10 DEF FirstWait, Goto, Done
<1>11. CASE FirstActivate
  BY <1>11 DEF FirstActivate, Goto, Done
<1>12. CASE SecondActivate
  BY <1>12 DEF SecondActivate, Goto, Done
<1>13. CASE SecondConfirm
  BY <1>13 DEF SecondConfirm, Goto
<1>14. CASE SettleConfirmed
  BY <1>14 DEF SettleConfirmed, Goto, Done
<1>15. CASE AwaitConfirm
  BY <1>15 DEF AwaitConfirm, Goto, Done
<1>16. CASE ResolvePrevious
  BY <1>16 DEF ResolvePrevious, Goto, Done
<1>17. CASE SetProfile
  BY <1>17 DEF SetProfile, Goto
<1>18. CASE SetBoot
  BY <1>18 DEF SetBoot, Goto, Done
<1>19. CASE RestoreProfile
  BY <1>19 DEF RestoreProfile, Goto
<1>20. CASE RestoreBoot
  BY <1>20 DEF RestoreBoot, Goto, Done
<1>21. CASE Switch
  BY <1>21 DEF Switch, Generation
<1>22. CASE CreateCanary
  BY <1>22 DEF CreateCanary
<1>23. CASE Keep
  BY <1>23 DEF Keep
<1>24. CASE ConfirmTimeout
  BY <1>24 DEF ConfirmTimeout, Generation
<1>25. CASE ActivateExits
  BY <1>25 DEF ActivateExits
<1>26. CASE WaiterExits
  BY <1>26 DEF WaiterExits
<1>27. CASE RunConfirm
  BY <1>27 DEF RunConfirm
<1>28. CASE ConfirmAnswers
  BY <1>28 DEF ConfirmAnswers
<1>29. CASE KillController
  BY <1>29 DEF KillController, Goto
<1>30. CASE Lose
  BY <1>30 DEF Lose
<1>31. CASE CanaryRemoved
  BY <1>31 DEF CanaryRemoved
<1> QED
  BY <1>0, <1>1, <1>2, <1>3, <1>4, <1>5, <1>6, <1>7, <1>8, <1>9, <1>10, <1>11, <1>12, <1>13,
    <1>14, <1>15, <1>16, <1>17, <1>18, <1>19, <1>20, <1>21, <1>22, <1>23, <1>24, <1>25,
    <1>26, <1>27, <1>28, <1>29, <1>30, <1>31
  DEF Next, ControllerStep, TargetStep

(* Every step keeps the generations in step with the activation. *)
LEMMA GenerationStep == TypeOK /\ CommandInv /\ GenerationInv /\ ReportInv /\ [Next]_vars => GenerationInv'
<1> SUFFICES ASSUME TypeOK, CommandInv, GenerationInv, ReportInv, [Next]_vars PROVE GenerationInv'
  OBVIOUS
<1> USE DEF TypeOK, ActSt, Gens, Plans, CommandInv, GenerationInv, StagedNotLive, Racing, Quiet
<1> USE DEF controller, commands, target
<1>0. CASE UNCHANGED vars
  BY <1>0 DEF vars
<1>1. CASE Begin
  BY <1>1 DEF Begin, Goto, ActEnded
<1>2. CASE Copy
  BY <1>2 DEF Copy, Goto, Done
<1>3. CASE Resolve
  BY <1>3 DEF Resolve, Goto, Done
<1>4. CASE Activate
  BY <1>4 DEF Activate, Goto, Done
<1>5. CASE PlainStart
  BY <1>5 DEF PlainStart, StartActivate
<1>6. CASE PlainExit
  BY <1>6 DEF PlainExit, Goto, Done
<1>7. CASE ClearStaleCanary
  BY <1>7 DEF ClearStaleCanary, Goto, Done
<1>8. CASE SpawnActivate
  BY <1>8 DEF SpawnActivate, Goto, Done, StartActivate
<1>9. CASE SpawnWait
  BY <1>9 DEF SpawnWait, Goto, Done
<1>10. CASE FirstWait
  BY <1>10 DEF FirstWait, Goto, Done
<1>11. CASE FirstActivate
  BY <1>11 DEF FirstActivate, Goto, Done
<1>12. CASE SecondActivate
  BY <1>12 DEF SecondActivate, Goto, Done
<1>13. CASE SecondConfirm
  BY <1>13 DEF SecondConfirm, Goto
<1>14. CASE SettleConfirmed
  BY <1>14 DEF SettleConfirmed, Goto, Done
<1>15. CASE AwaitConfirm
  BY <1>15 DEF AwaitConfirm, Goto, Done
<1>16. CASE ResolvePrevious
  BY <1>16 DEF ResolvePrevious, Goto, Done
<1>17. CASE SetProfile
  BY <1>17 DEF SetProfile, Goto, ReportInv
<1>18. CASE SetBoot
  BY <1>18 DEF SetBoot, Goto, Done, ReportInv
<1>19. CASE RestoreProfile
  BY <1>19 DEF RestoreProfile, Goto, ReportInv
<1>20. CASE RestoreBoot
  BY <1>20 DEF RestoreBoot, Goto, Done, ReportInv
<1>21. CASE Switch
  BY <1>21 DEF Switch, Generation, ReportInv
<1>22. CASE CreateCanary
  BY <1>22 DEF CreateCanary
<1>23. CASE Keep
  BY <1>23 DEF Keep
<1>24. CASE ConfirmTimeout
  BY <1>24 DEF ConfirmTimeout, Generation, ReportInv
<1>25. CASE ActivateExits
  BY <1>25 DEF ActivateExits
<1>26. CASE WaiterExits
  BY <1>26 DEF WaiterExits
<1>27. CASE RunConfirm
  BY <1>27 DEF RunConfirm
<1>28. CASE ConfirmAnswers
  BY <1>28 DEF ConfirmAnswers
<1>29. CASE KillController
  BY <1>29 DEF KillController, Goto
<1>30. CASE Lose
  BY <1>30 DEF Lose
<1>31. CASE CanaryRemoved
  BY <1>31 DEF CanaryRemoved
<1> QED
  BY <1>0, <1>1, <1>2, <1>3, <1>4, <1>5, <1>6, <1>7, <1>8, <1>9, <1>10, <1>11, <1>12, <1>13,
    <1>14, <1>15, <1>16, <1>17, <1>18, <1>19, <1>20, <1>21, <1>22, <1>23, <1>24, <1>25,
    <1>26, <1>27, <1>28, <1>29, <1>30, <1>31
  DEF Next, ControllerStep, TargetStep

(* Every step keeps reports true. *)
LEMMA ReportStep == TypeOK /\ CommandInv /\ GenerationInv /\ ReportInv /\ [Next]_vars => ReportInv'
<1> SUFFICES ASSUME TypeOK, CommandInv, GenerationInv, ReportInv, [Next]_vars PROVE ReportInv'
  OBVIOUS
<1> USE DEF TypeOK, Gens, Plans, CommandInv, ReportInv, RecoveryIsTrue, Racing, Quiet
<1> USE DEF controller, commands, target
<1>0. CASE UNCHANGED vars
  BY <1>0 DEF vars
<1>1. CASE Begin
  BY <1>1 DEF Begin, Goto, ActEnded
<1>2. CASE Copy
  BY <1>2 DEF Copy, Goto, Done
<1>3. CASE Resolve
  BY <1>3 DEF Resolve, Goto, Done
<1>4. CASE Activate
  BY <1>4 DEF Activate, Goto, Done
<1>5. CASE PlainStart
  BY <1>5 DEF PlainStart, StartActivate
<1>6. CASE PlainExit
  BY <1>6 DEF PlainExit, Goto, Done
<1>7. CASE ClearStaleCanary
  BY <1>7 DEF ClearStaleCanary, Goto, Done
<1>8. CASE SpawnActivate
  BY <1>8 DEF SpawnActivate, Goto, Done, StartActivate
<1>9. CASE SpawnWait
  BY <1>9 DEF SpawnWait, Goto, Done
<1>10. CASE FirstWait
  BY <1>10 DEF FirstWait, Goto, Done
<1>11. CASE FirstActivate
  BY <1>11 DEF FirstActivate, Goto, Done
<1>12. CASE SecondActivate
  BY <1>12 DEF SecondActivate, Goto, Done
<1>13. CASE SecondConfirm
  BY <1>13 DEF SecondConfirm, Goto
<1>14. CASE SettleConfirmed
  BY <1>14 DEF SettleConfirmed, Goto, Done
<1>15. CASE AwaitConfirm
  BY <1>15 DEF AwaitConfirm, Goto, Done
<1>16. CASE ResolvePrevious
  BY <1>16 DEF ResolvePrevious, Goto, Done
<1>17. CASE SetProfile
  BY <1>17 DEF SetProfile, Goto
<1>18. CASE SetBoot
  BY <1>18 DEF SetBoot, Goto, Done
<1>19. CASE RestoreProfile
  BY <1>19 DEF RestoreProfile, Goto
<1>20. CASE RestoreBoot
  BY <1>20 DEF RestoreBoot, Goto, Done
<1>21. CASE Switch
  BY <1>21 DEF Switch, Generation
<1>22. CASE CreateCanary
  BY <1>22 DEF CreateCanary
<1>23. CASE Keep
  BY <1>23 DEF Keep
<1>24. CASE ConfirmTimeout
  BY <1>24 DEF ConfirmTimeout, Generation
<1>25. CASE ActivateExits
  BY <1>25 DEF ActivateExits
<1>26. CASE WaiterExits
  BY <1>26 DEF WaiterExits
<1>27. CASE RunConfirm
  BY <1>27 DEF RunConfirm
<1>28. CASE ConfirmAnswers
  BY <1>28 DEF ConfirmAnswers
<1>29. CASE KillController
  BY <1>29 DEF KillController, Goto
<1>30. CASE Lose
  BY <1>30 DEF Lose
<1>31. CASE CanaryRemoved
  BY <1>31 DEF CanaryRemoved
<1> QED
  BY <1>0, <1>1, <1>2, <1>3, <1>4, <1>5, <1>6, <1>7, <1>8, <1>9, <1>10, <1>11, <1>12, <1>13,
    <1>14, <1>15, <1>16, <1>17, <1>18, <1>19, <1>20, <1>21, <1>22, <1>23, <1>24, <1>25,
    <1>26, <1>27, <1>28, <1>29, <1>30, <1>31
  DEF Next, ControllerStep, TargetStep

(* The initial state satisfies the inductive invariant. *)
LEMMA InitAInv == Init => AInv
<1> SUFFICES ASSUME Init PROVE AInv
  OBVIOUS
<1> USE DEF Init
<1>1. TypeOK
  <2>1. plan \in Plans /\ attempts \in 0..MaxAttempts
    BY AttemptsAssumption DEF Plans
  <2> QED BY <2>1 DEF TypeOK, Gens, CtlSt, ActSt
<1>2. CommandInv
  BY DEF CommandInv, ConfirmAfterCanary, Racing, Quiet
<1>3. GenerationInv
  BY DEF GenerationInv, StagedNotLive, Racing
<1>4. ReportInv
  BY DEF ReportInv, RecoveryIsTrue
<1> QED BY <1>1, <1>2, <1>3, <1>4 DEF AInv

(* Every step keeps the inductive invariant. *)
LEMMA NextAInv == AInv /\ [Next]_vars => AInv'
  BY TypeStep, CommandStep, GenerationStep, ReportStep DEF AInv

(* Every reachable state of an activation satisfies its inductive invariant. *)
THEOREM ActivationInvariance == Spec => []AInv
  BY InitAInv, NextAInv, PTL DEF Spec

(* The state of an activation always has its type. *)
THEOREM ActivationTypeCorrect == Spec => []TypeOK
<1>1. AInv => TypeOK
  BY DEF AInv
<1> QED BY <1>1, ActivationInvariance, PTL

(* However the three ssh commands race, however many are lost and whoever else
   removes the canary: a host that deploy_host reports confirmed runs, and will
   boot, the new generation. *)
THEOREM ConfirmedTrue == Spec => []ConfirmedIsLive
<1>1. AInv => ConfirmedIsLive
  BY DEF AInv, ReportInv, GenerationInv, ConfirmedIsLive
<1> QED BY <1>1, ActivationInvariance, PTL

(* No confirmation precedes the canary of its own attempt, for any number of
   retries over the canaries of failed ones. *)
THEOREM ConfirmationVouches == Spec => []ConfirmAfterCanary
<1>1. AInv => ConfirmAfterCanary
  BY DEF AInv, CommandInv
<1> QED BY <1>1, ActivationInvariance, PTL

(* Boot-only staging and dry runs leave the live generation alone, and a host
   reported as staged will boot the new one. *)
THEOREM StagingTrue == Spec => []StagedNotLive
<1>1. AInv => StagedNotLive
  BY DEF AInv, GenerationInv
<1> QED BY <1>1, ActivationInvariance, PTL

(* A recovery that reports both restores reports the truth. *)
THEOREM RecoveryTrue == Spec => []RecoveryIsTrue
<1>1. AInv => RecoveryIsTrue
  BY DEF AInv, ReportInv
<1> QED BY <1>1, ActivationInvariance, PTL

----------------------------------------------------------------------------
(* ProcessGroups. *)


(* The types of the state. *)
GroupTypeOK ==
  /\ alive \in {"up", "signalled", "returned"}
  /\ groups \subseteq Pids
  /\ signals \in Nat
  /\ pc \in [Tasks -> {"idle", "waiting", "capturing", "refused", "done"}]
  /\ rounds \in [Tasks -> Nat]
  /\ pid \in [Tasks -> Pids \cup {NoPid}]
  /\ proc \in [Pids -> {"free", "own", "zombie", "foreign"}]
  /\ killed \subseteq Pids /\ strays \subseteq Pids /\ reused \subseteq Pids

(* The child of t is t's to reap: it runs or is a zombie, and the kernel cannot
   hand its pid to anybody else. *)
Holds(t) == pc[t] \in {"waiting", "done"} /\ pid[t] # NoPid

(* Which tasks have a pid, and whose pids are the kernel's to recycle. *)
HoldInv ==
  /\ \A t \in Tasks : pc[t] \in {"idle", "refused"} => pid[t] = NoPid
  /\ \A t \in Tasks : pc[t] \in {"waiting", "capturing"} => pid[t] # NoPid
  /\ \A t \in Tasks : Holds(t) => proc[pid[t]] \in {"own", "zombie"}
  /\ \A t, u \in Tasks : Holds(t) /\ Holds(u) /\ pid[t] = pid[u] => t = u

(* Every registered number is the child of a task that still waits for it. *)
RegistryInv ==
  \A p \in groups : \E t \in Tasks : pc[t] = "waiting" /\ pid[t] = p

(* A child that runs is registered, was killed, or lives under a number whose
   former owner's capture was open when it started. *)
SurvivorInv ==
  /\ \A t \in Tasks : pc[t] = "capturing" /\ proc[pid[t]] = "own" => pid[t] \in reused
  /\ \A p \in Pids \ reused : proc[p] = "own" /\ alive = "up" => p \in groups \cup killed
  /\ NoSurvivorUnlessRecycled

(* The inductive invariant. *)
GInv == GroupTypeOK /\ HoldInv /\ RegistryInv /\ SurvivorInv /\ NoStraySignal

----------------------------------------------------------------------------
(* Every step keeps the types of the state. *)
LEMMA GroupTypeStep == GroupTypeOK /\ HoldInv /\ [PGNext]_pgvars => GroupTypeOK'
<1> SUFFICES ASSUME GroupTypeOK, HoldInv, [PGNext]_pgvars PROVE GroupTypeOK'
  OBVIOUS
<1> USE DEF GroupTypeOK, osvars, regvars, fwdvars
<1>0. CASE UNCHANGED pgvars
  BY <1>0 DEF pgvars
<1>1. ASSUME NEW t \in Tasks, Spawn(t) PROVE GroupTypeOK'
  <2>1. PICK p \in Pids : /\ proc' = [proc EXCEPT ![p] = "own"]
                          /\ pid' = [pid EXCEPT ![t] = p]
                          /\ groups' = groups \cup {p}
                          /\ killed' = killed \ {p}
                          /\ reused' \in {reused, reused \cup {p}}
    BY <1>1 DEF Spawn
  <2>2. pc' = [pc EXCEPT ![t] = "waiting"] /\ rounds' = [rounds EXCEPT ![t] = @ + 1]
    BY <1>1 DEF Spawn
  <2>3. UNCHANGED <<alive, signals, strays>>
    BY <1>1 DEF Spawn
  <2> QED BY <2>1, <2>2, <2>3
<1>2. ASSUME NEW t \in Tasks, SpawnRefused(t) PROVE GroupTypeOK'
  BY <1>2 DEF SpawnRefused
<1>3. ASSUME NEW t \in Tasks, Reap(t) PROVE GroupTypeOK'
  BY <1>3 DEF Reap
<1>4. ASSUME NEW t \in Tasks, Captured(t) PROVE GroupTypeOK'
  BY <1>4 DEF Captured
<1>5. ASSUME NEW t \in Tasks, DropGroup(t) PROVE GroupTypeOK'
  BY <1>5 DEF DropGroup, Signalled, HoldInv
<1>6. ASSUME NEW t \in Tasks, ReapOrphan(t) PROVE GroupTypeOK'
  BY <1>6 DEF ReapOrphan
<1>7. CASE Forward
  BY <1>7 DEF Forward, Signalled
<1>8. CASE Escalate
  BY <1>8 DEF Escalate, Signalled
<1>9. CASE ForwarderDropped
  BY <1>9 DEF ForwarderDropped
<1>10. CASE SignalArrives
  BY <1>10 DEF SignalArrives
<1>11. ASSUME NEW p \in Pids, ChildExits(p) \/ ForeignStarts(p) \/ ForeignEnds(p) PROVE GroupTypeOK'
  BY <1>11 DEF ChildExits, ForeignStarts, ForeignEnds
<1> QED
  BY <1>0, <1>1, <1>2, <1>3, <1>4, <1>5, <1>6, <1>7, <1>8, <1>9, <1>10, <1>11 DEF PGNext, Forwarder

(* A task that holds a pid holds a pid of the kernel's. *)
LEMMA HeldPid ==
  ASSUME GroupTypeOK, HoldInv, NEW t \in Tasks, pc[t] \in {"waiting", "capturing"} \/ Holds(t)
  PROVE  pid[t] \in Pids
BY DEF GroupTypeOK, HoldInv, Holds

(* What a spawn does: a fresh pid becomes the child of t. *)
LEMMA SpawnEffect ==
  ASSUME NEW t \in Tasks, Spawn(t)
  PROVE  \E p \in Pids : /\ proc[p] = "free"
                         /\ proc' = [proc EXCEPT ![p] = "own"]
                         /\ pid' = [pid EXCEPT ![t] = p]
                         /\ groups' = groups \cup {p}
                         /\ killed' = killed \ {p}
                         /\ reused \subseteq reused'
                         /\ (\E u \in Tasks : pid[u] = p) => p \in reused'
BY DEF Spawn

(* Every step keeps the pids apart: what is reaped is held by nobody else. *)
LEMMA HoldStep == GroupTypeOK /\ HoldInv /\ [PGNext]_pgvars => HoldInv'
<1> SUFFICES ASSUME GroupTypeOK, HoldInv, [PGNext]_pgvars PROVE HoldInv'
  OBVIOUS
<1> USE PidsAssumption
<1> USE DEF HoldInv, Holds, GroupTypeOK, osvars, regvars, fwdvars
<1>0. CASE UNCHANGED pgvars
  BY <1>0 DEF pgvars
<1>1. ASSUME NEW t \in Tasks, Spawn(t) PROVE HoldInv'
  <2>1. PICK p \in Pids : /\ proc[p] = "free"
                          /\ proc' = [proc EXCEPT ![p] = "own"]
                          /\ pid' = [pid EXCEPT ![t] = p]
    BY <1>1, SpawnEffect
  <2>2. pc' = [pc EXCEPT ![t] = "waiting"]
    BY <1>1 DEF Spawn
  <2>3. \A u \in Tasks : Holds(u) => pid[u] # p
    BY <2>1
  <2> QED BY <2>1, <2>2, <2>3
<1>2. ASSUME NEW t \in Tasks, SpawnRefused(t) PROVE HoldInv'
  BY <1>2 DEF SpawnRefused
<1>3. ASSUME NEW t \in Tasks, Reap(t) PROVE HoldInv'
  <2>1. \A u \in Tasks \ {t} : Holds(u) => pid[u] # pid[t]
    BY <1>3 DEF Reap
  <2> QED BY <1>3, <2>1 DEF Reap
<1>4. ASSUME NEW t \in Tasks, Captured(t) PROVE HoldInv'
  BY <1>4 DEF Captured
<1>5. ASSUME NEW t \in Tasks, DropGroup(t) PROVE HoldInv'
  BY <1>5 DEF DropGroup
<1>6. ASSUME NEW t \in Tasks, ReapOrphan(t) PROVE HoldInv'
  <2>1. \A u \in Tasks \ {t} : Holds(u) => pid[u] # pid[t]
    BY <1>6 DEF ReapOrphan
  <2> QED BY <1>6, <2>1 DEF ReapOrphan
<1>7. CASE Forward
  BY <1>7 DEF Forward
<1>8. CASE Escalate
  BY <1>8 DEF Escalate
<1>9. CASE ForwarderDropped
  BY <1>9 DEF ForwarderDropped
<1>10. CASE SignalArrives
  BY <1>10 DEF SignalArrives
<1>11. ASSUME NEW p \in Pids, ChildExits(p) \/ ForeignStarts(p) \/ ForeignEnds(p) PROVE HoldInv'
  BY <1>11 DEF ChildExits, ForeignStarts, ForeignEnds
<1> QED
  BY <1>0, <1>1, <1>2, <1>3, <1>4, <1>5, <1>6, <1>7, <1>8, <1>9, <1>10, <1>11 DEF PGNext, Forwarder

(* Every step keeps the registry to children somebody waits for, and signals
   none but those. *)
LEMMA RegistryStep ==
  GroupTypeOK /\ HoldInv /\ RegistryInv /\ NoStraySignal /\ [PGNext]_pgvars => RegistryInv' /\ NoStraySignal'
<1> SUFFICES ASSUME GroupTypeOK, HoldInv, RegistryInv, NoStraySignal, [PGNext]_pgvars
             PROVE  RegistryInv' /\ NoStraySignal'
  OBVIOUS
<1> USE PidsAssumption
<1> USE DEF RegistryInv, NoStraySignal, osvars, regvars, fwdvars
<1>a. \A p \in groups : proc[p] \in {"own", "zombie"}
  BY DEF HoldInv, Holds, GroupTypeOK
<1>0. CASE UNCHANGED pgvars
  BY <1>0 DEF pgvars
<1>1. ASSUME NEW t \in Tasks, Spawn(t) PROVE RegistryInv' /\ NoStraySignal'
  <2>1. PICK p \in Pids : pid' = [pid EXCEPT ![t] = p] /\ groups' = groups \cup {p}
    BY <1>1, SpawnEffect
  <2>2. pc[t] = "idle" /\ pc' = [pc EXCEPT ![t] = "waiting"] /\ strays' = strays
    BY <1>1 DEF Spawn
  <2> QED BY <2>1, <2>2 DEF GroupTypeOK
<1>2. ASSUME NEW t \in Tasks, SpawnRefused(t) PROVE RegistryInv' /\ NoStraySignal'
  BY <1>2 DEF SpawnRefused, GroupTypeOK
<1>3. ASSUME NEW t \in Tasks, Reap(t) PROVE RegistryInv' /\ NoStraySignal'
  BY <1>3 DEF Reap, GroupTypeOK
<1>4. ASSUME NEW t \in Tasks, Captured(t) PROVE RegistryInv' /\ NoStraySignal'
  BY <1>4 DEF Captured, GroupTypeOK
<1>5. ASSUME NEW t \in Tasks, DropGroup(t) PROVE RegistryInv' /\ NoStraySignal'
  <2>1. RegistryInv'
    BY <1>5 DEF DropGroup, GroupTypeOK
  <2>2. proc[pid[t]] \in {"own", "zombie"}
    BY <1>5 DEF DropGroup, HoldInv, Holds
  <2>3. strays' = strays
    BY <1>5, <2>2 DEF DropGroup, Signalled
  <2> QED BY <2>1, <2>3
<1>6. ASSUME NEW t \in Tasks, ReapOrphan(t) PROVE RegistryInv' /\ NoStraySignal'
  <2>1. pc[t] = "done" /\ pc' = pc /\ groups' = groups /\ pid' = [pid EXCEPT ![t] = NoPid]
    BY <1>6 DEF ReapOrphan
  <2>2. strays' = strays
    BY <1>6 DEF ReapOrphan
  <2> QED BY <2>1, <2>2 DEF GroupTypeOK
<1>7. CASE Forward
  <2>1. UNCHANGED <<groups, pc, pid>>
    BY <1>7 DEF Forward
  <2>2. strays' = strays
    BY <1>7, <1>a DEF Forward, Signalled
  <2> QED BY <2>1, <2>2
<1>8. CASE Escalate
  <2>1. UNCHANGED <<groups, pc, pid>>
    BY <1>8 DEF Escalate
  <2>2. strays' = strays
    BY <1>8, <1>a DEF Escalate, Signalled
  <2> QED BY <2>1, <2>2
<1>9. CASE ForwarderDropped
  BY <1>9 DEF ForwarderDropped
<1>10. CASE SignalArrives
  BY <1>10 DEF SignalArrives
<1>11. ASSUME NEW p \in Pids, ChildExits(p) \/ ForeignStarts(p) \/ ForeignEnds(p)
       PROVE  RegistryInv' /\ NoStraySignal'
  BY <1>11 DEF ChildExits, ForeignStarts, ForeignEnds
<1> QED
  BY <1>0, <1>1, <1>2, <1>3, <1>4, <1>5, <1>6, <1>7, <1>8, <1>9, <1>10, <1>11 DEF PGNext, Forwarder

(* Every step keeps the running children within reach of the escalation. *)
LEMMA SurvivorStep == GroupTypeOK /\ HoldInv /\ SurvivorInv /\ [PGNext]_pgvars => SurvivorInv'
<1> SUFFICES ASSUME GroupTypeOK, HoldInv, SurvivorInv, [PGNext]_pgvars PROVE SurvivorInv'
  OBVIOUS
<1> USE PidsAssumption
<1> USE DEF SurvivorInv, NoSurvivorUnlessRecycled, GroupTypeOK, osvars, regvars, fwdvars
<1>0. CASE UNCHANGED pgvars
  BY <1>0 DEF pgvars
<1>1. ASSUME NEW t \in Tasks, Spawn(t) PROVE SurvivorInv'
  <2>1. PICK p \in Pids : /\ proc[p] = "free"
                          /\ proc' = [proc EXCEPT ![p] = "own"]
                          /\ pid' = [pid EXCEPT ![t] = p]
                          /\ groups' = groups \cup {p}
                          /\ killed' = killed \ {p}
                          /\ reused \subseteq reused'
                          /\ (\E u \in Tasks : pid[u] = p) => p \in reused'
    BY <1>1, SpawnEffect
  <2>2. pc' = [pc EXCEPT ![t] = "waiting"] /\ alive = "up" /\ alive' = "up"
    BY <1>1 DEF Spawn
  <2>3. ASSUME NEW u \in Tasks, pc'[u] = "capturing", proc'[pid'[u]] = "own"
        PROVE  pid'[u] \in reused'
    <3>1. u # t /\ pid'[u] = pid[u] /\ pc[u] = "capturing" /\ pid[u] \in Pids
      BY <2>1, <2>2, <2>3 DEF HoldInv
    <3>2. CASE pid[u] = p
      BY <2>1, <3>1, <3>2
    <3>3. CASE pid[u] # p
      BY <2>1, <2>3, <3>1, <3>3
    <3> QED BY <3>2, <3>3
  <2>4. ASSUME NEW q \in Pids \ reused', proc'[q] = "own" PROVE q \in groups' \cup killed'
    BY <2>1, <2>2, <2>4
  <2> QED BY <2>2, <2>3, <2>4
<1>2. ASSUME NEW t \in Tasks, SpawnRefused(t) PROVE SurvivorInv'
  BY <1>2 DEF SpawnRefused
<1>3. ASSUME NEW t \in Tasks, Reap(t) PROVE SurvivorInv'
  <2>1. pid[t] \in Pids
    BY <1>3 DEF Reap, HoldInv
  <2>2. /\ proc' = [proc EXCEPT ![pid[t]] = "free"] /\ groups' = groups \ {pid[t]}
        /\ pc' = [pc EXCEPT ![t] = "capturing"] /\ UNCHANGED <<alive, pid, killed, reused>>
        /\ alive = "up"
    BY <1>3 DEF Reap
  <2> QED BY <2>1, <2>2
<1>4. ASSUME NEW t \in Tasks, Captured(t) PROVE SurvivorInv'
  <2>1. /\ pc[t] = "capturing" /\ groups' = groups \ {pid[t]} /\ pc' = [pc EXCEPT ![t] = "idle"]
        /\ pid' = [pid EXCEPT ![t] = NoPid] /\ UNCHANGED <<alive, proc, killed, reused>>
        /\ alive = "up"
    BY <1>4 DEF Captured
  <2> QED BY <2>1
<1>5. ASSUME NEW t \in Tasks, DropGroup(t) PROVE SurvivorInv'
  <2>1. /\ killed' = killed \cup {pid[t]} /\ groups' = groups \ {pid[t]}
        /\ pc' = [pc EXCEPT ![t] = "done"] /\ UNCHANGED <<alive, pid, proc, reused>>
        /\ alive = "up"
    BY <1>5 DEF DropGroup
  <2> QED BY <2>1
<1>6. ASSUME NEW t \in Tasks, ReapOrphan(t) PROVE SurvivorInv'
  <2>1. /\ pc[t] = "done" /\ pid[t] \in Pids /\ proc' = [proc EXCEPT ![pid[t]] = "free"]
        /\ pid' = [pid EXCEPT ![t] = NoPid] /\ UNCHANGED <<alive, pc, killed, reused, groups>>
        /\ alive = "up"
    BY <1>6 DEF ReapOrphan
  <2>2. ASSUME NEW u \in Tasks, pc'[u] = "capturing", proc'[pid'[u]] = "own"
        PROVE  pid'[u] \in reused'
    BY <2>1, <2>2 DEF HoldInv
  <2> QED BY <2>1, <2>2
<1>7. CASE Forward
  BY <1>7 DEF Forward
<1>8. CASE Escalate
  BY <1>8 DEF Escalate
<1>9. CASE ForwarderDropped
  BY <1>9 DEF ForwarderDropped
<1>10. CASE SignalArrives
  BY <1>10 DEF SignalArrives
<1>11. ASSUME NEW p \in Pids, ChildExits(p) \/ ForeignStarts(p) \/ ForeignEnds(p)
       PROVE  SurvivorInv'
  <2>1. UNCHANGED <<alive, pc, pid, groups, killed, reused>>
    BY <1>11 DEF ChildExits, ForeignStarts, ForeignEnds
  <2>2. \A q \in Pids : proc'[q] = "own" => proc[q] = "own"
    BY <1>11 DEF ChildExits, ForeignStarts, ForeignEnds
  <2>3. \A t \in Tasks : pc[t] = "capturing" => pid[t] \in Pids
    BY DEF HoldInv
  <2> QED BY <2>1, <2>2, <2>3
<1> QED
  BY <1>0, <1>1, <1>2, <1>3, <1>4, <1>5, <1>6, <1>7, <1>8, <1>9, <1>10, <1>11 DEF PGNext, Forwarder

(* The initial states satisfy the invariant. *)
LEMMA InitInv == PGInit => GInv
BY DEF PGInit, GInv, GroupTypeOK, HoldInv, Holds, RegistryInv, SurvivorInv, NoSurvivorUnlessRecycled,
       NoStraySignal

(* The invariant of the registry: a registered number is a child somebody waits
   for, a held number is held once, a running child can be reached. *)
THEOREM GroupInvariance == PGSpec => []GInv
<1>1. GInv /\ [PGNext]_pgvars => GInv'
  BY GroupTypeStep, HoldStep, RegistryStep, SurvivorStep DEF GInv
<1> QED BY InitInv, <1>1, PTL DEF PGSpec

(* Whatever the kernel recycles and whenever it does, neither the forwarder nor
   the drop of a group signals a process that is not the program's own child. *)
THEOREM SignalsStayHome == PGSpec => []NoStraySignal
<1>1. GInv => NoStraySignal
  BY DEF GInv
<1> QED BY GroupInvariance, <1>1, PTL

(* An engine that exits on a signal has killed every child it ever started and
   not reaped, but for a number recycled under an open capture. *)
THEOREM SignalledLeavesNobody == PGSpec => []NoSurvivorUnlessRecycled
<1>1. GInv => NoSurvivorUnlessRecycled
  BY DEF GInv, SurvivorInv
<1> QED BY GroupInvariance, <1>1, PTL

(* Once the forwarder has forwarded a signal no step starts a child. *)
THEOREM StoppingStartsNobody == PGSpec => NoEffectAfterStop
<1>1. GroupTypeOK /\ HoldInv /\ [PGNext]_pgvars
      => [stopping /\ stopping' => \A p \in Pids : proc'[p] = "own" => proc[p] = "own"]_pgvars
  <2> SUFFICES ASSUME GroupTypeOK, HoldInv, [PGNext]_pgvars, stopping, NEW p \in Pids, proc'[p] = "own"
               PROVE  proc[p] = "own"
    OBVIOUS
  <2> USE DEF GroupTypeOK, osvars
  <2>1. CASE proc' = proc
    BY <2>1
  <2>2. ASSUME NEW t \in Tasks, Reap(t) PROVE proc[p] = "own"
    BY <2>2 DEF Reap
  <2>3. ASSUME NEW t \in Tasks, ReapOrphan(t) PROVE proc[p] = "own"
    BY <2>3 DEF ReapOrphan
  <2>4. ASSUME NEW q \in Pids, ChildExits(q) \/ ForeignStarts(q) \/ ForeignEnds(q)
        PROVE  proc[p] = "own"
    BY <2>4 DEF ChildExits, ForeignStarts, ForeignEnds
  <2>5. ASSUME NEW t \in Tasks, Spawn(t) PROVE FALSE
    BY <2>5 DEF Spawn
  <2>6. ASSUME NEW t \in Tasks, SpawnRefused(t) \/ Captured(t) \/ DropGroup(t) PROVE proc' = proc
    BY <2>6 DEF SpawnRefused, Captured, DropGroup
  <2>7. Forwarder \/ SignalArrives \/ UNCHANGED pgvars => proc' = proc
    BY DEF Forwarder, Forward, Escalate, ForwarderDropped, SignalArrives, pgvars
  <2> QED BY <2>1, <2>2, <2>3, <2>4, <2>5, <2>6, <2>7 DEF PGNext
<1>2. GInv => GroupTypeOK /\ HoldInv
  BY DEF GInv
<1> QED BY GroupInvariance, <1>1, <1>2, PTL DEF PGSpec, NoEffectAfterStop
=============================================================================
