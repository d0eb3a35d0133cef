------------------------ MODULE DeployLaunch_proofs ------------------------
(***************************************************************************)
(* Proofs about DeployLaunch for any number of kills and observations:     *)
(* type correctness, no prune removes a launch directory or a run that is  *)
(* in use, and the verdict on a settled run is what its hosts did.         *)
(***************************************************************************)
EXTENDS DeployLaunch, TLAPS

(* Whoever may still use a launch directory holds its lock, but for a frontend
   that has just allocated it; a prune that found the directory inactive has not
   met such a frontend. *)
LaunchInv ==
  /\ front = "idle" <=> launch = "none"
  /\ front \in {"idle", "allocated", "locked"} => sup = "none" /\ ~active
  /\ front \in {"locked", "spawned"} => "front" \in locks
  /\ SupRuns => "sup" \in locks
  /\ launch # "none" /\ EngRuns => "eng" \in locks
  /\ prune = "launch" => launch = "present" /\ front # "allocated"
  /\ PruneSparesLaunch

(* The run directory appears once, after its engine; metadata, read or on disk,
   names the engine's pid or is empty; a listed run is still there. *)
RunInv ==
  /\ eng \in {"none", "entry", "planning"} => run = "none"
  /\ sup \in {"born", "armed"} => eng = "none"
  /\ front \in {"allocated", "locked"} => eng = "none"
  /\ sup # "none" => front \notin {"idle", "allocated", "locked"}
  /\ meta = NoMeta \/ meta.pid
  /\ eng \in {"registered", "building", "deploying", "settling"} => meta.pid
  /\ prune = "runs" => run = "present" /\ (seen = NoMeta \/ seen.pid)
  /\ PruneSparesRun

(* A return code is written once, when the hosts' fate is sealed. *)
Unsettled == {"none", "entry", "planning", "allocated", "registered", "building",
              "deploying", "settling"}

VerdictInv ==
  /\ eng \in Unsettled => meta.rc = "none" /\ wmeta.rc = "none"
  /\ meta.rc = "0" \/ wmeta.rc = "0" => hosts = "ok"
  /\ SettledVerdict

(* The inductive invariant. *)
LInv == TypeOK /\ LaunchInv /\ RunInv /\ VerdictInv

----------------------------------------------------------------------------
(* Every step keeps the types of the state. *)
LEMMA TypeStep == TypeOK /\ [Next]_vars => TypeOK'
<1> SUFFICES ASSUME TypeOK, [Next]_vars PROVE TypeOK'
  OBVIOUS
<1> USE DEF TypeOK, FrontSt, SupSt, EngSt, Metas, NoMeta
<1> USE DEF launcher, engine, engineRest, pruner, watcher, joiner
<1>0. CASE UNCHANGED vars
  BY <1>0 DEF vars
<1>1. CASE AllocLaunch
  BY <1>1 DEF AllocLaunch
<1>2. CASE LockLaunch
  <2>1. request' \in BOOLEAN
    BY <1>2 DEF LockLaunch
  <2>2. front' \in FrontSt /\ locks' \subseteq {"front", "sup", "eng"}
    BY <1>2 DEF LockLaunch
  <2>3. UNCHANGED <<launch, active, sup, eng, captured, logged, run, meta, hosts, build,
                  prune, seen, watch, wmeta, verdict, join, joinRc, kills, reads>>
    BY <1>2 DEF LockLaunch
  <2> QED BY <2>1, <2>2, <2>3
<1>3. CASE SpawnSupervisor
  BY <1>3 DEF SpawnSupervisor
<1>4. CASE SpawnFails
  <2>1. request' \in BOOLEAN
    BY <1>4 DEF SpawnFails
  <2>2. front' \in FrontSt /\ locks' \subseteq {"front", "sup", "eng"}
    BY <1>4 DEF SpawnFails
  <2>3. UNCHANGED <<launch, active, sup, eng, captured, logged, run, meta, hosts, build,
                  prune, seen, watch, wmeta, verdict, join, joinRc, kills, reads>>
    BY <1>4 DEF SpawnFails
  <2> QED BY <2>1, <2>2, <2>3
<1>5. CASE PublishPid
  <2>1. active' \in BOOLEAN
    BY <1>5 DEF PublishPid
  <2>2. front' \in FrontSt /\ locks' \subseteq {"front", "sup", "eng"}
    BY <1>5 DEF PublishPid
  <2>3. UNCHANGED <<launch, request, sup, eng, captured, logged, run, meta, hosts, build,
                  prune, seen, watch, wmeta, verdict, join, joinRc, kills, reads>>
    BY <1>5 DEF PublishPid
  <2> QED BY <2>1, <2>2, <2>3
<1>6. CASE DiscoverRun
  BY <1>6 DEF DiscoverRun
<1>7. CASE PollExit
  BY <1>7 DEF PollExit
<1>8. CASE ReapSupervisor
  BY <1>8 DEF ReapSupervisor
<1>9. CASE SupArm
  <2>1. request' \in BOOLEAN
    BY <1>9 DEF SupArm, SupExit
  <2>2. active' \in BOOLEAN
    BY <1>9 DEF SupArm, SupExit
  <2>3. sup' \in SupSt /\ locks' \subseteq {"front", "sup", "eng"}
    BY <1>9 DEF SupArm, SupExit
  <2>4. UNCHANGED <<front, launch, eng, captured, logged, run, meta, hosts, build,
                  prune, seen, watch, wmeta, verdict, join, joinRc, kills, reads>>
    BY <1>9 DEF SupArm, SupExit
  <2> QED BY <2>1, <2>2, <2>3, <2>4
<1>10. CASE SpawnEngine
  BY <1>10 DEF SpawnEngine
<1>11. CASE EngineSpawnFails
  BY <1>11 DEF EngineSpawnFails, SupExit
<1>12. CASE ReapEngine
  BY <1>12 DEF ReapEngine
<1>13. CASE SupExits
  BY <1>13 DEF SupExits, SupExit
<1>14. CASE DirectLaunch
  BY <1>14 DEF DirectLaunch
<1>15. CASE Capture
  <2>1. captured' \in BOOLEAN
    BY <1>15 DEF Capture, SupRuns
  <2>2. eng' \in EngSt
    BY <1>15 DEF Capture, SupRuns
  <2>3. UNCHANGED <<front, launch, request, active, locks, sup, logged, run, meta, hosts, build,
                  prune, seen, watch, wmeta, verdict, join, joinRc, kills, reads>>
    BY <1>15 DEF Capture, SupRuns
  <2> QED BY <2>1, <2>2, <2>3
<1>16. CASE PreflightFails
  BY <1>16 DEF PreflightFails, EngExit
<1>17. CASE AllocRun
  BY <1>17 DEF AllocRun
<1>18. CASE Register
  BY <1>18 DEF Register
<1>19. CASE PublishRunId
  <2>1. logged' \in BOOLEAN
    BY <1>19 DEF PublishRunId, EngExit, RecordFailure
  <2>2. meta' \in Metas
    BY <1>19 DEF PublishRunId, EngExit, RecordFailure
  <2>3. eng' \in EngSt /\ locks' \subseteq {"front", "sup", "eng"}
    BY <1>19 DEF PublishRunId, EngExit, RecordFailure
  <2>4. UNCHANGED <<front, launch, request, active, sup, captured, run, hosts, build,
                  prune, seen, watch, wmeta, verdict, join, joinRc, kills, reads>>
    BY <1>19 DEF PublishRunId, EngExit, RecordFailure
  <2> QED BY <2>1, <2>2, <2>3, <2>4
<1>20. CASE Build
  BY <1>20 DEF Build, EngExit, RecordFailure
<1>21. CASE HostFails
  BY <1>21 DEF HostFails
<1>22. CASE HostSucceeds
  BY <1>22 DEF HostSucceeds
<1>23. CASE HostBegins
  BY <1>23 DEF HostBegins
<1>24. CASE HostsEnd
  BY <1>24 DEF HostsEnd
<1>25. CASE Settle
  BY <1>25 DEF Settle, RecordFailure
<1>26. CASE EngExits
  BY <1>26 DEF EngExits, EngExit
<1>27. CASE KillFront
  BY <1>27, LaunchAssumption DEF KillFront, Kill
<1>28. CASE KillSup
  BY <1>28, LaunchAssumption DEF KillSup, SupExit, Kill, SupRuns
<1>29. CASE KillEng
  BY <1>29, LaunchAssumption DEF KillEng, EngExit, Kill, EngRuns
<1>30. CASE JudgeLaunch
  BY <1>30 DEF JudgeLaunch
<1>31. CASE RemoveLaunch
  BY <1>31 DEF RemoveLaunch
<1>32. CASE ListRuns
  BY <1>32 DEF ListRuns
<1>33. CASE RemoveRun
  BY <1>33 DEF RemoveRun, RunSpared
<1>34. CASE WatchMeta
  BY <1>34, LaunchAssumption DEF WatchMeta, ReadMeta
<1>35. CASE WatchSup
  BY <1>35 DEF WatchSup
<1>36. CASE WatchPid
  BY <1>36 DEF WatchPid
<1>37. CASE WatchJudge
  BY <1>37 DEF WatchJudge, Judged, Tailed
<1>38. CASE JoinFinished
  BY <1>38, LaunchAssumption DEF JoinFinished, Finished
<1>39. CASE JoinReturncode
  BY <1>39 DEF JoinReturncode, Returncode, ReadMeta, Tailed
<1> QED
  BY <1>0, <1>1, <1>2, <1>3, <1>4, <1>5, <1>6, <1>7, <1>8, <1>9, <1>10, <1>11, <1>12, <1>13,
    <1>14, <1>15, <1>16, <1>17, <1>18, <1>19, <1>20, <1>21, <1>22, <1>23, <1>24, <1>25,
    <1>26, <1>27, <1>28, <1>29, <1>30, <1>31, <1>32, <1>33, <1>34, <1>35, <1>36, <1>37,
    <1>38, <1>39
  DEF Next, FrontStep, SupStep, EngStep, PruneStep, WatchStep, JoinStep

(* Every step keeps the launch directory of a live launch. *)
LEMMA LaunchStep == TypeOK /\ LaunchInv /\ [Next]_vars => LaunchInv'
<1> SUFFICES ASSUME TypeOK, LaunchInv, [Next]_vars PROVE LaunchInv'
  OBVIOUS
<1> USE DEF TypeOK, LaunchInv, PruneSparesLaunch, LaunchInUse, SupRuns, EngRuns
<1> USE DEF launcher, engine, engineRest, pruner, watcher, joiner
<1>0. CASE UNCHANGED vars
  BY <1>0 DEF vars
<1>1. CASE AllocLaunch
  BY <1>1 DEF AllocLaunch
<1>2. CASE LockLaunch
  BY <1>2 DEF LockLaunch
<1>3. CASE SpawnSupervisor
  BY <1>3 DEF SpawnSupervisor
<1>4. CASE SpawnFails
  BY <1>4 DEF SpawnFails
<1>5. CASE PublishPid
  BY <1>5 DEF PublishPid
<1>6. CASE DiscoverRun
  BY <1>6 DEF DiscoverRun
<1>7. CASE PollExit
  BY <1>7 DEF PollExit
<1>8. CASE ReapSupervisor
  BY <1>8 DEF ReapSupervisor
<1>9. CASE SupArm
  BY <1>9 DEF SupArm, SupExit
<1>10. CASE SpawnEngine
  BY <1>10 DEF SpawnEngine
<1>11. CASE EngineSpawnFails
  BY <1>11 DEF EngineSpawnFails, SupExit
<1>12. CASE ReapEngine
  BY <1>12 DEF ReapEngine
<1>13. CASE SupExits
  BY <1>13 DEF SupExits, SupExit
<1>14. CASE DirectLaunch
  BY <1>14 DEF DirectLaunch
<1>15. CASE Capture
  BY <1>15 DEF Capture
<1>16. CASE PreflightFails
  BY <1>16 DEF PreflightFails, EngExit
<1>17. CASE AllocRun
  BY <1>17 DEF AllocRun
<1>18. CASE Register
  BY <1>18 DEF Register
<1>19. CASE PublishRunId
  BY <1>19 DEF PublishRunId, EngExit, RecordFailure
<1>20. CASE Build
  BY <1>20 DEF Build, EngExit, RecordFailure
<1>21. CASE HostFails
  BY <1>21 DEF HostFails
<1>22. CASE HostSucceeds
  BY <1>22 DEF HostSucceeds
<1>23. CASE HostBegins
  BY <1>23 DEF HostBegins
<1>24. CASE HostsEnd
  BY <1>24 DEF HostsEnd
<1>25. CASE Settle
  BY <1>25 DEF Settle, RecordFailure
<1>26. CASE EngExits
  BY <1>26 DEF EngExits, EngExit
<1>27. CASE KillFront
  BY <1>27 DEF KillFront, Kill
<1>28. CASE KillSup
  BY <1>28 DEF KillSup, SupExit, Kill, SupRuns
<1>29. CASE KillEng
  BY <1>29 DEF KillEng, EngExit, Kill, EngRuns
<1>30. CASE JudgeLaunch
  BY <1>30 DEF JudgeLaunch, LaunchInactive, FrontRuns, SupAlive
<1>31. CASE RemoveLaunch
  BY <1>31 DEF RemoveLaunch
<1>32. CASE ListRuns
  BY <1>32 DEF ListRuns
<1>33. CASE RemoveRun
  BY <1>33 DEF RemoveRun, RunSpared
<1>34. CASE WatchMeta
  BY <1>34 DEF WatchMeta, ReadMeta
<1>35. CASE WatchSup
  BY <1>35 DEF WatchSup
<1>36. CASE WatchPid
  BY <1>36 DEF WatchPid
<1>37. CASE WatchJudge
  BY <1>37 DEF WatchJudge, Judged, Tailed
<1>38. CASE JoinFinished
  BY <1>38 DEF JoinFinished, Finished
<1>39. CASE JoinReturncode
  BY <1>39 DEF JoinReturncode, Returncode, ReadMeta, Tailed
<1> QED
  BY <1>0, <1>1, <1>2, <1>3, <1>4, <1>5, <1>6, <1>7, <1>8, <1>9, <1>10, <1>11, <1>12, <1>13,
    <1>14, <1>15, <1>16, <1>17, <1>18, <1>19, <1>20, <1>21, <1>22, <1>23, <1>24, <1>25,
    <1>26, <1>27, <1>28, <1>29, <1>30, <1>31, <1>32, <1>33, <1>34, <1>35, <1>36, <1>37,
    <1>38, <1>39
  DEF Next, FrontStep, SupStep, EngStep, PruneStep, WatchStep, JoinStep

(* Every step keeps the run directory of a live engine. *)
LEMMA RunStep == TypeOK /\ RunInv /\ [Next]_vars => RunInv'
<1> SUFFICES ASSUME TypeOK, RunInv, [Next]_vars PROVE RunInv'
  OBVIOUS
<1> USE DEF TypeOK, Metas, NoMeta, RunInv, PruneSparesRun, SupRuns, EngRuns, EngAlive
<1> USE DEF launcher, engine, engineRest, pruner, watcher, joiner
<1>0. CASE UNCHANGED vars
  BY <1>0 DEF vars
<1>1. CASE AllocLaunch
  BY <1>1 DEF AllocLaunch
<1>2. CASE LockLaunch
  BY <1>2 DEF LockLaunch
<1>3. CASE SpawnSupervisor
  BY <1>3 DEF SpawnSupervisor
<1>4. CASE SpawnFails
  BY <1>4 DEF SpawnFails
<1>5. CASE PublishPid
  BY <1>5 DEF PublishPid
<1>6. CASE DiscoverRun
  BY <1>6 DEF DiscoverRun
<1>7. CASE PollExit
  BY <1>7 DEF PollExit
<1>8. CASE ReapSupervisor
  BY <1>8 DEF ReapSupervisor
<1>9. CASE SupArm
  BY <1>9 DEF SupArm, SupExit
<1>10. CASE SpawnEngine
  BY <1>10 DEF SpawnEngine
<1>11. CASE EngineSpawnFails
  BY <1>11 DEF EngineSpawnFails, SupExit
<1>12. CASE ReapEngine
  BY <1>12 DEF ReapEngine
<1>13. CASE SupExits
  BY <1>13 DEF SupExits, SupExit
<1>14. CASE DirectLaunch
  BY <1>14 DEF DirectLaunch
<1>15. CASE Capture
  BY <1>15 DEF Capture
<1>16. CASE PreflightFails
  BY <1>16 DEF PreflightFails, EngExit
<1>17. CASE AllocRun
  BY <1>17 DEF AllocRun
<1>18. CASE Register
  BY <1>18 DEF Register
<1>19. CASE PublishRunId
  BY <1>19 DEF PublishRunId, EngExit, RecordFailure
<1>20. CASE Build
  BY <1>20 DEF Build, EngExit, RecordFailure
<1>21. CASE HostFails
  BY <1>21 DEF HostFails
<1>22. CASE HostSucceeds
  BY <1>22 DEF HostSucceeds
<1>23. CASE HostBegins
  BY <1>23 DEF HostBegins
<1>24. CASE HostsEnd
  BY <1>24 DEF HostsEnd
<1>25. CASE Settle
  BY <1>25 DEF Settle, RecordFailure
<1>26. CASE EngExits
  BY <1>26 DEF EngExits, EngExit
<1>27. CASE KillFront
  BY <1>27 DEF KillFront, Kill
<1>28. CASE KillSup
  BY <1>28 DEF KillSup, SupExit, Kill, SupRuns
<1>29. CASE KillEng
  BY <1>29 DEF KillEng, EngExit, Kill, EngRuns
<1>30. CASE JudgeLaunch
  BY <1>30 DEF JudgeLaunch
<1>31. CASE RemoveLaunch
  BY <1>31 DEF RemoveLaunch
<1>32. CASE ListRuns
  BY <1>32 DEF ListRuns
<1>33. CASE RemoveRun
  BY <1>33 DEF RemoveRun, RunSpared
<1>34. CASE WatchMeta
  BY <1>34 DEF WatchMeta, ReadMeta
<1>35. CASE WatchSup
  BY <1>35 DEF WatchSup
<1>36. CASE WatchPid
  BY <1>36 DEF WatchPid
<1>37. CASE WatchJudge
  BY <1>37 DEF WatchJudge, Judged, Tailed
<1>38. CASE JoinFinished
  BY <1>38 DEF JoinFinished, Finished
<1>39. CASE JoinReturncode
  BY <1>39 DEF JoinReturncode, Returncode, ReadMeta, Tailed
<1> QED
  BY <1>0, <1>1, <1>2, <1>3, <1>4, <1>5, <1>6, <1>7, <1>8, <1>9, <1>10, <1>11, <1>12, <1>13,
    <1>14, <1>15, <1>16, <1>17, <1>18, <1>19, <1>20, <1>21, <1>22, <1>23, <1>24, <1>25,
    <1>26, <1>27, <1>28, <1>29, <1>30, <1>31, <1>32, <1>33, <1>34, <1>35, <1>36, <1>37,
    <1>38, <1>39
  DEF Next, FrontStep, SupStep, EngStep, PruneStep, WatchStep, JoinStep

(* Every step keeps the verdicts on settled runs true. *)
LEMMA VerdictStep == TypeOK /\ RunInv /\ VerdictInv /\ [Next]_vars => VerdictInv'
<1> SUFFICES ASSUME TypeOK, RunInv, VerdictInv, [Next]_vars PROVE VerdictInv'
  OBVIOUS
<1> USE DEF TypeOK, Metas, NoMeta, EngSt, VerdictInv, Unsettled, SettledVerdict
<1> USE DEF launcher, engine, engineRest, pruner, watcher, joiner
<1>0. CASE UNCHANGED vars
  BY <1>0 DEF vars
<1>1. CASE AllocLaunch
  BY <1>1 DEF AllocLaunch
<1>2. CASE LockLaunch
  BY <1>2 DEF LockLaunch
<1>3. CASE SpawnSupervisor
  BY <1>3 DEF SpawnSupervisor
<1>4. CASE SpawnFails
  BY <1>4 DEF SpawnFails
<1>5. CASE PublishPid
  BY <1>5 DEF PublishPid
<1>6. CASE DiscoverRun
  BY <1>6 DEF DiscoverRun
<1>7. CASE PollExit
  BY <1>7 DEF PollExit
<1>8. CASE ReapSupervisor
  BY <1>8 DEF ReapSupervisor
<1>9. CASE SupArm
  BY <1>9 DEF SupArm, SupExit
<1>10. CASE SpawnEngine
  BY <1>10 DEF SpawnEngine, RunInv
<1>11. CASE EngineSpawnFails
  BY <1>11 DEF EngineSpawnFails, SupExit
<1>12. CASE ReapEngine
  BY <1>12 DEF ReapEngine
<1>13. CASE SupExits
  BY <1>13 DEF SupExits, SupExit
<1>14. CASE DirectLaunch
  BY <1>14 DEF DirectLaunch
<1>15. CASE Capture
  BY <1>15 DEF Capture
<1>16. CASE PreflightFails
  BY <1>16 DEF PreflightFails, EngExit
<1>17. CASE AllocRun
  BY <1>17 DEF AllocRun
<1>18. CASE Register
  BY <1>18 DEF Register
<1>19. CASE PublishRunId
  BY <1>19 DEF PublishRunId, EngExit, RecordFailure
<1>20. CASE Build
  BY <1>20 DEF Build, EngExit, RecordFailure
<1>21. CASE HostFails
  BY <1>21 DEF HostFails
<1>22. CASE HostSucceeds
  BY <1>22 DEF HostSucceeds
<1>23. CASE HostBegins
  BY <1>23 DEF HostBegins
<1>24. CASE HostsEnd
  BY <1>24 DEF HostsEnd
<1>25. CASE Settle
  BY <1>25 DEF Settle, RecordFailure
<1>26. CASE EngExits
  BY <1>26 DEF EngExits, EngExit
<1>27. CASE KillFront
  BY <1>27 DEF KillFront, Kill
<1>28. CASE KillSup
  BY <1>28 DEF KillSup, SupExit, Kill, SupRuns
<1>29. CASE KillEng
  BY <1>29 DEF KillEng, EngExit, Kill, EngRuns
<1>30. CASE JudgeLaunch
  BY <1>30 DEF JudgeLaunch
<1>31. CASE RemoveLaunch
  BY <1>31 DEF RemoveLaunch
<1>32. CASE ListRuns
  BY <1>32 DEF ListRuns
<1>33. CASE RemoveRun
  BY <1>33 DEF RemoveRun, RunSpared
<1>34. CASE WatchMeta
  BY <1>34 DEF WatchMeta, ReadMeta
<1>35. CASE WatchSup
  BY <1>35 DEF WatchSup
<1>36. CASE WatchPid
  BY <1>36 DEF WatchPid
<1>37. CASE WatchJudge
  BY <1>37 DEF WatchJudge, Judged, Tailed
<1>38. CASE JoinFinished
  BY <1>38 DEF JoinFinished, Finished
<1>39. CASE JoinReturncode
  BY <1>39 DEF JoinReturncode, Returncode, ReadMeta, Tailed
<1> QED
  BY <1>0, <1>1, <1>2, <1>3, <1>4, <1>5, <1>6, <1>7, <1>8, <1>9, <1>10, <1>11, <1>12, <1>13,
    <1>14, <1>15, <1>16, <1>17, <1>18, <1>19, <1>20, <1>21, <1>22, <1>23, <1>24, <1>25,
    <1>26, <1>27, <1>28, <1>29, <1>30, <1>31, <1>32, <1>33, <1>34, <1>35, <1>36, <1>37,
    <1>38, <1>39
  DEF Next, FrontStep, SupStep, EngStep, PruneStep, WatchStep, JoinStep

(* The initial state satisfies the inductive invariant. *)
LEMMA InitLInv == Init => LInv
<1> SUFFICES ASSUME Init PROVE LInv
  OBVIOUS
<1> USE DEF Init, NoMeta
<1>1. TypeOK
  <2>1. meta \in Metas /\ seen \in Metas /\ wmeta \in Metas
    BY DEF Metas
  <2>2. request \in BOOLEAN /\ active \in BOOLEAN /\ logged \in BOOLEAN /\ captured \in BOOLEAN
    OBVIOUS
  <2>3. kills \in 0..MaxKills /\ reads \in 0..MaxReads
    BY LaunchAssumption
  <2>4. front \in FrontSt /\ sup \in SupSt /\ eng \in EngSt /\ locks \subseteq {"front", "sup", "eng"}
    BY DEF FrontSt, SupSt, EngSt
  <2> QED BY <2>1, <2>2, <2>3, <2>4, Zenon DEF TypeOK
<1>2. LaunchInv
  BY DEF LaunchInv, PruneSparesLaunch, SupRuns, EngRuns
<1>3. RunInv
  BY DEF RunInv, PruneSparesRun
<1>4. VerdictInv
  BY DEF VerdictInv, SettledVerdict
<1> QED BY <1>1, <1>2, <1>3, <1>4 DEF LInv

(* Every step keeps the inductive invariant. *)
LEMMA NextLInv == LInv /\ [Next]_vars => LInv'
  BY TypeStep, LaunchStep, RunStep, VerdictStep DEF LInv

(* Every reachable state of a launch satisfies its inductive invariant. *)
THEOREM LaunchInvariance == Spec => []LInv
  BY InitLInv, NextLInv, PTL DEF Spec

(* The state of a launch always has its type. *)
THEOREM LaunchTypeCorrect == Spec => []TypeOK
<1>1. LInv => TypeOK
  BY DEF LInv
<1> QED BY <1>1, LaunchInvariance, PTL

(* However many processes are killed, at whatever moment: prune_deploy_launches
   never removes a launch directory that a frontend, a supervisor or an engine
   still uses. *)
THEOREM LaunchSpared == Spec => []PruneSparesLaunch
<1>1. LInv => PruneSparesLaunch
  BY DEF LInv, LaunchInv
<1> QED BY <1>1, LaunchInvariance, PTL

(* However late prune_policy acts on the list it took: it never removes the run
   of a live engine. *)
THEOREM RunSparedWhileLive == Spec => []PruneSparesRun
<1>1. LInv => PruneSparesRun
  BY DEF LInv, RunInv
<1> QED BY <1>1, LaunchInvariance, PTL

(* An observer that read a return code reports what the hosts did. *)
THEOREM SettledVerdictTrue == Spec => []SettledVerdict
<1>1. LInv => SettledVerdict
  BY DEF LInv, VerdictInv
<1> QED BY <1>1, LaunchInvariance, PTL
=============================================================================
