---------------------------- MODULE ProcessGroups ----------------------------
(***************************************************************************)
(* The owned process groups of mandala-deploy (process.rs): the child       *)
(* registry that spawns, waits, drops and the signal forwarder share, in an *)
(* engine (which escalates and exits) or a supervisor (which lives on to    *)
(* reap the engine).  Every critical section under the registry's lock is   *)
(* one action; the children and the kernel's pid allocation move freely     *)
(* between them.                                                            *)
(***************************************************************************)
EXTENDS Naturals, FiniteSets

CONSTANTS Tasks,      \* the callers of spawn/output: build, host tasks
          Pids,       \* the kernel's pid space
          MaxSignals, \* SIGINT/SIGTERM deliveries
          MaxRounds,  \* commands each task runs
          NoPid

ASSUME TasksAssumption == Tasks # {} /\ IsFiniteSet(Tasks)
ASSUME PidsAssumption == Pids # {} /\ NoPid \notin Pids
ASSUME RoundsAssumption == MaxRounds \in Nat \ {0} /\ MaxSignals \in Nat

VARIABLES
  engine,    \* SignalForwarder::install(engine)
  alive,     \* "up", "signalled" (128 + signal) or "returned"
  groups,    \* Children.groups
  stopping,  \* Children.stopping
  signals,   \* signals delivered to this process so far
  queued,    \* a signal is waiting for the forwarder's thread
  sleeping,  \* the forwarder is in the two seconds before SIGKILL
  pc,        \* task: "idle", "waiting", "capturing", "refused", "done"
  rounds,    \* commands started by each task
  pid,       \* pid of the task's child, NoPid when none was spawned
  proc,      \* pid: "free", "own", "zombie", "foreign"
  killed,    \* own pids that were sent SIGKILL
  strays,    \* pids signalled while they belonged to somebody else
  reused     \* history: own pids recycled while the former owner's capture was open

osvars == <<pid, proc, killed, strays, reused>>
regvars == <<engine, groups, stopping>>
fwdvars == <<signals, queued, sleeping>>
pgvars == <<engine, alive, groups, stopping, signals, queued, sleeping, pc, rounds,
          pid, proc, killed, strays, reused>>

PGInit ==
  /\ engine \in BOOLEAN
  /\ alive = "up"
  /\ groups = {} /\ stopping = FALSE
  /\ signals = 0 /\ queued = FALSE /\ sleeping = FALSE
  /\ pc = [t \in Tasks |-> "idle"]
  /\ rounds = [t \in Tasks |-> 0]
  /\ pid = [t \in Tasks |-> NoPid]
  /\ proc = [p \in Pids |-> "free"]
  /\ killed = {} /\ strays = {} /\ reused = {}

(* What a killpg of the pgids in S reaches: a group whose number the kernel
   has handed to somebody else is a stray signal. *)
Signalled(S) == strays' = strays \cup {p \in S : proc[p] = "foreign"}

----------------------------------------------------------------------------
(* A faulty variant of Spawn. *)
SpawnAlways(t) ==
  /\ alive = "up" /\ pc[t] = "idle" /\ rounds[t] < MaxRounds
  /\ \E p \in Pids :
       /\ proc[p] = "free"
       /\ proc' = [proc EXCEPT ![p] = "own"]
       /\ pid' = [pid EXCEPT ![t] = p]
       /\ groups' = groups \cup {p}
       /\ killed' = killed \ {p}
       /\ reused' = IF \E u \in Tasks : pid[u] = p THEN reused \cup {p} ELSE reused
  /\ pc' = [pc EXCEPT ![t] = "waiting"]
  /\ rounds' = [rounds EXCEPT ![t] = @ + 1]
  /\ UNCHANGED <<engine, alive, stopping, strays>> /\ UNCHANGED fwdvars

(* spawn_std and spawn: refused once stopping; the pid is registered before
   the lock is released. *)
Spawn(t) ==
  /\ alive = "up" /\ pc[t] = "idle" /\ rounds[t] < MaxRounds
  /\ ~stopping
  /\ \E p \in Pids :
       /\ proc[p] = "free"
       /\ proc' = [proc EXCEPT ![p] = "own"]
       /\ pid' = [pid EXCEPT ![t] = p]
       /\ groups' = groups \cup {p}
       /\ killed' = killed \ {p}
       /\ reused' = IF \E u \in Tasks : pid[u] = p THEN reused \cup {p} ELSE reused
  /\ pc' = [pc EXCEPT ![t] = "waiting"]
  /\ rounds' = [rounds EXCEPT ![t] = @ + 1]
  /\ UNCHANGED <<engine, alive, stopping, strays>> /\ UNCHANGED fwdvars

(* The refusal of a stopping registry, or the operating system's own. *)
SpawnRefused(t) ==
  /\ alive = "up" /\ pc[t] = "idle" /\ rounds[t] < MaxRounds
  /\ pc' = [pc EXCEPT ![t] = "refused"]
  /\ rounds' = [rounds EXCEPT ![t] = @ + 1]
  /\ UNCHANGED <<alive>> /\ UNCHANGED regvars /\ UNCHANGED fwdvars /\ UNCHANGED osvars

(* A faulty variant of Reap. *)
ReapUnregisteredLater(t) ==
  /\ alive = "up" /\ pc[t] = "waiting" /\ proc[pid[t]] = "zombie"
  /\ proc' = [proc EXCEPT ![pid[t]] = "free"]
  /\ pc' = [pc EXCEPT ![t] = "capturing"]
  /\ UNCHANGED <<engine, stopping, groups, alive, rounds, pid, killed, strays, reused>>
  /\ UNCHANGED fwdvars

(* wait_std's poll and the poll_fn of wait_with_output: try_wait and
   leader_reaped under the lock; the pid returns to the kernel.  The captured
   pipes may stay open in descendants of the reaped leader. *)
Reap(t) ==
  /\ alive = "up" /\ pc[t] = "waiting" /\ proc[pid[t]] = "zombie"
  /\ proc' = [proc EXCEPT ![pid[t]] = "free"]
  /\ groups' = groups \ {pid[t]}
  /\ pc' = [pc EXCEPT ![t] = "capturing"]
  /\ UNCHANGED <<engine, stopping, alive, rounds, pid, killed, strays, reused>> /\ UNCHANGED fwdvars

(* The capture ends or is cancelled after the leader was reaped: the drop of a
   disarmed ChildGroup signals nobody. *)
Captured(t) ==
  /\ alive = "up" /\ pc[t] = "capturing"
  /\ groups' = groups \ {pid[t]}
  /\ pc' = [pc EXCEPT ![t] = "idle"]
  /\ pid' = [pid EXCEPT ![t] = NoPid]
  /\ UNCHANGED <<engine, stopping, alive, rounds, proc, killed, strays, reused>> /\ UNCHANGED fwdvars

(* A faulty variant of DropGroup. *)
DropGroupQuietly(t) ==
  /\ alive = "up" /\ pc[t] = "waiting"
  /\ groups' = groups \ {pid[t]}
  /\ pc' = [pc EXCEPT ![t] = "done"]
  /\ UNCHANGED <<engine, stopping, alive, rounds, pid, proc, killed, strays, reused>>
  /\ UNCHANGED fwdvars

(* Cancellation or early return before the wait succeeded: Drop for
   ChildGroup kills the group under the lock and unregisters it. *)
DropGroup(t) ==
  /\ alive = "up" /\ pc[t] = "waiting"
  /\ Signalled({pid[t]})
  /\ killed' = killed \cup {pid[t]}
  /\ groups' = groups \ {pid[t]}
  /\ pc' = [pc EXCEPT ![t] = "done"]
  /\ UNCHANGED <<engine, stopping, alive, rounds, pid, proc, reused>> /\ UNCHANGED fwdvars

(* The runtime reaps a child nobody waits for any more (tokio's orphan queue). *)
ReapOrphan(t) ==
  /\ alive = "up" /\ pc[t] = "done" /\ pid[t] # NoPid /\ proc[pid[t]] = "zombie"
  /\ proc' = [proc EXCEPT ![pid[t]] = "free"]
  /\ pid' = [pid EXCEPT ![t] = NoPid]
  /\ UNCHANGED <<alive, pc, rounds, killed, strays, reused>> /\ UNCHANGED regvars /\ UNCHANGED fwdvars

----------------------------------------------------------------------------
(* The forwarder's loop, its first lock: stop every later spawn and pass the
   signal to every registered group. *)
Forward ==
  /\ alive = "up" /\ queued /\ ~sleeping
  /\ queued' = FALSE
  /\ stopping' = TRUE
  /\ Signalled(groups)
  /\ sleeping' = engine
  /\ UNCHANGED <<engine, alive, groups, signals, pc, rounds, pid, proc, killed, reused>>

(* A faulty variant of Escalate. *)
EscalateWhenReaped ==
  /\ alive = "up" /\ sleeping /\ groups = {}
  /\ alive' = "signalled"
  /\ UNCHANGED <<pc, rounds>> /\ UNCHANGED regvars /\ UNCHANGED fwdvars /\ UNCHANGED osvars

(* An engine's second lock, two seconds later: SIGKILL to what is still
   registered, and exit with the lock held. *)
Escalate ==
  /\ alive = "up" /\ sleeping
  /\ Signalled(groups)
  /\ killed' = killed \cup groups
  /\ alive' = "signalled"
  /\ UNCHANGED <<pc, rounds, pid, proc, reused>> /\ UNCHANGED regvars /\ UNCHANGED fwdvars

(* Drop for SignalForwarder when the run returns: the handle is closed and the
   thread joined, so a thread inside its two seconds exits the process first. *)
ForwarderDropped ==
  /\ alive = "up" /\ ~sleeping
  /\ \A t \in Tasks : pc[t] \in {"idle", "refused", "done"}
  /\ stopping' = FALSE
  /\ queued' = FALSE
  /\ alive' = "returned"
  /\ UNCHANGED <<engine, groups, signals, sleeping, pc, rounds>> /\ UNCHANGED osvars

----------------------------------------------------------------------------
(* The rest of the machine. *)
SignalArrives ==
  /\ alive = "up" /\ signals < MaxSignals
  /\ signals' = signals + 1
  /\ queued' = TRUE
  /\ UNCHANGED <<alive, sleeping, pc, rounds>> /\ UNCHANGED regvars /\ UNCHANGED osvars

ChildExits(p) ==
  /\ proc[p] = "own"
  /\ proc' = [proc EXCEPT ![p] = "zombie"]
  /\ UNCHANGED <<alive, pc, rounds, pid, killed, strays, reused>> /\ UNCHANGED regvars /\ UNCHANGED fwdvars

ForeignStarts(p) ==
  /\ proc[p] = "free"
  /\ proc' = [proc EXCEPT ![p] = "foreign"]
  /\ UNCHANGED <<alive, pc, rounds, pid, killed, strays, reused>> /\ UNCHANGED regvars /\ UNCHANGED fwdvars

ForeignEnds(p) ==
  /\ proc[p] = "foreign"
  /\ proc' = [proc EXCEPT ![p] = "free"]
  /\ UNCHANGED <<alive, pc, rounds, pid, killed, strays, reused>> /\ UNCHANGED regvars /\ UNCHANGED fwdvars

Forwarder == Forward \/ Escalate \/ ForwarderDropped

PGNext ==
  \/ \E t \in Tasks : \/ Spawn(t) \/ SpawnRefused(t) \/ Reap(t) \/ Captured(t)
                      \/ DropGroup(t) \/ ReapOrphan(t)
  \/ Forwarder
  \/ SignalArrives
  \/ \E p \in Pids : ChildExits(p) \/ ForeignStarts(p) \/ ForeignEnds(p)

(* The forwarder's thread is scheduled. *)
PGSpec == PGInit /\ [][PGNext]_pgvars /\ WF_pgvars(Forward) /\ WF_pgvars(Escalate)

----------------------------------------------------------------------------
(* No signal ever reaches a process that is not a child of ours: reaping and
   unregistering are one critical section, so a recycled pid is never in the
   registry when the forwarder walks it or a group is dropped. *)
NoStraySignal == strays = {}

(* The same, but for a pid that the kernel handed to a second child while the
   first one's capture was still open: the drop of the first one's group removes
   the number from the registry whoever it names by then.  For every other child
   the spawn was registered before the escalation or refused after the forwarding. *)
NoSurvivorUnlessRecycled ==
  alive = "signalled" => \A p \in Pids \ reused : proc[p] = "own" => p \in killed

(* Between a forwarded signal and the end of the process no new child starts,
   whatever recovery or fan-out asks for. *)
NoEffectAfterStop ==
  [][stopping /\ stopping' => \A p \in Pids : proc'[p] = "own" => proc[p] = "own"]_pgvars

(* A signalled engine exits: the forwarder never waits on a task. *)
SignalEndsEngine == (engine /\ stopping) ~> (alive # "up")
=============================================================================
