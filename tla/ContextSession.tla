--------------------------- MODULE ContextSession ---------------------------
(***************************************************************************)
(* One joined session (fleet.rs, ContextSession) and the connections it    *)
(* makes (client.rs) to the leaders that serve it (host.rs): concurrent    *)
(* tool calls and one event subscription, over leaders that answer, drain, *)
(* are dropped or crash, with the re-race each loss starts.                *)
(*                                                                         *)
(* An epoch is one connection: the client, and at the other end the tasks  *)
(* serve_conn runs for it.  A call makes at most one attempt per epoch.    *)
(* Left out are the calls of other followers, a writer whose socket failed *)
(* under it (it goes on settling what it cannot write), and how the        *)
(* election decides a re-race: it may promote this process, join a fresh   *)
(* connection or fail (ContextElection models it).                         *)
(***************************************************************************)
EXTENDS Naturals, FiniteSets

CONSTANTS
  Calls,       \* tool calls made through the session, one attempt chain each
  Mutations,   \* the calls declared not idempotent
  Sub,         \* the subscription loop, not a call
  Subscribes,  \* whether the session subscribes
  MaxEpoch,    \* bound: connections ever made
  MaxFaults,   \* bound: leaders that stop, plus the shutdown of the session
  Nobody       \* the role lock is free

ASSUME SessionAssumption ==
  /\ IsFiniteSet(Calls)
  /\ Mutations \subseteq Calls
  /\ Sub \notin Calls
  /\ Nobody \notin Calls \cup {Sub}
  /\ Subscribes \in BOOLEAN
  /\ MaxEpoch \in Nat \ {0}
  /\ MaxFaults \in Nat

Epochs == 1..MaxEpoch
Local  == 0              \* Role::Leader: this process executes
Closed == MaxEpoch + 1   \* Role::Closed
Roles  == 0..(MaxEpoch + 1)
Actors == Calls \cup {Sub}

VARIABLES
  role,       \* SessionInner.role: Local, an epoch (Role::Follower) or Closed
  racer,      \* who holds the role lock across an acquisition, or Nobody
  epoch,      \* connections made so far
  pc,         \* where each call and the subscription loop stand
  on,         \* the role their current attempt was made under
  attempt,    \* 1, or 2 for the retry of a read
  out,        \* how a call returned
  reply,      \* what the reader sent through a call's oneshot, "none" before
  waiters,    \* Waiters.calls of each connection
  eof,        \* Waiters.closed
  sink,       \* Waiters.events is set
  stage,      \* how far each call got at the leader of each connection
  unsettled,  \* HostShared.unsettled, the part this session's calls add to it
  host,       \* life of the leader at the other end
  reader,     \* its serve_conn read loop runs
  writer,     \* its writer task runs
  runs,       \* history: executions of each call, anywhere
  faults      \* faults spent so far

session == <<role, racer, epoch>>
callers == <<pc, on, attempt, out>>
client  == <<reply, waiters, eof, sink>>
leader  == <<stage, unsettled, host, reader, writer>>
vars    == <<session, callers, client, leader, runs, faults>>

Stages    == {"none", "wire", "accepted", "executed", "queued", "written", "read", "dropped"}
Unwritten == {"accepted", "executed", "queued"}
HostLife  == {"none", "up", "refusing", "drained", "abandoned", "crashed"}
CallPcs   == {"idle", "snapshot", "local", "register", "send", "await", "reacquire", "racing", "done"}
SubPcs    == {"idle", "attach", "ack", "attached", "reacquire", "racing", "done"}
Outcomes  == {"answered", "failover", "acquire", "closed"}  \* answered: a value or a tool error

(* ContextSession::acquire gave the session its first role. *)
Init ==
  /\ role \in {Local, 1}
  /\ racer = Nobody
  /\ epoch = role
  /\ pc = [a \in Actors |-> "idle"]
  /\ on = [a \in Actors |-> Local]
  /\ attempt = [c \in Calls |-> 1]
  /\ out = [a \in Actors |-> "none"]
  /\ reply = [c \in Calls |-> "none"]
  /\ waiters = [e \in Epochs |-> {}]
  /\ eof = [e \in Epochs |-> FALSE]
  /\ sink = [e \in Epochs |-> FALSE]
  /\ stage = [c \in Calls |-> [e \in Epochs |-> "none"]]
  /\ unsettled = [e \in Epochs |-> 0]
  /\ host = [e \in Epochs |-> IF e = role THEN "up" ELSE "none"]
  /\ reader = [e \in Epochs |-> e = role]
  /\ writer = [e \in Epochs |-> e = role]
  /\ runs = [c \in Calls |-> 0]
  /\ faults = 0

Goto(a, s) == pc' = [pc EXCEPT ![a] = s]

Return(a, o) == Goto(a, "done") /\ out' = [out EXCEPT ![a] = o]

(* Every reader of the role waits while a re-race holds its lock. *)
RoleUnlocked == racer = Nobody

----------------------------------------------------------------------------
(* ContextSession::call, the caller's side of one tool call *)

Invoke(c) ==
  /\ pc[c] = "idle"
  /\ Goto(c, "snapshot")
  /\ UNCHANGED <<session, on, attempt, out, client, leader, runs>>

Snapshot(c) ==
  /\ pc[c] = "snapshot"
  /\ RoleUnlocked
  /\ on' = [on EXCEPT ![c] = role]
  /\ \/ role = Local /\ Goto(c, "local") /\ UNCHANGED out
     \/ role \in Epochs /\ Goto(c, "register") /\ UNCHANGED out
     \/ role = Closed /\ Return(c, "closed")
  /\ UNCHANGED <<session, attempt, client, leader, runs>>

(* Exec::Local: the dispatch runs here and its verdict is the answer. *)
RunLocal(c) ==
  /\ pc[c] = "local"
  /\ runs' = [runs EXCEPT ![c] = @ + 1]
  /\ Return(c, "answered")
  /\ UNCHANGED <<session, on, attempt, client, leader>>

(* `attempt` lost its connection: the first time re-race, the second time
   report Failover { retried: true }. *)
Lost(c) ==
  \/ attempt[c] = 1 /\ Goto(c, "reacquire") /\ UNCHANGED out
  \/ attempt[c] = 2 /\ Return(c, "failover")

(* Mutant of Register: the waiter is registered without looking at `closed`. *)
RegisterBlindly(c) ==
  /\ pc[c] = "register"
  /\ Goto(c, "send")
  /\ waiters' = [waiters EXCEPT ![on[c]] = @ \cup {c}]
  /\ reply' = [reply EXCEPT ![c] = "none"]
  /\ UNCHANGED <<session, on, attempt, out, eof, sink, leader, runs>>

(* ContextClient::call: under the waiters lock, fail fast on a connection whose
   reader is gone, else register the waiter. *)
Register(c) ==
  LET e == on[c] IN
  /\ pc[c] = "register"
  /\ \/ /\ eof[e]
        /\ Lost(c)
        /\ UNCHANGED <<reply, waiters>>
     \/ /\ ~eof[e]
        /\ Goto(c, "send")
        /\ waiters' = [waiters EXCEPT ![e] = @ \cup {c}]
        /\ reply' = [reply EXCEPT ![c] = "none"]
        /\ UNCHANGED out
  /\ UNCHANGED <<session, on, attempt, eof, sink, leader, runs>>

(* The frame goes to the client's writer task, which is gone once a write
   failed: that takes a peer that closed both directions.  A write to a peer
   that only stopped reading succeeds, and nobody ever reads the frame. *)
Send(c) ==
  LET e == on[c] IN
  /\ pc[c] = "send"
  /\ \/ /\ ~reader[e] /\ ~writer[e]
        /\ Lost(c)
        /\ UNCHANGED stage
     \/ /\ Goto(c, "await")
        /\ stage' = [stage EXCEPT ![c][e] = "wire"]
        /\ UNCHANGED out
  /\ UNCHANGED <<session, on, attempt, client, unsettled, host, reader, writer, runs>>

Await(c) ==
  /\ pc[c] = "await"
  /\ \/ reply[c] = "answered" /\ Return(c, "answered")
     \/ reply[c] = "lost" /\ Lost(c)
  /\ reply' = [reply EXCEPT ![c] = "none"]
  /\ UNCHANGED <<session, on, attempt, waiters, eof, sink, leader, runs>>

----------------------------------------------------------------------------
(* ContextSession::reacquire and what each caller does with its outcome *)

(* Mutant of Resume: every call is retried, mutations too. *)
ResumeAll(a) ==
  \/ /\ a \in Calls
     /\ Goto(a, "snapshot")
     /\ attempt' = [attempt EXCEPT ![a] = 2]
     /\ UNCHANGED out
  \/ /\ a = Sub
     /\ Goto(a, "attach")
     /\ UNCHANGED <<attempt, out>>

(* A read snapshots the role again and retries; a mutation reports Failover
   { retried: false }; the subscription loop attaches again. *)
Resume(a) ==
  \/ /\ a \in Mutations
     /\ Return(a, "failover")
     /\ UNCHANGED attempt
  \/ /\ a \in Calls \ Mutations
     /\ Goto(a, "snapshot")
     /\ attempt' = [attempt EXCEPT ![a] = 2]
     /\ UNCHANGED out
  \/ /\ a = Sub
     /\ Goto(a, "attach")
     /\ UNCHANGED <<attempt, out>>

(* Mutants of Reacquire: the re-race starts without asking whether somebody
   else already promoted, or already reconnected, this session. *)
ReacquireAsLeader(a) ==
  /\ pc[a] = "reacquire"
  /\ RoleUnlocked
  /\ \/ role = Closed /\ Return(a, "closed") /\ UNCHANGED <<attempt, racer>>
     \/ role \in Epochs \ {on[a]} /\ Resume(a) /\ UNCHANGED racer
     \/ /\ role \in {Local, on[a]}
        /\ racer' = a
        /\ Goto(a, "racing")
        /\ UNCHANGED <<attempt, out>>
  /\ UNCHANGED <<role, epoch, on, client, leader, runs>>

ReacquireAnyFollower(a) ==
  /\ pc[a] = "reacquire"
  /\ RoleUnlocked
  /\ \/ role = Local /\ Resume(a) /\ UNCHANGED racer
     \/ role = Closed /\ Return(a, "closed") /\ UNCHANGED <<attempt, racer>>
     \/ /\ role \in Epochs
        /\ racer' = a
        /\ Goto(a, "racing")
        /\ UNCHANGED <<attempt, out>>
  /\ UNCHANGED <<role, epoch, on, client, leader, runs>>

(* Under the role lock: a role other than the lost connection is adopted. *)
Reacquire(a) ==
  /\ pc[a] = "reacquire"
  /\ RoleUnlocked
  /\ \/ role = Local /\ Resume(a) /\ UNCHANGED racer
     \/ role = Closed /\ Return(a, "closed") /\ UNCHANGED <<attempt, racer>>
     \/ role \in Epochs \ {on[a]} /\ Resume(a) /\ UNCHANGED racer
     \/ /\ role = on[a]
        /\ racer' = a
        /\ Goto(a, "racing")
        /\ UNCHANGED <<attempt, out>>
  /\ UNCHANGED <<role, epoch, on, client, leader, runs>>

(* acquire_role returns, and the lock is released with the new role. *)
Promoted(a) ==
  /\ pc[a] = "racing"
  /\ role' = Local
  /\ racer' = Nobody
  /\ Resume(a)
  /\ UNCHANGED <<epoch, on, client, leader, runs>>

Joined(a) ==
  LET e == epoch + 1 IN
  /\ pc[a] = "racing"
  /\ epoch < MaxEpoch
  /\ epoch' = e
  /\ role' = e
  /\ racer' = Nobody
  /\ host' = [host EXCEPT ![e] = "up"]
  /\ reader' = [reader EXCEPT ![e] = TRUE]
  /\ writer' = [writer EXCEPT ![e] = TRUE]
  /\ Resume(a)
  /\ UNCHANGED <<on, client, stage, unsettled, runs>>

(* Mutant of AcquireFails: the role lock outlives a failed acquisition. *)
AcquireFailsLocked(a) ==
  /\ pc[a] = "racing"
  /\ Return(a, "acquire")
  /\ UNCHANGED <<session, on, attempt, client, leader, runs>>

AcquireFails(a) ==
  /\ pc[a] = "racing"
  /\ racer' = Nobody
  /\ Return(a, "acquire")
  /\ UNCHANGED <<role, epoch, on, attempt, client, leader, runs>>

(* ContextSession::shutdown of this session.  Calls and streams in flight keep
   their handle on the connection. *)
Shutdown ==
  /\ RoleUnlocked
  /\ role # Closed
  /\ role' = Closed
  /\ UNCHANGED <<racer, epoch, callers, client, leader, runs>>

----------------------------------------------------------------------------
(* ContextSession::subscribe and attach *)

Subscribe ==
  /\ Subscribes
  /\ pc[Sub] = "idle"
  /\ Goto(Sub, "attach")
  /\ UNCHANGED <<session, on, attempt, out, client, leader, runs>>

Attach ==
  /\ pc[Sub] = "attach"
  /\ RoleUnlocked
  /\ on' = [on EXCEPT ![Sub] = role]
  /\ \/ role = Local /\ Goto(Sub, "attached") /\ UNCHANGED <<out, sink>>
     \/ role = Closed /\ Return(Sub, "closed") /\ UNCHANGED sink
     \/ /\ role \in Epochs
        /\ IF eof[role]
           THEN Goto(Sub, "reacquire") /\ UNCHANGED sink
           ELSE Goto(Sub, "ack") /\ sink' = [sink EXCEPT ![role] = TRUE]
        /\ UNCHANGED out
  /\ UNCHANGED <<session, attempt, reply, waiters, eof, leader, runs>>

(* The leader reads the subscribe frame and its ack arrives. *)
Acked ==
  LET e == on[Sub] IN
  /\ pc[Sub] = "ack"
  /\ reader[e] /\ writer[e] /\ ~eof[e]
  /\ Goto(Sub, "attached")
  /\ UNCHANGED <<session, on, attempt, out, client, leader, runs>>

(* The frame cannot be sent, or HANDSHAKE_TIMEOUT passes without the ack: the
   connection is given up, dead or only slow. *)
AckTimeout ==
  /\ pc[Sub] = "ack"
  /\ Goto(Sub, "reacquire")
  /\ UNCHANGED <<session, on, attempt, out, client, leader, runs>>

StreamEnds ==
  /\ pc[Sub] = "attached"
  /\ on[Sub] \in Epochs
  /\ ~sink[on[Sub]]
  /\ Goto(Sub, "reacquire")
  /\ UNCHANGED <<session, on, attempt, out, client, leader, runs>>

----------------------------------------------------------------------------
(* serve_conn at the leader of connection e *)

(* Mutant of Accept: the call is counted only once it is about to be written. *)
AcceptUncounted(c, e) ==
  /\ stage[c][e] = "wire"
  /\ reader[e]
  /\ stage' = [stage EXCEPT ![c][e] = "accepted"]
  /\ UNCHANGED <<session, callers, client, unsettled, host, reader, writer, runs>>

Accept(c, e) ==
  /\ stage[c][e] = "wire"
  /\ reader[e]
  /\ stage' = [stage EXCEPT ![c][e] = "accepted"]
  /\ unsettled' = [unsettled EXCEPT ![e] = @ + 1]
  /\ UNCHANGED <<session, callers, client, host, reader, writer, runs>>

(* The spawned task runs the dispatch; a shutdown does not stop it. *)
Dispatch(c, e) ==
  /\ stage[c][e] = "accepted"
  /\ stage' = [stage EXCEPT ![c][e] = "executed"]
  /\ runs' = [runs EXCEPT ![c] = @ + 1]
  /\ UNCHANGED <<session, callers, client, unsettled, host, reader, writer>>

(* It hands the result to the writer, or settles the counter itself. *)
Enqueue(c, e) ==
  /\ stage[c][e] = "executed"
  /\ \/ /\ writer[e]
        /\ stage' = [stage EXCEPT ![c][e] = "queued"]
        /\ UNCHANGED unsettled
     \/ /\ ~writer[e]
        /\ stage' = [stage EXCEPT ![c][e] = "dropped"]
        /\ unsettled' = [unsettled EXCEPT ![e] = @ - 1]
  /\ UNCHANGED <<session, callers, client, host, reader, writer, runs>>

(* Mutant of Write: a result that was written is still counted. *)
WriteLeaks(c, e) ==
  /\ stage[c][e] = "queued"
  /\ writer[e]
  /\ stage' = [stage EXCEPT ![c][e] = "written"]
  /\ UNCHANGED <<session, callers, client, unsettled, host, reader, writer, runs>>

(* The counter goes down after the write. *)
Write(c, e) ==
  /\ stage[c][e] = "queued"
  /\ writer[e]
  /\ stage' = [stage EXCEPT ![c][e] = "written"]
  /\ unsettled' = [unsettled EXCEPT ![e] = @ - 1]
  /\ UNCHANGED <<session, callers, client, host, reader, writer, runs>>

Queue(e) == {c \in Calls : stage[c][e] = "queued"}

Stopping(e) == host[e] \in {"drained", "abandoned"}

ReaderExits(e) ==
  /\ Stopping(e)
  /\ reader[e]
  /\ reader' = [reader EXCEPT ![e] = FALSE]
  /\ UNCHANGED <<session, callers, client, stage, unsettled, host, writer, runs>>

(* On its way out the writer settles what is still queued. *)
WriterExits(e) ==
  /\ Stopping(e)
  /\ writer[e]
  /\ writer' = [writer EXCEPT ![e] = FALSE]
  /\ stage' = [c \in Calls |-> [stage[c] EXCEPT ![e] = IF @ = "queued" THEN "dropped" ELSE @]]
  /\ unsettled' = [unsettled EXCEPT ![e] = @ - Cardinality(Queue(e))]
  /\ UNCHANGED <<session, callers, client, host, reader, runs>>

(* RunningHost::shutdown: refuse new connections, wait for the counter, or for
   the grace to pass, then tell every task to stop. *)
HostLives(e, from, to) ==
  /\ host[e] = from
  /\ host' = [host EXCEPT ![e] = to]
  /\ UNCHANGED <<session, callers, client, stage, unsettled, reader, writer, runs>>

Refuse(e) == HostLives(e, "up", "refusing")

Drain(e) == unsettled[e] = 0 /\ HostLives(e, "refusing", "drained")

GraceExpires(e) == unsettled[e] > 0 /\ HostLives(e, "refusing", "abandoned")

(* RunningHost::drop: no drain. *)
DropHost(e) == HostLives(e, "up", "abandoned")

(* The leader's process dies, with every task and every frame not yet written. *)
Crash(e) ==
  /\ host[e] \in HostLife \ {"none", "crashed"}
  /\ host' = [host EXCEPT ![e] = "crashed"]
  /\ reader' = [reader EXCEPT ![e] = FALSE]
  /\ writer' = [writer EXCEPT ![e] = FALSE]
  /\ stage' = [c \in Calls |-> [stage[c] EXCEPT ![e] = IF @ \in Unwritten THEN "dropped" ELSE @]]
  /\ unsettled' = [unsettled EXCEPT ![e] = 0]
  /\ UNCHANGED <<session, callers, client, runs>>

----------------------------------------------------------------------------
(* The reader task of the client of connection e *)

Deliver(c, e) ==
  /\ stage[c][e] = "written"
  /\ ~eof[e]
  /\ stage' = [stage EXCEPT ![c][e] = "read"]
  /\ \/ /\ c \in waiters[e]
        /\ waiters' = [waiters EXCEPT ![e] = @ \ {c}]
        /\ reply' = [reply EXCEPT ![c] = "answered"]
     \/ c \notin waiters[e] /\ UNCHANGED <<waiters, reply>>
  /\ UNCHANGED <<session, callers, eof, sink, unsettled, host, reader, writer, runs>>

(* The leader closed its sending side.  What it wrote arrives first, unless it
   closed on unread frames: the reset discards what is in flight. *)
EofDue(e) ==
  /\ host[e] # "none"
  /\ ~eof[e]
  /\ ~writer[e]
  /\ \/ \A c \in Calls : stage[c][e] # "written"
     \/ ~reader[e] /\ \E c \in Calls : stage[c][e] = "wire"

(* Mutant of Eof: the event sink survives the end of the stream. *)
EofKeepsSink(e) ==
  /\ EofDue(e)
  /\ eof' = [eof EXCEPT ![e] = TRUE]
  /\ reply' = [c \in Calls |-> IF c \in waiters[e] /\ on[c] = e THEN "lost" ELSE reply[c]]
  /\ waiters' = [waiters EXCEPT ![e] = {}]
  /\ UNCHANGED <<session, callers, sink, leader, runs>>

(* Under the waiters lock: no waiter registers from here on, those that did
   are settled, and the event stream ends. *)
Eof(e) ==
  /\ EofDue(e)
  /\ eof' = [eof EXCEPT ![e] = TRUE]
  /\ reply' = [c \in Calls |-> IF c \in waiters[e] /\ on[c] = e THEN "lost" ELSE reply[c]]
  /\ waiters' = [waiters EXCEPT ![e] = {}]
  /\ sink' = [sink EXCEPT ![e] = FALSE]
  /\ UNCHANGED <<session, callers, leader, runs>>

----------------------------------------------------------------------------
(* Steps the tasks of the session, the clients and the hosts take by themselves. *)
CallerStep(c) ==
  \/ Snapshot(c) \/ RunLocal(c) \/ Register(c) \/ Send(c) \/ Await(c)

RaceStep(a) ==
  \/ Reacquire(a) \/ Promoted(a) \/ Joined(a) \/ AcquireFails(a)

StreamStep == Attach \/ Acked \/ AckTimeout \/ StreamEnds

ConnectionStep(e) ==
  \/ \E c \in Calls :
       Accept(c, e) \/ Dispatch(c, e) \/ Enqueue(c, e) \/ Write(c, e) \/ Deliver(c, e)
  \/ ReaderExits(e) \/ WriterExits(e) \/ Drain(e) \/ GraceExpires(e) \/ Eof(e)

Progress ==
  \/ \E c \in Calls : CallerStep(c)
  \/ \E a \in Actors : RaceStep(a)
  \/ StreamStep
  \/ \E e \in Epochs : ConnectionStep(e)

Request == Subscribe \/ \E c \in Calls : Invoke(c)

Fault ==
  \/ Shutdown
  \/ \E e \in Epochs : Refuse(e) \/ DropHost(e) \/ Crash(e)

Next ==
  \/ (Progress \/ Request) /\ UNCHANGED faults
  \/ Fault /\ faults < MaxFaults /\ faults' = faults + 1

Spec == Init /\ [][Next]_vars

(* The runtimes poll their tasks, timers fire and tools return.  Progress
   cannot go on for ever by itself, so fairness of the whole is enough. *)
FairSpec == Spec /\ WF_vars(Progress /\ UNCHANGED faults)

----------------------------------------------------------------------------
(* Properties *)

(* The promise of the FleetContext seam: answers mean the call ran, mutations
   run at most once and reads at most twice, through every failover. *)
Promise == INSTANCE FleetCall WITH
  status <- [c \in Calls |-> CASE pc[c] = "idle" -> "idle"
                               [] pc[c] = "done" -> out[c]
                               [] OTHER -> "pending"]

CallPromise == Promise!Spec

(* A call never waits on a connection whose reader is gone ("NOBODY will ever
   settle a newly registered waiter", client.rs): until its answer is there it
   is registered with a reader that still runs, or has not seen EOF yet. *)
NoStrandedWaiter ==
  \A c \in Calls :
    pc[c] \in {"send", "await"} /\ reply[c] = "none"
      => c \in waiters[on[c]] /\ ~eof[on[c]]

(* Re-races are serialised and each is over the racer's own loss: while one
   runs the session still follows the connection the racer lost, so no fresh
   role is ever thrown away, and a call only gives up a connection that its
   leader closed. *)
OneRacePerLoss ==
  \A a \in Actors :
    pc[a] = "racing" =>
      /\ racer = a
      /\ role = on[a]
      /\ a \in Calls => ~writer[on[a]]

(* "a promoted session must never end up following itself" (fleet.rs,
   reacquire): leadership ends only with the session. *)
PromotedNeverFollows == [][role = Local => role' \in {Local, Closed}]_vars

(* "a call is drained only once its result frame is WRITTEN" (host.rs,
   shutdown step 2): a shutdown that stops waiting because the counter is zero
   leaves no accepted call without its result on the wire.  And "calls still
   unsettled when `grace` expires are abandoned": one that gives up waiting
   abandons at least one.  A counter released early would drop an answer; one
   that leaked would hold every shutdown for its whole grace over nothing. *)
DrainIsExact ==
  [][\A e \in Epochs : host[e] = "refusing" =>
       /\ host'[e] = "drained" => \A c \in Calls : stage[c][e] \notin Unwritten
       /\ host'[e] = "abandoned" => \E c \in Calls : stage[c][e] \in Unwritten]_vars

(* "a dropped leader must surface as a structured error, never a hang"
   (client.rs): every call returns. *)
CallReturns == \A c \in Calls : pc[c] = "snapshot" ~> pc[c] = "done"

(* A subscription whose stream ended re-attaches to a live source, or ends
   with an error: it never idles on a dead connection. *)
StreamResumes ==
  pc[Sub] \notin {"idle", "done"}
    ~> \/ pc[Sub] = "done"
       \/ /\ pc[Sub] = "attached"
          /\ on[Sub] = Local \/ ~eof[on[Sub]]
=============================================================================
