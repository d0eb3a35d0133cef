------------------------ MODULE ContextSession_proofs ------------------------
(***************************************************************************)
(* Proofs about ContextSession for any number of calls, connections and     *)
(* faults: no waiter is stranded, re-races are serialised, a drained leader *)
(* has written what it accepted, and the session implements FleetCall.      *)
(***************************************************************************)
EXTENDS ContextSession, FiniteSetTheorems, TLAPS

(* The types of the state; the truth values are not needed. *)
TypeOK ==
  /\ role \in Roles
  /\ racer \in Actors \cup {Nobody}
  /\ epoch \in 0..MaxEpoch
  /\ pc \in [Actors -> CallPcs \cup SubPcs]
  /\ on \in [Actors -> Roles]
  /\ attempt \in [Calls -> {1, 2}]
  /\ out \in [Actors -> Outcomes \cup {"none"}]
  /\ reply \in [Calls -> {"none", "answered", "lost"}]
  /\ waiters \in [Epochs -> SUBSET Calls]
  /\ DOMAIN eof = Epochs /\ DOMAIN sink = Epochs
  /\ DOMAIN reader = Epochs /\ DOMAIN writer = Epochs
  /\ stage \in [Calls -> [Epochs -> Stages]]
  /\ unsettled \in [Epochs -> Int]
  /\ host \in [Epochs -> HostLife]
  /\ runs \in [Calls -> Nat]

(* A place at which a call depends on the connection of its attempt. *)
Bound == {"register", "send", "await", "reacquire", "racing"}

(* Roles and attempts name connections that were made. *)
RoleInv ==
  /\ role \in Epochs => role <= epoch
  /\ \A a \in Actors : on[a] \in Epochs => on[a] <= epoch
  /\ \A c \in Calls : pc[c] \in CallPcs
  /\ pc[Sub] \in SubPcs
  /\ \A c \in Calls : pc[c] \in Bound => on[c] \in Epochs
  /\ pc[Sub] \in {"ack", "reacquire", "racing"} => on[Sub] \in Epochs

(* Whoever races holds the role lock over the connection it lost. *)
RaceInv ==
  \A a \in Actors : pc[a] = "racing" => racer = a /\ role = on[a]

(* A call gives a connection up only after its leader closed it. *)
LossInv ==
  /\ \A e \in Epochs : eof[e] => ~writer[e] /\ e <= epoch
  /\ \A e \in Epochs : host[e] # "none" => e <= epoch
  /\ \A c \in Calls : pc[c] \in {"send", "await"} /\ reply[c] = "lost" => eof[on[c]]
  /\ \A c \in Calls : pc[c] \in {"reacquire", "racing"} => ~writer[on[c]]
  /\ NoStrandedWaiter

(* A call makes at most one attempt on a connection: a first attempt has left
   its trace nowhere else, and a retry starts on a connection without one. *)
FreshInv ==
  /\ \A c \in Calls, e \in Epochs : stage[c][e] # "none" => e <= epoch
  /\ \A c \in Calls, e \in Epochs :
       attempt[c] = 1 /\ stage[c][e] # "none"
         => on[c] = e /\ pc[c] \in {"await", "reacquire", "racing", "done"}
  /\ \A c \in Calls, e \in Epochs :
       attempt[c] = 2 /\ pc[c] = "snapshot" /\ role = e => stage[c][e] = "none"
  /\ \A c \in Calls, e \in Epochs :
       attempt[c] = 2 /\ pc[c] \in {"register", "send"} /\ on[c] = e => stage[c][e] = "none"
  /\ \A c \in Calls : pc[c] \in {"idle", "reacquire", "racing"} => attempt[c] = 1

(* What a leader has accepted and not yet written. *)
Open(e) == {c \in Calls : stage[c][e] \in Unwritten}

(* The counter counts it. *)
DrainInv == \A e \in Epochs : unsettled[e] = Cardinality(Open(e))

(* The connections on which c may still be executed. *)
Chances(c) == {e \in Epochs : stage[c][e] \in {"wire", "accepted"}}

(* The executions that the attempts made so far allow. *)
Budget(c) ==
  (attempt[c] - 1)
    + (IF pc[c] \in {"idle", "snapshot", "local", "register", "send"} THEN 0 ELSE 1)

(* The stages of a call that was executed and not dropped. *)
Ran == {"executed", "queued", "written", "read"}

(* How often a call ran, and what an answer rests on. *)
RunInv ==
  /\ \A c \in Calls : runs[c] + Cardinality(Chances(c)) <= Budget(c)
  /\ \A c \in Mutations : attempt[c] = 1
  /\ \A c \in Calls, e \in Epochs : stage[c][e] \in Ran => runs[c] > 0
  /\ \A c \in Calls : reply[c] = "answered" => runs[c] > 0
  /\ \A c \in Calls : pc[c] = "done" => out[c] \in Outcomes

(* The inductive invariant. *)
SInv == TypeOK /\ RoleInv /\ RaceInv /\ LossInv /\ FreshInv /\ DrainInv /\ RunInv

----------------------------------------------------------------------------
(* The kinds of role: this process, a connection, the end. *)
LEMMA RoleKinds ==
  /\ Epochs \subseteq Nat \ {0} /\ Local \notin Epochs /\ Closed \notin Epochs /\ Local # Closed
  /\ Roles = Epochs \cup {Local, Closed}
  /\ \A e \in Epochs : e <= MaxEpoch
BY SessionAssumption DEF Epochs, Local, Closed, Roles

(* What a lost attempt does to the caller: it re-races or reports. *)
LEMMA LostCaller ==
  ASSUME TypeOK, NEW c \in Calls, Lost(c)
  PROVE  \/ attempt[c] = 1 /\ pc' = [pc EXCEPT ![c] = "reacquire"] /\ out' = out
         \/ pc' = [pc EXCEPT ![c] = "done"] /\ out' = [out EXCEPT ![c] = "failover"]
BY DEF Lost, Goto, Return

(* What a settled re-race does to whoever started it or waited for it. *)
LEMMA ResumeActor ==
  ASSUME NEW a \in Actors, Resume(a)
  PROVE  \/ /\ a \in Mutations /\ pc' = [pc EXCEPT ![a] = "done"]
            /\ out' = [out EXCEPT ![a] = "failover"] /\ attempt' = attempt
         \/ /\ a \in Calls \ Mutations /\ pc' = [pc EXCEPT ![a] = "snapshot"]
            /\ out' = out /\ attempt' = [attempt EXCEPT ![a] = 2]
         \/ a = Sub /\ pc' = [pc EXCEPT ![a] = "attach"] /\ out' = out /\ attempt' = attempt
BY DEF Resume, Goto, Return

(* A step is a caller's, a racer's, the subscription's, the session's own, or
   one of a connection and the leader behind it. *)
LEMMA StepKinds ==
  ASSUME Next
  PROVE  \/ \E c \in Calls : Invoke(c) \/ CallerStep(c)
         \/ \E a \in Actors : RaceStep(a)
         \/ Subscribe \/ StreamStep \/ Shutdown
         \/ \E e \in Epochs : ConnectionStep(e) \/ Refuse(e) \/ DropHost(e) \/ Crash(e)
BY DEF Next, Progress, Request, Fault

(* The tuples of the model, for the steps that leave them alone. *)
LEMMA ConnectionKeeps ==
  ASSUME NEW e \in Epochs, ConnectionStep(e) \/ Refuse(e) \/ DropHost(e) \/ Crash(e)
  PROVE  UNCHANGED <<role, racer, epoch, pc, on, attempt, out>>
<1> USE DEF session, callers, client, leader
<1>1. ASSUME NEW c \in Calls,
             Accept(c, e) \/ Dispatch(c, e) \/ Enqueue(c, e) \/ Write(c, e) \/ Deliver(c, e)
      PROVE  UNCHANGED <<role, racer, epoch, pc, on, attempt, out>>
  BY <1>1 DEF Accept, Dispatch, Enqueue, Write, Deliver
<1>2. CASE ReaderExits(e) \/ WriterExits(e) \/ Eof(e) \/ Crash(e)
  BY <1>2 DEF ReaderExits, WriterExits, Eof, Crash
<1>3. CASE Drain(e) \/ GraceExpires(e) \/ Refuse(e) \/ DropHost(e)
  BY <1>3 DEF Drain, GraceExpires, Refuse, DropHost, HostLives
<1> QED BY <1>1, <1>2, <1>3 DEF ConnectionStep

(* Moving one actor, or one call at one leader, keeps the types. *)
LEMMA Typed ==
  ASSUME TypeOK
  PROVE  /\ \A a \in Actors, s \in CallPcs \cup SubPcs :
              [pc EXCEPT ![a] = s] \in [Actors -> CallPcs \cup SubPcs]
         /\ \A a \in Actors, o \in Outcomes :
              [out EXCEPT ![a] = o] \in [Actors -> Outcomes \cup {"none"}]
         /\ \A a \in Actors, r \in Roles : [on EXCEPT ![a] = r] \in [Actors -> Roles]
         /\ \A c \in Calls, e \in Epochs, s \in Stages :
              [stage EXCEPT ![c][e] = s] \in [Calls -> [Epochs -> Stages]]
BY DEF TypeOK

(* Every step keeps the types of the state. *)
LEMMA TypeStep == TypeOK /\ RoleInv /\ [Next]_vars => TypeOK'
<1> SUFFICES ASSUME TypeOK, RoleInv, [Next]_vars PROVE TypeOK'
  OBVIOUS
<1> USE DEF session, callers, client, leader
<1>a. Calls \subseteq Actors /\ Sub \in Actors /\ Mutations \subseteq Calls
  BY SessionAssumption DEF Actors
<1>p. {"idle", "snapshot", "local", "register", "send", "await", "reacquire", "racing", "done",
       "attach", "ack", "attached"} = CallPcs \cup SubPcs
  BY DEF CallPcs, SubPcs
<1>o. {"answered", "failover", "acquire", "closed"} \subseteq Outcomes \cup {"none"}
  BY DEF Outcomes
<1>0. CASE UNCHANGED vars
  BY <1>0 DEF vars, TypeOK
<1>1. ASSUME NEW c \in Calls, Invoke(c) PROVE TypeOK'
  BY <1>1, <1>a, <1>p DEF Invoke, Goto, TypeOK
<1>2. ASSUME NEW c \in Calls, Snapshot(c) PROVE TypeOK'
  <2>1. on' = [on EXCEPT ![c] = role] /\ UNCHANGED <<session, attempt, client, leader, runs>>
    BY <1>2 DEF Snapshot
  <2>2. CASE pc' = [pc EXCEPT ![c] = "done"] /\ out' = [out EXCEPT ![c] = "closed"]
    BY <1>a, <1>p, <1>o, <2>1, <2>2, Typed DEF TypeOK
  <2>3. CASE pc' = [pc EXCEPT ![c] = "local"] /\ out' = out
    BY <1>a, <1>p, <1>o, <2>1, <2>3, Typed DEF TypeOK
  <2>4. CASE pc' = [pc EXCEPT ![c] = "register"] /\ out' = out
    BY <1>a, <1>p, <1>o, <2>1, <2>4, Typed DEF TypeOK
  <2> QED BY <1>2, <2>2, <2>3, <2>4 DEF Snapshot, Goto, Return
<1>3. ASSUME NEW c \in Calls, RunLocal(c) PROVE TypeOK'
  BY <1>3, <1>a, <1>p, <1>o DEF RunLocal, Goto, Return, TypeOK
<1>l. ASSUME NEW c \in Calls, Lost(c)
      PROVE  pc' \in [Actors -> CallPcs \cup SubPcs] /\ out' \in [Actors -> Outcomes \cup {"none"}]
  <2>1. CASE pc' = [pc EXCEPT ![c] = "reacquire"] /\ out' = out
    BY <1>a, <1>p, <2>1, Typed DEF TypeOK
  <2>2. CASE pc' = [pc EXCEPT ![c] = "done"] /\ out' = [out EXCEPT ![c] = "failover"]
    BY <1>a, <1>p, <1>o, <2>2, Typed DEF TypeOK
  <2> QED BY <1>l, <2>1, <2>2, LostCaller
<1>4. ASSUME NEW c \in Calls, Register(c) PROVE TypeOK'
  <2>0. UNCHANGED <<session, on, attempt, eof, sink, leader, runs>>
    BY <1>4 DEF Register
  <2>1. CASE Lost(c) /\ UNCHANGED <<reply, waiters>>
    BY <1>l, <2>0, <2>1 DEF TypeOK
  <2>2. CASE /\ Goto(c, "send") /\ UNCHANGED out
             /\ waiters' = [waiters EXCEPT ![on[c]] = @ \cup {c}]
             /\ reply' = [reply EXCEPT ![c] = "none"]
    <3>1. pc' \in [Actors -> CallPcs \cup SubPcs]
      BY <1>a, <1>p, <2>2, Typed DEF Goto
    <3>2. waiters' \in [Epochs -> SUBSET Calls]
      BY <2>2 DEF TypeOK
    <3>3. reply' \in [Calls -> {"none", "answered", "lost"}]
      BY <2>2 DEF TypeOK
    <3> QED BY <2>0, <2>2, <3>1, <3>2, <3>3 DEF TypeOK
  <2> QED BY <1>4, <2>1, <2>2 DEF Register
<1>5. ASSUME NEW c \in Calls, Send(c) PROVE TypeOK'
  <2>0. UNCHANGED <<session, on, attempt, client, unsettled, host, reader, writer, runs>>
    BY <1>5 DEF Send
  <2>1. CASE Lost(c) /\ UNCHANGED stage
    BY <1>l, <2>0, <2>1 DEF TypeOK
  <2>2. CASE Goto(c, "await") /\ stage' = [stage EXCEPT ![c][on[c]] = "wire"] /\ UNCHANGED out
    BY <1>5, <1>a, <1>p, <2>2 DEF Send, Goto, TypeOK, Stages
  <2> QED BY <1>5, <2>1, <2>2 DEF Send
<1>6. ASSUME NEW c \in Calls, Await(c) PROVE TypeOK'
  <2>0. /\ UNCHANGED <<session, on, attempt, waiters, eof, sink, leader, runs>>
        /\ reply' = [reply EXCEPT ![c] = "none"]
    BY <1>6 DEF Await
  <2>1. CASE Return(c, "answered")
    BY <1>6, <1>a, <1>p, <1>o, <2>1 DEF Await, Return, Goto, TypeOK
  <2>2. CASE Lost(c)
    BY <1>l, <2>0, <2>2 DEF TypeOK
  <2> QED BY <1>6, <2>1, <2>2 DEF Await
<1>7. ASSUME NEW a \in Actors, Resume(a)
      PROVE  pc' \in [Actors -> CallPcs \cup SubPcs] /\ attempt' \in [Calls -> {1, 2}]
             /\ out' \in [Actors -> Outcomes \cup {"none"}]
  <2>1. CASE /\ pc' = [pc EXCEPT ![a] = "done"] /\ out' = [out EXCEPT ![a] = "failover"]
             /\ attempt' = attempt
    BY <1>p, <1>o, <2>1, Typed DEF TypeOK
  <2>2. CASE /\ a \in Calls /\ pc' = [pc EXCEPT ![a] = "snapshot"] /\ out' = out
             /\ attempt' = [attempt EXCEPT ![a] = 2]
    BY <1>p, <1>o, <2>2, Typed DEF TypeOK
  <2>3. CASE pc' = [pc EXCEPT ![a] = "attach"] /\ out' = out /\ attempt' = attempt
    BY <1>p, <1>o, <2>3, Typed DEF TypeOK
  <2> QED BY <1>7, <2>1, <2>2, <2>3, ResumeActor
<1>8. ASSUME NEW a \in Actors, Reacquire(a) PROVE TypeOK'
  <2>1. UNCHANGED <<role, epoch, on, client, leader, runs>> /\ racer' \in {racer, a}
    BY <1>8 DEF Reacquire
  <2>2. CASE Resume(a)
    BY <1>7, <2>1, <2>2 DEF TypeOK
  <2>3. CASE Return(a, "closed") /\ UNCHANGED attempt
    BY <1>p, <1>o, <2>1, <2>3 DEF TypeOK, Return, Goto
  <2>4. CASE Goto(a, "racing") /\ UNCHANGED <<attempt, out>>
    BY <1>p, <2>1, <2>4 DEF TypeOK, Goto
  <2> QED BY <1>8, <2>2, <2>3, <2>4 DEF Reacquire
<1>9. ASSUME NEW a \in Actors, Promoted(a) PROVE TypeOK'
  <2>1. UNCHANGED <<epoch, on, client, leader, runs>> /\ racer' = Nobody /\ role' = Local /\ Resume(a)
    BY <1>9 DEF Promoted
  <2> QED BY <1>7, <2>1, RoleKinds DEF TypeOK
<1>10. ASSUME NEW a \in Actors, Joined(a) PROVE TypeOK'
  <2>1. /\ UNCHANGED <<on, client, stage, unsettled, runs>> /\ racer' = Nobody /\ Resume(a)
        /\ epoch < MaxEpoch /\ epoch' = epoch + 1 /\ role' = epoch + 1
        /\ host' = [host EXCEPT ![epoch + 1] = "up"]
        /\ reader' = [reader EXCEPT ![epoch + 1] = TRUE]
        /\ writer' = [writer EXCEPT ![epoch + 1] = TRUE]
    BY <1>10 DEF Joined
  <2>2. epoch + 1 \in Epochs /\ epoch + 1 \in 0..MaxEpoch /\ epoch + 1 \in Roles
    BY <2>1, SessionAssumption DEF TypeOK, Epochs, Roles
  <2>3. host' \in [Epochs -> HostLife]
    BY <2>1, <2>2 DEF TypeOK, HostLife
  <2>4. DOMAIN reader' = Epochs /\ DOMAIN writer' = Epochs
    BY <2>1 DEF TypeOK
  <2> QED BY <1>7, <2>1, <2>2, <2>3, <2>4 DEF TypeOK
<1>11. ASSUME NEW a \in Actors, AcquireFails(a) PROVE TypeOK'
  BY <1>11, <1>p, <1>o DEF AcquireFails, Return, Goto, TypeOK
<1>12. CASE Shutdown
  BY <1>12, RoleKinds DEF Shutdown, TypeOK
<1>13. CASE Subscribe
  BY <1>13, <1>a, <1>p DEF Subscribe, Goto, TypeOK
<1>14. CASE Attach
  <2>1. on' = [on EXCEPT ![Sub] = role] /\ UNCHANGED <<session, attempt, reply, waiters, eof, leader, runs>>
    BY <1>14 DEF Attach
  <2>2. DOMAIN sink' = Epochs
    BY <1>14 DEF Attach, TypeOK
  <2>3. \/ pc' = [pc EXCEPT ![Sub] = "done"] /\ out' = [out EXCEPT ![Sub] = "closed"]
        \/ out' = out /\ \E s \in {"attached", "reacquire", "ack"} : pc' = [pc EXCEPT ![Sub] = s]
    BY <1>14 DEF Attach, Goto, Return
  <2> QED BY <1>a, <1>p, <1>o, <2>1, <2>2, <2>3 DEF TypeOK
<1>15. CASE Acked \/ AckTimeout \/ StreamEnds
  BY <1>15, <1>a, <1>p DEF Acked, AckTimeout, StreamEnds, Goto, TypeOK
<1>16. ASSUME NEW c \in Calls, NEW e \in Epochs,
              Accept(c, e) \/ Dispatch(c, e) \/ Enqueue(c, e) \/ Write(c, e)
       PROVE  TypeOK'
  <2>1. UNCHANGED <<session, callers, client, host, reader, writer>>
    BY <1>16 DEF Accept, Dispatch, Enqueue, Write
  <2>2. stage' \in [Calls -> [Epochs -> Stages]]
    <3>1. \E s \in {"accepted", "executed", "queued", "dropped", "written"} :
             stage' = [stage EXCEPT ![c][e] = s]
      BY <1>16 DEF Accept, Dispatch, Enqueue, Write
    <3> QED BY <3>1, Typed DEF Stages
  <2>3. unsettled' \in [Epochs -> Int] /\ runs' \in [Calls -> Nat]
    <3>1. CASE unsettled' = unsettled /\ runs' = [runs EXCEPT ![c] = @ + 1]
      BY <3>1 DEF TypeOK
    <3>2. CASE unsettled' = [unsettled EXCEPT ![e] = @ + 1] /\ runs' = runs
      BY <3>2 DEF TypeOK
    <3>3. CASE unsettled' = [unsettled EXCEPT ![e] = @ - 1] /\ runs' = runs
      BY <3>3 DEF TypeOK
    <3>4. CASE unsettled' = unsettled /\ runs' = runs
      BY <3>4 DEF TypeOK
    <3> QED BY <1>16, <3>1, <3>2, <3>3, <3>4 DEF Accept, Dispatch, Enqueue, Write
  <2> QED BY <2>1, <2>2, <2>3 DEF TypeOK
<1>17. ASSUME NEW c \in Calls, NEW e \in Epochs, Deliver(c, e) PROVE TypeOK'
  <2>0. /\ UNCHANGED <<session, callers, eof, sink, unsettled, host, reader, writer, runs>>
        /\ stage' = [stage EXCEPT ![c][e] = "read"]
    BY <1>17 DEF Deliver
  <2>1. stage' \in [Calls -> [Epochs -> Stages]]
    BY <2>0, Typed DEF Stages
  <2>2. CASE /\ waiters' = [waiters EXCEPT ![e] = @ \ {c}]
             /\ reply' = [reply EXCEPT ![c] = "answered"]
    <3>1. waiters' \in [Epochs -> SUBSET Calls]
      BY <2>2 DEF TypeOK
    <3>2. reply' \in [Calls -> {"none", "answered", "lost"}]
      BY <2>2 DEF TypeOK
    <3> QED BY <2>0, <2>1, <3>1, <3>2 DEF TypeOK
  <2>3. CASE UNCHANGED <<waiters, reply>>
    BY <2>0, <2>1, <2>3 DEF TypeOK
  <2> QED BY <1>17, <2>2, <2>3 DEF Deliver
<1>18. ASSUME NEW e \in Epochs, ReaderExits(e) PROVE TypeOK'
  BY <1>18 DEF ReaderExits, TypeOK
<1>19. ASSUME NEW e \in Epochs, WriterExits(e) PROVE TypeOK'
  <2>1. stage' \in [Calls -> [Epochs -> Stages]]
    BY <1>19 DEF WriterExits, TypeOK, Stages
  <2>2. unsettled' \in [Epochs -> Int]
    <3>1. IsFiniteSet(Queue(e))
      BY SessionAssumption, FS_Subset DEF Queue
    <3>2. Cardinality(Queue(e)) \in Int
      BY <3>1, FS_CardinalityType
    <3> QED BY <1>19, <3>2 DEF WriterExits, TypeOK
  <2> QED BY <1>19, <2>1, <2>2 DEF WriterExits, TypeOK
<1>20. ASSUME NEW e \in Epochs, Drain(e) \/ GraceExpires(e) \/ Refuse(e) \/ DropHost(e) PROVE TypeOK'
  BY <1>20 DEF Drain, GraceExpires, Refuse, DropHost, HostLives, TypeOK, HostLife
<1>21. ASSUME NEW e \in Epochs, Crash(e) PROVE TypeOK'
  <2>1. stage' \in [Calls -> [Epochs -> Stages]]
    BY <1>21 DEF Crash, TypeOK, Stages
  <2> QED BY <1>21, <2>1 DEF Crash, TypeOK, HostLife
<1>22. ASSUME NEW e \in Epochs, Eof(e) PROVE TypeOK'
  BY <1>22 DEF Eof, TypeOK
<1> QED
  BY <1>0, <1>1, <1>2, <1>3, <1>4, <1>5, <1>6, <1>8, <1>9, <1>10, <1>11, <1>12, <1>13, <1>14, <1>15,
     <1>16, <1>17, <1>18, <1>19, <1>20, <1>21, <1>22, StepKinds
     DEF CallerStep, RaceStep, StreamStep, ConnectionStep

----------------------------------------------------------------------------
(* What a call's own step shows of itself: nothing beyond the caller. *)
Quiet(c) ==
  stage'[c] = stage[c] /\ runs'[c] = runs[c] /\ reply'[c] = reply[c] /\ waiters' = waiters

(* The moves of one call, field by field. *)
AtInvoke(c) == pc[c] = "idle" /\ pc'[c] = "snapshot" /\ on'[c] = on[c] /\ Quiet(c)

AtSnapshot(c) ==
  /\ pc[c] = "snapshot" /\ on'[c] = role /\ Quiet(c)
  /\ \/ role = Local /\ pc'[c] = "local"
     \/ role \in Epochs /\ pc'[c] = "register"
     \/ role = Closed /\ pc'[c] = "done" /\ out'[c] = "closed"

AtLocal(c) ==
  /\ pc[c] = "local" /\ pc'[c] = "done" /\ out'[c] = "answered" /\ on'[c] = on[c]
  /\ runs'[c] = runs[c] + 1 /\ stage'[c] = stage[c] /\ reply'[c] = reply[c] /\ waiters' = waiters

AtLoss(c) ==
  /\ \/ pc[c] = "register" /\ eof[on[c]]
     \/ pc[c] = "send" /\ ~writer[on[c]]
     \/ pc[c] = "await" /\ reply[c] = "lost"
  /\ \/ attempt[c] = 1 /\ pc'[c] = "reacquire"
     \/ attempt[c] = 2 /\ pc'[c] = "done" /\ out'[c] = "failover"
  /\ on'[c] = on[c] /\ runs'[c] = runs[c] /\ stage'[c] = stage[c] /\ waiters' = waiters
  /\ reply'[c] \in {reply[c], "none"}

AtRegister(c) ==
  /\ pc[c] = "register" /\ ~eof[on[c]] /\ pc'[c] = "send" /\ on'[c] = on[c]
  /\ reply'[c] = "none" /\ c \in waiters'[on[c]]
  /\ runs'[c] = runs[c] /\ stage'[c] = stage[c]

AtSend(c) ==
  /\ pc[c] = "send" /\ pc'[c] = "await" /\ on'[c] = on[c]
  /\ stage'[c] = [stage[c] EXCEPT ![on[c]] = "wire"]
  /\ runs'[c] = runs[c] /\ reply'[c] = reply[c] /\ waiters' = waiters

AtAnswer(c) ==
  /\ pc[c] = "await" /\ reply[c] = "answered"
  /\ pc'[c] = "done" /\ out'[c] = "answered" /\ on'[c] = on[c]
  /\ reply'[c] = "none" /\ runs'[c] = runs[c] /\ stage'[c] = stage[c] /\ waiters' = waiters

(* A call's own step leaves the session, the leaders and everybody else alone. *)
CallerFrame(c) ==
  /\ UNCHANGED <<role, racer, epoch, attempt, eof, sink, unsettled, host, reader, writer>>
  /\ \A b \in Actors \ {c} : pc'[b] = pc[b] /\ on'[b] = on[b] /\ out'[b] = out[b]
  /\ \A d \in Calls \ {c} :
       /\ reply'[d] = reply[d] /\ runs'[d] = runs[d] /\ stage'[d] = stage[d]
       /\ \A e \in Epochs : d \in waiters[e] => d \in waiters'[e]

(* Each step of a call is one of its moves, and only that. *)
LEMMA CallerMoves ==
  ASSUME TypeOK, RoleInv, NEW c \in Calls, Invoke(c) \/ CallerStep(c)
  PROVE  /\ CallerFrame(c)
         /\ \/ AtInvoke(c) \/ AtSnapshot(c) \/ AtLocal(c) \/ AtLoss(c) \/ AtRegister(c)
            \/ AtSend(c) \/ AtAnswer(c)
<1> USE DEF session, callers, client, leader
<1>a. c \in Actors /\ Calls \subseteq Actors
  BY DEF Actors
<1>d. DOMAIN pc = Actors /\ DOMAIN on = Actors /\ DOMAIN out = Actors /\ DOMAIN attempt = Calls
      /\ DOMAIN reply = Calls /\ DOMAIN waiters = Epochs /\ DOMAIN stage = Calls /\ DOMAIN runs = Calls
  BY DEF TypeOK
<1>1. CASE Invoke(c)
  BY <1>1, <1>a, <1>d DEF Invoke, Goto, CallerFrame, AtInvoke, Quiet
<1>2. CASE Snapshot(c)
  BY <1>2, <1>a, <1>d DEF Snapshot, Goto, Return, CallerFrame, AtSnapshot, Quiet
<1>3. CASE RunLocal(c)
  BY <1>3, <1>a, <1>d DEF RunLocal, Goto, Return, CallerFrame, AtLocal
<1>4. CASE Register(c)
  <2>1. on[c] \in Epochs
    BY <1>4 DEF Register, RoleInv, Bound
  <2>2. CASE eof[on[c]] /\ Lost(c) /\ UNCHANGED <<reply, waiters>>
    BY <1>4, <1>a, <1>d, <2>2 DEF Register, Lost, Goto, Return, CallerFrame, AtLoss
  <2>3. CASE /\ ~eof[on[c]] /\ Goto(c, "send") /\ UNCHANGED out
             /\ waiters' = [waiters EXCEPT ![on[c]] = @ \cup {c}]
             /\ reply' = [reply EXCEPT ![c] = "none"]
    BY <1>4, <1>a, <1>d, <2>1, <2>3 DEF Register, Goto, CallerFrame, AtRegister
  <2> QED BY <1>4, <2>2, <2>3 DEF Register
<1>5. CASE Send(c)
  <2>2. CASE ~writer[on[c]] /\ Lost(c) /\ UNCHANGED stage
    BY <1>5, <1>a, <1>d, <2>2 DEF Send, Lost, Goto, Return, CallerFrame, AtLoss
  <2>3. CASE Goto(c, "await") /\ stage' = [stage EXCEPT ![c][on[c]] = "wire"] /\ UNCHANGED out
    BY <1>5, <1>a, <1>d, <2>3 DEF Send, Goto, CallerFrame, AtSend
  <2> QED BY <1>5, <2>2, <2>3 DEF Send
<1>6. CASE Await(c)
  <2>2. CASE reply[c] = "lost" /\ Lost(c)
    BY <1>6, <1>a, <1>d, <2>2 DEF Await, Lost, Goto, Return, CallerFrame, AtLoss
  <2>3. CASE reply[c] = "answered" /\ Return(c, "answered")
    BY <1>6, <1>a, <1>d, <2>3 DEF Await, Goto, Return, CallerFrame, AtAnswer
  <2> QED BY <1>6, <2>2, <2>3 DEF Await
<1> QED BY <1>1, <1>2, <1>3, <1>4, <1>5, <1>6 DEF CallerStep

----------------------------------------------------------------------------
(* The moves of a racer, field by field. *)
AtResume(a) ==
  \/ a \in Mutations /\ pc'[a] = "done" /\ out'[a] = "failover" /\ attempt'[a] = attempt[a]
  \/ a \in Calls \ Mutations /\ pc'[a] = "snapshot" /\ attempt'[a] = 2
  \/ a = Sub /\ pc'[a] = "attach"

AtAdopt(a) ==
  /\ pc[a] = "reacquire" /\ racer' = racer /\ role' = role /\ epoch' = epoch
  /\ role # on[a] /\ AtResume(a)

AtClosed(a) ==
  /\ pc[a] = "reacquire" /\ racer' = racer /\ role' = role /\ epoch' = epoch
  /\ pc'[a] = "done" /\ out'[a] = "closed" /\ (a \in Calls => attempt'[a] = attempt[a])

AtStart(a) ==
  /\ pc[a] = "reacquire" /\ racer = Nobody /\ racer' = a /\ role' = role /\ epoch' = epoch
  /\ role = on[a] /\ pc'[a] = "racing" /\ (a \in Calls => attempt'[a] = attempt[a])

AtPromoted(a) ==
  /\ pc[a] = "racing" /\ racer' = Nobody /\ role' = Local /\ epoch' = epoch /\ AtResume(a)

AtJoined(a) ==
  /\ pc[a] = "racing" /\ racer' = Nobody /\ role' = epoch + 1 /\ epoch' = epoch + 1
  /\ epoch + 1 \in Epochs /\ AtResume(a)

AtFails(a) ==
  /\ pc[a] = "racing" /\ racer' = Nobody /\ role' = role /\ epoch' = epoch
  /\ pc'[a] = "done" /\ out'[a] = "acquire" /\ (a \in Calls => attempt'[a] = attempt[a])

(* A racer's step leaves the calls in flight and the connections made alone. *)
RacerFrame(a) ==
  /\ UNCHANGED <<on, reply, waiters, eof, sink, stage, unsettled, runs>>
  /\ \A b \in Actors \ {a} : pc'[b] = pc[b] /\ out'[b] = out[b]
  /\ \A d \in Calls \ {a} : attempt'[d] = attempt[d]
  /\ \A e \in Epochs : host'[e] = host[e] \/ (e = epoch' /\ epoch' = epoch + 1)
  /\ \A e \in Epochs : e # epoch + 1 => writer'[e] = writer[e]

(* Each step of a re-race is one of these moves, and only that. *)
LEMMA RacerMoves ==
  ASSUME TypeOK, RoleInv, NEW a \in Actors, RaceStep(a)
  PROVE  /\ RacerFrame(a)
         /\ \/ AtAdopt(a) \/ AtClosed(a) \/ AtStart(a) \/ AtPromoted(a) \/ AtJoined(a) \/ AtFails(a)
<1> USE DEF session, callers, client, leader
<1>a. Calls \subseteq Actors /\ Mutations \subseteq Calls /\ Sub \notin Calls
  BY SessionAssumption DEF Actors
<1>d. /\ DOMAIN pc = Actors /\ DOMAIN out = Actors /\ DOMAIN attempt = Calls
      /\ DOMAIN host = Epochs /\ DOMAIN writer = Epochs /\ DOMAIN reader = Epochs
  BY DEF TypeOK
<1>r. ASSUME Resume(a)
      PROVE  /\ AtResume(a)
             /\ \A b \in Actors \ {a} : pc'[b] = pc[b] /\ out'[b] = out[b]
             /\ \A d \in Calls \ {a} : attempt'[d] = attempt[d]
  <2>1. CASE /\ a \in Mutations /\ pc' = [pc EXCEPT ![a] = "done"]
             /\ out' = [out EXCEPT ![a] = "failover"] /\ attempt' = attempt
    BY <1>a, <1>d, <2>1 DEF AtResume
  <2>2. CASE /\ a \in Calls \ Mutations /\ pc' = [pc EXCEPT ![a] = "snapshot"]
             /\ out' = out /\ attempt' = [attempt EXCEPT ![a] = 2]
    BY <1>a, <1>d, <2>2 DEF AtResume
  <2>3. CASE a = Sub /\ pc' = [pc EXCEPT ![a] = "attach"] /\ out' = out /\ attempt' = attempt
    BY <1>a, <1>d, <2>3 DEF AtResume
  <2> QED BY <1>r, <2>1, <2>2, <2>3, ResumeActor
<1>n. on[a] \in Epochs \/ pc[a] # "reacquire"
  BY DEF RoleInv, Actors, Bound
<1>1. CASE Reacquire(a)
  <2>0. UNCHANGED <<role, epoch, on, client, leader, runs>> /\ pc[a] = "reacquire" /\ racer = Nobody
    BY <1>1 DEF Reacquire, RoleUnlocked
  <2>1. CASE Resume(a) /\ UNCHANGED racer /\ role = Local
    BY <1>r, <1>n, <2>0, <2>1, RoleKinds DEF RacerFrame, AtAdopt
  <2>2. CASE Resume(a) /\ UNCHANGED racer /\ role \in Epochs \ {on[a]}
    BY <1>r, <2>0, <2>2 DEF RacerFrame, AtAdopt
  <2>3. CASE Return(a, "closed") /\ UNCHANGED <<attempt, racer>>
    BY <1>d, <2>0, <2>3 DEF RacerFrame, AtClosed, Return, Goto
  <2>4. CASE role = on[a] /\ racer' = a /\ Goto(a, "racing") /\ UNCHANGED <<attempt, out>>
    BY <1>d, <2>0, <2>4 DEF RacerFrame, AtStart, Goto
  <2> QED BY <1>1, <2>1, <2>2, <2>3, <2>4 DEF Reacquire
<1>2. CASE Promoted(a)
  BY <1>r, <1>2 DEF Promoted, RacerFrame, AtPromoted
<1>3. CASE Joined(a)
  <2>1. epoch + 1 \in Epochs
    BY <1>3, SessionAssumption DEF Joined, TypeOK, Epochs
  <2> QED BY <1>r, <1>d, <1>3, <2>1 DEF Joined, RacerFrame, AtJoined
<1>4. CASE AcquireFails(a)
  BY <1>d, <1>4 DEF AcquireFails, Return, Goto, RacerFrame, AtFails
<1> QED BY <1>1, <1>2, <1>3, <1>4 DEF RaceStep

----------------------------------------------------------------------------
(* The subscription touches its own place, its connection and its sink. *)
StreamFrame ==
  /\ UNCHANGED <<role, racer, epoch, attempt, reply, waiters, eof, stage, unsettled, host, writer, runs>>
  /\ \A c \in Calls : pc'[c] = pc[c] /\ on'[c] = on[c] /\ out'[c] = out[c]
  /\ pc'[Sub] # "racing" /\ pc'[Sub] \in SubPcs
  /\ on'[Sub] \in {on[Sub], role}
  /\ pc'[Sub] \in {"ack", "reacquire"} => on'[Sub] \in Epochs

(* Each step of the subscription stays within that frame. *)
LEMMA StreamMoves ==
  ASSUME TypeOK, RoleInv, Subscribe \/ StreamStep
  PROVE  StreamFrame
<1> USE DEF session, callers, client, leader
<1>a. Calls \subseteq Actors /\ Sub \in Actors /\ Sub \notin Calls
  BY SessionAssumption DEF Actors
<1>d. DOMAIN pc = Actors /\ DOMAIN on = Actors /\ DOMAIN out = Actors
  BY DEF TypeOK
<1>1. CASE Subscribe
  BY <1>a, <1>d, <1>1 DEF Subscribe, Goto, StreamFrame, SubPcs
<1>2. CASE Attach
  <2>0. /\ UNCHANGED <<session, attempt, reply, waiters, eof, leader, runs>>
        /\ on' = [on EXCEPT ![Sub] = role]
    BY <1>2 DEF Attach
  <2>1. CASE Goto(Sub, "attached") /\ UNCHANGED out
    BY <1>a, <1>d, <2>0, <2>1 DEF Goto, StreamFrame, SubPcs
  <2>2. CASE Return(Sub, "closed")
    BY <1>a, <1>d, <2>0, <2>2 DEF Goto, Return, StreamFrame, SubPcs
  <2>3. CASE role \in Epochs /\ Goto(Sub, "reacquire") /\ UNCHANGED out
    BY <1>a, <1>d, <2>0, <2>3 DEF Goto, StreamFrame, SubPcs
  <2>4. CASE role \in Epochs /\ Goto(Sub, "ack") /\ UNCHANGED out
    BY <1>a, <1>d, <2>0, <2>4 DEF Goto, StreamFrame, SubPcs
  <2> QED BY <1>2, <2>1, <2>2, <2>3, <2>4 DEF Attach
<1>3. CASE Acked
  BY <1>a, <1>d, <1>3 DEF Acked, Goto, StreamFrame, SubPcs
<1>4. CASE AckTimeout
  BY <1>a, <1>d, <1>4 DEF AckTimeout, Goto, StreamFrame, SubPcs, RoleInv
<1>5. CASE StreamEnds
  BY <1>a, <1>d, <1>5 DEF StreamEnds, Goto, StreamFrame, SubPcs
<1> QED BY <1>1, <1>2, <1>3, <1>4, <1>5 DEF StreamStep

----------------------------------------------------------------------------
(* Every step keeps roles and attempts within the connections made. *)
LEMMA RoleStep == TypeOK /\ RoleInv /\ [Next]_vars => RoleInv'
<1> SUFFICES ASSUME TypeOK, RoleInv, [Next]_vars PROVE RoleInv'
  OBVIOUS
<1>a. Calls \subseteq Actors /\ Sub \in Actors /\ Actors = Calls \cup {Sub} /\ Sub \notin Calls
  BY SessionAssumption DEF Actors
<1>e. epoch \in Nat /\ Epochs \subseteq Nat
  BY RoleKinds DEF TypeOK
<1>0. CASE UNCHANGED vars
  BY <1>0 DEF vars, session, callers, RoleInv
<1>1. ASSUME NEW c \in Calls, Invoke(c) \/ CallerStep(c) PROVE RoleInv'
  <2>1. CallerFrame(c)
    BY <1>1, CallerMoves
  <2>2. /\ on'[c] \in Epochs => on'[c] <= epoch
        /\ pc'[c] \in CallPcs
        /\ pc'[c] \in Bound => on'[c] \in Epochs
    <3> USE DEF CallPcs, Bound, RoleInv
    <3>1. CASE AtInvoke(c)
      BY <1>a, <3>1 DEF AtInvoke
    <3>2. CASE AtSnapshot(c)
      BY <3>2 DEF AtSnapshot
    <3>3. CASE AtLocal(c)
      BY <1>a, <3>3 DEF AtLocal
    <3>4. CASE AtLoss(c)
      BY <1>a, <3>4 DEF AtLoss
    <3>5. CASE AtRegister(c)
      BY <1>a, <3>5 DEF AtRegister
    <3>6. CASE AtSend(c)
      BY <1>a, <3>6 DEF AtSend
    <3>7. CASE AtAnswer(c)
      BY <1>a, <3>7 DEF AtAnswer
    <3> QED BY <1>1, <3>1, <3>2, <3>3, <3>4, <3>5, <3>6, <3>7, CallerMoves
  <2> QED BY <1>a, <2>1, <2>2 DEF CallerFrame, RoleInv
<1>2. ASSUME NEW a \in Actors, RaceStep(a) PROVE RoleInv'
  <2>1. RacerFrame(a)
    BY <1>2, RacerMoves
  <2>2. /\ epoch' >= epoch /\ epoch' \in Nat
        /\ role' \in Epochs => role' <= epoch'
        /\ a \in Calls => pc'[a] \in CallPcs /\ (pc'[a] \in Bound => on[a] \in Epochs)
        /\ a = Sub => pc'[a] \in SubPcs
        /\ a = Sub /\ pc'[a] \in {"ack", "reacquire", "racing"} => on[a] \in Epochs
    <3> USE DEF CallPcs, SubPcs, Bound, RoleInv, AtResume
    <3>a. Mutations \subseteq Calls
      BY SessionAssumption
    <3>1. CASE AtAdopt(a)
      BY <1>a, <1>e, <3>a, <3>1 DEF AtAdopt
    <3>2. CASE AtClosed(a)
      BY <1>a, <1>e, <3>2 DEF AtClosed
    <3>3. CASE AtStart(a)
      BY <1>a, <1>e, <3>3 DEF AtStart
    <3>4. CASE AtPromoted(a)
      BY <1>a, <1>e, <3>a, <3>4, RoleKinds DEF AtPromoted
    <3>5. CASE AtJoined(a)
      BY <1>a, <1>e, <3>a, <3>5 DEF AtJoined
    <3>6. CASE AtFails(a)
      BY <1>a, <1>e, <3>6 DEF AtFails
    <3> QED BY <1>2, <3>1, <3>2, <3>3, <3>4, <3>5, <3>6, RacerMoves
  <2>3. \A b \in Actors : on'[b] \in Epochs => on'[b] <= epoch'
    <3>1. on' = on
      BY <2>1 DEF RacerFrame
    <3>2. \A n \in Epochs : n <= epoch => n <= epoch'
      BY <1>e, <2>2
    <3>3. \A b \in Actors : on[b] \in Epochs => on[b] <= epoch
      BY DEF RoleInv
    <3> QED BY <3>1, <3>2, <3>3
  <2>4. \A c \in Calls : pc'[c] \in CallPcs /\ (pc'[c] \in Bound => on'[c] \in Epochs)
    BY <1>a, <2>1, <2>2 DEF RacerFrame, RoleInv
  <2>5. pc'[Sub] \in SubPcs /\ (pc'[Sub] \in {"ack", "reacquire", "racing"} => on'[Sub] \in Epochs)
    BY <1>a, <2>1, <2>2 DEF RacerFrame, RoleInv
  <2> QED BY <2>2, <2>3, <2>4, <2>5 DEF RoleInv
<1>3. CASE Subscribe \/ StreamStep
  <2>1. StreamFrame
    BY <1>3, StreamMoves
  <2> QED BY <1>a, <2>1 DEF StreamFrame, RoleInv
<1>4. CASE Shutdown
  BY <1>4, RoleKinds DEF Shutdown, callers, RoleInv
<1>5. ASSUME NEW e \in Epochs, ConnectionStep(e) \/ Refuse(e) \/ DropHost(e) \/ Crash(e)
      PROVE  RoleInv'
  BY <1>5, ConnectionKeeps DEF RoleInv
<1> QED BY <1>0, <1>1, <1>2, <1>3, <1>4, <1>5, StepKinds

(* Every step keeps the re-races serialised. *)
LEMMA SerialStep == TypeOK /\ RoleInv /\ RaceInv /\ [Next]_vars => RaceInv'
<1> SUFFICES ASSUME TypeOK, RoleInv, RaceInv, [Next]_vars PROVE RaceInv'
  OBVIOUS
<1>a. Calls \subseteq Actors /\ Actors = Calls \cup {Sub} /\ Sub \notin Calls /\ Nobody \notin Actors
  BY SessionAssumption DEF Actors
<1>0. CASE UNCHANGED vars
  BY <1>0 DEF vars, session, callers, RaceInv
<1>1. ASSUME NEW c \in Calls, Invoke(c) \/ CallerStep(c) PROVE RaceInv'
  <2>1. CallerFrame(c)
    BY <1>1, CallerMoves
  <2>2. pc'[c] # "racing"
    BY <1>1, CallerMoves
       DEF AtInvoke, AtSnapshot, AtLocal, AtLoss, AtRegister, AtSend, AtAnswer
  <2> QED BY <1>a, <2>1, <2>2 DEF CallerFrame, RaceInv
<1>2. ASSUME NEW a \in Actors, RaceStep(a) PROVE RaceInv'
  <2>1. RacerFrame(a)
    BY <1>2, RacerMoves
  <2>2. CASE AtAdopt(a) \/ AtClosed(a)
    BY <2>1, <2>2 DEF RacerFrame, AtAdopt, AtClosed, AtResume, RaceInv
  <2>3. CASE AtStart(a)
    BY <1>a, <2>1, <2>3 DEF RacerFrame, AtStart, RaceInv
  <2>4. CASE AtPromoted(a) \/ AtJoined(a) \/ AtFails(a)
    <3>1. \A b \in Actors \ {a} : pc[b] # "racing"
      BY <2>4 DEF RaceInv, AtPromoted, AtJoined, AtFails
    <3>2. pc'[a] # "racing"
      BY <2>4 DEF AtPromoted, AtJoined, AtFails, AtResume
    <3> QED BY <2>1, <3>1, <3>2 DEF RacerFrame, RaceInv
  <2> QED BY <1>2, <2>2, <2>3, <2>4, RacerMoves
<1>3. CASE Subscribe \/ StreamStep
  <2>1. StreamFrame
    BY <1>3, StreamMoves
  <2> QED BY <1>a, <2>1 DEF StreamFrame, RaceInv
<1>4. CASE Shutdown
  BY <1>a, <1>4 DEF Shutdown, RoleUnlocked, callers, RaceInv
<1>5. ASSUME NEW e \in Epochs, ConnectionStep(e) \/ Refuse(e) \/ DropHost(e) \/ Crash(e)
      PROVE  RaceInv'
  BY <1>5, ConnectionKeeps DEF RaceInv
<1> QED BY <1>0, <1>1, <1>2, <1>3, <1>4, <1>5, StepKinds

(* Every step keeps calls tied to connections that can still answer them. *)
LEMMA LossStep == TypeOK /\ RoleInv /\ LossInv /\ [Next]_vars => LossInv'
<1> SUFFICES ASSUME TypeOK, RoleInv, LossInv, [Next]_vars PROVE LossInv'
  OBVIOUS
<1>a. Calls \subseteq Actors /\ Actors = Calls \cup {Sub} /\ Sub \notin Calls
  BY SessionAssumption DEF Actors
<1>e. epoch \in Nat /\ Epochs \subseteq Nat
  BY RoleKinds DEF TypeOK
<1>b. \A c \in Calls : pc[c] \in {"register", "send", "await", "reacquire", "racing"}
                       => on[c] \in Epochs /\ on[c] <= epoch
  BY <1>a DEF RoleInv, Bound
<1>0. CASE UNCHANGED vars
  BY <1>0 DEF vars, session, callers, client, leader, LossInv, NoStrandedWaiter
<1>1. ASSUME NEW c \in Calls, Invoke(c) \/ CallerStep(c) PROVE LossInv'
  <2>1. CallerFrame(c)
    BY <1>1, CallerMoves
  <2>2. /\ pc'[c] \in {"send", "await"} /\ reply'[c] = "lost" => eof[on'[c]]
        /\ pc'[c] \in {"reacquire", "racing"} => ~writer[on'[c]]
        /\ pc'[c] \in {"send", "await"} /\ reply'[c] = "none"
             => c \in waiters'[on'[c]] /\ ~eof[on'[c]]
    <3>1. CASE AtInvoke(c) \/ AtSnapshot(c) \/ AtLocal(c) \/ AtAnswer(c)
      BY <3>1 DEF AtInvoke, AtSnapshot, AtLocal, AtAnswer
    <3>2. CASE AtLoss(c)
      BY <1>b, <3>2 DEF AtLoss, LossInv
    <3>3. CASE AtRegister(c)
      BY <3>3 DEF AtRegister
    <3>4. CASE AtSend(c)
      BY <3>4 DEF AtSend, LossInv, NoStrandedWaiter
    <3> QED BY <1>1, <3>1, <3>2, <3>3, <3>4, CallerMoves
  <2>3. \A d \in Calls \ {c} :
          pc[d] \in {"send", "await"} /\ reply[d] = "none" => d \in waiters'[on[d]] /\ ~eof[on[d]]
    BY <1>b, <2>1 DEF CallerFrame, LossInv, NoStrandedWaiter
  <2>4. \A d \in Calls \ {c} : pc'[d] = pc[d] /\ on'[d] = on[d] /\ reply'[d] = reply[d]
    BY <1>a, <2>1 DEF CallerFrame
  <2>5. eof' = eof /\ writer' = writer /\ host' = host /\ epoch' = epoch
    BY <2>1 DEF CallerFrame
  <2>6. NoStrandedWaiter'
    BY <2>2, <2>3, <2>4, <2>5 DEF NoStrandedWaiter
  <2> QED BY <2>2, <2>4, <2>5, <2>6 DEF LossInv
<1>2. ASSUME NEW a \in Actors, RaceStep(a) PROVE LossInv'
  <2>1. RacerFrame(a)
    BY <1>2, RacerMoves
  <2>2. /\ epoch' \in {epoch, epoch + 1}
        /\ pc'[a] \notin {"send", "await"}
        /\ pc'[a] \in {"reacquire", "racing"} => pc[a] = "reacquire"
    BY <1>2, RacerMoves
       DEF AtAdopt, AtClosed, AtStart, AtPromoted, AtJoined, AtFails, AtResume
  <2>3. /\ \A e \in Epochs : eof'[e] => ~writer'[e] /\ e <= epoch'
        /\ \A e \in Epochs : host'[e] # "none" => e <= epoch'
    BY <1>e, <2>1, <2>2 DEF RacerFrame, LossInv
  <2>4. ASSUME NEW c \in Calls, pc'[c] \in {"reacquire", "racing"} PROVE ~writer'[on'[c]]
    <3>1. pc[c] \in {"reacquire", "racing"} /\ on'[c] = on[c]
      BY <1>a, <2>1, <2>2, <2>4 DEF RacerFrame
    <3>2. on[c] \in Epochs /\ on[c] <= epoch /\ ~writer[on[c]]
      BY <1>b, <3>1 DEF LossInv
    <3>3. on[c] # epoch + 1
      BY <1>e, <3>2
    <3> QED BY <2>1, <3>1, <3>2, <3>3 DEF RacerFrame
  <2>5. \A c \in Calls : pc'[c] \in {"send", "await"} => pc[c] = pc'[c]
    BY <1>a, <2>1, <2>2 DEF RacerFrame
  <2> QED BY <2>1, <2>3, <2>4, <2>5 DEF RacerFrame, LossInv, NoStrandedWaiter
<1>3. CASE Subscribe \/ StreamStep
  <2>1. StreamFrame
    BY <1>3, StreamMoves
  <2> QED BY <2>1 DEF StreamFrame, LossInv, NoStrandedWaiter
<1>4. CASE Shutdown
  BY <1>4 DEF Shutdown, callers, client, leader, LossInv, NoStrandedWaiter
<1>5. ASSUME NEW e \in Epochs, ConnectionStep(e) \/ Refuse(e) \/ DropHost(e) \/ Crash(e)
      PROVE  LossInv'
  <2> USE DEF session, callers, client, leader
  <2>0. UNCHANGED <<role, racer, epoch, pc, on, attempt, out>>
    BY <1>5, ConnectionKeeps
  <2>d. DOMAIN host = Epochs /\ DOMAIN writer = Epochs /\ DOMAIN eof = Epochs
        /\ DOMAIN waiters = Epochs /\ DOMAIN reply = Calls
    BY DEF TypeOK
  <2>1. ASSUME NEW c \in Calls, Accept(c, e) \/ Dispatch(c, e) \/ Enqueue(c, e) \/ Write(c, e)
        PROVE  LossInv'
    <3>1. UNCHANGED <<client, host, writer>>
      BY <2>1 DEF Accept, Dispatch, Enqueue, Write
    <3> QED BY <2>0, <3>1 DEF LossInv, NoStrandedWaiter
  <2>2. ASSUME NEW c \in Calls, Deliver(c, e) PROVE LossInv'
    <3>1. UNCHANGED <<eof, host, writer>>
      BY <2>2 DEF Deliver
    <3>2. CASE /\ waiters' = [waiters EXCEPT ![e] = @ \ {c}]
               /\ reply' = [reply EXCEPT ![c] = "answered"]
      <4>1. \A d \in Calls : reply'[d] = reply[d] \/ (d = c /\ reply'[d] = "answered")
        BY <2>d, <3>2
      <4>2. \A d \in Calls \ {c}, f \in Epochs : d \in waiters[f] => d \in waiters'[f]
        BY <2>d, <3>2
      <4>3. NoStrandedWaiter'
        <5> SUFFICES ASSUME NEW d \in Calls, pc[d] \in {"send", "await"}, reply'[d] = "none"
                     PROVE  d \in waiters'[on[d]] /\ ~eof[on[d]]
          BY <2>0, <3>1 DEF NoStrandedWaiter
        <5>1. d # c /\ reply[d] = "none" /\ on[d] \in Epochs
          BY <1>b, <4>1, <3>2, <2>d
        <5> QED BY <4>2, <5>1 DEF LossInv, NoStrandedWaiter
      <4> QED BY <2>0, <3>1, <4>1, <4>3 DEF LossInv
    <3>3. CASE UNCHANGED <<waiters, reply>>
      BY <2>0, <3>1, <3>3 DEF LossInv, NoStrandedWaiter
    <3> QED BY <2>2, <3>2, <3>3 DEF Deliver
  <2>3. CASE ReaderExits(e)
    BY <2>0, <2>3 DEF ReaderExits, LossInv, NoStrandedWaiter
  <2>4. CASE WriterExits(e)
    <3>1. UNCHANGED <<client, host>> /\ \A f \in Epochs : writer'[f] => writer[f]
      BY <2>d, <2>4 DEF WriterExits
    <3> QED BY <1>b, <2>0, <3>1 DEF LossInv, NoStrandedWaiter
  <2>5. CASE Drain(e) \/ GraceExpires(e) \/ Refuse(e) \/ DropHost(e)
    <3>1. UNCHANGED <<client, writer>> /\ \A f \in Epochs : host'[f] # "none" => host[f] # "none"
      BY <2>d, <2>5 DEF Drain, GraceExpires, Refuse, DropHost, HostLives
    <3> QED BY <2>0, <3>1 DEF LossInv, NoStrandedWaiter
  <2>6. CASE Crash(e)
    <3>1. UNCHANGED client /\ \A f \in Epochs : writer'[f] => writer[f]
      BY <2>d, <2>6 DEF Crash
    <3>2. \A f \in Epochs : host'[f] # "none" => host[f] # "none"
      BY <2>d, <2>6 DEF Crash
    <3> QED BY <1>b, <2>0, <3>1, <3>2 DEF LossInv, NoStrandedWaiter
  <2>7. CASE Eof(e)
    <3>1. /\ host[e] # "none" /\ ~writer[e]
          /\ eof' = [eof EXCEPT ![e] = TRUE]
          /\ reply' = [c \in Calls |-> IF c \in waiters[e] /\ on[c] = e THEN "lost" ELSE reply[c]]
          /\ waiters' = [waiters EXCEPT ![e] = {}]
          /\ UNCHANGED <<host, writer>>
      BY <2>7 DEF Eof, EofDue
    <3>2. \A f \in Epochs : eof'[f] = IF f = e THEN TRUE ELSE eof[f]
      BY <2>d, <3>1
    <3>3. \A f \in Epochs : eof'[f] => ~writer'[f] /\ f <= epoch'
      BY <2>0, <3>1, <3>2 DEF LossInv
    <3>4. \A c \in Calls :
            /\ c \in waiters[e] /\ on[c] = e => reply'[c] = "lost"
            /\ ~(c \in waiters[e] /\ on[c] = e) => reply'[c] = reply[c]
      BY <3>1
    <3>5. \A c \in Calls : pc[c] \in {"send", "await"} /\ reply'[c] = "lost" => eof'[on[c]]
      BY <1>b, <3>2, <3>4 DEF LossInv
    <3>6. NoStrandedWaiter'
      <4> SUFFICES ASSUME NEW c \in Calls, pc[c] \in {"send", "await"}, reply'[c] = "none"
                   PROVE  c \in waiters'[on[c]] /\ ~eof'[on[c]]
        BY <2>0 DEF NoStrandedWaiter
      <4>0. ~(c \in waiters[e] /\ on[c] = e) /\ reply[c] = "none"
        <5>1. c \in waiters[e] /\ on[c] = e => reply'[c] = "lost"
          BY <3>4
        <5>2. ~(c \in waiters[e] /\ on[c] = e)
          BY <5>1
        <5> QED BY <3>4, <5>2
      <4>1. c \in waiters[on[c]] /\ ~eof[on[c]] /\ on[c] \in Epochs
        BY <1>b, <4>0 DEF LossInv, NoStrandedWaiter
      <4>2. on[c] # e
        BY <4>0, <4>1
      <4> QED BY <2>d, <3>1, <3>2, <4>1, <4>2
    <3> QED BY <2>0, <3>1, <3>3, <3>5, <3>6 DEF LossInv
  <2> QED BY <1>5, <2>1, <2>2, <2>3, <2>4, <2>5, <2>6, <2>7 DEF ConnectionStep
<1> QED BY <1>0, <1>1, <1>2, <1>3, <1>4, <1>5, StepKinds

----------------------------------------------------------------------------
(* How a step at a leader moves its calls: at connection e only, never to or
   from "none", and never back to where an execution is still ahead. *)
LEMMA StageMoves ==
  ASSUME TypeOK, NEW e \in Epochs, ConnectionStep(e) \/ Refuse(e) \/ DropHost(e) \/ Crash(e)
  PROVE  \A c \in Calls, f \in Epochs :
           /\ f # e => stage'[c][f] = stage[c][f]
           /\ stage'[c][f] = "none" <=> stage[c][f] = "none"
           /\ stage'[c][f] \in {"wire", "accepted"} => stage[c][f] \in {"wire", "accepted"}
<1> USE DEF session, callers, client, leader
<1>t. stage \in [Calls -> [Epochs -> Stages]]
  BY DEF TypeOK
<1>1. ASSUME NEW c \in Calls,
             Accept(c, e) \/ Dispatch(c, e) \/ Enqueue(c, e) \/ Write(c, e) \/ Deliver(c, e)
      PROVE  \A d \in Calls, f \in Epochs :
               /\ f # e => stage'[d][f] = stage[d][f]
               /\ stage'[d][f] = "none" <=> stage[d][f] = "none"
               /\ stage'[d][f] \in {"wire", "accepted"} => stage[d][f] \in {"wire", "accepted"}
  <2>1. CASE stage[c][e] = "wire" /\ stage' = [stage EXCEPT ![c][e] = "accepted"]
    BY <1>t, <2>1
  <2>2. ASSUME NEW s \in {"executed", "queued", "dropped", "written", "read"},
               stage[c][e] \in {"accepted", "executed", "queued", "written"},
               stage' = [stage EXCEPT ![c][e] = s]
        PROVE  \A d \in Calls, f \in Epochs :
                 /\ f # e => stage'[d][f] = stage[d][f]
                 /\ stage'[d][f] = "none" <=> stage[d][f] = "none"
                 /\ stage'[d][f] \in {"wire", "accepted"} => stage[d][f] \in {"wire", "accepted"}
    BY <1>t, <2>2
  <2> QED BY <1>1, <2>1, <2>2 DEF Accept, Dispatch, Enqueue, Write, Deliver
<1>2. CASE UNCHANGED stage
  BY <1>2
<1>3. CASE WriterExits(e)
  BY <1>t, <1>3 DEF WriterExits
<1>4. CASE Crash(e)
  BY <1>t, <1>4 DEF Crash, Unwritten
<1>5. ReaderExits(e) \/ Eof(e) \/ Drain(e) \/ GraceExpires(e) \/ Refuse(e) \/ DropHost(e)
        => UNCHANGED stage
  BY DEF ReaderExits, Eof, Drain, GraceExpires, Refuse, DropHost, HostLives
<1> QED BY <1>1, <1>2, <1>3, <1>4, <1>5 DEF ConnectionStep

(* Every step keeps each attempt on a connection of its own. *)
LEMMA FreshStep == TypeOK /\ RoleInv /\ FreshInv /\ [Next]_vars => FreshInv'
<1> SUFFICES ASSUME TypeOK, RoleInv, FreshInv, [Next]_vars PROVE FreshInv'
  OBVIOUS
<1>a. Calls \subseteq Actors /\ Actors = Calls \cup {Sub} /\ Sub \notin Calls /\ Mutations \subseteq Calls
  BY SessionAssumption DEF Actors
<1>e. epoch \in Nat /\ Epochs \subseteq Nat
  BY RoleKinds DEF TypeOK
<1>t. stage \in [Calls -> [Epochs -> Stages]] /\ attempt \in [Calls -> {1, 2}]
  BY DEF TypeOK
<1>0. CASE UNCHANGED vars
  BY <1>0 DEF vars, session, callers, leader, FreshInv
<1>1. ASSUME NEW c \in Calls, Invoke(c) \/ CallerStep(c) PROVE FreshInv'
  <2>1. CallerFrame(c)
    BY <1>1, CallerMoves
  <2>2. UNCHANGED <<role, epoch, attempt>>
        /\ \A d \in Calls \ {c} : pc'[d] = pc[d] /\ on'[d] = on[d] /\ stage'[d] = stage[d]
    BY <1>a, <2>1 DEF CallerFrame
  <2>3. /\ \A e \in Epochs : stage'[c][e] # "none" => e <= epoch
        /\ \A e \in Epochs :
             attempt[c] = 1 /\ stage'[c][e] # "none"
               => on'[c] = e /\ pc'[c] \in {"await", "reacquire", "racing", "done"}
        /\ \A e \in Epochs :
             attempt[c] = 2 /\ pc'[c] = "snapshot" /\ role = e => stage'[c][e] = "none"
        /\ \A e \in Epochs :
             attempt[c] = 2 /\ pc'[c] \in {"register", "send"} /\ on'[c] = e => stage'[c][e] = "none"
        /\ pc'[c] \in {"idle", "reacquire", "racing"} => attempt[c] = 1
    <3>1. CASE AtInvoke(c)
      BY <1>t, <3>1 DEF AtInvoke, Quiet, FreshInv
    <3>2. CASE AtSnapshot(c)
      BY <1>t, <3>2 DEF AtSnapshot, Quiet, FreshInv
    <3>3. CASE AtLocal(c)
      BY <1>t, <3>3 DEF AtLocal, FreshInv
    <3>4. CASE AtLoss(c)
      BY <1>t, <3>4 DEF AtLoss, FreshInv
    <3>5. CASE AtRegister(c)
      BY <1>t, <3>5 DEF AtRegister, FreshInv
    <3>6. CASE AtSend(c)
      <4>1. on[c] \in Epochs /\ on[c] <= epoch
        BY <1>a, <3>6 DEF AtSend, RoleInv, Bound
      <4>2. \A e \in Epochs : stage'[c][e] = IF e = on[c] THEN "wire" ELSE stage[c][e]
        BY <1>t, <3>6 DEF AtSend
      <4> QED BY <3>6, <4>1, <4>2 DEF AtSend, FreshInv
    <3>7. CASE AtAnswer(c)
      BY <1>t, <3>7 DEF AtAnswer, FreshInv
    <3> QED BY <1>1, <3>1, <3>2, <3>3, <3>4, <3>5, <3>6, <3>7, CallerMoves
  <2> QED BY <2>2, <2>3 DEF FreshInv
<1>2. ASSUME NEW a \in Actors, RaceStep(a) PROVE FreshInv'
  <2>1. RacerFrame(a)
    BY <1>2, RacerMoves
  <2>2. stage' = stage /\ on' = on
        /\ \A d \in Calls \ {a} : pc'[d] = pc[d] /\ attempt'[d] = attempt[d]
    BY <1>a, <2>1 DEF RacerFrame
  <2>3. \/ role' = role /\ epoch' = epoch
        \/ role' = Local /\ epoch' = epoch
        \/ role' = epoch + 1 /\ epoch' = epoch + 1
    BY <1>2, RacerMoves DEF AtAdopt, AtClosed, AtStart, AtPromoted, AtJoined, AtFails
  <2>4. \A d \in Calls, e \in Epochs : stage[d][e] # "none" => e <= epoch'
    <3>1. \A n \in Epochs : n <= epoch => n <= epoch'
      BY <1>e, <2>3
    <3> QED BY <3>1 DEF FreshInv
  <2>5. ASSUME NEW d \in Calls, NEW e \in Epochs, role' = e, role' # role PROVE stage[d][e] = "none"
    <3>1. e = epoch + 1
      BY <2>3, <2>5, RoleKinds
    <3> QED BY <1>e, <3>1 DEF FreshInv
  <2>6. ASSUME a \in Calls
        PROVE  /\ pc[a] \in {"reacquire", "racing"} /\ attempt[a] = 1
               /\ \/ pc'[a] \in {"done", "racing"} /\ attempt'[a] = attempt[a]
                  \/ /\ pc'[a] = "snapshot" /\ attempt'[a] = 2
                     /\ \A e \in Epochs : role' = e => stage[a][e] = "none"
    <3>1. CASE AtAdopt(a)
      BY <1>a, <2>6, <3>1 DEF AtAdopt, AtResume, FreshInv
    <3>2. CASE AtClosed(a) \/ AtStart(a) \/ AtFails(a)
      BY <2>6, <3>2 DEF AtClosed, AtStart, AtFails, FreshInv
    <3>3. CASE AtPromoted(a)
      BY <1>a, <2>6, <3>3, RoleKinds DEF AtPromoted, AtResume, FreshInv
    <3>4. CASE AtJoined(a)
      <4>1. \A e \in Epochs : role' = e => stage[a][e] = "none"
        BY <1>e, <2>6, <3>4 DEF AtJoined, FreshInv
      <4> QED BY <1>a, <2>6, <3>4, <4>1 DEF AtJoined, AtResume, FreshInv
    <3> QED BY <1>2, <3>1, <3>2, <3>3, <3>4, RacerMoves
  <2>7. ASSUME NEW d \in Calls, NEW e \in Epochs
        PROVE  /\ attempt'[d] = 1 /\ stage[d][e] # "none"
                    => on[d] = e /\ pc'[d] \in {"await", "reacquire", "racing", "done"}
               /\ attempt'[d] = 2 /\ pc'[d] = "snapshot" /\ role' = e => stage[d][e] = "none"
               /\ attempt'[d] = 2 /\ pc'[d] \in {"register", "send"} /\ on[d] = e => stage[d][e] = "none"
               /\ pc'[d] \in {"idle", "reacquire", "racing"} => attempt'[d] = 1
    <3>1. CASE d = a
      BY <2>6, <3>1 DEF FreshInv
    <3>2. CASE d # a
      BY <2>2, <2>5, <3>2 DEF FreshInv
    <3> QED BY <3>1, <3>2
  <2>8. \A d \in Calls : pc'[d] \in {"idle", "reacquire", "racing"} => attempt'[d] = 1
    BY <2>2, <2>6 DEF FreshInv
  <2> QED BY <2>2, <2>4, <2>7, <2>8 DEF FreshInv
<1>3. CASE Subscribe \/ StreamStep
  <2>1. StreamFrame
    BY <1>3, StreamMoves
  <2> QED BY <2>1 DEF StreamFrame, FreshInv
<1>4. CASE Shutdown
  BY <1>4, RoleKinds DEF Shutdown, callers, client, leader, FreshInv
<1>5. ASSUME NEW e \in Epochs, ConnectionStep(e) \/ Refuse(e) \/ DropHost(e) \/ Crash(e)
      PROVE  FreshInv'
  <2>1. UNCHANGED <<role, racer, epoch, pc, on, attempt, out>>
    BY <1>5, ConnectionKeeps
  <2>2. \A c \in Calls, f \in Epochs : stage'[c][f] = "none" <=> stage[c][f] = "none"
    BY <1>5, StageMoves
  <2> QED BY <2>1, <2>2 DEF FreshInv
<1> QED BY <1>0, <1>1, <1>2, <1>3, <1>4, <1>5, StepKinds

----------------------------------------------------------------------------
(* The calls open at a leader are finitely many. *)
LEMMA OpenFinite ==
  ASSUME NEW e \in Epochs
  PROVE  /\ IsFiniteSet(Open(e)) /\ Cardinality(Open(e)) \in Nat
         /\ IsFiniteSet(Queue(e)) /\ Queue(e) \subseteq Open(e)
<1>1. Open(e) \in SUBSET Calls /\ Queue(e) \in SUBSET Calls
  BY DEF Open, Queue
<1>2. IsFiniteSet(Open(e)) /\ IsFiniteSet(Queue(e))
  BY <1>1, SessionAssumption, FS_Subset
<1>3. Queue(e) \subseteq Open(e)
  BY DEF Queue, Open, Unwritten
<1> QED BY <1>2, <1>3, FS_CardinalityType

(* Every step keeps the counter equal to what is accepted and unwritten. *)
LEMMA DrainStep == TypeOK /\ RoleInv /\ FreshInv /\ DrainInv /\ [Next]_vars => DrainInv'
<1> SUFFICES ASSUME TypeOK, RoleInv, FreshInv, DrainInv, [Next]_vars PROVE DrainInv'
  OBVIOUS
<1>t. stage \in [Calls -> [Epochs -> Stages]] /\ unsettled \in [Epochs -> Int]
  BY DEF TypeOK
<1>u. ASSUME unsettled' = unsettled, \A f \in Epochs : Open(f)' = Open(f) PROVE DrainInv'
  BY <1>u DEF DrainInv
<1>0. CASE UNCHANGED vars
  BY <1>0 DEF vars, leader, DrainInv, Open
<1>1. ASSUME NEW c \in Calls, Invoke(c) \/ CallerStep(c) PROVE DrainInv'
  <2>1. unsettled' = unsettled /\ \A d \in Calls \ {c} : stage'[d] = stage[d]
    BY <1>1, CallerMoves DEF CallerFrame
  <2>2. CASE stage'[c] = stage[c]
    BY <1>u, <2>1, <2>2 DEF Open
  <2>3. CASE AtSend(c)
    <3>0. on[c] \in Epochs /\ pc[c] = "send" /\ attempt[c] \in {1, 2}
      BY <2>3 DEF AtSend, RoleInv, Bound, TypeOK
    <3>1. stage[c][on[c]] = "none"
      BY <3>0 DEF FreshInv
    <3>2. \A f \in Epochs : stage'[c][f] = IF f = on[c] THEN "wire" ELSE stage[c][f]
      BY <1>t, <2>3 DEF AtSend
    <3>3. \A f \in Epochs : Open(f)' = Open(f)
      BY <2>1, <3>0, <3>1, <3>2 DEF Open, Unwritten
    <3> QED BY <1>u, <2>1, <3>3
  <2> QED
    BY <1>1, <2>2, <2>3, CallerMoves
       DEF AtInvoke, AtSnapshot, AtLocal, AtLoss, AtRegister, AtAnswer, Quiet
<1>2. ASSUME NEW a \in Actors, RaceStep(a) PROVE DrainInv'
  <2>1. UNCHANGED <<stage, unsettled>>
    BY <1>2, RacerMoves DEF RacerFrame
  <2> QED BY <1>u, <2>1 DEF Open
<1>3. CASE Subscribe \/ StreamStep
  <2>1. UNCHANGED <<stage, unsettled>>
    BY <1>3, StreamMoves DEF StreamFrame
  <2> QED BY <1>u, <2>1 DEF Open
<1>4. CASE Shutdown
  BY <1>4, <1>u DEF Shutdown, leader, Open
<1>5. ASSUME NEW e \in Epochs, ConnectionStep(e) \/ Refuse(e) \/ DropHost(e) \/ Crash(e)
      PROVE  DrainInv'
  <2> USE DEF session, callers, client, leader
  <2>0. \A f \in Epochs \ {e} : Open(f)' = Open(f)
    BY <1>5, StageMoves DEF Open
  <2>n. unsettled[e] = Cardinality(Open(e)) /\ IsFiniteSet(Open(e)) /\ Cardinality(Open(e)) \in Nat
    BY OpenFinite DEF DrainInv
  <2>q. ASSUME NEW n, unsettled' = [unsettled EXCEPT ![e] = n], Cardinality(Open(e)') = n
        PROVE  DrainInv'
    BY <1>t, <2>0, <2>q DEF DrainInv
  <2>k. ASSUME unsettled' = unsettled, Open(e)' = Open(e) PROVE DrainInv'
    BY <1>u, <2>0, <2>k
  <2>s. ASSUME NEW c \in Calls, NEW s \in Stages, stage' = [stage EXCEPT ![c][e] = s]
        PROVE  Open(e)' = IF s \in Unwritten THEN Open(e) \cup {c} ELSE Open(e) \ {c}
    BY <1>t, <2>s DEF Open
  <2>1. ASSUME NEW c \in Calls, Accept(c, e) PROVE DrainInv'
    <3>1. c \notin Open(e) /\ Open(e)' = Open(e) \cup {c}
      BY <2>1, <2>s DEF Accept, Open, Unwritten, Stages
    <3>2. Cardinality(Open(e)') = unsettled[e] + 1
      BY <2>n, <3>1, FS_AddElement
    <3> QED BY <2>1, <2>q, <3>2 DEF Accept
  <2>2. ASSUME NEW c \in Calls, Dispatch(c, e) PROVE DrainInv'
    <3>1. c \in Open(e) /\ Open(e)' = Open(e) \cup {c}
      BY <2>2, <2>s DEF Dispatch, Open, Unwritten, Stages
    <3> QED BY <2>2, <2>k, <3>1 DEF Dispatch
  <2>3. ASSUME NEW c \in Calls, Enqueue(c, e) PROVE DrainInv'
    <3>0. c \in Open(e)
      BY <2>3 DEF Enqueue, Open, Unwritten
    <3>1. CASE stage' = [stage EXCEPT ![c][e] = "queued"] /\ UNCHANGED unsettled
      <4>1. Open(e)' = Open(e) \cup {c}
        BY <3>1, <2>s DEF Unwritten, Stages
      <4> QED BY <2>k, <3>0, <3>1, <4>1
    <3>2. CASE /\ stage' = [stage EXCEPT ![c][e] = "dropped"]
               /\ unsettled' = [unsettled EXCEPT ![e] = @ - 1]
      <4>1. Open(e)' = Open(e) \ {c}
        BY <3>2, <2>s DEF Unwritten, Stages
      <4>2. Cardinality(Open(e)') = unsettled[e] - 1
        BY <2>n, <3>0, <4>1, FS_RemoveElement, SMTT(30)
      <4> QED BY <2>q, <3>2, <4>2
    <3> QED BY <2>3, <3>1, <3>2 DEF Enqueue
  <2>4. ASSUME NEW c \in Calls, Write(c, e) PROVE DrainInv'
    <3>1. c \in Open(e) /\ Open(e)' = Open(e) \ {c}
      BY <2>4, <2>s DEF Write, Open, Unwritten, Stages
    <3>2. Cardinality(Open(e)') = unsettled[e] - 1
      BY <2>n, <3>1, FS_RemoveElement, SMTT(30)
    <3> QED BY <2>4, <2>q, <3>2 DEF Write
  <2>5. ASSUME NEW c \in Calls, Deliver(c, e) PROVE DrainInv'
    <3>1. c \notin Open(e) /\ Open(e)' = Open(e) \ {c}
      BY <2>5, <2>s DEF Deliver, Open, Unwritten, Stages
    <3> QED BY <2>5, <2>k, <3>1 DEF Deliver
  <2>6. CASE WriterExits(e)
    <3>1. Open(e)' = Open(e) \ Queue(e)
      BY <1>t, <2>6 DEF WriterExits, Open, Queue, Unwritten
    <3>2. Open(e) \cap Queue(e) = Queue(e)
      BY OpenFinite
    <3>3. Cardinality(Open(e)') = unsettled[e] - Cardinality(Queue(e))
      <4>1. Cardinality(Open(e) \ Queue(e)) = Cardinality(Open(e)) - Cardinality(Open(e) \cap Queue(e))
        BY <2>n, FS_Difference
      <4> QED BY <2>n, <3>1, <3>2, <4>1
    <3> QED BY <2>6, <2>q, <3>3 DEF WriterExits
  <2>7. CASE Crash(e)
    <3>1. Open(e)' = {}
      BY <1>t, <2>7 DEF Crash, Open, Unwritten
    <3>2. Cardinality(Open(e)') = 0
      BY <3>1, FS_EmptySet
    <3> QED BY <2>7, <2>q, <3>2 DEF Crash
  <2>8. CASE ReaderExits(e) \/ Eof(e)
    BY <2>8, <1>u DEF ReaderExits, Eof, Open
  <2>9. CASE Drain(e) \/ GraceExpires(e) \/ Refuse(e) \/ DropHost(e)
    BY <2>9, <1>u DEF Drain, GraceExpires, Refuse, DropHost, HostLives, Open
  <2> QED
    BY <1>5, <2>1, <2>2, <2>3, <2>4, <2>5, <2>6, <2>7, <2>8, <2>9 DEF ConnectionStep
<1> QED BY <1>0, <1>1, <1>2, <1>3, <1>4, <1>5, StepKinds

----------------------------------------------------------------------------
(* The executions still ahead of a call are finitely many. *)
LEMMA ChancesFinite ==
  ASSUME NEW c \in Calls
  PROVE  IsFiniteSet(Chances(c)) /\ Cardinality(Chances(c)) \in Nat
<1>1. IsFiniteSet(Epochs)
  BY SessionAssumption, FS_Interval DEF Epochs
<1>2. Chances(c) \in SUBSET Epochs
  BY DEF Chances
<1>3. IsFiniteSet(Chances(c))
  BY <1>1, <1>2, FS_Subset
<1> QED BY <1>3, FS_CardinalityType

(* What a call may still spend, by where it stands. *)
LEMMA BudgetValue ==
  ASSUME TypeOK, NEW c \in Calls
  PROVE  /\ Budget(c) \in Nat
         /\ pc[c] \in {"idle", "snapshot", "local", "register", "send"} => Budget(c) = attempt[c] - 1
         /\ pc[c] \notin {"idle", "snapshot", "local", "register", "send"} => Budget(c) = attempt[c]
<1>1. attempt[c] \in {1, 2}
  BY DEF TypeOK
<1>2. CASE pc[c] \in {"idle", "snapshot", "local", "register", "send"}
  <2>1. Budget(c) = (attempt[c] - 1) + 0
    BY <1>2 DEF Budget
  <2> QED BY <1>1, <1>2, <2>1
<1>3. CASE pc[c] \notin {"idle", "snapshot", "local", "register", "send"}
  <2>1. Budget(c) = (attempt[c] - 1) + 1
    BY <1>3 DEF Budget
  <2> QED BY <1>1, <1>3, <2>1
<1> QED BY <1>2, <1>3

(* Besides Dispatch, no step at a leader executes anything. *)
LEMMA LeaderRuns ==
  ASSUME TypeOK, NEW e \in Epochs, ConnectionStep(e) \/ Refuse(e) \/ DropHost(e) \/ Crash(e)
  PROVE  \/ \E c \in Calls : Dispatch(c, e)
         \/ /\ runs' = runs
            /\ \A c \in Calls, f \in Epochs : stage'[c][f] \in Ran => stage[c][f] \in Ran
            /\ \A c \in Calls : reply'[c] = "answered"
                                => reply[c] = "answered" \/ stage[c][e] = "written"
<1> USE DEF session, callers, client, leader
<1>t. stage \in [Calls -> [Epochs -> Stages]]
  BY DEF TypeOK
<1>1. ASSUME NEW c \in Calls, Accept(c, e) \/ Enqueue(c, e) \/ Write(c, e)
      PROVE  /\ runs' = runs /\ reply' = reply
             /\ \A d \in Calls, f \in Epochs : stage'[d][f] \in Ran => stage[d][f] \in Ran
  <2>1. runs' = runs /\ reply' = reply
    BY <1>1 DEF Accept, Enqueue, Write
  <2>2. CASE stage' = [stage EXCEPT ![c][e] = "accepted"]
    BY <1>t, <2>1, <2>2 DEF Ran
  <2>3. ASSUME NEW s \in Stages, stage[c][e] \in Ran, stage' = [stage EXCEPT ![c][e] = s]
        PROVE  \A d \in Calls, f \in Epochs : stage'[d][f] \in Ran => stage[d][f] \in Ran
    BY <1>t, <2>3
  <2> QED BY <1>1, <2>1, <2>2, <2>3 DEF Accept, Enqueue, Write, Ran, Stages
<1>2. ASSUME NEW c \in Calls, Deliver(c, e)
      PROVE  /\ runs' = runs
             /\ \A d \in Calls, f \in Epochs : stage'[d][f] \in Ran => stage[d][f] \in Ran
             /\ \A d \in Calls : reply'[d] = "answered"
                                 => reply[d] = "answered" \/ stage[d][e] = "written"
  <2>1. runs' = runs /\ stage[c][e] = "written" /\ stage' = [stage EXCEPT ![c][e] = "read"]
    BY <1>2 DEF Deliver
  <2>2. \A d \in Calls, f \in Epochs : stage'[d][f] \in Ran => stage[d][f] \in Ran
    BY <1>t, <2>1 DEF Ran
  <2>3. reply' = reply \/ reply' = [reply EXCEPT ![c] = "answered"]
    BY <1>2 DEF Deliver
  <2> QED BY <2>1, <2>2, <2>3 DEF TypeOK
<1>3. CASE WriterExits(e)
  BY <1>t, <1>3 DEF WriterExits, Ran
<1>4. CASE Crash(e)
  BY <1>t, <1>4 DEF Crash, Ran
<1>5. CASE Eof(e)
  <2>1. runs' = runs /\ stage' = stage
    BY <1>5 DEF Eof
  <2>2. \A c \in Calls : reply'[c] = "answered" => reply[c] = "answered"
    BY <1>5 DEF Eof
  <2> QED BY <2>1, <2>2
<1>6. CASE ReaderExits(e) \/ Drain(e) \/ GraceExpires(e) \/ Refuse(e) \/ DropHost(e)
  BY <1>6 DEF ReaderExits, Drain, GraceExpires, Refuse, DropHost, HostLives
<1> QED BY <1>1, <1>2, <1>3, <1>4, <1>5, <1>6 DEF ConnectionStep

(* The step of the budget: no call is executed more often than its attempts allow. *)
LEMMA SpendStep ==
  ASSUME TypeOK, TypeOK', RoleInv, FreshInv, RunInv, [Next]_vars, NEW c \in Calls
  PROVE  runs'[c] + Cardinality(Chances(c)') <= Budget(c)'
<1>a. c \in Actors /\ Mutations \subseteq Calls /\ Sub \notin Calls
  BY SessionAssumption DEF Actors
<1>t. /\ stage \in [Calls -> [Epochs -> Stages]]
      /\ attempt[c] \in {1, 2} /\ runs[c] \in Nat
  BY DEF TypeOK
<1>n. /\ Cardinality(Chances(c)) \in Nat /\ IsFiniteSet(Chances(c))
      /\ runs[c] + Cardinality(Chances(c)) <= Budget(c)
  BY ChancesFinite DEF RunInv
<1>f. IsFiniteSet(Chances(c)') /\ Cardinality(Chances(c)') \in Nat
  <2>1. IsFiniteSet(Epochs)
    BY SessionAssumption, FS_Interval DEF Epochs
  <2>2. Chances(c)' \in SUBSET Epochs
    BY DEF Chances
  <2> QED BY <2>1, <2>2, FS_Subset, FS_CardinalityType
<1>b. /\ Budget(c) \in Nat
      /\ pc[c] \in {"idle", "snapshot", "local", "register", "send"} => Budget(c) = attempt[c] - 1
      /\ pc[c] \notin {"idle", "snapshot", "local", "register", "send"} => Budget(c) = attempt[c]
  BY BudgetValue
<1>v. /\ attempt'[c] \in {1, 2} /\ Budget(c)' \in Nat
      /\ pc'[c] \in {"idle", "snapshot", "local", "register", "send"} => Budget(c)' = attempt'[c] - 1
      /\ pc'[c] \notin {"idle", "snapshot", "local", "register", "send"} => Budget(c)' = attempt'[c]
  <2>1. attempt'[c] \in {1, 2}
    BY DEF TypeOK
  <2>2. CASE pc'[c] \in {"idle", "snapshot", "local", "register", "send"}
    <3>1. Budget(c)' = (attempt'[c] - 1) + 0
      BY <2>2 DEF Budget
    <3> QED BY <2>1, <2>2, <3>1
  <2>3. CASE pc'[c] \notin {"idle", "snapshot", "local", "register", "send"}
    <3>1. Budget(c)' = (attempt'[c] - 1) + 1
      BY <2>3 DEF Budget
    <3> QED BY <2>1, <2>3, <3>1
  <2> QED BY <2>2, <2>3
<1>k. ASSUME runs'[c] = runs[c], stage'[c] = stage[c], Budget(c)' >= Budget(c)
      PROVE  runs'[c] + Cardinality(Chances(c)') <= Budget(c)'
  <2>1. Chances(c)' = Chances(c)
    BY <1>k DEF Chances
  <2> QED BY <1>k, <1>n, <1>t, <1>b, <1>v, <2>1
<1>s. ASSUME runs'[c] = runs[c], Chances(c)' \subseteq Chances(c), Budget(c)' >= Budget(c)
      PROVE  runs'[c] + Cardinality(Chances(c)') <= Budget(c)'
  <2>1. Cardinality(Chances(c)') <= Cardinality(Chances(c))
    BY <1>n, <1>s, FS_Subset
  <2> QED BY <1>s, <1>n, <1>f, <1>t, <1>b, <1>v, <2>1
<1>0. CASE UNCHANGED vars
  BY <1>0, <1>n DEF vars, callers, leader, Chances, Budget
<1>1. ASSUME NEW d \in Calls, Invoke(d) \/ CallerStep(d)
      PROVE  runs'[c] + Cardinality(Chances(c)') <= Budget(c)'
  <2>1. CallerFrame(d)
    BY <1>1, CallerMoves
  <2>2. CASE c # d
    BY <1>a, <1>k, <1>b, <1>v, <2>1, <2>2 DEF CallerFrame, Budget
  <2>3. CASE c = d /\ AtLocal(c)
    <3>1. Chances(c)' = Chances(c)
      BY <2>3 DEF AtLocal, Chances
    <3> QED BY <1>n, <1>t, <1>b, <1>v, <2>1, <2>3, <3>1 DEF AtLocal, CallerFrame
  <2>4. CASE c = d /\ AtSend(c)
    <3>1. Chances(c)' \subseteq Chances(c) \cup {on[c]}
      BY <1>t, <2>4 DEF AtSend, Chances
    <3>2. /\ IsFiniteSet(Chances(c) \cup {on[c]})
          /\ Cardinality(Chances(c) \cup {on[c]}) <= Cardinality(Chances(c)) + 1
      BY <1>n, FS_AddElement
    <3>3. Cardinality(Chances(c)') <= Cardinality(Chances(c) \cup {on[c]})
      BY <3>1, <3>2, FS_Subset
    <3>4. Cardinality(Chances(c) \cup {on[c]}) \in Nat
      BY <3>2, FS_CardinalityType
    <3>5. runs'[c] = runs[c] /\ attempt' = attempt /\ pc[c] = "send" /\ pc'[c] = "await"
      BY <2>1, <2>4 DEF AtSend, CallerFrame
    <3> QED BY <1>n, <1>f, <1>t, <1>b, <1>v, <3>2, <3>3, <3>4, <3>5
  <2>5. CASE /\ c = d
             /\ AtInvoke(c) \/ AtSnapshot(c) \/ AtLoss(c) \/ AtRegister(c) \/ AtAnswer(c)
    <3>1. runs'[c] = runs[c] /\ stage'[c] = stage[c] /\ attempt' = attempt
      BY <2>1, <2>5
         DEF AtInvoke, AtSnapshot, AtLoss, AtRegister, AtAnswer, Quiet, CallerFrame
    <3>2. pc'[c] \in {"idle", "snapshot", "local", "register", "send"}
            => pc[c] \in {"idle", "snapshot", "local", "register", "send"}
      BY <2>5 DEF AtInvoke, AtSnapshot, AtLoss, AtRegister, AtAnswer
    <3>3. Budget(c)' >= Budget(c)
      BY <1>t, <1>b, <1>v, <3>1, <3>2
    <3> QED BY <1>k, <3>1, <3>3
  <2> QED BY <1>1, <2>2, <2>3, <2>4, <2>5, CallerMoves
<1>2. ASSUME NEW a \in Actors, RaceStep(a)
      PROVE  runs'[c] + Cardinality(Chances(c)') <= Budget(c)'
  <2>1. RacerFrame(a)
    BY <1>2, RacerMoves
  <2>2. runs' = runs /\ stage' = stage
    BY <2>1 DEF RacerFrame
  <2>3. CASE c # a
    BY <1>a, <1>k, <1>b, <1>v, <2>1, <2>2, <2>3 DEF RacerFrame, Budget
  <2>4. CASE c = a
    <3>1. pc[c] \in {"reacquire", "racing"} /\ attempt[c] = 1
      BY <1>2, <2>4, RacerMoves
         DEF AtAdopt, AtClosed, AtStart, AtPromoted, AtJoined, AtFails, FreshInv
    <3>2. \/ pc'[c] \in {"done", "racing"} /\ attempt'[c] = attempt[c]
          \/ pc'[c] = "snapshot" /\ attempt'[c] = 2
      BY <1>2, <1>a, <2>4, RacerMoves
         DEF AtAdopt, AtClosed, AtStart, AtPromoted, AtJoined, AtFails, AtResume
    <3>3. Budget(c)' >= Budget(c)
      BY <1>b, <1>v, <3>1, <3>2
    <3> QED BY <1>k, <2>2, <3>3
  <2> QED BY <2>3, <2>4
<1>3. CASE Subscribe \/ StreamStep
  <2>1. StreamFrame
    BY <1>3, StreamMoves
  <2>2. runs'[c] = runs[c] /\ stage'[c] = stage[c] /\ Budget(c)' = Budget(c)
    BY <2>1 DEF StreamFrame, Budget
  <2> QED BY <1>k, <1>b, <2>2
<1>4. CASE Shutdown
  BY <1>4, <1>k, <1>b, <1>v DEF Shutdown, callers, leader, Budget
<1>5. ASSUME NEW e \in Epochs, ConnectionStep(e) \/ Refuse(e) \/ DropHost(e) \/ Crash(e)
      PROVE  runs'[c] + Cardinality(Chances(c)') <= Budget(c)'
  <2>1. Budget(c)' = Budget(c)
    BY <1>5, ConnectionKeeps DEF Budget
  <2>2. Chances(c)' \subseteq Chances(c)
    BY <1>5, StageMoves DEF Chances
  <2>3. CASE runs'[c] = runs[c]
    BY <1>s, <1>b, <2>1, <2>2, <2>3
  <2>4. CASE Dispatch(c, e)
    <3>1. e \in Chances(c) /\ Chances(c)' = Chances(c) \ {e}
      BY <1>t, <2>4 DEF Dispatch, Chances
    <3>2. Cardinality(Chances(c)') = Cardinality(Chances(c)) - 1
      BY <1>n, <3>1, FS_RemoveElement
    <3>3. runs'[c] = runs[c] + 1
      BY <2>4 DEF Dispatch, TypeOK
    <3> QED BY <1>n, <1>t, <1>b, <2>1, <3>2, <3>3
  <2>5. ASSUME NEW d \in Calls, d # c, Dispatch(d, e) PROVE runs'[c] = runs[c]
    BY <2>5 DEF Dispatch, TypeOK
  <2> QED BY <1>5, <2>3, <2>4, <2>5, LeaderRuns
<1> QED BY <1>0, <1>1, <1>2, <1>3, <1>4, <1>5, StepKinds

(* Every step keeps the executions within the attempts, and answers earned. *)
LEMMA RunStep ==
  TypeOK /\ TypeOK' /\ RoleInv /\ FreshInv /\ RunInv /\ [Next]_vars => RunInv'
<1> SUFFICES ASSUME TypeOK, TypeOK', RoleInv, FreshInv, RunInv, [Next]_vars PROVE RunInv'
  OBVIOUS
<1>a. Calls \subseteq Actors /\ Mutations \subseteq Calls /\ Sub \notin Calls
  BY SessionAssumption DEF Actors
<1>t. /\ stage \in [Calls -> [Epochs -> Stages]]
      /\ \A c \in Calls : runs[c] \in Nat
  BY DEF TypeOK
<1>s. \A c \in Calls : (runs[c] + Cardinality(Chances(c)) <= Budget(c))'
  BY SpendStep
<1>0. CASE UNCHANGED vars
  <2>1. UNCHANGED <<pc, attempt, out, reply, stage, runs>>
    BY <1>0 DEF vars, callers, client, leader
  <2> QED BY <1>s, <2>1 DEF RunInv
<1>1. ASSUME NEW c \in Calls, Invoke(c) \/ CallerStep(c) PROVE RunInv'
  <2>1. CallerFrame(c)
    BY <1>1, CallerMoves
  <2>2. /\ attempt' = attempt
        /\ \A d \in Calls \ {c} : /\ pc'[d] = pc[d] /\ out'[d] = out[d] /\ reply'[d] = reply[d]
                                 /\ runs'[d] = runs[d] /\ stage'[d] = stage[d]
    BY <1>a, <2>1 DEF CallerFrame
  <2>3. /\ \A e \in Epochs : stage'[c][e] \in Ran => stage[c][e] \in Ran
        /\ reply'[c] = "answered" => reply[c] = "answered"
        /\ runs'[c] >= runs[c]
        /\ pc'[c] = "done" => out'[c] \in Outcomes
    <3> USE DEF Outcomes
    <3>1. CASE AtInvoke(c) \/ AtSnapshot(c)
      BY <1>t, <3>1 DEF AtInvoke, AtSnapshot, Quiet
    <3>2. CASE AtLocal(c)
      BY <1>t, <3>2 DEF AtLocal
    <3>3. CASE AtLoss(c)
      BY <1>t, <3>3 DEF AtLoss
    <3>4. CASE AtRegister(c) \/ AtAnswer(c)
      BY <1>t, <3>4 DEF AtRegister, AtAnswer
    <3>5. CASE AtSend(c)
      BY <1>t, <3>5 DEF AtSend, Ran
    <3> QED BY <1>1, <3>1, <3>2, <3>3, <3>4, <3>5, CallerMoves
  <2>4. runs[c] > 0 => runs'[c] > 0
    BY <1>t, <2>3 DEF TypeOK
  <2> QED BY <1>s, <2>2, <2>3, <2>4 DEF RunInv
<1>2. ASSUME NEW a \in Actors, RaceStep(a) PROVE RunInv'
  <2>1. RacerFrame(a)
    BY <1>2, RacerMoves
  <2>2. /\ UNCHANGED <<reply, stage, runs>>
        /\ \A d \in Calls \ {a} : pc'[d] = pc[d] /\ out'[d] = out[d] /\ attempt'[d] = attempt[d]
    BY <1>a, <2>1 DEF RacerFrame
  <2>3. /\ a \in Calls /\ pc'[a] = "done" => out'[a] \in Outcomes
        /\ a \in Mutations => attempt'[a] = attempt[a]
    BY <1>2, <1>a, RacerMoves
       DEF AtAdopt, AtClosed, AtStart, AtPromoted, AtJoined, AtFails, AtResume, Outcomes
  <2>4. \A d \in Mutations : attempt'[d] = 1
    BY <1>a, <2>2, <2>3 DEF RunInv
  <2>5. \A d \in Calls : pc'[d] = "done" => out'[d] \in Outcomes
    BY <2>2, <2>3 DEF RunInv
  <2> QED BY <1>s, <2>2, <2>4, <2>5 DEF RunInv
<1>3. CASE Subscribe \/ StreamStep
  <2>1. StreamFrame
    BY <1>3, StreamMoves
  <2> QED BY <1>s, <2>1 DEF StreamFrame, RunInv
<1>4. CASE Shutdown
  BY <1>s, <1>4 DEF Shutdown, callers, client, leader, RunInv
<1>5. ASSUME NEW e \in Epochs, ConnectionStep(e) \/ Refuse(e) \/ DropHost(e) \/ Crash(e)
      PROVE  RunInv'
  <2>1. UNCHANGED <<pc, attempt, out>>
    BY <1>5, ConnectionKeeps
  <2>2. CASE /\ runs' = runs
             /\ \A c \in Calls, f \in Epochs : stage'[c][f] \in Ran => stage[c][f] \in Ran
             /\ \A c \in Calls : reply'[c] = "answered"
                                 => reply[c] = "answered" \/ stage[c][e] = "written"
    <3>1. \A c \in Calls : reply'[c] = "answered" => runs[c] > 0
      BY <2>2 DEF RunInv, Ran
    <3> QED BY <1>s, <2>1, <2>2, <3>1 DEF RunInv
  <2>3. ASSUME NEW c \in Calls, Dispatch(c, e) PROVE RunInv'
    <3>1. /\ stage' = [stage EXCEPT ![c][e] = "executed"]
          /\ runs' = [runs EXCEPT ![c] = @ + 1] /\ reply' = reply
      BY <2>3 DEF Dispatch, client
    <3>2. runs'[c] > 0 /\ \A d \in Calls \ {c} : runs'[d] = runs[d]
      BY <1>t, <3>1 DEF TypeOK
    <3>3. \A d \in Calls \ {c} : stage'[d] = stage[d]
      BY <1>t, <3>1
    <3> QED BY <1>s, <2>1, <3>1, <3>2, <3>3 DEF RunInv
  <2> QED BY <1>5, <2>2, <2>3, LeaderRuns
<1> QED BY <1>0, <1>1, <1>2, <1>3, <1>4, <1>5, StepKinds

----------------------------------------------------------------------------
(* The session starts with its first role, no call made. *)
LEMMA InitInv == Init => SInv
<1> SUFFICES ASSUME Init PROVE SInv
  OBVIOUS
<1>a. Calls \subseteq Actors /\ Sub \in Actors /\ Actors = Calls \cup {Sub}
  BY DEF Actors
<1>r. role \in Roles /\ epoch \in 0..MaxEpoch /\ role <= epoch /\ epoch \in Nat
  BY SessionAssumption DEF Init, Roles, Local
<1>1. TypeOK
  <2>1. stage \in [Calls -> [Epochs -> Stages]]
    BY DEF Init, Stages
  <2>2. /\ pc \in [Actors -> CallPcs \cup SubPcs] /\ on \in [Actors -> Roles]
        /\ out \in [Actors -> Outcomes \cup {"none"}]
    BY RoleKinds DEF Init, CallPcs
  <2>3. /\ attempt \in [Calls -> {1, 2}] /\ reply \in [Calls -> {"none", "answered", "lost"}]
        /\ waiters \in [Epochs -> SUBSET Calls] /\ runs \in [Calls -> Nat]
    BY DEF Init
  <2>4. unsettled \in [Epochs -> Int] /\ host \in [Epochs -> HostLife]
    BY DEF Init, HostLife
  <2> QED BY <1>r, <2>1, <2>2, <2>3, <2>4 DEF Init, TypeOK
<1>2. RoleInv
  BY <1>a, <1>r, RoleKinds DEF Init, RoleInv, CallPcs, SubPcs, Bound
<1>3. RaceInv
  BY DEF Init, RaceInv
<1>4. LossInv
  <2>1. \A e \in Epochs : ~eof[e] /\ (host[e] # "none" => e <= epoch)
    BY <1>r DEF Init
  <2>2. \A c \in Calls : pc[c] = "idle"
    BY <1>a DEF Init
  <2> QED BY <2>1, <2>2 DEF LossInv, NoStrandedWaiter
<1>5. FreshInv
  BY <1>a DEF Init, FreshInv
<1>6. DrainInv
  <2>1. \A e \in Epochs : Open(e) = {} /\ unsettled[e] = 0
    BY DEF Init, Open, Unwritten
  <2> QED BY <2>1, FS_EmptySet DEF DrainInv
<1>7. RunInv
  <2>1. \A c \in Calls : Chances(c) = {} /\ runs[c] = 0 /\ attempt[c] = 1 /\ pc[c] = "idle" /\ reply[c] = "none"
    BY <1>a DEF Init, Chances
  <2>2. \A c \in Calls : runs[c] + Cardinality(Chances(c)) <= Budget(c)
    BY <2>1, FS_EmptySet DEF Budget
  <2>3. \A c \in Calls, e \in Epochs : stage[c][e] \notin Ran
    BY DEF Init, Ran
  <2>4. \A c \in Mutations : attempt[c] = 1
    BY <2>1, SessionAssumption
  <2> QED BY <2>1, <2>2, <2>3, <2>4 DEF RunInv
<1> QED BY <1>1, <1>2, <1>3, <1>4, <1>5, <1>6, <1>7 DEF SInv

(* The invariant is inductive. *)
LEMMA SInvStep == SInv /\ [Next]_vars => SInv'
<1> SUFFICES ASSUME SInv, [Next]_vars PROVE SInv'
  OBVIOUS
<1>0. TypeOK /\ RoleInv /\ RaceInv /\ LossInv /\ FreshInv /\ DrainInv /\ RunInv
  BY DEF SInv
<1>1. TypeOK'
  BY <1>0, TypeStep
<1> QED
  BY <1>0, <1>1, RoleStep, SerialStep, LossStep, FreshStep, DrainStep, RunStep DEF SInv

(* Through any interleaving of calls, re-races, drains and crashes the state of
   the session and of its connections stays consistent: fleet.rs, client.rs and
   host.rs taken together. *)
THEOREM SessionInvariance == Spec => []SInv
BY InitInv, SInvStep, PTL DEF Spec

(* ContextClient::call registers its waiter under the lock the reader takes at
   EOF: no call waits on a connection nobody reads. *)
THEOREM NobodyStranded == Spec => []NoStrandedWaiter
<1>1. SInv => NoStrandedWaiter
  BY DEF SInv, LossInv
<1> QED BY <1>1, SessionInvariance, PTL

(* ContextSession::reacquire holds the role lock across the acquisition: at
   most one re-race runs, over the connection its racer lost. *)
THEOREM RacesAreSerial == Spec => []OneRacePerLoss
<1>1. SInv => OneRacePerLoss
  BY DEF SInv, RaceInv, LossInv, OneRacePerLoss
<1> QED BY <1>1, SessionInvariance, PTL

(* A promoted session never joins again: only a racer writes the role, and it
   races over a connection. *)
THEOREM LeadershipLasts == Spec => PromotedNeverFollows
<1>1. SInv /\ [Next]_vars => [role = Local => role' \in {Local, Closed}]_vars
  <2> SUFFICES ASSUME SInv, [Next]_vars, role = Local PROVE role' \in {Local, Closed}
    OBVIOUS
  <2>0. TypeOK /\ RoleInv /\ RaceInv
    BY DEF SInv
  <2>1. ASSUME NEW a \in Actors, RaceStep(a) PROVE role' \in {Local, Closed}
    <3>1. CASE AtJoined(a)
      <4>1. role = on[a] /\ on[a] \in Epochs
        BY <2>0, <3>1 DEF AtJoined, RaceInv, RoleInv, Actors, Bound
      <4> QED BY <4>1, RoleKinds
    <3> QED BY <2>0, <2>1, <3>1, RacerMoves DEF AtAdopt, AtClosed, AtStart, AtPromoted, AtFails
  <2>2. ASSUME NEW c \in Calls, Invoke(c) \/ CallerStep(c) PROVE role' = role
    BY <2>0, <2>2, CallerMoves DEF CallerFrame
  <2>3. CASE Subscribe \/ StreamStep
    BY <2>0, <2>3, StreamMoves DEF StreamFrame
  <2>4. CASE Shutdown
    BY <2>4 DEF Shutdown
  <2>5. ASSUME NEW e \in Epochs, ConnectionStep(e) \/ Refuse(e) \/ DropHost(e) \/ Crash(e)
        PROVE  role' = role
    BY <2>5, ConnectionKeeps
  <2>6. CASE UNCHANGED vars
    BY <2>6 DEF vars, session
  <2> QED BY <2>1, <2>2, <2>3, <2>4, <2>5, <2>6, StepKinds
<1> QED BY <1>1, SessionInvariance, PTL DEF Spec, PromotedNeverFollows

(* A host that refuses stops doing so by draining, by the end of its grace or by
   a crash. *)
LEMMA RefusingEnds ==
  ASSUME SInv, [Next]_vars, NEW e \in Epochs, host[e] = "refusing", host'[e] # host[e]
  PROVE  Drain(e) \/ GraceExpires(e) \/ Crash(e)
<1> USE DEF session, callers, client, leader
<1>0. TypeOK /\ RoleInv /\ LossInv
  BY DEF SInv
<1>h. DOMAIN host = Epochs /\ e <= epoch /\ epoch \in Nat
  BY <1>0, RoleKinds DEF TypeOK, LossInv
<1>1. ASSUME NEW a \in Actors, RaceStep(a) PROVE host'[e] = host[e]
  <2>1. host'[e] = host[e] \/ e = epoch + 1
    BY <1>0, <1>1, RacerMoves DEF RacerFrame
  <2> QED BY <1>h, <2>1, RoleKinds
<1>2. ASSUME NEW c \in Calls, Invoke(c) \/ CallerStep(c) PROVE host' = host
  BY <1>0, <1>2, CallerMoves DEF CallerFrame
<1>3. CASE Subscribe \/ StreamStep
  BY <1>0, <1>h, <1>3, StreamMoves DEF StreamFrame
<1>4. CASE Shutdown
  BY <1>h, <1>4 DEF Shutdown
<1>5. ASSUME NEW f \in Epochs, ConnectionStep(f) \/ Refuse(f) \/ DropHost(f) \/ Crash(f)
      PROVE  Drain(e) \/ GraceExpires(e) \/ Crash(e)
  <2>1. CASE Drain(f) \/ GraceExpires(f) \/ Crash(f)
    <3>1. \A g \in Epochs \ {f} : host'[g] = host[g]
      BY <1>h, <2>1 DEF Drain, GraceExpires, HostLives, Crash
    <3> QED BY <2>1, <3>1
  <2>2. CASE Refuse(f) \/ DropHost(f)
    BY <1>h, <2>2 DEF Refuse, DropHost, HostLives
  <2>3. ASSUME NEW c \in Calls,
               Accept(c, f) \/ Dispatch(c, f) \/ Enqueue(c, f) \/ Write(c, f) \/ Deliver(c, f)
        PROVE  host' = host
    BY <2>3 DEF Accept, Dispatch, Enqueue, Write, Deliver
  <2>4. ReaderExits(f) \/ WriterExits(f) \/ Eof(f) => host' = host
    BY DEF ReaderExits, WriterExits, Eof
  <2> QED BY <1>5, <2>1, <2>2, <2>3, <2>4 DEF ConnectionStep
<1>6. CASE UNCHANGED vars
  BY <1>6 DEF vars
<1> QED BY <1>1, <1>2, <1>3, <1>4, <1>5, <1>6, StepKinds

(* RunningHost::shutdown stops waiting when the counter is zero, and then every
   accepted call has its result frame written; its grace runs out only over a call
   that has none: the counter is never below or above what is owed. *)
THEOREM DrainCountsCalls == Spec => DrainIsExact
<1>1. SInv /\ [Next]_vars
        => [\A e \in Epochs : host[e] = "refusing" =>
              /\ host'[e] = "drained" => \A c \in Calls : stage[c][e] \notin Unwritten
              /\ host'[e] = "abandoned" => \E c \in Calls : stage[c][e] \in Unwritten]_vars
  <2> SUFFICES ASSUME SInv, [Next]_vars, NEW e \in Epochs, host[e] = "refusing"
               PROVE  /\ host'[e] = "drained" => \A c \in Calls : stage[c][e] \notin Unwritten
                      /\ host'[e] = "abandoned" => \E c \in Calls : stage[c][e] \in Unwritten
    OBVIOUS
  <2>0. TypeOK /\ DrainInv /\ DOMAIN host = Epochs
    BY DEF SInv, TypeOK
  <2>1. ASSUME host'[e] = "drained" PROVE \A c \in Calls : stage[c][e] \notin Unwritten
    <3>1. unsettled[e] = 0
      BY <2>0, <2>1, RefusingEnds DEF Drain, GraceExpires, HostLives, Crash
    <3>2. Open(e) = {}
      BY <2>0, <3>1, OpenFinite, FS_EmptySet DEF DrainInv
    <3> QED BY <3>2 DEF Open
  <2>2. ASSUME host'[e] = "abandoned" PROVE \E c \in Calls : stage[c][e] \in Unwritten
    <3>1. unsettled[e] > 0
      BY <2>0, <2>2, RefusingEnds DEF Drain, GraceExpires, HostLives, Crash
    <3>2. Open(e) # {}
      BY <2>0, <3>1, FS_EmptySet DEF DrainInv
    <3> QED BY <3>2 DEF Open
  <2> QED BY <2>1, <2>2
<1> QED BY <1>1, SessionInvariance, PTL DEF Spec, DrainIsExact

----------------------------------------------------------------------------
(* The refinement of FleetCall *)

(* The status of a call that the seam's users see. *)
Status(c) == CASE pc[c] = "idle" -> "idle"
               [] pc[c] = "done" -> out[c]
               [] OTHER -> "pending"

(* The places at which the seam's users see a pending call. *)
Pending == CallPcs \ {"idle", "done"}

(* Its values, without CASE. *)
LEMMA StatusValue ==
  ASSUME NEW c \in Calls
  PROVE  /\ pc[c] = "idle" => Status(c) = "idle"
         /\ pc[c] = "done" => Status(c) = out[c]
         /\ pc[c] \in Pending => Status(c) = "pending"
BY DEF Status, Pending

(* A step that moves no call between idle, pending and done, and runs none, is
   a stutter of FleetCall. *)
LEMMA PromiseStutters ==
  ASSUME runs' = runs,
         \A d \in Calls : \/ pc'[d] = pc[d] /\ out'[d] = out[d]
                          \/ pc[d] \in Pending /\ pc'[d] \in Pending
  PROVE  UNCHANGED Promise!callVars
<1>1. \A d \in Calls : Status(d)' = Status(d)
  BY DEF Status, Pending
<1> QED BY <1>1 DEF Promise!callVars, Status

(* A step that ends one pending call is Return of FleetCall. *)
LEMMA PromiseReturns ==
  ASSUME runs' = runs, NEW c \in Calls, pc[c] \in Pending, pc'[c] = "done",
         out'[c] \in Outcomes, out'[c] = "answered" => runs[c] > 0,
         \A d \in Calls \ {c} : pc'[d] = pc[d] /\ out'[d] = out[d]
  PROVE  Promise!Return(c)
<1>1. \A d \in Calls \ {c} : Status(d)' = Status(d)
  BY DEF Status
<1>2. Status(c) = "pending" /\ Status(c)' = out'[c]
  BY DEF Status, Pending
<1>3. [d \in Calls |-> Status(d)]' = [[d \in Calls |-> Status(d)] EXCEPT ![c] = out'[c]]
  BY <1>1, <1>2
<1>4. out'[c] \in {"answered"} \cup Promise!Failures
  BY DEF Outcomes, Promise!Failures
<1> QED BY <1>2, <1>3, <1>4 DEF Promise!Return, Status

(* An execution stays within the limit of FleetCall: attempts and limit agree. *)
LEMMA BudgetWithinLimit ==
  ASSUME TypeOK, RunInv, NEW c \in Calls
  PROVE  /\ Promise!Limit(c) \in {1, 2} /\ attempt[c] <= Promise!Limit(c)
         /\ runs[c] \in Nat /\ Cardinality(Chances(c)) \in Nat
         /\ runs[c] + Cardinality(Chances(c)) <= Budget(c) /\ Budget(c) <= attempt[c]
<1>1. attempt[c] \in {1, 2} /\ (c \in Mutations => attempt[c] = 1)
  BY DEF TypeOK, RunInv
<1>2. Budget(c) <= attempt[c]
  BY <1>1 DEF Budget
<1> QED BY <1>1, <1>2, ChancesFinite DEF RunInv, TypeOK, Promise!Limit

(* Every step of the session is a step of FleetCall, or shows it nothing. *)
LEMMA PromiseStep == SInv /\ SInv' /\ [Next]_vars => [Promise!Next]_(Promise!callVars)
<1> SUFFICES ASSUME SInv, SInv', [Next]_vars PROVE Promise!Next \/ UNCHANGED Promise!callVars
  OBVIOUS
<1>i. TypeOK /\ RoleInv /\ FreshInv /\ RunInv /\ (runs \in [Calls -> Nat])
  BY DEF SInv, TypeOK
<1>a. Calls \subseteq Actors /\ Mutations \subseteq Calls /\ Sub \notin Calls
  BY SessionAssumption DEF Actors
<1>b. \A c \in Calls : pc[c] \in CallPcs /\ pc'[c] \in CallPcs
  BY DEF SInv, RoleInv
<1>p. CallPcs = Pending \cup {"idle", "done"}
      /\ {"snapshot", "local", "register", "send", "await", "reacquire", "racing"} \subseteq Pending
      /\ {"failover", "acquire", "closed", "answered"} \subseteq Outcomes
  BY DEF CallPcs, Pending, Outcomes
<1>0. CASE UNCHANGED vars
  BY <1>0, PromiseStutters DEF vars, callers
<1>1. ASSUME NEW c \in Calls, Invoke(c) \/ CallerStep(c)
      PROVE  Promise!Next \/ UNCHANGED Promise!callVars
  <2>1. CallerFrame(c)
    BY <1>i, <1>1, CallerMoves
  <2>2. \A d \in Calls \ {c} : pc'[d] = pc[d] /\ out'[d] = out[d] /\ runs'[d] = runs[d]
    BY <1>a, <2>1 DEF CallerFrame
  <2>r. ASSUME runs'[c] = runs[c] PROVE runs' = runs
    <3>1. runs' \in [Calls -> Nat]
      BY DEF SInv, TypeOK
    <3> QED BY <1>i, <2>2, <2>r, <3>1
  <2>s. \A d \in Calls \ {c} : Status(d)' = Status(d)
    BY <2>2 DEF Status
  <2>3. CASE AtInvoke(c)
    <3>1. Status(c) = "idle" /\ Status(c)' = "pending" /\ runs'[c] = runs[c]
      BY <2>3 DEF AtInvoke, Quiet, Status
    <3>2. [d \in Calls |-> Status(d)]' = [[d \in Calls |-> Status(d)] EXCEPT ![c] = "pending"]
      BY <2>s, <3>1
    <3>3. Promise!Begin(c)
      BY <2>r, <3>1, <3>2 DEF Promise!Begin, Status
    <3> QED BY <3>3 DEF Promise!Next
  <2>4. CASE AtLocal(c)
    <3>1. Status(c) = "pending" /\ Status(c)' = "answered" /\ runs'[c] = runs[c] + 1
      BY <2>4 DEF AtLocal, Status
    <3>2. [d \in Calls |-> Status(d)]' = [[d \in Calls |-> Status(d)] EXCEPT ![c] = "answered"]
      BY <2>s, <3>1
    <3>3. runs' = [runs EXCEPT ![c] = @ + 1]
      <4>1. runs' \in [Calls -> Nat]
        BY DEF SInv, TypeOK
      <4> QED BY <1>i, <2>2, <3>1, <4>1
    <3>4. runs[c] < Promise!Limit(c)
      <4>1. Budget(c) = attempt[c] - 1 /\ attempt[c] \in {1, 2}
        BY <1>i, <2>4, BudgetValue DEF AtLocal, TypeOK
      <4> QED BY <1>i, <4>1, BudgetWithinLimit
    <3>5. Promise!ExecuteAndReturn(c)
      BY <3>1, <3>2, <3>3, <3>4 DEF Promise!ExecuteAndReturn, Status
    <3> QED BY <3>5 DEF Promise!Next
  <2>5. CASE AtSnapshot(c) \/ AtLoss(c) \/ AtRegister(c) \/ AtSend(c) \/ AtAnswer(c)
    <3>1. runs' = runs
      BY <2>5, <2>r DEF AtSnapshot, AtLoss, AtRegister, AtSend, AtAnswer, Quiet
    <3>2. pc[c] \in Pending /\ pc'[c] \in Pending \cup {"done"}
      BY <1>p, <2>5 DEF AtSnapshot, AtLoss, AtRegister, AtSend, AtAnswer
    <3>3. pc'[c] = "done" => out'[c] \in Outcomes
      BY <1>p, <2>5 DEF AtSnapshot, AtLoss, AtRegister, AtSend, AtAnswer
    <3>4. pc'[c] = "done" /\ out'[c] = "answered" => runs[c] > 0
      <4>1. pc'[c] = "done" /\ out'[c] = "answered" => reply[c] = "answered"
        BY <2>5 DEF AtSnapshot, AtLoss, AtRegister, AtSend, AtAnswer
      <4> QED BY <1>i, <4>1 DEF RunInv
    <3>5. CASE pc'[c] = "done"
      BY <2>2, <3>1, <3>2, <3>3, <3>4, <3>5, PromiseReturns DEF Promise!Next
    <3>6. CASE pc'[c] \in Pending
      BY <2>2, <3>1, <3>2, <3>6, PromiseStutters
    <3> QED BY <3>2, <3>5, <3>6
  <2> QED BY <1>i, <1>1, <2>3, <2>4, <2>5, CallerMoves
<1>2. ASSUME NEW a \in Actors, RaceStep(a) PROVE Promise!Next \/ UNCHANGED Promise!callVars
  <2>1. RacerFrame(a)
    BY <1>i, <1>2, RacerMoves
  <2>2. runs' = runs /\ \A d \in Calls \ {a} : pc'[d] = pc[d] /\ out'[d] = out[d]
    BY <1>a, <2>1 DEF RacerFrame
  <2>3. CASE a \notin Calls
    BY <2>2, <2>3, PromiseStutters
  <2>4. CASE a \in Calls
    <3>1. /\ pc[a] \in Pending /\ pc'[a] \in Pending \cup {"done"}
          /\ pc'[a] = "done" => out'[a] \in {"failover", "acquire", "closed"}
      BY <1>i, <1>2, <1>a, <1>p, <2>4, RacerMoves
         DEF AtAdopt, AtClosed, AtStart, AtPromoted, AtJoined, AtFails, AtResume
    <3>2. CASE pc'[a] = "done"
      <4>1. out'[a] \in Outcomes /\ out'[a] # "answered"
        BY <1>p, <3>1, <3>2
      <4> QED BY <2>2, <2>4, <3>1, <3>2, <4>1, PromiseReturns DEF Promise!Next
    <3>3. CASE pc'[a] \in Pending
      BY <2>2, <3>1, <3>3, PromiseStutters
    <3> QED BY <3>1, <3>2, <3>3
  <2> QED BY <2>3, <2>4
<1>3. CASE Subscribe \/ StreamStep
  <2>1. StreamFrame
    BY <1>i, <1>3, StreamMoves
  <2>2. runs' = runs /\ \A d \in Calls : pc'[d] = pc[d] /\ out'[d] = out[d]
    BY <2>1 DEF StreamFrame
  <2> QED BY <2>2, PromiseStutters
<1>4. CASE Shutdown
  BY <1>4, PromiseStutters DEF Shutdown, callers
<1>5. ASSUME NEW e \in Epochs, ConnectionStep(e) \/ Refuse(e) \/ DropHost(e) \/ Crash(e)
      PROVE  Promise!Next \/ UNCHANGED Promise!callVars
  <2>1. UNCHANGED <<pc, out>>
    BY <1>5, ConnectionKeeps
  <2>2. CASE runs' = runs
    BY <2>1, <2>2, PromiseStutters
  <2>3. ASSUME NEW c \in Calls, Dispatch(c, e) PROVE Promise!Next
    <3>1. runs' = [runs EXCEPT ![c] = @ + 1] /\ e \in Chances(c)
      BY <2>3 DEF Dispatch, Chances
    <3>2. Cardinality(Chances(c)) # 0
      BY <3>1, ChancesFinite, FS_EmptySet
    <3>3. Budget(c) > 0 /\ Budget(c) \in Nat /\ runs[c] < Promise!Limit(c)
      <4>1. attempt[c] \in {1, 2}
        BY <1>i DEF TypeOK
      <4> QED BY <1>i, <3>2, <4>1, BudgetWithinLimit, BudgetValue
    <3>4. Status(c) # "idle"
      <4>1. pc[c] # "idle"
        BY <1>i, <3>3, BudgetValue DEF FreshInv
      <4> QED BY <1>i, <1>b, <1>p, <4>1, StatusValue DEF RunInv, Outcomes
    <3>5. \A d \in Calls : Status(d)' = Status(d)
      BY <2>1 DEF Status
    <3>6. Promise!Execute(c)
      BY <3>1, <3>3, <3>4, <3>5 DEF Promise!Execute, Status
    <3> QED BY <3>6 DEF Promise!Next
  <2> QED BY <1>i, <1>5, <2>2, <2>3, LeaderRuns
<1> QED BY <1>0, <1>1, <1>2, <1>3, <1>4, <1>5, StepKinds

(* The session keeps the promise of the FleetContext seam through every
   failover: an answered call ran, a mutation runs at most once and a read at
   most twice. *)
THEOREM SessionKeepsPromise == Spec => CallPromise
<1>1. Init => Promise!Init
  <2> SUFFICES ASSUME Init PROVE Promise!Init
    OBVIOUS
  <2>1. \A c \in Calls : Status(c) = "idle"
    BY DEF Init, Status, Actors
  <2> QED BY <2>1 DEF Init, Promise!Init, Status
<1> QED BY <1>1, PromiseStep, SessionInvariance, PTL DEF Spec, CallPromise, Promise!Spec

=============================================================================
