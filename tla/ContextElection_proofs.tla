---------------------- MODULE ContextElection_proofs ----------------------
(***************************************************************************)
(* Proofs about ContextElection for every number of processes and ports:   *)
(* type correctness, the bind is the lock, at most one leader unless a     *)
(* port is released under a contender, and a discovery file that names it. *)
(***************************************************************************)
EXTENDS ContextElection, TLAPS

(* A port a contender walks past: taken, and not by a host that answers. *)
Blocked(j) == owner[j] # Free /\ ~(owner[j] \in Procs /\ pc[owner[j]] \in ServingPc)

(* Every port before the leader's own is blocked. *)
Shielded(l) == \A j \in Ports : j < pos[l] => Blocked(j)

(* A contender that is binding has only blocked ports behind it, and the port
   it lost is still taken. *)
WalkInv ==
  \A c \in Procs :
    /\ pc[c] \in {"bind", "probe_bound"} => \A j \in Ports : j < pos[c] => Blocked(j)
    /\ pc[c] = "probe_bound" => owner[pos[c]] # Free

(* A contender that is past the discovery url will meet the leader: either its
   scan has still to reach the leader's port, or its walk can bind no port
   before it. *)
MeetInv ==
  \A c, l \in Procs :
    pc[l] \in ServingPc /\ pc[c] \in {"scan", "bind", "probe_bound"}
      => \/ pc[c] = "scan" /\ pos[c] <= pos[l]
         \/ Shielded(l)

(* The inductive invariant. *)
IInv == TypeOK /\ BindIsLock /\ (~churn => OneLeader /\ WalkInv /\ MeetInv)

----------------------------------------------------------------------------
(* The control states the actions move a process to are control states. *)
LEMMA PcMembers ==
  {"probe_disc", "scan", "bind", "probe_bound", "publish", "leader", "rotating", "draining",
   "refresh", "connect", "idle", "follower", "failed", "closed", "removing"} \subseteq PcStates
  BY DEF PcStates, Contending, HoldingPc, ServingPc, Waiting

(* The marks for a port that no process owns are not processes. *)
LEMMA NotProcs == /\ Free \notin Procs /\ Foreign \notin Procs /\ Silent \notin Procs
                  /\ Foreign # Free /\ Silent # Free /\ Foreign # Silent
  BY ConstantsAssumption

(* The counters of a candidate stay in range when a step guarded by the bound
   increments them. *)
LEMMA Bounds ==
  /\ 1 \in Ports
  /\ \A i \in Ports : i < N => i + 1 \in Ports
  /\ 0 \in Token
  /\ \A t \in Token : t < MaxToken => t + 1 \in Token
  /\ 0 \in Tries
  /\ \A k \in Tries : k + 1 < BusyAttempts => k + 1 \in Tries
  BY ConstantsAssumption DEF Ports, Token, Tries

(* Every step of the election keeps the types of its state. *)
LEMMA TypeStep == TypeOK /\ [Next]_vars => TypeOK'
<1> SUFFICES ASSUME TypeOK, [Next]_vars PROVE TypeOK'
  OBVIOUS
<1> USE PcMembers, Bounds DEF TypeOK, Discovery, Goto
<1>0. CASE UNCHANGED vars
  BY <1>0 DEF vars
<1>1. ASSUME NEW p \in Procs, ProbeStep(p) PROVE TypeOK'
  <2>1. pos[p] \in Ports /\ tries[p] \in Tries
    OBVIOUS
  <2>2. owner[pos[p]] \in Procs => [peer EXCEPT ![p] = owner[pos[p]]] \in [Procs -> Procs \cup {None}]
    OBVIOUS
  <2>3. Probe(pos[p], tok[p]) = "OurLeader" => owner[pos[p]] \in Procs
    BY <2>1 DEF Probe
  <2>4. CASE Probe(pos[p], tok[p]) = "OurLeader"
    BY <1>1, <2>2, <2>3, <2>4 DEF ProbeStep
  <2>5. CASE Probe(pos[p], tok[p]) = "Busy"
    BY <1>1, <2>1, <2>5 DEF ProbeStep
  <2>6. CASE Probe(pos[p], tok[p]) = "TokenMismatch"
    BY <1>1, <2>6 DEF ProbeStep
  <2>7. CASE StepPast(p)
    <3>1. /\ tries' \in [Procs -> Tries]
          /\ pc' \in [Procs -> PcStates]
          /\ peer' = peer
      BY <1>1, <2>7 DEF StepPast
    <3>2. pos' \in [Procs -> Ports]
      BY <1>1, <2>1, <2>7 DEF StepPast
    <3> QED BY <1>1, <3>1, <3>2 DEF ProbeStep
  <2> QED BY <1>1, <2>4, <2>5, <2>6, <2>7 DEF ProbeStep
<1>2. ASSUME NEW p \in Procs, Start(p) PROVE TypeOK'
  <2>1. CASE disc # None
    <3>1. disc.token \in Token /\ disc.port \in Ports
      BY <2>1
    <3> QED BY <1>2, <2>1, <3>1 DEF Start
  <2>2. CASE disc = None
    BY <1>2, <2>2 DEF Start
  <2> QED BY <2>1, <2>2
<1>3. ASSUME NEW p \in Procs, Bind(p) PROVE TypeOK'
  <2>1. CASE owner[pos[p]] = Free
    BY <1>3, <2>1 DEF Bind
  <2>2. CASE owner[pos[p]] # Free
    BY <1>3, <2>2 DEF Bind
  <2> QED BY <2>1, <2>2
<1>4. ASSUME NEW p \in Procs, Publish(p) PROVE TypeOK'
  BY <1>4 DEF Publish
<1>5. ASSUME NEW p \in Procs, PollDiscovery(p) PROVE TypeOK'
  BY <1>5 DEF PollDiscovery
<1>6. ASSUME NEW p \in Procs, ConnectRefreshed(p) PROVE TypeOK'
  <2>1. Probe(pos[p], polled[p]) = "OurLeader" => owner[pos[p]] \in Procs
    BY DEF Probe
  <2> QED BY <1>6, <2>1 DEF ConnectRefreshed
<1>7. ASSUME NEW p \in Procs, WindowCloses(p) PROVE TypeOK'
  BY <1>7 DEF WindowCloses
<1>8. ASSUME NEW p \in Procs, RotateWrite(p) PROVE TypeOK'
  BY <1>8 DEF RotateWrite
<1>9. ASSUME NEW p \in Procs, CloseDrained(p) PROVE TypeOK'
  BY <1>9 DEF CloseDrained, CloseListener, ReleaseUnder
<1>10. ASSUME NEW p \in Procs, ReadClaim(p) PROVE TypeOK'
  BY <1>10 DEF ReadClaim
<1>11. ASSUME NEW p \in Procs, RemoveClaim(p) PROVE TypeOK'
  BY <1>11 DEF RemoveClaim
<1>12. ASSUME NEW p \in Procs, PublishFails(p) PROVE TypeOK'
  BY <1>12 DEF PublishFails, CloseListener, ReleaseUnder, Fault
<1>13. ASSUME NEW p \in Procs, BindFails(p) PROVE TypeOK'
  BY <1>13 DEF BindFails, Fault
<1>14. ASSUME NEW p \in Procs, Crash(p) PROVE TypeOK'
  <2>1. CASE pc[p] \in HoldingPc
    BY <1>14, <2>1 DEF Crash, CloseListener, ReleaseUnder, Fault
  <2>2. CASE pc[p] \notin HoldingPc
    BY <1>14, <2>2 DEF Crash, Fault
  <2> QED BY <2>1, <2>2
<1>15. ASSUME NEW p \in Procs, RotateSwap(p) PROVE TypeOK'
  BY <1>15 DEF RotateSwap, Fault
<1>16. ASSUME NEW p \in Procs, RotateFails(p) PROVE TypeOK'
  BY <1>16 DEF RotateFails, Fault
<1>17. ASSUME NEW p \in Procs, Refuse(p) PROVE TypeOK'
  BY <1>17 DEF Refuse, Fault
<1>18. ASSUME NEW p \in Procs, Leave(p) PROVE TypeOK'
  BY <1>18 DEF Leave, Fault
<1>19. ASSUME NEW p \in Procs, Wedge(p) PROVE TypeOK'
  BY <1>19 DEF Wedge, Fault
<1>20. ASSUME NEW p \in Procs, Unwedge(p) PROVE TypeOK'
  BY <1>20 DEF Unwedge
<1>21. ASSUME NEW i \in Ports, ForeignClaims(i) PROVE TypeOK'
  BY <1>21 DEF ForeignClaims, Fault
<1>22. ASSUME NEW i \in Ports, ForeignLeaves(i) PROVE TypeOK'
  BY <1>22 DEF ForeignLeaves, Fault, ReleaseUnder
<1>23. CASE LoseDiscovery
  BY <1>23 DEF LoseDiscovery, Fault
<1> QED
  BY <1>0, <1>1, <1>2, <1>3, <1>4, <1>5, <1>6, <1>7, <1>8, <1>9, <1>10, <1>11, <1>12, <1>13, <1>14, <1>15, <1>16, <1>17, <1>18, <1>19, <1>20, <1>21, <1>22, <1>23 DEF Next, Progress

----------------------------------------------------------------------------
(* Steps that neither take nor free a port keep the lock invariant as long as
   nobody becomes or stops being a holder. *)
LEMMA LockStep == TypeOK /\ BindIsLock /\ [Next]_vars => BindIsLock'
<1> SUFFICES ASSUME TypeOK, BindIsLock, [Next]_vars PROVE BindIsLock'
  OBVIOUS
<1> USE NotProcs DEF TypeOK, BindIsLock, Goto, HoldingPc, ServingPc
<1>0. CASE UNCHANGED vars
  BY <1>0 DEF vars
<1>1. ASSUME NEW p \in Procs, ProbeStep(p) PROVE BindIsLock'
  <2>1. UNCHANGED owner /\ pc[p] \notin HoldingPc /\ pc'[p] \notin HoldingPc
    BY <1>1 DEF ProbeStep, StepPast, Contending
  <2>2. \A q \in Procs : q # p => pc'[q] = pc[q] /\ pos'[q] = pos[q]
    BY <1>1 DEF ProbeStep, StepPast
  <2> QED BY <2>1, <2>2
<1>2. ASSUME NEW p \in Procs, PollDiscovery(p) PROVE BindIsLock'
  BY <1>2 DEF PollDiscovery
<1>3. ASSUME NEW p \in Procs, ConnectRefreshed(p) PROVE BindIsLock'
  BY <1>3 DEF ConnectRefreshed
<1>4. ASSUME NEW p \in Procs, WindowCloses(p) PROVE BindIsLock'
  BY <1>4 DEF WindowCloses
<1>5. ASSUME NEW p \in Procs, RotateWrite(p) PROVE BindIsLock'
  BY <1>5 DEF RotateWrite
<1>6. ASSUME NEW p \in Procs, ReadClaim(p) PROVE BindIsLock'
  BY <1>6 DEF ReadClaim
<1>7. ASSUME NEW p \in Procs, RemoveClaim(p) PROVE BindIsLock'
  BY <1>7 DEF RemoveClaim
<1>8. ASSUME NEW p \in Procs, BindFails(p) PROVE BindIsLock'
  BY <1>8 DEF BindFails, Fault
<1>9. ASSUME NEW p \in Procs, RotateSwap(p) PROVE BindIsLock'
  BY <1>9 DEF RotateSwap, Fault
<1>10. ASSUME NEW p \in Procs, RotateFails(p) PROVE BindIsLock'
  BY <1>10 DEF RotateFails, Fault
<1>11. ASSUME NEW p \in Procs, Refuse(p) PROVE BindIsLock'
  BY <1>11 DEF Refuse, Fault
<1>12. ASSUME NEW p \in Procs, Leave(p) PROVE BindIsLock'
  BY <1>12 DEF Leave, Fault
<1>13. ASSUME NEW p \in Procs, Wedge(p) PROVE BindIsLock'
  BY <1>13 DEF Wedge, Fault
<1>14. ASSUME NEW p \in Procs, Unwedge(p) PROVE BindIsLock'
  BY <1>14 DEF Unwedge
<1>15. ASSUME NEW p \in Procs, Publish(p) PROVE BindIsLock'
  BY <1>15 DEF Publish
<1>16. ASSUME NEW p \in Procs, Start(p) PROVE BindIsLock'
  BY <1>16 DEF Start
<1>17. ASSUME NEW p \in Procs, Bind(p) PROVE BindIsLock'
  <2>1. CASE owner[pos[p]] = Free
    BY <1>17, <2>1 DEF Bind
  <2>2. CASE owner[pos[p]] # Free
    BY <1>17, <2>2 DEF Bind
  <2> QED BY <2>1, <2>2
<1>18. ASSUME NEW p \in Procs, CloseDrained(p) PROVE BindIsLock'
  BY <1>18 DEF CloseDrained, CloseListener
<1>19. ASSUME NEW p \in Procs, PublishFails(p) PROVE BindIsLock'
  BY <1>19 DEF PublishFails, CloseListener
<1>20. ASSUME NEW p \in Procs, Crash(p) PROVE BindIsLock'
  <2>1. CASE pc[p] \in HoldingPc
    BY <1>20, <2>1 DEF Crash, CloseListener
  <2>2. CASE pc[p] \notin HoldingPc
    BY <1>20, <2>2 DEF Crash
  <2> QED BY <2>1, <2>2
<1>21. ASSUME NEW i \in Ports, ForeignClaims(i) PROVE BindIsLock'
  BY <1>21 DEF ForeignClaims
<1>22. ASSUME NEW i \in Ports, ForeignLeaves(i) PROVE BindIsLock'
  BY <1>22 DEF ForeignLeaves
<1>23. CASE LoseDiscovery
  BY <1>23 DEF LoseDiscovery
<1> QED
  BY <1>0, <1>1, <1>2, <1>3, <1>4, <1>5, <1>6, <1>7, <1>8, <1>9, <1>10, <1>11, <1>12, <1>13, <1>14, <1>15, <1>16, <1>17, <1>18, <1>19, <1>20, <1>21, <1>22, <1>23 DEF Next, Progress

----------------------------------------------------------------------------
(* The part of the invariant that holds until a port is released under a
   contender. *)
Elected == ~churn => OneLeader /\ WalkInv /\ MeetInv

Walkers == {"scan", "bind", "probe_bound"}

(* A step that moves no port, starts no host and sends nobody into the scan or
   the walk keeps the election. *)
LEMMA QuietStep ==
  ASSUME TypeOK, Elected, UNCHANGED <<owner, churn, pos>>,
         \A q \in Procs : pc'[q] \in ServingPc => pc[q] \in ServingPc,
         \A q \in Procs : pc'[q] \in Walkers => pc'[q] = pc[q]
  PROVE  Elected'
<1> SUFFICES ASSUME ~churn PROVE (OneLeader /\ WalkInv /\ MeetInv)'
  BY DEF Elected
<1>1. OneLeader /\ WalkInv /\ MeetInv
  BY DEF Elected
<1>2. \A j \in Ports : Blocked(j) => Blocked(j)'
  BY DEF Blocked, TypeOK
<1>3. OneLeader'
  BY <1>1 DEF OneLeader, Serving
<1>4. WalkInv'
  BY <1>1, <1>2 DEF WalkInv, Walkers
<1>5. MeetInv'
  BY <1>1, <1>2 DEF MeetInv, Shielded, Walkers
<1> QED BY <1>3, <1>4, <1>5

(* A port released while nobody else is in the middle of acquire keeps it too. *)
LEMMA ReleaseStep ==
  ASSUME TypeOK, Elected, NEW r, ReleaseUnder(r),
         \A q \in Procs : pc'[q] \in ServingPc => pc[q] \in ServingPc,
         \A q \in Procs : pc'[q] \in Walkers => pc'[q] = pc[q],
         r \in Procs => pc'[r] \notin Walkers
  PROVE  Elected'
<1> SUFFICES ASSUME ~churn' PROVE (OneLeader /\ WalkInv /\ MeetInv)'
  BY DEF Elected
<1>1. ~churn /\ \A q \in Procs : pc'[q] \notin Walkers
  BY DEF ReleaseUnder, Contending, Walkers
<1>2. OneLeader'
  BY <1>1 DEF Elected, OneLeader, Serving
<1>3. WalkInv' /\ MeetInv'
  BY <1>1 DEF WalkInv, MeetInv, Walkers
<1> QED BY <1>2, <1>3

(* A probe lets a contender go on only past a port that no leader serves. *)
LEMMA ProbePast ==
  ASSUME TypeOK, NEW i \in Ports, NEW t, Probe(i, t) \in {"Foreign", "Dead"}
  PROVE  /\ ~(owner[i] \in Procs /\ pc[owner[i]] \in ServingPc)
         /\ owner[i] # Free => Blocked(i)
  BY NotProcs DEF Probe, Serving, Blocked, TypeOK

(* The order on the port range, in the forms the walk arguments use. *)
LEMMA PortOrder == \A i, j \in Ports : /\ 1 <= i /\ i <= N /\ ~(i < 1)
                                       /\ (j < i + 1 => j < i \/ j = i)
                                       /\ (i <= j /\ i # j => i + 1 <= j)
                                       /\ (N <= j => j = N)
                                       /\ (i < j \/ i = j \/ j < i)
                                       /\ (~(i <= j) => j < i)
                                       /\ (i < j => i # j)
                                       /\ (i <= j /\ i # j => i < j)
  BY ConstantsAssumption DEF Ports

(* A probe of a candidate keeps the election: it walks on only past a port that
   no leader serves, so the leader stays ahead of the scan or shielded. *)
LEMMA ProbeElected ==
  ASSUME TypeOK, BindIsLock, Elected, NEW p \in Procs, ProbeStep(p)
  PROVE  Elected'
<1> DEFINE out == Probe(pos[p], tok[p])
<1>1. CASE out \notin {"Foreign", "Dead"}
  <2>1. /\ UNCHANGED <<owner, churn, pos>>
        /\ pc' \in {pc, [pc EXCEPT ![p] = "follower"], [pc EXCEPT ![p] = "failed"],
                     [pc EXCEPT ![p] = "refresh"]}
    BY <1>1, ProbeStep(p) DEF ProbeStep, Goto
  <2> QED BY <2>1, QuietStep DEF TypeOK, ServingPc, Walkers
<1>2. CASE out \in {"Foreign", "Dead"}
  <2> HIDE DEF out
  <2>1. /\ StepPast(p) /\ UNCHANGED <<owner, churn>>
        /\ pc[p] \in {"probe_disc", "scan", "probe_bound"}
    BY <1>2, ProbeStep(p) DEF ProbeStep, Contending, out
  <2>2. pos[p] \in Ports /\ pc[p] \notin ServingPc
    BY <2>1 DEF TypeOK, ServingPc
  <2>3. /\ ~(owner[pos[p]] \in Procs /\ pc[owner[pos[p]]] \in ServingPc)
        /\ owner[pos[p]] # Free => Blocked(pos[p])
    BY <1>2, <2>2, ProbePast DEF out
  <2>4. \A l \in Procs : pc[l] \in ServingPc => owner[pos[l]] = l /\ pos[l] \in Ports /\ pos[l] # pos[p]
    BY <2>2, <2>3 DEF BindIsLock, HoldingPc, TypeOK
  <2>5. /\ \A q \in Procs : q # p => pc'[q] = pc[q] /\ pos'[q] = pos[q]
        /\ pc'[p] \notin ServingPc
    BY <2>1, <2>2 DEF StepPast, Goto, TypeOK, ServingPc
  <2>6. \A q \in Procs : (pc'[q] \in ServingPc <=> pc[q] \in ServingPc)
                          /\ (pc[q] \in ServingPc => pos'[q] = pos[q])
    BY <2>2, <2>5
  <2>7. \A j \in Ports : Blocked(j) <=> Blocked(j)'
    BY <2>1, <2>6 DEF Blocked
  <2> SUFFICES ASSUME ~churn PROVE (OneLeader /\ WalkInv /\ MeetInv)'
    BY <2>1 DEF Elected
  <2>8. OneLeader /\ WalkInv /\ MeetInv
    BY DEF Elected
  <2>9. OneLeader'
    BY <2>6, <2>8 DEF OneLeader, Serving
  <2>10. WalkInv'
    <3>1. ASSUME NEW c \in Procs, c # p
          PROVE  /\ pc'[c] \in {"bind", "probe_bound"} => \A j \in Ports : j < pos'[c] => Blocked(j)'
                 /\ pc'[c] = "probe_bound" => owner'[pos'[c]] # Free
      BY <2>1, <2>5, <2>7, <2>8, <3>1 DEF WalkInv
    <3>2. pc'[p] # "probe_bound"
      BY <2>1 DEF StepPast, Goto, TypeOK
    <3>3. ASSUME pc'[p] = "bind", NEW j \in Ports, j < pos'[p] PROVE Blocked(j)
      <4>1. CASE pc[p] = "scan"
        <5>1. pos'[p] = 1
          BY <2>1, <3>3, <4>1 DEF StepPast, Goto, TypeOK
        <5> QED BY <3>3, <5>1, PortOrder
      <4>2. CASE pc[p] = "probe_bound"
        <5>1. pos'[p] = pos[p] + 1
          BY <2>1, <3>3, <4>2 DEF StepPast, Goto, TypeOK
        <5>2. Blocked(pos[p])
          BY <2>3, <2>8, <4>2 DEF WalkInv
        <5> QED BY <2>2, <2>8, <3>3, <4>2, <5>1, <5>2, PortOrder DEF WalkInv
      <4>3. CASE pc[p] = "probe_disc"
        BY <2>1, <3>3, <4>3 DEF StepPast, Goto, TypeOK
      <4> QED BY <2>1, <4>1, <4>2, <4>3
    <3> QED BY <2>7, <3>1, <3>2, <3>3 DEF WalkInv
  <2>11. MeetInv'
    <3> SUFFICES ASSUME NEW c \in Procs, NEW l \in Procs, pc'[l] \in ServingPc, pc'[c] \in Walkers
                 PROVE  (pc'[c] = "scan" /\ pos'[c] <= pos'[l]) \/ Shielded(l)'
      BY DEF MeetInv, Walkers
    <3>1. pc[l] \in ServingPc /\ pos'[l] = pos[l]
      BY <2>6
    <3>2. Shielded(l) => Shielded(l)'
      BY <2>7, <3>1 DEF Shielded
    <3>3. CASE c # p
      BY <2>5, <2>8, <3>1, <3>2, <3>3 DEF MeetInv, Walkers
    <3>4. CASE c = p /\ pc[p] = "probe_disc"
      <4>1. pc'[p] = "scan" /\ pos'[p] = 1
        BY <2>1, <3>4 DEF StepPast, Goto, TypeOK
      <4> QED BY <2>4, <3>1, <3>4, <4>1, PortOrder
    <3>5. CASE c = p /\ pc[p] = "probe_bound"
      BY <2>8, <3>1, <3>2, <3>5 DEF MeetInv
    <3>6. CASE c = p /\ pc[p] = "scan" /\ ~Shielded(l)
      <4>1. pos[p] <= pos[l] /\ pos[p] # pos[l]
        BY <2>4, <2>8, <3>1, <3>6 DEF MeetInv
      <4>2. pos[p] # N
        BY <2>2, <2>4, <3>1, <4>1, PortOrder
      <4>3. pc'[p] = "scan" /\ pos'[p] = pos[p] + 1
        BY <2>1, <3>6, <4>2 DEF StepPast, TypeOK
      <4> QED BY <2>2, <2>4, <3>1, <3>6, <4>1, <4>3, PortOrder
    <3> QED BY <2>1, <3>2, <3>3, <3>4, <3>5, <3>6
  <2> QED BY <2>9, <2>10, <2>11
<1> QED BY <1>1, <1>2

(* A process that enters acquire begins before every leader. *)
LEMMA StartElected ==
  ASSUME TypeOK, BindIsLock, Elected, NEW p \in Procs, Start(p)
  PROVE  Elected'
<1>1. /\ UNCHANGED <<owner, churn>>
      /\ pc[p] \notin ServingPc
      /\ pc'[p] = "probe_disc" \/ (pc'[p] = "scan" /\ pos'[p] = 1)
      /\ \A q \in Procs : q # p => pc'[q] = pc[q] /\ pos'[q] = pos[q]
  BY Start(p) DEF Start, Goto, TypeOK, ServingPc
<1>2. \A q \in Procs : /\ pc'[q] \in ServingPc <=> pc[q] \in ServingPc
                       /\ pc[q] \in ServingPc => pos'[q] = pos[q] /\ pos[q] \in Ports
  BY <1>1 DEF ServingPc, TypeOK
<1>3. \A j \in Ports : Blocked(j) <=> Blocked(j)'
  BY <1>1, <1>2 DEF Blocked
<1> SUFFICES ASSUME ~churn PROVE (OneLeader /\ WalkInv /\ MeetInv)'
  BY <1>1 DEF Elected
<1>4. OneLeader /\ WalkInv /\ MeetInv
  BY DEF Elected
<1>5. OneLeader'
  BY <1>2, <1>4 DEF OneLeader, Serving
<1>6. WalkInv'
  BY <1>1, <1>3, <1>4 DEF WalkInv
<1>7. MeetInv'
  BY <1>1, <1>2, <1>3, <1>4, PortOrder DEF MeetInv, Shielded
<1> QED BY <1>5, <1>6, <1>7

(* The bind of a contender: had another leader been serving, every port up to
   its own would be taken, so a free port means there is none. *)
LEMMA BindElected ==
  ASSUME TypeOK, BindIsLock, Elected, NEW p \in Procs, Bind(p)
  PROVE  Elected'
<1> SUFFICES ASSUME ~churn PROVE (OneLeader /\ WalkInv /\ MeetInv)'
  BY Bind(p) DEF Elected, Bind
<1>1. OneLeader /\ WalkInv /\ MeetInv
  BY DEF Elected
<1>2. pc[p] = "bind" /\ UNCHANGED pos /\ pos[p] \in Ports
  BY Bind(p) DEF Bind, TypeOK
<1>3. CASE owner[pos[p]] = Free
  <2>1. /\ owner' = [owner EXCEPT ![pos[p]] = p]
        /\ pc' = [pc EXCEPT ![p] = "publish"]
    BY <1>3, Bind(p) DEF Bind, Goto
  <2>2. \A j \in Ports : j < pos[p] => Blocked(j)
    BY <1>1, <1>2 DEF WalkInv
  <2>3. ASSUME NEW l \in Procs, pc[l] \in ServingPc PROVE FALSE
    <3>1. pos[l] \in Ports /\ owner[pos[l]] = l
      BY <2>3 DEF BindIsLock, HoldingPc, TypeOK
    <3>2. Shielded(l)
      BY <1>1, <1>2, <2>3 DEF MeetInv
    <3>3. ~Blocked(pos[l]) /\ ~Blocked(pos[p]) /\ pos[l] # pos[p]
      BY <1>3, <2>3, <3>1, NotProcs DEF Blocked
    <3> QED BY <1>2, <2>2, <3>1, <3>2, <3>3, PortOrder DEF Shielded
  <2>4. \A q \in Procs : pc'[q] \in ServingPc <=> q = p
    BY <2>1, <2>3 DEF ServingPc, TypeOK
  <2>5. \A j \in Ports : Blocked(j) => Blocked(j)' /\ j # pos[p]
    <3> SUFFICES ASSUME NEW j \in Ports, Blocked(j) PROVE Blocked(j)' /\ j # pos[p]
      OBVIOUS
    <3>1. j # pos[p]
      BY <1>3 DEF Blocked
    <3>2. owner'[j] = owner[j] /\ owner[j] # p
      BY <1>2, <2>1, <3>1 DEF TypeOK, BindIsLock, HoldingPc, ServingPc
    <3> QED BY <2>4, <3>1, <3>2 DEF Blocked
  <2>6. OneLeader'
    BY <2>4 DEF OneLeader, Serving
  <2>7. WalkInv'
    <3>1. ASSUME NEW c \in Procs, pc'[c] \in {"bind", "probe_bound"}
          PROVE  pc[c] = pc'[c] /\ c # p
      BY <2>1, <3>1 DEF TypeOK
    <3>2. ASSUME NEW c \in Procs, pc[c] = "probe_bound" PROVE owner'[pos[c]] # Free
      BY <1>1, <1>2, <2>1, <3>2, NotProcs DEF WalkInv, TypeOK
    <3> QED BY <1>1, <1>2, <2>5, <3>1, <3>2 DEF WalkInv
  <2>8. MeetInv'
    BY <1>2, <2>2, <2>4, <2>5 DEF MeetInv, Shielded
  <2> QED BY <2>6, <2>7, <2>8
<1>4. CASE owner[pos[p]] # Free
  <2>1. /\ UNCHANGED owner
        /\ pc' = [pc EXCEPT ![p] = "probe_bound"]
    BY <1>4, Bind(p) DEF Bind, Goto
  <2>2. \A q \in Procs : pc'[q] \in ServingPc <=> pc[q] \in ServingPc
    BY <1>2, <2>1 DEF ServingPc, TypeOK
  <2>3. \A j \in Ports : Blocked(j) <=> Blocked(j)'
    BY <2>1, <2>2 DEF Blocked
  <2>4. OneLeader'
    BY <1>1, <2>2 DEF OneLeader, Serving
  <2>5. WalkInv'
    BY <1>1, <1>2, <1>4, <2>1, <2>3 DEF WalkInv, TypeOK
  <2>6. MeetInv'
    BY <1>1, <1>2, <2>1, <2>2, <2>3 DEF MeetInv, Shielded, TypeOK
  <2> QED BY <2>4, <2>5, <2>6
<1> QED BY <1>3, <1>4

(* A stranger that takes a free port of the range only adds a blocked port. *)
LEMMA ForeignElected ==
  ASSUME TypeOK, Elected, NEW i \in Ports, ForeignClaims(i)
  PROVE  Elected'
<1>1. /\ UNCHANGED <<pc, pos, churn>>
      /\ owner' \in {[owner EXCEPT ![i] = Foreign], [owner EXCEPT ![i] = Silent]}
  BY ForeignClaims(i) DEF ForeignClaims
<1>2. \A j \in Ports : /\ Blocked(j) => Blocked(j)'
                       /\ owner[j] # Free => owner'[j] # Free
  BY <1>1, NotProcs DEF Blocked, TypeOK
<1> SUFFICES ASSUME ~churn PROVE (OneLeader /\ WalkInv /\ MeetInv)'
  BY <1>1 DEF Elected
<1>3. OneLeader /\ WalkInv /\ MeetInv
  BY DEF Elected
<1>4. OneLeader'
  BY <1>1, <1>3 DEF OneLeader, Serving
<1>5. WalkInv'
  BY <1>1, <1>2, <1>3 DEF WalkInv, TypeOK
<1>6. MeetInv'
  BY <1>1, <1>2, <1>3 DEF MeetInv, Shielded
<1> QED BY <1>4, <1>5, <1>6

(* Every step keeps the election. *)
LEMMA ElectedStep == TypeOK /\ BindIsLock /\ Elected /\ [Next]_vars => Elected'
<1> SUFFICES ASSUME TypeOK, BindIsLock, Elected, [Next]_vars PROVE Elected'
  OBVIOUS
<1> USE DEF Goto, Walkers, ServingPc
<1>0. CASE UNCHANGED vars
  BY <1>0, QuietStep DEF vars
<1>1. ASSUME NEW p \in Procs, ProbeStep(p) PROVE Elected'
  BY <1>1, ProbeElected
<1>2. ASSUME NEW p \in Procs, Start(p) PROVE Elected'
  BY <1>2, StartElected
<1>3. ASSUME NEW p \in Procs, Bind(p) PROVE Elected'
  BY <1>3, BindElected
<1>4. ASSUME NEW p \in Procs, PollDiscovery(p) PROVE Elected'
  BY <1>4, QuietStep DEF PollDiscovery, TypeOK
<1>5. ASSUME NEW p \in Procs, ConnectRefreshed(p) PROVE Elected'
  BY <1>5, QuietStep DEF ConnectRefreshed, TypeOK
<1>6. ASSUME NEW p \in Procs, WindowCloses(p) PROVE Elected'
  BY <1>6, QuietStep DEF WindowCloses, TypeOK
<1>7. ASSUME NEW p \in Procs, RotateWrite(p) PROVE Elected'
  BY <1>7, QuietStep DEF RotateWrite, TypeOK
<1>8. ASSUME NEW p \in Procs, ReadClaim(p) PROVE Elected'
  BY <1>8, QuietStep DEF ReadClaim, TypeOK
<1>9. ASSUME NEW p \in Procs, RemoveClaim(p) PROVE Elected'
  BY <1>9, QuietStep DEF RemoveClaim, TypeOK
<1>10. ASSUME NEW p \in Procs, BindFails(p) PROVE Elected'
  BY <1>10, QuietStep DEF BindFails, TypeOK
<1>11. ASSUME NEW p \in Procs, RotateSwap(p) PROVE Elected'
  BY <1>11, QuietStep DEF RotateSwap, TypeOK
<1>12. ASSUME NEW p \in Procs, RotateFails(p) PROVE Elected'
  BY <1>12, QuietStep DEF RotateFails, TypeOK
<1>13. ASSUME NEW p \in Procs, Refuse(p) PROVE Elected'
  BY <1>13, QuietStep DEF Refuse, TypeOK
<1>14. ASSUME NEW p \in Procs, Leave(p) PROVE Elected'
  BY <1>14, QuietStep DEF Leave, TypeOK
<1>15. ASSUME NEW p \in Procs, Wedge(p) PROVE Elected'
  BY <1>15, QuietStep DEF Wedge, TypeOK
<1>16. ASSUME NEW p \in Procs, Unwedge(p) PROVE Elected'
  BY <1>16, QuietStep DEF Unwedge, TypeOK
<1>17. ASSUME NEW p \in Procs, Publish(p) PROVE Elected'
  BY <1>17, QuietStep DEF Publish, TypeOK
<1>18. ASSUME NEW p \in Procs, CloseDrained(p) PROVE Elected'
  BY <1>18, ReleaseStep DEF CloseDrained, CloseListener, TypeOK
<1>19. ASSUME NEW p \in Procs, PublishFails(p) PROVE Elected'
  BY <1>19, ReleaseStep DEF PublishFails, CloseListener, TypeOK
<1>20. ASSUME NEW p \in Procs, Crash(p) PROVE Elected'
  <2>1. CASE pc[p] \in HoldingPc
    BY <1>20, <2>1, ReleaseStep DEF Crash, CloseListener, TypeOK
  <2>2. CASE pc[p] \notin HoldingPc
    BY <1>20, <2>2, QuietStep DEF Crash, TypeOK
  <2> QED BY <2>1, <2>2
<1>21. ASSUME NEW i \in Ports, ForeignClaims(i) PROVE Elected'
  BY <1>21, ForeignElected
<1>22. ASSUME NEW i \in Ports, ForeignLeaves(i) PROVE Elected'
  <2>1. None \notin Procs
    BY ConstantsAssumption
  <2> QED BY <1>22, <2>1, ReleaseStep DEF ForeignLeaves
<1>23. CASE LoseDiscovery
  BY <1>23, QuietStep DEF LoseDiscovery
<1> QED
  BY <1>0, <1>1, <1>2, <1>3, <1>4, <1>5, <1>6, <1>7, <1>8, <1>9, <1>10, <1>11, <1>12, <1>13, <1>14, <1>15, <1>16, <1>17, <1>18, <1>19, <1>20, <1>21, <1>22, <1>23 DEF Next, Progress

----------------------------------------------------------------------------
(* The initial states satisfy the inductive invariant. *)
LEMMA InitInv == Init => IInv
<1> SUFFICES ASSUME Init PROVE IInv
  OBVIOUS
<1>1. TypeOK
  BY PcMembers, Bounds, ConstantsAssumption DEF Init, TypeOK
<1>2. BindIsLock
  BY NotProcs DEF Init, BindIsLock, HoldingPc, ServingPc
<1>3. OneLeader /\ WalkInv /\ MeetInv
  BY DEF Init, OneLeader, WalkInv, MeetInv, Serving, ServingPc
<1> QED BY <1>1, <1>2, <1>3 DEF IInv

(* Every step keeps the inductive invariant. *)
LEMMA NextInv == IInv /\ [Next]_vars => IInv'
  BY TypeStep, LockStep, ElectedStep DEF IInv, Elected

(* Every reachable state of the election satisfies its inductive invariant. *)
THEOREM Invariance == Spec => []IInv
  BY InitInv, NextInv, PTL DEF Spec

(* The state of the election always has its type. *)
THEOREM TypeCorrect == Spec => []TypeOK
<1>1. IInv => TypeOK
  BY DEF IInv
<1> QED BY <1>1, Invariance, PTL

(* However many processes crash, fail, drain or race: who leads or drains owns
   exactly its port, and every port owned by a process is owned by such a one. *)
THEOREM LockCorrect == Spec => []BindIsLock
<1>1. IInv => BindIsLock
  BY DEF IInv
<1> QED BY <1>1, Invariance, PTL

(* For every number of processes and ports: as long as no port of the range is
   released under a contender, acquire never makes a second leader. *)
THEOREM ElectionCorrect == Spec => []OneLeaderUnlessChurn
<1>1. IInv => OneLeaderUnlessChurn
  BY DEF IInv, OneLeaderUnlessChurn
<1> QED BY <1>1, Invariance, PTL

----------------------------------------------------------------------------
(* The discovery file.  Three kinds of event can part it from the leader: the
   file is lost, a write of it fails, and a shutdown removes it after a
   successor has published (host.rs reads its claim, then removes the file). *)
FileKept == Env \cap {"lose", "io", "shutdown"} = {}

(* A fresh leader publishes the token its host accepts, nobody is on the way
   to remove the file, and the file names whoever leads. *)
FileInv ==
  /\ \A p \in Procs : pc[p] = "publish" => hostTok[p] = tok[p]
  /\ \A p \in Procs : pc[p] \notin {"draining", "closed", "removing"}
  /\ DiscoveryNamesLeader

(* A step that writes no file, makes no leader and moves none keeps the file true. *)
LEMMA FileStays ==
  ASSUME FileInv, disc' = disc, ~churn' => ~churn,
         \A q \in Procs : pc'[q] = "leader" => pc[q] = "leader" /\ pos'[q] = pos[q] /\ hostTok'[q] = hostTok[q],
         \A q \in Procs : pc'[q] = "publish" => hostTok'[q] = tok'[q],
         \A q \in Procs : pc'[q] \in {"draining", "closed", "removing"} => pc[q] \in {"draining", "closed", "removing"}
  PROVE  FileInv'
BY DEF FileInv, DiscoveryNamesLeader

(* The leader's write names it, and there is no other leader. *)
LEMMA FileWritten ==
  ASSUME TypeOK, OneLeaderUnlessChurn, FileInv, NEW p \in Procs, pc[p] \in {"publish", "rotating"},
         disc' = [port |-> pos[p], token |-> hostTok[p], pid |-> p],
         pc' = [pc EXCEPT ![p] = "leader"], UNCHANGED <<pos, hostTok, tok, churn>>
  PROVE  FileInv'
<1>1. \A q \in Procs : pc'[q] = IF q = p THEN "leader" ELSE pc[q]
  BY DEF TypeOK
<1>2. ASSUME ~churn', NEW q \in Procs, pc'[q] = "leader" PROVE q = p
  BY <1>1, <1>2 DEF OneLeaderUnlessChurn, OneLeader, Serving, ServingPc
<1>3. DiscoveryNamesLeader'
  BY <1>2 DEF DiscoveryNamesLeader
<1> QED BY <1>1, <1>3 DEF FileInv

(* Every step keeps the file true when none of the three events happens. *)
LEMMA FileStep == FileKept /\ TypeOK /\ OneLeaderUnlessChurn /\ FileInv /\ [Next]_vars => FileInv'
<1> SUFFICES ASSUME FileKept, TypeOK, OneLeaderUnlessChurn, FileInv, [Next]_vars PROVE FileInv'
  OBVIOUS
<1>a. \A k \in {"lose", "io", "shutdown"} : ~Fault(k)
  BY DEF FileKept, Fault
<1>b. \A p \in Procs : pc[p] = "publish" => hostTok[p] = tok[p]
  BY DEF FileInv
<1> USE DEF Goto, TypeOK
<1>0. CASE UNCHANGED vars
  BY <1>0, <1>b, FileStays DEF vars
<1>1. ASSUME NEW p \in Procs, ProbeStep(p) PROVE FileInv'
  <2>1. /\ UNCHANGED <<disc, churn, hostTok, tok>>
        /\ \A q \in Procs \ {p} : pc'[q] = pc[q] /\ pos'[q] = pos[q]
        /\ pc'[p] \in {"follower", "probe_disc", "failed", "refresh", "scan", "bind", "probe_bound"}
    BY <1>1 DEF ProbeStep, StepPast, Contending
  <2> QED BY <1>b, <2>1, FileStays
<1>2. ASSUME NEW p \in Procs, Start(p) PROVE FileInv'
  <2>1. /\ UNCHANGED <<disc, churn, hostTok>>
        /\ \A q \in Procs \ {p} : pc'[q] = pc[q] /\ pos'[q] = pos[q] /\ tok'[q] = tok[q]
        /\ pc'[p] \in {"probe_disc", "scan"}
    BY <1>2 DEF Start
  <2> QED BY <1>b, <2>1, FileStays
<1>3. ASSUME NEW p \in Procs, Bind(p) PROVE FileInv'
  <2>1. /\ UNCHANGED <<disc, churn, pos, tok>>
        /\ \A q \in Procs \ {p} : pc'[q] = pc[q] /\ hostTok'[q] = hostTok[q]
        /\ \/ pc'[p] = "publish" /\ hostTok'[p] = tok[p]
           \/ pc'[p] = "probe_bound"
    BY <1>3 DEF Bind
  <2> QED BY <1>b, <2>1, FileStays
<1>4. ASSUME NEW p \in Procs, Publish(p) PROVE FileInv'
  <2>1. pc[p] = "publish" /\ disc' = [port |-> pos[p], token |-> tok[p], pid |-> p] /\ tok[p] = hostTok[p]
    BY <1>4, <1>b DEF Publish
  <2>2. pc' = [pc EXCEPT ![p] = "leader"] /\ UNCHANGED <<pos, hostTok, tok, churn>>
    BY <1>4 DEF Publish
  <2> QED BY <2>1, <2>2, FileWritten
<1>5. ASSUME NEW p \in Procs, RotateWrite(p) PROVE FileInv'
  BY <1>5, FileWritten DEF RotateWrite
<1>6. ASSUME NEW p \in Procs, PollDiscovery(p) \/ ConnectRefreshed(p) \/ WindowCloses(p) PROVE FileInv'
  <2>1. /\ UNCHANGED <<disc, churn, hostTok, tok, pos>>
        /\ \A q \in Procs \ {p} : pc'[q] = pc[q]
        /\ pc'[p] \in {"connect", "follower", "refresh", "failed"}
    BY <1>6 DEF PollDiscovery, ConnectRefreshed, WindowCloses
  <2> QED BY <1>b, <2>1, FileStays
<1>7. ASSUME NEW p \in Procs PROVE ~CloseDrained(p) /\ ~ReadClaim(p) /\ ~RemoveClaim(p)
  BY DEF FileInv, CloseDrained, ReadClaim, RemoveClaim
<1>8. ASSUME NEW p \in Procs
      PROVE  ~PublishFails(p) /\ ~BindFails(p) /\ ~RotateFails(p) /\ ~Refuse(p) /\ ~Leave(p) /\ ~LoseDiscovery
  BY <1>a DEF PublishFails, BindFails, RotateFails, Refuse, Leave, LoseDiscovery
<1>9. ASSUME NEW p \in Procs, Crash(p) PROVE FileInv'
  <2>1. /\ UNCHANGED <<disc, hostTok, tok, pos>> /\ (~churn' => ~churn)
        /\ \A q \in Procs \ {p} : pc'[q] = pc[q]
        /\ pc'[p] = "idle"
    BY <1>9 DEF Crash, CloseListener, ReleaseUnder
  <2> QED BY <1>b, <2>1, FileStays
<1>10. ASSUME NEW p \in Procs, RotateSwap(p) PROVE FileInv'
  <2>1. /\ UNCHANGED <<disc, churn, tok, pos>>
        /\ \A q \in Procs \ {p} : pc'[q] = pc[q] /\ hostTok'[q] = hostTok[q]
        /\ pc'[p] = "rotating"
    BY <1>10 DEF RotateSwap
  <2> QED BY <1>b, <2>1, FileStays
<1>11. ASSUME NEW p \in Procs, Wedge(p) \/ Unwedge(p) PROVE FileInv'
  <2>1. UNCHANGED <<disc, churn, hostTok, tok, pos, pc>>
    BY <1>11 DEF Wedge, Unwedge
  <2> QED BY <1>b, <2>1, FileStays
<1>12. ASSUME NEW i \in Ports, ForeignClaims(i) \/ ForeignLeaves(i) PROVE FileInv'
  <2>1. UNCHANGED <<disc, hostTok, tok, pos, pc>> /\ (~churn' => ~churn)
    BY <1>12 DEF ForeignClaims, ForeignLeaves, ReleaseUnder
  <2> QED BY <1>b, <2>1, FileStays
<1>13. ~LoseDiscovery
  BY <1>a DEF LoseDiscovery
<1> QED BY <1>0, <1>1, <1>2, <1>3, <1>4, <1>5, <1>6, <1>7, <1>8, <1>9, <1>10, <1>11, <1>12, <1>13 DEF Next, Progress

(* For every number of processes, ports and tokens, crashes, rotations, busy
   leaders, expired windows and foreign services included: while no port is
   released under a contender, the discovery file names the leader with the
   token its host accepts. *)
THEOREM DiscoveryCorrect == FileKept => (Spec => []DiscoveryNamesLeader)
<1> SUFFICES ASSUME FileKept PROVE Spec => []DiscoveryNamesLeader
  OBVIOUS
<1>1. Init => FileInv
  BY DEF Init, FileInv, DiscoveryNamesLeader
<1>2. IInv => TypeOK /\ OneLeaderUnlessChurn
  BY DEF IInv, OneLeaderUnlessChurn
<1>3. IInv /\ FileInv /\ [Next]_vars => FileInv'
  BY <1>2, FileStep
<1>4. FileInv => DiscoveryNamesLeader
  BY DEF FileInv
<1> QED BY <1>1, <1>3, <1>4, Invariance, PTL DEF Spec
=============================================================================
