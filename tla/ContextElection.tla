-------------------------- MODULE ContextElection --------------------------
(***************************************************************************)
(* Leadership of one fleet execution context (crate mandala-context).      *)
(*                                                                         *)
(* Every process that works on a checkout runs `acquire`: it reads the     *)
(* discovery file, probes the endpoint recorded there, probes the whole    *)
(* port range, and only then walks the range trying to bind.  A successful *)
(* bind IS the lock: the process serves the endpoint as the leader until   *)
(* it crashes, drops its host or shuts it down.  Everybody else joins as a *)
(* follower, authenticated by the bearer token of the discovery file.      *)
(*                                                                         *)
(* A port is named by its position in the walk of                          *)
(* `ContextIdentity::ports`, the same for every process of the checkout.   *)
(* The probe, a connect and a hello, is one step: its outcome is decided   *)
(* by what owns the port when the hello is read. Reading the discovery     *)
(* file, writing it (tmp + rename) and removing it are one step each.      *)
(***************************************************************************)
EXTENDS Integers

CONSTANTS
  Procs,           \* processes that work on this checkout
  N,               \* the number of ports of the range
  BusyAttempts,    \* BUSY_PROBE_ATTEMPTS
  MaxToken,        \* bound: tokens ever minted
  MaxFaults,       \* bound: faults and foreign events
  Env,             \* which kinds of fault can happen, see Faults
  Free, Foreign, Silent, None  \* not processes

Faults == {"crash", "shutdown", "rotate", "foreign", "wedge", "io", "lose", "window"}

ASSUME ConstantsAssumption ==
  /\ N \in Nat \ {0}
  /\ BusyAttempts \in Nat \ {0}
  /\ MaxToken \in Nat
  /\ MaxFaults \in Nat
  /\ Env \subseteq Faults
  /\ {Free, Foreign, Silent, None} \cap Procs = {}
  /\ Free # Foreign /\ Free # Silent /\ Foreign # Silent

Ports == 1..N

Token == 0..MaxToken   \* 0: no token held

Tries == 0..BusyAttempts

VARIABLES
  owner,     \* what listens on each port: a process, another service
             \* (Foreign answers, Silent accepts and never answers) or nothing
  disc,      \* the discovery file: None, or the record of the last writer
  pc,        \* where each process stands in acquire / serve / shutdown
  pos,       \* the port it is working on; the port it serves once it has bound
  tok,       \* the token it acquires with
  polled,    \* the token the stale-token poll last read from the discovery file
  hostTok,   \* the token its host accepts
  tries,     \* handshakes that timed out in the current probe
  peer,      \* the leader its client is connected to, None once the stream hit EOF
  wedged,    \* processes too busy to answer a handshake in time
  minted,    \* tokens minted so far
  faults,    \* faults spent so far
  churn      \* history: a port of the range was released under a contender

vars == <<owner, disc, pc, pos, tok, polled, hostTok, tries, peer, wedged,
          minted, faults, churn>>

Discovery == [port : Ports, token : Token, pid : Procs]

Contending == {"probe_disc", "scan", "bind", "probe_bound"}
ServingPc  == {"publish", "leader", "rotating"}
HoldingPc  == ServingPc \cup {"draining"}
Waiting    == {"refresh", "connect"}
PcStates   == Contending \cup HoldingPc \cup Waiting
                \cup {"idle", "follower", "failed", "closed", "removing"}

(* RunningHost::start up to shutdown's `refusing`: hellos are answered. *)
Serving(p) == pc[p] \in ServingPc

Init ==
  /\ owner \in [Ports -> {Free, Foreign, Silent}]
  /\ disc = None
  /\ pc = [p \in Procs |-> "idle"]
  /\ pos = [p \in Procs |-> 1]
  /\ tok = [p \in Procs |-> 0]
  /\ polled = [p \in Procs |-> 0]
  /\ hostTok = [p \in Procs |-> 0]
  /\ tries = [p \in Procs |-> 0]
  /\ peer = [p \in Procs |-> None]
  /\ wedged = {}
  /\ minted = 0
  /\ faults = 0
  /\ churn = FALSE

----------------------------------------------------------------------------
(* Probing an endpoint. *)

(* Mutant of Probe: a handshake that times out is read as a foreign service,
   so a wedged leader is stepped past. *)
ProbeTimeoutIsForeign(i, t) ==
  CASE owner[i] = Free -> "Dead"
    [] owner[i] \in {Foreign, Silent} -> "Foreign"
    [] OTHER -> LET q == owner[i] IN
                IF q \in wedged \/ ~Serving(q) THEN "Foreign"
                ELSE IF hostTok[q] = t THEN "OurLeader" ELSE "TokenMismatch"

(* `probe`: how whatever listens on port i answers a hello with token t.  A
   host that refuses (shutdown phase 1) closes before the welcome, which
   reads as NotAContext, the same as a service that is not a context. *)
Probe(i, t) ==
  CASE owner[i] = Free    -> "Dead"
    [] owner[i] = Foreign -> "Foreign"
    [] owner[i] = Silent  -> "Busy"
    [] OTHER -> LET q == owner[i] IN
                IF q \in wedged THEN "Busy"
                ELSE IF ~Serving(q) THEN "Foreign"
                ELSE IF hostTok[q] = t THEN "OurLeader" ELSE "TokenMismatch"

Goto(p, s) == pc' = [pc EXCEPT ![p] = s]

(* Where `acquire` goes when a probe found neither our leader nor a busy one. *)
StepPast(p) ==
  /\ tries' = [tries EXCEPT ![p] = 0]
  /\ \/ /\ pc[p] = "probe_disc"
        /\ Goto(p, "scan") /\ pos' = [pos EXCEPT ![p] = 1]
     \/ /\ pc[p] = "scan" /\ pos[p] < N
        /\ pos' = [pos EXCEPT ![p] = @ + 1] /\ UNCHANGED pc
     \/ /\ pc[p] = "scan" /\ pos[p] = N
        /\ Goto(p, "bind") /\ pos' = [pos EXCEPT ![p] = 1]
     \/ /\ pc[p] = "probe_bound" /\ pos[p] < N
        /\ Goto(p, "bind") /\ pos' = [pos EXCEPT ![p] = @ + 1]
     \/ /\ pc[p] = "probe_bound" /\ pos[p] = N          \* PortsExhausted
        /\ Goto(p, "failed") /\ UNCHANGED pos
  /\ UNCHANGED peer

(* `probe_with_busy_retry` and the match on its outcome, the same at the three
   places acquire probes: the discovery url, the scan, a lost bind. *)
ProbeStep(p) ==
  LET outcome == Probe(pos[p], tok[p]) IN
  /\ pc[p] \in Contending \ {"bind"}
  /\ \/ /\ outcome = "OurLeader"
        /\ Goto(p, "follower")
        /\ peer' = [peer EXCEPT ![p] = owner[pos[p]]]
        /\ tries' = [tries EXCEPT ![p] = 0]
        /\ UNCHANGED pos
     \/ /\ outcome = "Busy" /\ tries[p] + 1 < BusyAttempts
        /\ tries' = [tries EXCEPT ![p] = @ + 1]
        /\ UNCHANGED <<pc, pos, peer>>
     \/ /\ outcome = "Busy" /\ tries[p] + 1 >= BusyAttempts   \* LeaderBusy
        /\ Goto(p, "failed")
        /\ tries' = [tries EXCEPT ![p] = 0]
        /\ UNCHANGED <<pos, peer>>
     \/ /\ outcome = "TokenMismatch"
        /\ Goto(p, "refresh")
        /\ tries' = [tries EXCEPT ![p] = 0]
        /\ UNCHANGED <<pos, peer>>
     \/ /\ outcome \in {"Foreign", "Dead"}
        /\ StepPast(p)
  /\ UNCHANGED <<owner, disc, tok, polled, hostTok, wedged, minted, faults, churn>>

----------------------------------------------------------------------------
(* acquire *)

(* A process without a role, a session whose acquisition failed, or a follower
   whose stream hit EOF (ContextSession::reacquire) enters acquire: read the
   discovery file, reuse its token or mint one. *)
Start(p) ==
  /\ \/ pc[p] \in {"idle", "failed"}
     \/ pc[p] = "follower" /\ peer[p] = None
  /\ IF disc # None
     THEN /\ tok' = [tok EXCEPT ![p] = disc.token]
          /\ Goto(p, "probe_disc")
          /\ pos' = [pos EXCEPT ![p] = disc.port]
          /\ UNCHANGED minted
     ELSE /\ minted < MaxToken
          /\ minted' = minted + 1
          /\ tok' = [tok EXCEPT ![p] = minted + 1]
          /\ Goto(p, "scan")
          /\ pos' = [pos EXCEPT ![p] = 1]
  /\ UNCHANGED <<owner, disc, polled, hostTok, tries, peer, wedged, faults, churn>>

(* The bind walk: TcpListener::bind either takes the port, and the accept loop
   of RunningHost::start serves it from here on, or reports AddrInUse. *)
Bind(p) ==
  /\ pc[p] = "bind"
  /\ IF owner[pos[p]] = Free
     THEN /\ owner' = [owner EXCEPT ![pos[p]] = p]
          /\ hostTok' = [hostTok EXCEPT ![p] = tok[p]]
          /\ Goto(p, "publish")
     ELSE /\ Goto(p, "probe_bound")
          /\ UNCHANGED <<owner, hostTok>>
  /\ UNCHANGED <<disc, pos, tok, polled, tries, peer, wedged, minted, faults, churn>>

(* The leader records itself in the discovery file. *)
Publish(p) ==
  /\ pc[p] = "publish"
  /\ disc' = [port |-> pos[p], token |-> tok[p], pid |-> p]
  /\ Goto(p, "leader")
  /\ UNCHANGED <<owner, pos, tok, polled, hostTok, tries, peer, wedged, minted, faults, churn>>

(* join_with_refreshed_token, one turn of its loop: read the file, and when it
   holds a token other than the rejected one, hello with it at the same
   address.  Any other answer goes back to polling. *)
PollDiscovery(p) ==
  /\ pc[p] = "refresh"
  /\ disc # None
  /\ disc.token # tok[p]
  /\ polled' = [polled EXCEPT ![p] = disc.token]
  /\ Goto(p, "connect")
  /\ UNCHANGED <<owner, disc, pos, tok, hostTok, tries, peer, wedged, minted, faults, churn>>

(* Mutant of ConnectRefreshed: the hello repeats the rejected token. *)
ConnectRejected(p) ==
  /\ pc[p] = "connect"
  /\ IF Probe(pos[p], tok[p]) = "OurLeader"
     THEN /\ Goto(p, "follower")
          /\ peer' = [peer EXCEPT ![p] = owner[pos[p]]]
     ELSE /\ Goto(p, "refresh")
          /\ UNCHANGED peer
  /\ UNCHANGED <<owner, disc, pos, tok, polled, hostTok, tries, wedged, minted, faults, churn>>

ConnectRefreshed(p) ==
  /\ pc[p] = "connect"
  /\ IF Probe(pos[p], polled[p]) = "OurLeader"
     THEN /\ Goto(p, "follower")
          /\ peer' = [peer EXCEPT ![p] = owner[pos[p]]]
     ELSE /\ Goto(p, "refresh")
          /\ UNCHANGED peer
  /\ UNCHANGED <<owner, disc, pos, tok, polled, hostTok, tries, wedged, minted, faults, churn>>

(* TOKEN_RACE_WINDOW closes: TokenUnavailable. *)
WindowCloses(p) ==
  /\ "window" \in Env
  /\ pc[p] = "refresh"
  /\ Goto(p, "failed")
  /\ UNCHANGED <<owner, disc, pos, tok, polled, hostTok, tries, peer, wedged, minted, faults, churn>>

----------------------------------------------------------------------------
(* What ends a tenure, and the other events of the environment. *)

Fault(kind) == kind \in Env /\ faults < MaxFaults /\ faults' = faults + 1

(* Port i is released by r: is some other process between its read of the
   discovery file and its last bind? *)
ReleaseUnder(r) == churn' = (churn \/ \E c \in Procs \ {r} : pc[c] \in Contending)

(* The listener of p closes and its connections hit EOF. *)
CloseListener(p) ==
  /\ owner' = [i \in Ports |-> IF owner[i] = p THEN Free ELSE owner[i]]
  /\ peer' = [q \in Procs |-> IF peer[q] = p \/ q = p THEN None ELSE peer[q]]
  /\ ReleaseUnder(p)

(* Mutant of PublishFails: the error path leaks the accept task. *)
PublishFailsLeak(p) ==
  /\ pc[p] = "publish"
  /\ Fault("io")
  /\ Goto(p, "failed")
  /\ UNCHANGED <<owner, disc, pos, tok, polled, hostTok, tries, peer, wedged, minted, churn>>

(* The discovery write of a fresh leader fails: `?` drops the host, whose Drop
   aborts the accept task.  A bind error other than AddrInUse ends acquire too. *)
PublishFails(p) ==
  /\ pc[p] = "publish"
  /\ Fault("io")
  /\ CloseListener(p)
  /\ Goto(p, "failed")
  /\ UNCHANGED <<disc, pos, tok, polled, hostTok, tries, wedged, minted>>

BindFails(p) ==
  /\ pc[p] = "bind"
  /\ Fault("io")
  /\ Goto(p, "failed")
  /\ UNCHANGED <<owner, disc, pos, tok, polled, hostTok, tries, peer, wedged, minted, churn>>

(* The process dies, whatever it was doing; the discovery file stays. *)
Crash(p) ==
  /\ pc[p] # "idle"
  /\ Fault("crash")
  /\ IF pc[p] \in HoldingPc
     THEN CloseListener(p)
     ELSE UNCHANGED <<owner, churn>> /\ peer' = [peer EXCEPT ![p] = None]
  /\ Goto(p, "idle")
  /\ tries' = [tries EXCEPT ![p] = 0]
  /\ wedged' = wedged \ {p}
  /\ UNCHANGED <<disc, pos, tok, polled, hostTok, minted>>

(* RunningHost::rotate_token: swap the accepted token, then rewrite the file. *)
RotateSwap(p) ==
  /\ pc[p] = "leader"
  /\ Fault("rotate")
  /\ minted < MaxToken
  /\ minted' = minted + 1
  /\ hostTok' = [hostTok EXCEPT ![p] = minted + 1]
  /\ Goto(p, "rotating")
  /\ UNCHANGED <<owner, disc, pos, tok, polled, tries, peer, wedged, churn>>

(* The rewrite fails: the new token is in force, the file keeps the old one. *)
RotateFails(p) ==
  /\ pc[p] = "rotating"
  /\ Fault("io")
  /\ Goto(p, "leader")
  /\ UNCHANGED <<owner, disc, pos, tok, polled, hostTok, tries, peer, wedged, minted, churn>>

(* Mutant of RotateWrite: the file is rewritten with the token of acquire. *)
RotateWriteOld(p) ==
  /\ pc[p] = "rotating"
  /\ disc' = [port |-> pos[p], token |-> tok[p], pid |-> p]
  /\ Goto(p, "leader")
  /\ UNCHANGED <<owner, pos, tok, polled, hostTok, tries, peer, wedged, minted, faults, churn>>

RotateWrite(p) ==
  /\ pc[p] = "rotating"
  /\ disc' = [port |-> pos[p], token |-> hostTok[p], pid |-> p]
  /\ Goto(p, "leader")
  /\ UNCHANGED <<owner, pos, tok, polled, hostTok, tries, peer, wedged, minted, faults, churn>>

(* RunningHost::shutdown.  Phase 1 refuses new connections while the calls in
   flight drain; then the listener closes; then the file is read and, if it
   still records this host, removed. *)
Refuse(p) ==
  /\ pc[p] = "leader"
  /\ Fault("shutdown")
  /\ Goto(p, "draining")
  /\ UNCHANGED <<owner, disc, pos, tok, polled, hostTok, tries, peer, wedged, minted, churn>>

CloseDrained(p) ==
  /\ pc[p] = "draining"
  /\ CloseListener(p)
  /\ Goto(p, "closed")
  /\ UNCHANGED <<disc, pos, tok, polled, hostTok, tries, wedged, minted, faults>>

ReadClaim(p) ==
  /\ pc[p] = "closed"
  /\ Goto(p, IF disc # None /\ disc.pid = p /\ disc.port = pos[p]
             THEN "removing" ELSE "idle")
  /\ UNCHANGED <<owner, disc, pos, tok, polled, hostTok, tries, peer, wedged, minted, faults, churn>>

RemoveClaim(p) ==
  /\ pc[p] = "removing"
  /\ disc' = None
  /\ Goto(p, "idle")
  /\ UNCHANGED <<owner, pos, tok, polled, hostTok, tries, peer, wedged, minted, faults, churn>>

(* A follower session shuts down: it only drops its connection. *)
Leave(p) ==
  /\ pc[p] = "follower"
  /\ Fault("shutdown")
  /\ Goto(p, "idle")
  /\ peer' = [peer EXCEPT ![p] = None]
  /\ UNCHANGED <<owner, disc, pos, tok, polled, hostTok, tries, wedged, minted, churn>>

(* A leader grinds on a long evaluation and handshakes time out. *)
Wedge(p) ==
  /\ pc[p] \in HoldingPc /\ p \notin wedged
  /\ Fault("wedge")
  /\ wedged' = wedged \cup {p}
  /\ UNCHANGED <<owner, disc, pc, pos, tok, polled, hostTok, tries, peer, minted, churn>>

Unwedge(p) ==
  /\ p \in wedged
  /\ wedged' = wedged \ {p}
  /\ UNCHANGED <<owner, disc, pc, pos, tok, polled, hostTok, tries, peer, minted, faults, churn>>

(* Another service takes or leaves a port of the range. *)
ForeignClaims(i) ==
  /\ owner[i] = Free
  /\ Fault("foreign")
  /\ \E s \in {Foreign, Silent} : owner' = [owner EXCEPT ![i] = s]
  /\ UNCHANGED <<disc, pc, pos, tok, polled, hostTok, tries, peer, wedged, minted, churn>>

ForeignLeaves(i) ==
  /\ owner[i] \in {Foreign, Silent}
  /\ Fault("foreign")
  /\ owner' = [owner EXCEPT ![i] = Free]
  /\ ReleaseUnder(None)
  /\ UNCHANGED <<disc, pc, pos, tok, polled, hostTok, tries, peer, wedged, minted>>

(* The discovery file is deleted or damaged: `read` answers None for both. *)
LoseDiscovery ==
  /\ disc # None
  /\ Fault("lose")
  /\ disc' = None
  /\ UNCHANGED <<owner, pc, pos, tok, polled, hostTok, tries, peer, wedged, minted, churn>>

(* Steps a process takes by itself once it is running. *)
Progress(p) ==
  \/ ProbeStep(p) \/ Bind(p) \/ Publish(p)
  \/ PollDiscovery(p) \/ ConnectRefreshed(p) \/ WindowCloses(p)
  \/ RotateWrite(p)
  \/ CloseDrained(p) \/ ReadClaim(p) \/ RemoveClaim(p)

Next ==
  \/ \E p \in Procs :
       \/ Start(p) \/ Progress(p)
       \/ PublishFails(p) \/ BindFails(p) \/ Crash(p)
       \/ RotateSwap(p) \/ RotateFails(p) \/ Refuse(p) \/ Leave(p)
       \/ Wedge(p) \/ Unwedge(p)
  \/ \E i \in Ports : ForeignClaims(i) \/ ForeignLeaves(i)
  \/ LoseDiscovery

Spec == Init /\ [][Next]_vars

(* The runtime polls every task it spawned: a process that is not dead goes on. *)
FairSpec == Spec /\ \A p \in Procs : WF_vars(Progress(p))

----------------------------------------------------------------------------
(* Properties *)

(* Type correctness of the state of the election. *)
TypeOK ==
  /\ owner \in [Ports -> Procs \cup {Free, Foreign, Silent}]
  /\ disc \in Discovery \cup {None}
  /\ pc \in [Procs -> PcStates]
  /\ pos \in [Procs -> Ports]
  /\ tok \in [Procs -> Token]
  /\ polled \in [Procs -> Token]
  /\ hostTok \in [Procs -> Token]
  /\ tries \in [Procs -> Tries]
  /\ peer \in [Procs -> Procs \cup {None}]
  /\ wedged \subseteq Procs
  /\ minted \in Token
  /\ faults \in Nat
  /\ churn \in BOOLEAN

(* The bind is the lock: a process that believes it leads (or still drains)
   owns exactly its port, and no listener outlives the host that owns it,
   on any of the failure and shutdown paths. *)
BindIsLock ==
  \A p \in Procs, i \in Ports :
    owner[i] = p <=> pc[p] \in HoldingPc /\ pos[p] = i

(* At most one process serves the context ("at most one fleet execution
   context per canonical flake path", openspec/specs/fleet-context/spec.md). *)
OneLeader ==
  \A p, q \in Procs : Serving(p) /\ Serving(q) => p = q

(* What the scan-before-bind order of acquire does guarantee: at most one
   leader, whatever the number of contenders, stale or missing discovery
   files, token races, wedged leaders and foreign services, unless a port of
   the range was released while another process was in the middle of acquire. *)
OneLeaderUnlessChurn == ~churn => OneLeader

(* Mint races and rotations end with one token: a leader that is not in the
   middle of a write is the one the discovery file names, with the token its
   host accepts, so a joiner that re-reads the file is let in. *)
DiscoveryNamesLeader ==
  ~churn => \A p \in Procs :
    pc[p] = "leader" => disc = [port |-> pos[p], token |-> hostTok[p], pid |-> p]

(* The endpoint a waiting joiner polls for cannot let it in: the leader is
   gone, or a successor was started with the very token the joiner was refused
   with (its predecessor died between swapping the token and writing it). *)
Unjoinable(p) ==
  \/ owner[pos[p]] \notin Procs
  \/ disc = None
  \/ disc.token = tok[p]

(* Acquisition never hangs, and the token race converges without its window:
   a contender ends with a role or a structured error, and a joiner that waits
   for the winner's token gets in as long as the endpoint can let it in. *)
AcquireReturns ==
  \A p \in Procs :
    pc[p] \in Contending \cup Waiting
      ~> \/ pc[p] \notin Contending \cup Waiting
         \/ pc[p] \in Waiting /\ Unjoinable(p)
         \/ churn
=============================================================================
