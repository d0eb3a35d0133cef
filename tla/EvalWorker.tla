----------------------------- MODULE EvalWorker -----------------------------
(***************************************************************************)
(* The evaluators of one frontend process (mandala-core/src/eval.rs) and   *)
(* the worker processes they supervise (mandala-eval-worker): spawning and *)
(* registering a worker, one request and its reply, the retry after a      *)
(* crash or a desynchronised stream, the timeout, reload, and the teardown *)
(* that unblocks a process on its way out.  Some evaluators use the cold   *)
(* `nix eval` backend instead.                                             *)
(*                                                                         *)
(* A contract is the number of the commit it was evaluated at.  A request  *)
(* asks for the toplevels of some members; the aggregate is the request    *)
(* that asks for none.  Each evaluator has one caller at a time (its lock  *)
(* in effects.rs, or a job of its own).                                    *)
(***************************************************************************)
EXTENDS Naturals, Sequences, FiniteSets

CONSTANTS
  Warm,       \* evaluators with Backend::Worker
  Cold,       \* evaluators with Backend::Subprocess
  Pids,       \* process ids
  NoPid,
  Members,
  Requests,   \* the sets of members asked for
  MaxHead,    \* bound: contracts
  Fleet,      \* what each member evaluates to in each contract: ok, broken or absent
  Sick,       \* contracts whose flake does not evaluate at all
  MaxCalls,   \* bound: calls of the evaluators
  MaxFaults   \* bound: crashes, stray lines, failed spawns, strangers

Contracts == 1..MaxHead
Evals == Warm \cup Cold

ASSUME EvalAssumption ==
  /\ Warm \cap Cold = {} /\ NoPid \notin Pids
  /\ MaxHead \in Nat \ {0} /\ {MaxCalls, MaxFaults} \subseteq Nat
  /\ IsFiniteSet(Members)
  /\ Fleet \in [Contracts -> [Members -> {"ok", "broken", "absent"}]]
  /\ Sick \subseteq Contracts
  /\ Requests \subseteq SUBSET Members

VARIABLES
  head,     \* the contract of the checkout
  latch,    \* SHUTTING_DOWN
  swept,    \* shutdown_workers has returned
  live,     \* LIVE_WORKERS
  proc,     \* the process behind each pid
  ev,       \* each evaluator, with its call
  floor,    \* history: the contract at its last reload, or when a cold call began
  struck,   \* history: the teardown signalled a process that was no worker
  spent     \* calls and faults so far

vars == <<head, latch, swept, live, proc, ev, floor, struck, spent>>
quitting == <<latch, swept, struck>>

-----------------------------------------------------------------------------
Gone == [state |-> "free", of |-> 0, ask |-> [id |-> 0, ms |-> {}]]

Running(p) == p # NoPid /\ proc[p].state = "run"

NoAnswer == [why |-> "none", ms |-> {}, of |-> {}, paths |-> {}, errors |-> {}]

(* The evaluator: where its call is, the attempt, the worker it holds (or  *)
(* has spawned and not yet registered), next_id, the members asked for,    *)
(* the lines its reader thread has received, what follows the drop of a    *)
(* worker, the members left to a cold call and the answer of the last one. *)
Fresh == [pc |-> "idle", attempt |-> 0, worker |-> NoPid, id |-> 0, ms |-> {}, lines |-> <<>>,
          then |-> "idle", todo |-> {}, answer |-> NoAnswer]

With(ms, of, status) == {m \in ms : \E c \in of : Fleet[c][m] = status}

Broken(c, ms) == c \in Sick \/ With(ms, {c}, "broken") # {}

Returned(e, answer) == [ev[e] EXCEPT !.pc = "idle", !.answer = [answer EXCEPT !.ms = ev[e].ms]]
Fails(e, why, of) == Returned(e, [NoAnswer EXCEPT !.why = why, !.of = of])
Sets(e, r) == ev' = [ev EXCEPT ![e] = r]
Fault == spent.faults < MaxFaults /\ spent' = [spent EXCEPT !.faults = @ + 1]

Init ==
  /\ head = 1
  /\ latch = FALSE /\ swept = FALSE /\ live = {} /\ struck = FALSE
  /\ proc = [p \in Pids |-> Gone]
  /\ ev = [e \in Evals |-> Fresh]
  /\ floor = [e \in Evals |-> 0]
  /\ spent = [calls |-> 0, faults |-> 0]

(* aggregate, expected_toplevels *)
Call(e, ms) ==
  /\ ev[e].pc = "idle" /\ spent.calls < MaxCalls
  /\ Sets(e, [ev[e] EXCEPT !.pc = IF e \in Warm THEN "call" ELSE "batch", !.attempt = 0,
                           !.ms = ms, !.answer = NoAnswer])
  /\ floor' = IF e \in Cold THEN [floor EXCEPT ![e] = head] ELSE floor
  /\ spent' = [spent EXCEPT !.calls = @ + 1]
  /\ UNCHANGED <<head, quitting, live, proc>>

-----------------------------------------------------------------------------
(* Worker::spawn, as worker_call reaches it without a worker. *)

NeedsWorker(e) == ev[e].pc = "call" /\ ev[e].worker = NoPid

(* The latch is seen before the spawn, or the spawn fails. *)
SpawnRefused(e) ==
  /\ NeedsWorker(e)
  /\ \/ latch /\ UNCHANGED spent
     \/ ~latch /\ Fault
  /\ Sets(e, Fails(e, "transport", {}))
  /\ UNCHANGED <<head, quitting, live, proc, floor>>

SpawnWorker(e) ==
  /\ NeedsWorker(e) /\ ~latch
  /\ \E p \in Pids :
       /\ proc[p].state = "free"
       /\ proc' = [proc EXCEPT ![p] = [Gone EXCEPT !.state = "run"]]
       /\ Sets(e, [ev[e] EXCEPT !.pc = "register", !.worker = p])
  /\ UNCHANGED <<head, quitting, live, floor, spent>>

(* Mutant: the latch is not looked at again under the registry's lock. *)
RegisterUnchecked(e) ==
  /\ ev[e].pc = "register"
  /\ live' = live \cup {ev[e].worker}
  /\ Sets(e, [ev[e] EXCEPT !.pc = "call"])
  /\ UNCHANGED <<head, quitting, proc, floor, spent>>

(* The child is registered under the lock, or rejected when the latch was  *)
(* set meanwhile: killed, reaped and never registered.                     *)
Register(e) ==
  LET p == ev[e].worker IN
  /\ ev[e].pc = "register"
  /\ \/ /\ ~latch
        /\ live' = live \cup {p}
        /\ Sets(e, [ev[e] EXCEPT !.pc = "call"])
        /\ UNCHANGED proc
     \/ /\ latch
        /\ proc' = [proc EXCEPT ![p] = Gone]
        /\ Sets(e, [Fails(e, "transport", {}) EXCEPT !.worker = NoPid])
        /\ UNCHANGED live
  /\ UNCHANGED <<head, quitting, floor, spent>>

-----------------------------------------------------------------------------
(* worker_call and roundtrip. *)

(* A transport failure drops the worker and retries once. *)
Transport(e) ==
  [ev[e] EXCEPT !.pc = "drop", !.attempt = 1, !.then = IF ev[e].attempt = 0 THEN "call" ELSE "fail"]

(* The request is written with the next id; to a dead worker it cannot be. *)
Send(e) ==
  LET p == ev[e].worker
      id == ev[e].id + 1
  IN
  /\ ev[e].pc = "call" /\ p # NoPid
  /\ \/ /\ Running(p)
        /\ proc' = [proc EXCEPT ![p].ask = [id |-> id, ms |-> ev[e].ms]]
        /\ Sets(e, [ev[e] EXCEPT !.pc = "wait", !.id = id])
     \/ /\ ~Running(p)
        /\ Sets(e, [Transport(e) EXCEPT !.id = id])
        /\ UNCHANGED proc
  /\ UNCHANGED <<head, quitting, live, floor, spent>>

(* The reply must echo the request's id. *)
Answers(line, id) == line.id = id

(* A line arrives: the answer, an evaluation error in-band, or a line of a *)
(* stream that is out of step.                                             *)
Receive(e) ==
  /\ ev[e].pc = "wait" /\ ev[e].lines # <<>>
  /\ LET line == Head(ev[e].lines)
         rest == [ev[e] EXCEPT !.lines = Tail(@)]
     IN IF Answers(line, ev[e].id)
        THEN Sets(e, [Returned(e, line.answer) EXCEPT !.lines = rest.lines])
        ELSE Sets(e, [Transport(e) EXCEPT !.lines = rest.lines])
  /\ UNCHANGED <<head, quitting, live, proc, floor, spent>>

(* Stdout is closed: the reader thread has ended, and the channel with it. *)
Closed(e) ==
  /\ ev[e].pc = "wait" /\ ev[e].lines = <<>> /\ ~Running(ev[e].worker)
  /\ Sets(e, Transport(e))
  /\ UNCHANGED <<head, quitting, live, proc, floor, spent>>

(* No reply within the bound: the worker is dropped, the call not retried. *)
(* Nothing forces it: MANDALA_EVAL_TIMEOUT=0 is a bound that never passes. *)
TimesOut(e) ==
  /\ ev[e].pc = "wait" /\ ev[e].lines = <<>>
  /\ Sets(e, [ev[e] EXCEPT !.pc = "drop", !.then = "fail"])
  /\ UNCHANGED <<head, quitting, live, proc, floor, spent>>

(* Mutant: the warm worker survives a reload. *)
ReloadKeepsWorker(e) ==
  /\ e \in Warm /\ ev[e].pc = "idle" /\ ev[e].worker # NoPid
  /\ Sets(e, [ev[e] EXCEPT !.answer = NoAnswer])
  /\ floor' = [floor EXCEPT ![e] = head]
  /\ UNCHANGED <<head, quitting, live, proc, spent>>

(* reload *)
Reload(e) ==
  /\ e \in Warm /\ ev[e].pc = "idle" /\ ev[e].worker # NoPid
  /\ Sets(e, [ev[e] EXCEPT !.pc = "drop", !.then = "idle", !.answer = NoAnswer])
  /\ floor' = [floor EXCEPT ![e] = head]
  /\ UNCHANGED <<head, quitting, live, proc, spent>>

(* Drop for Worker: deregister under the lock ... *)
Deregister(e) ==
  /\ ev[e].pc = "drop"
  /\ live' = live \ {ev[e].worker}
  /\ Sets(e, [ev[e] EXCEPT !.pc = "reap"])
  /\ UNCHANGED <<head, quitting, proc, floor, spent>>

Dropped(e) == [ev[e] EXCEPT !.worker = NoPid, !.lines = <<>>, !.pc = ev[e].then]

(* Mutant: the child is reaped before it is taken off the registry. *)
ReapFirst(e) ==
  \/ /\ ev[e].pc = "drop" /\ proc[ev[e].worker].state \in {"run", "dead"}
     /\ proc' = [proc EXCEPT ![ev[e].worker] = Gone]
     /\ Sets(e, [ev[e] EXCEPT !.pc = "reap"])
     /\ UNCHANGED <<head, quitting, live, floor, spent>>
  \/ /\ ev[e].pc = "reap"
     /\ live' = live \ {ev[e].worker}
     /\ Sets(e, IF ev[e].then = "fail" THEN [Fails(e, "transport", {}) EXCEPT !.worker = NoPid, !.lines = <<>>]
                ELSE Dropped(e))
     /\ UNCHANGED <<head, quitting, proc, floor, spent>>

(* ... then kill and reap: the pid is free for anybody. *)
Reap(e) ==
  /\ ev[e].pc = "reap"
  /\ proc' = [proc EXCEPT ![ev[e].worker] = Gone]
  /\ Sets(e, IF ev[e].then = "fail"
             THEN [Fails(e, "transport", {}) EXCEPT !.worker = NoPid, !.lines = <<>>]
             ELSE Dropped(e))
  /\ UNCHANGED <<head, quitting, live, floor, spent>>

DropWorker(e) == Deregister(e) \/ Reap(e)

-----------------------------------------------------------------------------
(* The worker process. *)

Owner(p) == CHOOSE e \in Warm : ev[e].worker = p

(* expected_toplevels of the worker: a broken member fails alone, a flake  *)
(* that does not evaluate fails the request.                               *)
ExpectedToplevels(c, ms) ==
  IF c \in Sick THEN [NoAnswer EXCEPT !.why = "eval", !.of = {c}]
  ELSE [NoAnswer EXCEPT !.why = "value", !.of = {c}, !.paths = With(ms, {c}, "ok"),
                        !.errors = With(ms, {c}, "broken")]

(* ensure_locked: the flake as the worker's first request found it. *)
EnsureLocked(p) == IF proc[p].of = 0 THEN head ELSE proc[p].of

(* run and handle: a request is evaluated at the locked flake and answered *)
(* with its id.  A flake may fail to lock, which is not kept, or to        *)
(* evaluate once locked.                                                   *)
Evaluate(p) ==
  LET ask == proc[p].ask
      c == EnsureLocked(p)
  IN
  /\ Running(p) /\ ask.id # 0
  /\ \E of \in {c} \cup (IF c \in Sick /\ proc[p].of = 0 THEN {0} ELSE {}) :
       proc' = [proc EXCEPT ![p].of = of, ![p].ask = Gone.ask]
  /\ ev' = [ev EXCEPT ![Owner(p)].lines =
              Append(@, [id |-> ask.id, answer |-> ExpectedToplevels(c, ask.ms)])]
  /\ UNCHANGED <<head, quitting, live, floor, spent>>

(* The evaluator aborts, or fails to initialise. *)
Crash(p) ==
  /\ Running(p) /\ Fault
  /\ proc' = [proc EXCEPT ![p].state = "dead"]
  /\ UNCHANGED <<head, quitting, live, ev, floor>>

(* A line that answers nothing: a request it could not parse, under id 0.  *)
StrayLine(p) ==
  /\ Running(p) /\ p \in live /\ Fault
  /\ ev' = [ev EXCEPT ![Owner(p)].lines =
              Append(@, [id |-> 0, answer |-> [NoAnswer EXCEPT !.why = "eval"]])]
  /\ UNCHANGED <<head, quitting, live, proc, floor>>

-----------------------------------------------------------------------------
(* The cold backend: every nix eval sees the checkout as it is. *)

(* subprocess_expected_toplevels_isolated: the batch, and what follows a   *)
(* batch that fails.                                                       *)
Batch(e) ==
  LET ms == ev[e].ms IN
  /\ ev[e].pc = "batch"
  /\ Sets(e, IF ~Broken(head, ms)
             THEN Returned(e, [NoAnswer EXCEPT !.why = "value", !.of = {head},
                                               !.paths = With(ms, {head}, "ok")])
             ELSE IF Cardinality(ms) < 2 THEN Fails(e, "eval", {head})
             ELSE [ev[e] EXCEPT !.pc = "single", !.todo = ms])
  /\ UNCHANGED <<head, quitting, live, proc, floor, spent>>

(* ... one member at a time, *)
Single(e) ==
  /\ ev[e].pc = "single"
  /\ \E m \in ev[e].todo :
       LET a == ev[e].answer
           b == [a EXCEPT !.of = @ \cup {head},
                          !.errors = @ \cup (IF Broken(head, {m}) THEN {m} ELSE {}),
                          !.paths = @ \cup (IF head \in Sick THEN {} ELSE With({m}, {head}, "ok"))]
       IN Sets(e, [ev[e] EXCEPT !.todo = @ \ {m}, !.answer = b,
                                !.pc = IF ev[e].todo = {m} THEN "isolated" ELSE "single"])
  /\ UNCHANGED <<head, quitting, live, proc, floor, spent>>

(* ... and the batch's own error when every one of them failed. *)
Isolated(e) ==
  LET a == ev[e].answer IN
  /\ ev[e].pc = "isolated"
  /\ Sets(e, IF a.paths = {} /\ a.errors = ev[e].ms THEN Fails(e, "eval", a.of)
             ELSE Returned(e, [a EXCEPT !.why = "value"]))
  /\ UNCHANGED <<head, quitting, live, proc, floor, spent>>

-----------------------------------------------------------------------------
(* shutdown_workers: the latch, then the registry under its lock. *)
Latch ==
  /\ ~latch
  /\ latch' = TRUE
  /\ UNCHANGED <<head, swept, struck, live, proc, ev, floor, spent>>

Sweep ==
  /\ latch /\ ~swept
  /\ swept' = TRUE
  /\ proc' = [p \in Pids |-> IF p \in live /\ proc[p].state \in {"run", "foreign"}
                             THEN [proc[p] EXCEPT !.state = "dead"] ELSE proc[p]]
  /\ struck' = (struck \/ \E p \in live : proc[p].state = "foreign")
  /\ UNCHANGED <<head, latch, live, ev, floor, spent>>

(* Strangers take free pids and leave them; commits land. *)
ForeignStarts(p) ==
  /\ proc[p].state = "free" /\ Fault
  /\ proc' = [proc EXCEPT ![p].state = "foreign"]
  /\ UNCHANGED <<head, quitting, live, ev, floor>>

ForeignEnds(p) ==
  /\ proc[p].state = "foreign"
  /\ proc' = [proc EXCEPT ![p] = Gone]
  /\ UNCHANGED <<head, quitting, live, ev, floor, spent>>

MoveHead ==
  /\ head < MaxHead
  /\ head' = head + 1
  /\ UNCHANGED <<quitting, live, proc, ev, floor, spent>>

-----------------------------------------------------------------------------
Step(e) ==
  \/ SpawnRefused(e) \/ SpawnWorker(e) \/ Register(e) \/ Send(e) \/ Receive(e) \/ Closed(e)
  \/ DropWorker(e)
  \/ Batch(e) \/ Single(e) \/ Isolated(e)

Next ==
  \/ \E e \in Evals : Step(e) \/ TimesOut(e) \/ Reload(e) \/ \E ms \in Requests : Call(e, ms)
  \/ \E p \in Pids : Evaluate(p) \/ Crash(p) \/ StrayLine(p) \/ ForeignStarts(p) \/ ForeignEnds(p)
  \/ Latch \/ Sweep \/ MoveHead

Spec == Init /\ [][Next]_vars

(* A caller's thread goes on unless it waits for a reply, and a teardown   *)
(* that began ends; a worker may evaluate for ever.                        *)
FairSpec == Spec /\ WF_vars(Sweep) /\ \A e \in Evals : WF_vars(Step(e))

-----------------------------------------------------------------------------
(* What a call returns is about the members it asked for: every healthy    *)
(* one with its path, every broken one with its error, at a contract no    *)
(* older than the last reload (for the cold backend, than the call), and   *)
(* an evaluation error only when no requested member evaluates: through    *)
(* retries, stray lines, moved contracts and warm state, on both backends. *)
AnswersTrue ==
  \A e \in Evals : LET a == ev[e].answer IN
    a.why \in {"value", "eval"} =>
      /\ a.of # {} /\ \A c \in a.of : c >= floor[e]
      /\ a.why = "value" => a.paths \cap a.errors = {}
      /\ \A c \in a.of : a.of = {c} =>
           \/ a.why = "value" /\ c \notin Sick
              /\ a.paths = With(a.ms, {c}, "ok") /\ a.errors = With(a.ms, {c}, "broken")
           \/ a.why = "eval" /\ (c \in Sick \/ With(a.ms, {c}, "ok") = {})

(* "a pid seen here by shutdown_workers can never be a recycled pid of     *)
(* some unrelated process": the teardown signals workers only.             *)
NoStrangerKilled == ~struck

(* Quitting never hangs on an evaluation: once shutdown_workers has begun, *)
(* no worker is left running, wedged and unbounded ones included, and      *)
(* every call on the worker backend returns.                               *)
QuitEnds ==
  /\ latch ~> [](\A p \in Pids : ~Running(p))
  /\ \A e \in Warm : (latch /\ ev[e].pc # "idle") ~> ev[e].pc = "idle"

=============================================================================
