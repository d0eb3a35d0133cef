----------------------------- MODULE Nix_proofs -----------------------------
(***************************************************************************)
(* Proofs about the two parts of mandala that talk to nix.                 *)
(*                                                                         *)
(* EvalWorker, for any number of evaluators, pids, contracts, members,     *)
(* calls and faults: whom the teardown signals, and what a call answers.   *)
(*                                                                         *)
(* BuildForest, for any derivations, inputs and activities: what the       *)
(* engine's tracker has counted when nix's stream ends, and what a         *)
(* frontend shows that has read the whole log.  The two share no state:    *)
(* each theorem is about the specification of one of them.                 *)
(***************************************************************************)
EXTENDS EvalWorker, BuildForest, FiniteSetTheorems, TLAPS

(***************************************************************************)
(* The evaluation pool and its workers.                                    *)
(***************************************************************************)

Answer == [why : {"none", "value", "eval", "transport"}, ms : SUBSET Members,
           of : SUBSET Contracts, paths : SUBSET Members, errors : SUBSET Members]

Line == [id : Nat, answer : Answer]

Evaluator ==
  [pc : {"idle", "call", "register", "wait", "drop", "reap", "batch", "single", "isolated"},
   attempt : {0, 1}, worker : Pids \cup {NoPid}, id : Nat, ms : SUBSET Members,
   lines : Seq(Line), then : {"idle", "call", "fail"}, todo : SUBSET Members, answer : Answer]

Process ==
  [state : {"free", "run", "dead", "foreign"}, of : Contracts \cup {0},
   ask : [id : Nat, ms : SUBSET Members]]

(* The types of the state. *)
TypeOK ==
  /\ head \in Contracts
  /\ live \subseteq Pids
  /\ proc \in [Pids -> Process]
  /\ ev \in [Evals -> Evaluator]
  /\ floor \in [Evals -> Nat]

(* Which evaluators have a worker, and that a worker has one evaluator. *)
OwnInv ==
  /\ \A e \in Cold : ev[e].worker = NoPid /\ ev[e].pc \in {"idle", "batch", "single", "isolated"}
  /\ \A e \in Warm : ev[e].pc \in {"idle", "call", "register", "wait", "drop", "reap"}
  /\ \A e \in Warm : ev[e].pc \in {"register", "wait", "drop", "reap"} => ev[e].worker # NoPid
  /\ \A e \in Warm : ev[e].worker # NoPid => proc[ev[e].worker].state \in {"run", "dead"}
  /\ \A e, f \in Warm : ev[e].worker = ev[f].worker /\ ev[e].worker # NoPid => e = f
  /\ \A p \in Pids : proc[p].state = "run" => \E e \in Warm : ev[e].worker = p

(* A registered pid has not been reaped: only its evaluator reaps it, after
   taking it off the registry. *)
RegistryInv ==
  /\ \A p \in live : \E e \in Warm : ev[e].worker = p /\ ev[e].pc \notin {"register", "reap"}
  /\ NoStrangerKilled

(* Every locked flake and every answer is at or after its evaluator's floor. *)
FloorInv ==
  /\ \A e \in Evals : floor[e] <= head
  /\ \A e \in Warm : ev[e].worker # NoPid /\ ev[e].pc \notin {"drop", "reap"}
       => proc[ev[e].worker].of = 0 \/ proc[ev[e].worker].of >= floor[e]

(* An answer for ms at a contract no older than fl. *)
Good(ms, fl, a) == \E c \in Contracts : c >= fl /\ a = ExpectedToplevels(c, ms)

(* The lines received: none is newer than the last request, and one with its
   id is its answer. *)
LinesOK(e) ==
  \A i \in 1..Len(ev[e].lines) :
    /\ ev[e].lines[i].id <= ev[e].id
    /\ ev[e].pc = "wait" /\ ev[e].lines[i].id = ev[e].id => Good(ev[e].ms, floor[e], ev[e].lines[i].answer)

(* What the worker holds: none but the last request, and that one as it was sent. *)
AskOK(e) ==
  ev[e].worker # NoPid =>
    LET ask == proc[ev[e].worker].ask IN
    /\ ask.id <= ev[e].id
    /\ ev[e].pc = "wait" /\ ask.id = ev[e].id => ask.ms = ev[e].ms

(* The stream between an evaluator and its worker. *)
StreamOK(e) == (ev[e].pc = "wait" => ev[e].id > 0) /\ LinesOK(e) /\ AskOK(e)

StreamInv == \A e \in Warm : StreamOK(e)

(* What AnswersTrue asks of one answer. *)
Truthful(a, fl) ==
  a.why \in {"value", "eval"} =>
    /\ a.of # {} /\ \A c \in a.of : c >= fl
    /\ a.why = "value" => a.paths \cap a.errors = {}
    /\ \A c \in a.of : a.of = {c} =>
         \/ a.why = "value" /\ c \notin Sick
            /\ a.paths = With(a.ms, {c}, "ok") /\ a.errors = With(a.ms, {c}, "broken")
         \/ a.why = "eval" /\ (c \in Sick \/ With(a.ms, {c}, "ok") = {})

(* A cold call member by member: what the members done so far have left in the
   answer, which is true to one contract when all of them saw the same one. *)
Partial(ms, todo, a, fl) ==
  LET done == ms \ todo IN
  /\ ms # {} /\ todo \subseteq ms
  /\ a.of = {} => done = {}
  /\ \A c \in a.of : c >= fl
  /\ a.paths \cup a.errors \subseteq done /\ a.paths \cap a.errors = {}
  /\ \A c \in a.of : a.of = {c} =>
       /\ a.errors = {m \in done : Broken(c, {m})}
       /\ a.paths = IF c \in Sick THEN {} ELSE With(done, {c}, "ok")

(* The answer of an evaluator, while its call runs and after. *)
CallOK(e) ==
  /\ ev[e].pc # "idle" => ev[e].answer.why = "none"
  /\ ev[e].pc = "batch" => ev[e].answer = NoAnswer
  /\ ev[e].pc \in {"single", "isolated"} => Partial(ev[e].ms, ev[e].todo, ev[e].answer, floor[e])
  /\ ev[e].pc = "isolated" => ev[e].todo = {}
  /\ Truthful(ev[e].answer, floor[e])

CallInv == \A e \in Evals : CallOK(e)

(* The inductive invariant. *)
EInv == TypeOK /\ OwnInv /\ RegistryInv /\ FloorInv /\ StreamInv /\ CallInv

----------------------------------------------------------------------------
(* The parts of a record type: what the steps below need of them. *)
LEMMA EvaluatorFields ==
  ASSUME TypeOK, NEW e \in Evals
  PROVE  ev[e] \in Evaluator
BY DEF TypeOK

(* A call that returns has a typed answer for the members it asked for. *)
LEMMA ReturnedType ==
  ASSUME TypeOK, NEW e \in Evals, NEW a \in Answer
  PROVE  Returned(e, a) \in Evaluator
<1>1. ev[e] \in Evaluator
  BY EvaluatorFields
<1>2. ev[e].ms \in SUBSET Members
  BY <1>1 DEF Evaluator
<1>3. [a EXCEPT !.ms = ev[e].ms] \in Answer
  BY <1>2 DEF Answer
<1> QED BY <1>1, <1>3 DEF Returned, Evaluator

(* A call that fails has a typed answer. *)
LEMMA FailsType ==
  ASSUME TypeOK, NEW e \in Evals, NEW of \in SUBSET Contracts, NEW why \in {"eval", "transport"}
  PROVE  Fails(e, why, of) \in Evaluator
<1>1. [NoAnswer EXCEPT !.why = why, !.of = of] \in Answer
  BY DEF NoAnswer, Answer
<1> QED BY <1>1, ReturnedType DEF Fails

(* A worker answers with an answer. *)
LEMMA ExpectedType ==
  ASSUME NEW c \in Contracts, NEW ms \in SUBSET Members
  PROVE  ExpectedToplevels(c, ms) \in Answer
BY DEF ExpectedToplevels, NoAnswer, With, Answer

(* The line a process writes goes to the one evaluator that holds it. *)
LEMMA OwnerHolds ==
  ASSUME OwnInv, NEW p \in Pids, Running(p)
  PROVE  /\ Owner(p) \in Warm
         /\ ev[Owner(p)].worker = p
         /\ \A f \in Warm : ev[f].worker = p => f = Owner(p)
<1>1. \E e \in Warm : ev[e].worker = p
  BY DEF OwnInv, Running
<1>2. Owner(p) \in Warm /\ ev[Owner(p)].worker = p
  BY <1>1 DEF Owner
<1> QED BY <1>2, EvalAssumption DEF OwnInv

(* A transport failure leaves a typed evaluator. *)
LEMMA TransportType ==
  ASSUME TypeOK, NEW e \in Evals
  PROVE  Transport(e) \in Evaluator
BY EvaluatorFields, ZenonT(30) DEF Transport, Evaluator

(* A line appended to a stream leaves a typed evaluator. *)
LEMMA LinesType ==
  ASSUME TypeOK, NEW o \in Evals, NEW line, Append(ev[o].lines, line) \in Seq(Line)
  PROVE  [ev EXCEPT ![o].lines = Append(@, line)] \in [Evals -> Evaluator]
<1>1. [ev[o] EXCEPT !.lines = Append(ev[o].lines, line)] \in Evaluator
  BY EvaluatorFields DEF Evaluator
<1>2. [ev EXCEPT ![o].lines = Append(@, line)]
        = [ev EXCEPT ![o] = [ev[o] EXCEPT !.lines = Append(ev[o].lines, line)]]
  BY DEF TypeOK
<1> QED BY <1>1, <1>2 DEF TypeOK

(* Every step keeps the types of the state. *)
LEMMA TypeStep == TypeOK /\ OwnInv /\ [Next]_vars => TypeOK'
<1> SUFFICES ASSUME TypeOK, OwnInv, [Next]_vars PROVE TypeOK'
  OBVIOUS
<1> USE DEF quitting, Sets
<1>0. CASE UNCHANGED vars
  BY <1>0 DEF TypeOK, vars
<1>1. ASSUME NEW e \in Evals, NEW ms \in Requests, Call(e, ms) PROVE TypeOK'
  <2>1. NoAnswer \in Answer
    BY DEF NoAnswer, Answer
  <2>2. [ev[e] EXCEPT !.pc = IF e \in Warm THEN "call" ELSE "batch", !.attempt = 0,
                           !.ms = ms, !.answer = NoAnswer] \in Evaluator
    <3>1. ms \in SUBSET Members
      BY EvalAssumption
    <3> QED BY <2>1, <3>1, EvaluatorFields, ZenonT(30) DEF Evaluator
  <2>3. ev' \in [Evals -> Evaluator]
    BY <1>1, <2>2 DEF TypeOK, Call
  <2>4. floor' \in [Evals -> Nat]
    BY <1>1 DEF TypeOK, Call, Contracts
  <2> QED BY <1>1, <2>3, <2>4 DEF TypeOK, Call
<1>2. ASSUME NEW e \in Evals, SpawnRefused(e) PROVE TypeOK'
  BY <1>2, FailsType DEF TypeOK, SpawnRefused
<1>3. ASSUME NEW e \in Evals, SpawnWorker(e) PROVE TypeOK'
  <2>1. PICK p \in Pids : /\ proc' = [proc EXCEPT ![p] = [Gone EXCEPT !.state = "run"]]
                          /\ ev' = [ev EXCEPT ![e] = [ev[e] EXCEPT !.pc = "register", !.worker = p]]
    BY <1>3 DEF TypeOK, SpawnWorker
  <2>2. [ev[e] EXCEPT !.pc = "register", !.worker = p] \in Evaluator
    BY EvaluatorFields DEF Evaluator
  <2>3. [Gone EXCEPT !.state = "run"] \in Process
    BY DEF Gone, Process
  <2> QED BY <1>3, <2>1, <2>2, <2>3 DEF TypeOK, SpawnWorker
<1>4. ASSUME NEW e \in Evals, Register(e) PROVE TypeOK'
  <2>1. ev[e].worker \in Pids
    <3>1. ev[e].worker # NoPid
      BY <1>4 DEF Register, OwnInv, Evals
    <3> QED BY <3>1, EvaluatorFields DEF Evaluator
  <2>2. [ev[e] EXCEPT !.pc = "call"] \in Evaluator
    BY EvaluatorFields DEF Evaluator
  <2>3. [Fails(e, "transport", {}) EXCEPT !.worker = NoPid] \in Evaluator
    <3>1. Fails(e, "transport", {}) \in Evaluator
      BY FailsType
    <3> QED BY <3>1 DEF Evaluator
  <2>4. Gone \in Process
    BY DEF Gone, Process
  <2> QED BY <1>4, <2>1, <2>2, <2>3, <2>4 DEF TypeOK, Register
<1>5. ASSUME NEW e \in Evals, Send(e) PROVE TypeOK'
  <2> DEFINE id == ev[e].id + 1
  <2>0. id \in Nat
    BY EvaluatorFields DEF Evaluator
  <2> HIDE DEF id
  <2>1. [ev[e] EXCEPT !.pc = "wait", !.id = id] \in Evaluator
    BY <2>0, EvaluatorFields DEF Evaluator
  <2>2. [Transport(e) EXCEPT !.id = id] \in Evaluator
    BY <2>0, TransportType DEF Evaluator
  <2>3. ev' \in [Evals -> Evaluator]
    BY <1>5, <2>1, <2>2 DEF TypeOK, Send, id
  <2>4. ASSUME NEW p \in Pids, proc' = [proc EXCEPT ![p].ask = [id |-> id, ms |-> ev[e].ms]]
        PROVE  proc' \in [Pids -> Process]
    <3>1. [id |-> id, ms |-> ev[e].ms] \in [id : Nat, ms : SUBSET Members]
      BY <2>0, EvaluatorFields DEF Evaluator
    <3> DEFINE ask == [id |-> id, ms |-> ev[e].ms]
    <3> HIDE DEF ask
    <3>2. [proc[p] EXCEPT !.ask = ask] \in Process
      BY <3>1 DEF TypeOK, Process, ask
    <3>3. proc' = [proc EXCEPT ![p] = [proc[p] EXCEPT !.ask = ask]]
      BY <2>4 DEF TypeOK, ask
    <3> QED BY <3>2, <3>3 DEF TypeOK
  <2>5. ev[e].worker \in Pids \cup {NoPid}
    BY EvaluatorFields DEF Evaluator
  <2>6. proc' \in [Pids -> Process]
    BY <1>5, <2>4, <2>5 DEF TypeOK, Send, id, Running
  <2> QED BY <1>5, <2>3, <2>6 DEF TypeOK, Send
<1>6. ASSUME NEW e \in Evals, Receive(e) PROVE TypeOK'
  <2>1. ev[e].lines \in Seq(Line) /\ ev[e].lines # <<>>
    BY <1>6, EvaluatorFields DEF Receive, Evaluator
  <2>2. Head(ev[e].lines).answer \in Answer /\ Tail(ev[e].lines) \in Seq(Line)
    <3>1. Head(ev[e].lines) \in Line /\ Tail(ev[e].lines) \in Seq(Line)
      BY <2>1
    <3> QED BY <3>1 DEF Line
  <2>3. [Returned(e, Head(ev[e].lines).answer) EXCEPT !.lines = Tail(ev[e].lines)] \in Evaluator
    <3>1. Returned(e, Head(ev[e].lines).answer) \in Evaluator
      BY <2>2, ReturnedType
    <3> QED BY <2>2, <3>1 DEF Evaluator
  <2>4. [Transport(e) EXCEPT !.lines = Tail(ev[e].lines)] \in Evaluator
    BY <2>2, TransportType DEF Evaluator
  <2>5. [ev[e] EXCEPT !.lines = Tail(@)].lines = Tail(ev[e].lines)
    BY EvaluatorFields DEF Evaluator
  <2> QED BY <1>6, <2>3, <2>4, <2>5 DEF TypeOK, Receive
<1>7. ASSUME NEW e \in Evals, Closed(e) PROVE TypeOK'
  BY <1>7, TransportType DEF TypeOK, Closed
<1>8. ASSUME NEW e \in Evals, TimesOut(e) PROVE TypeOK'
  <2>1. [ev[e] EXCEPT !.pc = "drop", !.then = "fail"] \in Evaluator
    BY EvaluatorFields DEF Evaluator
  <2> QED BY <1>8, <2>1 DEF TypeOK, TimesOut
<1>9. ASSUME NEW e \in Evals, Reload(e) PROVE TypeOK'
  <2>1. NoAnswer \in Answer
    BY DEF NoAnswer, Answer
  <2>2. [ev[e] EXCEPT !.pc = "drop", !.then = "idle", !.answer = NoAnswer] \in Evaluator
    BY <2>1, EvaluatorFields, ZenonT(30) DEF Evaluator
  <2> QED BY <1>9, <2>2 DEF TypeOK, Reload, Contracts
<1>10. ASSUME NEW e \in Evals, Deregister(e) PROVE TypeOK'
  <2>1. [ev[e] EXCEPT !.pc = "reap"] \in Evaluator
    BY EvaluatorFields DEF Evaluator
  <2> QED BY <1>10, <2>1 DEF TypeOK, Deregister
<1>11. ASSUME NEW e \in Evals, Reap(e) PROVE TypeOK'
  <2>1. <<>> \in Seq(Line)
    OBVIOUS
  <2>2. [Fails(e, "transport", {}) EXCEPT !.worker = NoPid, !.lines = <<>>] \in Evaluator
    <3>1. Fails(e, "transport", {}) \in Evaluator
      BY FailsType
    <3> QED BY <2>1, <3>1 DEF Evaluator
  <2>3. ev[e].then # "fail" => Dropped(e) \in Evaluator
    BY <2>1, EvaluatorFields, ZenonT(30) DEF Evaluator, Dropped
  <2>4. Gone \in Process
    BY DEF Gone, Process
  <2> QED BY <1>11, <2>2, <2>3, <2>4 DEF TypeOK, Reap
<1>12. ASSUME NEW p \in Pids, Evaluate(p) PROVE TypeOK'
  <2> DEFINE c == EnsureLocked(p)
             o == Owner(p)
             line == [id |-> proc[p].ask.id, answer |-> ExpectedToplevels(c, proc[p].ask.ms)]
  <2>0. proc[p] \in Process
    BY DEF TypeOK
  <2>1. c \in Contracts
    BY <2>0 DEF EnsureLocked, Process, TypeOK
  <2>2. line \in Line
    BY <2>0, <2>1, ExpectedType DEF Process, Line
  <2>3. o \in Evals
    BY <1>12, OwnerHolds DEF TypeOK, Evaluate, Evals
  <2>4. ev' = [ev EXCEPT ![o].lines = Append(@, line)]
    BY <1>12 DEF TypeOK, Evaluate
  <2>5. Append(ev[o].lines, line) \in Seq(Line)
    BY <2>2, <2>3, EvaluatorFields DEF Evaluator
  <2>6. ev' \in [Evals -> Evaluator]
    BY <2>3, <2>4, <2>5, LinesType
  <2>7. PICK of \in Contracts \cup {0} : proc' = [proc EXCEPT ![p].of = of, ![p].ask = Gone.ask]
    BY <1>12, <2>1 DEF TypeOK, Evaluate
  <2>8. proc' \in [Pids -> Process]
    <3>1. [proc[p] EXCEPT !.of = of, !.ask = Gone.ask] \in Process
      BY <2>0 DEF Process, Gone
    <3>2. proc' = [proc EXCEPT ![p] = [proc[p] EXCEPT !.of = of, !.ask = Gone.ask]]
      BY <2>7 DEF TypeOK
    <3> QED BY <3>1, <3>2 DEF TypeOK
  <2> QED BY <1>12, <2>6, <2>8 DEF TypeOK, Evaluate
<1>13. ASSUME NEW p \in Pids, Crash(p) PROVE TypeOK'
  <2>1. [proc[p] EXCEPT !.state = "dead"] \in Process
    BY DEF TypeOK, Process
  <2> QED BY <1>13, <2>1 DEF Crash, TypeOK
<1>14. ASSUME NEW p \in Pids, StrayLine(p) PROVE TypeOK'
  <2> DEFINE line == [id |-> 0, answer |-> [NoAnswer EXCEPT !.why = "eval"]]
  <2>1. line \in Line
    BY DEF NoAnswer, Line, Answer
  <2>2. Owner(p) \in Evals
    BY <1>14, OwnerHolds DEF TypeOK, StrayLine, Evals
  <2>3. ev' = [ev EXCEPT ![Owner(p)].lines = Append(@, line)]
    BY <1>14 DEF TypeOK, StrayLine
  <2>4. Append(ev[Owner(p)].lines, line) \in Seq(Line)
    BY <2>1, <2>2, EvaluatorFields DEF Evaluator
  <2>5. ev' \in [Evals -> Evaluator]
    BY <2>2, <2>3, <2>4, LinesType
  <2> QED BY <1>14, <2>5 DEF TypeOK, StrayLine
<1>15. ASSUME NEW p \in Pids, ForeignStarts(p) \/ ForeignEnds(p) PROVE TypeOK'
  <2>1. [proc[p] EXCEPT !.state = "foreign"] \in Process /\ Gone \in Process
    BY DEF TypeOK, Process, Gone
  <2> QED BY <1>15, <2>1 DEF ForeignStarts, ForeignEnds, TypeOK
<1>16. ASSUME NEW e \in Evals, Batch(e) PROVE TypeOK'
  <2>1. [NoAnswer EXCEPT !.why = "value", !.of = {head}, !.paths = With(ev[e].ms, {head}, "ok")] \in Answer
    <3>1. ev[e].ms \in SUBSET Members /\ head \in Contracts
      BY EvaluatorFields DEF Evaluator, TypeOK
    <3> QED BY <3>1 DEF NoAnswer, Answer, With
  <2>2. [ev[e] EXCEPT !.pc = "single", !.todo = ev[e].ms] \in Evaluator
    BY EvaluatorFields DEF Evaluator
  <2> QED BY <1>16, <2>1, <2>2, ReturnedType, FailsType DEF TypeOK, Batch
<1>17. ASSUME NEW e \in Evals, Single(e) PROVE TypeOK'
  <2>1. PICK m \in ev[e].todo : ev' = [ev EXCEPT ![e] =
           [ev[e] EXCEPT !.todo = @ \ {m},
              !.answer = [ev[e].answer EXCEPT !.of = @ \cup {head},
                          !.errors = @ \cup (IF Broken(head, {m}) THEN {m} ELSE {}),
                          !.paths = @ \cup (IF head \in Sick THEN {} ELSE With({m}, {head}, "ok"))],
              !.pc = IF ev[e].todo = {m} THEN "isolated" ELSE "single"]]
    BY <1>17 DEF TypeOK, Single
  <2> DEFINE b == [ev[e].answer EXCEPT !.of = @ \cup {head},
                          !.errors = @ \cup (IF Broken(head, {m}) THEN {m} ELSE {}),
                          !.paths = @ \cup (IF head \in Sick THEN {} ELSE With({m}, {head}, "ok"))]
  <2>2. m \in Members /\ ev[e].answer \in Answer
    BY EvaluatorFields DEF Evaluator
  <2>3. b \in Answer
    BY <2>2, head \in Contracts DEF Answer, With, TypeOK
  <2> HIDE DEF b
  <2>4. [ev[e] EXCEPT !.todo = @ \ {m}, !.answer = b,
                      !.pc = IF ev[e].todo = {m} THEN "isolated" ELSE "single"] \in Evaluator
    BY <2>3, EvaluatorFields, ZenonT(30) DEF Evaluator
  <2>5. ev' \in [Evals -> Evaluator]
    BY <2>1, <2>4 DEF TypeOK, b
  <2> QED BY <1>17, <2>5 DEF TypeOK, Single
<1>18. ASSUME NEW e \in Evals, Isolated(e) PROVE TypeOK'
  <2>1. ev[e].answer \in Answer
    BY EvaluatorFields DEF Evaluator
  <2>2. [ev[e].answer EXCEPT !.why = "value"] \in Answer /\ ev[e].answer.of \in SUBSET Contracts
    BY <2>1 DEF Answer
  <2> QED BY <1>18, <2>2, ReturnedType, FailsType DEF TypeOK, Isolated
<1>19. CASE Latch
  BY <1>19 DEF TypeOK, Latch
<1>20. CASE Sweep
  <2>1. \A p \in Pids : [proc[p] EXCEPT !.state = "dead"] \in Process
    BY DEF Process, TypeOK
  <2> QED BY <1>20, <2>1 DEF TypeOK, Sweep
<1>21. CASE MoveHead
  BY <1>21, EvalAssumption DEF TypeOK, MoveHead, Contracts
<1> QED
  BY <1>0, <1>1, <1>2, <1>3, <1>4, <1>5, <1>6, <1>7, <1>8, <1>9, <1>10, <1>11, <1>12, <1>13,
     <1>14, <1>15, <1>16, <1>17, <1>18, <1>19, <1>20, <1>21 DEF Next, Step, DropWorker

----------------------------------------------------------------------------
(* What each step does to the evaluator that takes it, field by field. *)

(* An assignment to one evaluator leaves the others alone. *)
LEMMA SetsOne ==
  ASSUME TypeOK, NEW e \in Evals, NEW r, Sets(e, r)
  PROVE  ev'[e] = r /\ \A f \in Evals \ {e} : ev'[f] = ev[f]
BY DEF TypeOK, Sets

(* The fields of a call that returned. *)
LEMMA ReturnedFields ==
  ASSUME TypeOK, NEW e \in Evals, NEW a
  PROVE  LET r == Returned(e, a) IN
         /\ r.pc = "idle" /\ r.worker = ev[e].worker /\ r.id = ev[e].id /\ r.ms = ev[e].ms
         /\ r.lines = ev[e].lines /\ r.answer = [a EXCEPT !.ms = ev[e].ms]
BY EvaluatorFields DEF Returned, Evaluator

(* The fields of a call that failed. *)
LEMMA FailsFields ==
  ASSUME TypeOK, NEW e \in Evals, NEW why \in {"eval", "transport"}, NEW of \in SUBSET Contracts
  PROVE  LET r == Fails(e, why, of) IN
         /\ r.pc = "idle" /\ r.worker = ev[e].worker /\ r.id = ev[e].id /\ r.ms = ev[e].ms
         /\ r.lines = ev[e].lines
         /\ r.answer.why = why /\ r.answer.of = of /\ r.answer.ms = ev[e].ms
<1> DEFINE a == [NoAnswer EXCEPT !.why = why, !.of = of]
           r == Returned(e, a)
<1>1. a \in Answer /\ a.why = why /\ a.of = of
  BY DEF NoAnswer, Answer
<1>2. Fails(e, why, of) = r
  BY DEF Fails
<1> HIDE DEF a
<1>3. /\ r.pc = "idle" /\ r.worker = ev[e].worker /\ r.id = ev[e].id /\ r.ms = ev[e].ms
      /\ r.lines = ev[e].lines /\ r.answer = [a EXCEPT !.ms = ev[e].ms]
  BY ReturnedFields
<1> HIDE DEF r
<1>4. r.answer.why = why /\ r.answer.of = of /\ r.answer.ms = ev[e].ms
  BY <1>1, <1>3 DEF Answer
<1> QED BY <1>2, <1>3, <1>4

(* The fields after a transport failure. *)
LEMMA TransportFields ==
  ASSUME TypeOK, NEW e \in Evals
  PROVE  LET r == Transport(e) IN
         /\ r.pc = "drop" /\ r.worker = ev[e].worker /\ r.id = ev[e].id /\ r.ms = ev[e].ms
         /\ r.lines = ev[e].lines /\ r.answer = ev[e].answer
BY EvaluatorFields DEF Transport, Evaluator

(* The others' state, untouched by a step of e. *)
Alone(e) == \A f \in Evals \ {e} : ev'[f] = ev[f]

(* The fields of e but its place. *)
KeepsCall(e) == ev'[e].id = ev[e].id /\ ev'[e].ms = ev[e].ms /\ ev'[e].answer = ev[e].answer

(* Calls and reloads. *)
LEMMA CallFields ==
  ASSUME TypeOK, NEW e \in Evals, NEW ms \in Requests, Call(e, ms)
  PROVE  /\ Alone(e) /\ ev[e].pc = "idle" /\ ev'[e].pc = (IF e \in Warm THEN "call" ELSE "batch")
         /\ ev'[e].worker = ev[e].worker /\ ev'[e].id = ev[e].id /\ ev'[e].ms = ms
         /\ ev'[e].lines = ev[e].lines /\ ev'[e].answer = NoAnswer
<1>1. Alone(e) /\ ev'[e] = [ev[e] EXCEPT !.pc = IF e \in Warm THEN "call" ELSE "batch", !.attempt = 0,
                           !.ms = ms, !.answer = NoAnswer]
  BY SetsOne DEF Call, Alone
<1> QED BY <1>1, EvaluatorFields DEF Evaluator, Call

(* What reload changes of its evaluator. *)
LEMMA ReloadFields ==
  ASSUME TypeOK, NEW e \in Evals, Reload(e)
  PROVE  /\ Alone(e) /\ ev[e].pc = "idle" /\ ev'[e].pc = "drop"
         /\ ev'[e].worker = ev[e].worker /\ ev'[e].id = ev[e].id /\ ev'[e].ms = ev[e].ms
         /\ ev'[e].lines = ev[e].lines /\ ev'[e].answer = NoAnswer
<1>1. Alone(e) /\ ev'[e] = [ev[e] EXCEPT !.pc = "drop", !.then = "idle", !.answer = NoAnswer]
  BY SetsOne DEF Reload, Alone
<1> QED BY <1>1, EvaluatorFields DEF Evaluator, Reload

(* A failing call. *)
LEMMA SpawnRefusedFields ==
  ASSUME TypeOK, NEW e \in Evals, SpawnRefused(e)
  PROVE  /\ Alone(e) /\ ev[e].pc = "call" /\ ev'[e].pc = "idle"
         /\ ev'[e].worker = ev[e].worker /\ ev'[e].id = ev[e].id
         /\ ev'[e].lines = ev[e].lines /\ ev'[e].answer.why = "transport"
<1>1. Alone(e) /\ ev'[e] = Fails(e, "transport", {})
  BY SetsOne DEF SpawnRefused, Alone
<1> QED BY <1>1, FailsFields DEF SpawnRefused, NeedsWorker

(* A spawn takes a free pid. *)
LEMMA SpawnFields ==
  ASSUME TypeOK, NEW e \in Evals, SpawnWorker(e)
  PROVE  /\ Alone(e) /\ ev[e].pc = "call" /\ ev[e].worker = NoPid /\ ev'[e].pc = "register"
         /\ ev'[e].worker \in Pids /\ proc[ev'[e].worker].state = "free"
         /\ proc' = [proc EXCEPT ![ev'[e].worker] = [Gone EXCEPT !.state = "run"]]
         /\ ev'[e].lines = ev[e].lines /\ KeepsCall(e)
<1>1. PICK p \in Pids : /\ proc[p].state = "free"
                        /\ proc' = [proc EXCEPT ![p] = [Gone EXCEPT !.state = "run"]]
                        /\ Sets(e, [ev[e] EXCEPT !.pc = "register", !.worker = p])
  BY DEF SpawnWorker
<1>2. Alone(e) /\ ev'[e] = [ev[e] EXCEPT !.pc = "register", !.worker = p]
  BY <1>1, SetsOne DEF Alone
<1>3. ev'[e].pc = "register" /\ ev'[e].worker = p /\ ev'[e].lines = ev[e].lines /\ KeepsCall(e)
  BY <1>2, EvaluatorFields DEF Evaluator, KeepsCall
<1> QED BY <1>1, <1>2, <1>3 DEF SpawnWorker, NeedsWorker

(* A registration, or the rejection of the child. *)
LEMMA RegisterFields ==
  ASSUME TypeOK, NEW e \in Evals, Register(e)
  PROVE  /\ Alone(e) /\ ev[e].pc = "register" /\ ev'[e].lines = ev[e].lines /\ ev'[e].id = ev[e].id
         /\ \/ /\ live' = live \cup {ev[e].worker} /\ proc' = proc
               /\ ev'[e].pc = "call" /\ ev'[e].worker = ev[e].worker /\ KeepsCall(e)
            \/ /\ live' = live /\ proc' = [proc EXCEPT ![ev[e].worker] = Gone]
               /\ ev'[e].pc = "idle" /\ ev'[e].worker = NoPid /\ ev'[e].answer.why = "transport"
<1>0. ev[e].pc = "register"
  BY DEF Register
<1>1. CASE live' = live \cup {ev[e].worker} /\ proc' = proc /\ Sets(e, [ev[e] EXCEPT !.pc = "call"])
  <2>1. Alone(e) /\ ev'[e] = [ev[e] EXCEPT !.pc = "call"]
    BY <1>1, SetsOne DEF Alone
  <2> QED BY <1>0, <1>1, <2>1, EvaluatorFields DEF Evaluator, KeepsCall
<1>2. CASE live' = live /\ proc' = [proc EXCEPT ![ev[e].worker] = Gone]
           /\ Sets(e, [Fails(e, "transport", {}) EXCEPT !.worker = NoPid])
  <2>1. Alone(e) /\ ev'[e] = [Fails(e, "transport", {}) EXCEPT !.worker = NoPid]
    BY <1>2, SetsOne DEF Alone
  <2>2. Fails(e, "transport", {}) \in Evaluator
    BY FailsType
  <2>3. ev'[e].worker = NoPid /\ ev'[e].pc = Fails(e, "transport", {}).pc
        /\ ev'[e].lines = Fails(e, "transport", {}).lines /\ ev'[e].id = Fails(e, "transport", {}).id
        /\ ev'[e].answer = Fails(e, "transport", {}).answer
    BY <2>1, <2>2 DEF Evaluator
  <2> QED BY <1>0, <1>2, <2>1, <2>3, FailsFields
<1> QED BY <1>1, <1>2 DEF Register

(* A request that was written, or could not be. *)
LEMMA SendFields ==
  ASSUME TypeOK, NEW e \in Evals, Send(e)
  PROVE  /\ Alone(e) /\ ev[e].pc = "call" /\ ev[e].worker # NoPid /\ ev'[e].worker = ev[e].worker
         /\ ev'[e].id = ev[e].id + 1 /\ ev'[e].lines = ev[e].lines
         /\ ev'[e].ms = ev[e].ms /\ ev'[e].answer = ev[e].answer
         /\ \/ /\ ev'[e].pc = "wait"
               /\ proc' = [proc EXCEPT ![ev[e].worker].ask = [id |-> ev[e].id + 1, ms |-> ev[e].ms]]
            \/ ev'[e].pc = "drop" /\ proc' = proc
<1> DEFINE id == ev[e].id + 1
<1>0. ev[e].pc = "call" /\ ev[e].worker # NoPid
  BY DEF Send
<1>a. id \in Nat
  BY EvaluatorFields DEF Evaluator
<1>b. /\ \/ /\ proc' = [proc EXCEPT ![ev[e].worker].ask = [id |-> id, ms |-> ev[e].ms]]
            /\ Sets(e, [ev[e] EXCEPT !.pc = "wait", !.id = id])
         \/ proc' = proc /\ Sets(e, [Transport(e) EXCEPT !.id = id])
  BY DEF Send
<1> HIDE DEF id
<1>1. CASE proc' = [proc EXCEPT ![ev[e].worker].ask = [id |-> id, ms |-> ev[e].ms]]
           /\ Sets(e, [ev[e] EXCEPT !.pc = "wait", !.id = id])
  <2>1. Alone(e) /\ ev'[e] = [ev[e] EXCEPT !.pc = "wait", !.id = id]
    BY <1>1, SetsOne DEF Alone
  <2>2. /\ ev'[e].pc = "wait" /\ ev'[e].id = id /\ ev'[e].worker = ev[e].worker
        /\ ev'[e].lines = ev[e].lines /\ ev'[e].ms = ev[e].ms /\ ev'[e].answer = ev[e].answer
    BY <2>1, EvaluatorFields DEF Evaluator
  <2> QED BY <1>0, <1>1, <2>1, <2>2 DEF id
<1>2. CASE proc' = proc /\ Sets(e, [Transport(e) EXCEPT !.id = id])
  <2>1. Alone(e) /\ ev'[e] = [Transport(e) EXCEPT !.id = id]
    BY <1>2, SetsOne DEF Alone
  <2>2. Transport(e) \in Evaluator
    BY TransportType
  <2>3. /\ ev'[e].pc = Transport(e).pc /\ ev'[e].id = id /\ ev'[e].worker = Transport(e).worker
        /\ ev'[e].lines = Transport(e).lines /\ ev'[e].ms = Transport(e).ms
        /\ ev'[e].answer = Transport(e).answer
    BY <2>1, <2>2 DEF Evaluator
  <2> QED BY <1>0, <1>2, <2>1, <2>3, TransportFields DEF id
<1> QED BY <1>b, <1>1, <1>2

(* A line that was read: the reply, or the end of this worker. *)
LEMMA ReceiveFields ==
  ASSUME TypeOK, NEW e \in Evals, Receive(e)
  PROVE  /\ Alone(e) /\ ev[e].pc = "wait" /\ ev[e].lines # <<>>
         /\ ev'[e].worker = ev[e].worker /\ ev'[e].id = ev[e].id /\ ev'[e].ms = ev[e].ms
         /\ ev'[e].lines = Tail(ev[e].lines)
         /\ \/ /\ Head(ev[e].lines).id = ev[e].id /\ ev'[e].pc = "idle"
               /\ ev'[e].answer = [Head(ev[e].lines).answer EXCEPT !.ms = ev[e].ms]
            \/ ev'[e].pc = "drop" /\ ev'[e].answer = ev[e].answer
<1> DEFINE line == Head(ev[e].lines)
           rest == Tail(ev[e].lines)
<1>1. ev[e].pc = "wait" /\ ev[e].lines # <<>>
  BY DEF Receive
<1>2. ev[e].lines \in Seq(Line)
  BY EvaluatorFields DEF Evaluator
<1>3. line \in Line /\ rest \in Seq(Line)
  BY <1>1, <1>2
<1>4. line.answer \in Answer
  BY <1>3 DEF Line
<1>5. [ev[e] EXCEPT !.lines = Tail(@)].lines = rest
  BY EvaluatorFields DEF Evaluator
<1>6. \/ line.id = ev[e].id /\ Sets(e, [Returned(e, line.answer) EXCEPT !.lines = rest])
      \/ Sets(e, [Transport(e) EXCEPT !.lines = rest])
  BY <1>5 DEF Receive, Answers
<1> HIDE DEF line, rest
<1>7. CASE line.id = ev[e].id /\ Sets(e, [Returned(e, line.answer) EXCEPT !.lines = rest])
  <2> DEFINE r == Returned(e, line.answer)
  <2>1. Alone(e) /\ ev'[e] = [r EXCEPT !.lines = rest]
    BY <1>7, SetsOne DEF Alone
  <2>2. r \in Evaluator
    BY <1>4, ReturnedType
  <2>3. /\ r.pc = "idle" /\ r.worker = ev[e].worker /\ r.id = ev[e].id /\ r.ms = ev[e].ms
        /\ r.answer = [line.answer EXCEPT !.ms = ev[e].ms]
    BY ReturnedFields
  <2> HIDE DEF r
  <2>4. /\ ev'[e].pc = r.pc /\ ev'[e].worker = r.worker /\ ev'[e].id = r.id /\ ev'[e].ms = r.ms
        /\ ev'[e].answer = r.answer /\ ev'[e].lines = rest
    BY <2>1, <2>2 DEF Evaluator
  <2> QED BY <1>1, <1>7, <2>1, <2>3, <2>4 DEF line, rest
<1>8. CASE Sets(e, [Transport(e) EXCEPT !.lines = rest])
  <2> DEFINE r == Transport(e)
  <2>1. Alone(e) /\ ev'[e] = [r EXCEPT !.lines = rest]
    BY <1>8, SetsOne DEF Alone
  <2>2. r \in Evaluator
    BY TransportType
  <2>3. /\ r.pc = "drop" /\ r.worker = ev[e].worker /\ r.id = ev[e].id /\ r.ms = ev[e].ms
        /\ r.answer = ev[e].answer
    BY TransportFields
  <2> HIDE DEF r
  <2>4. /\ ev'[e].pc = r.pc /\ ev'[e].worker = r.worker /\ ev'[e].id = r.id /\ ev'[e].ms = r.ms
        /\ ev'[e].answer = r.answer /\ ev'[e].lines = rest
    BY <2>1, <2>2 DEF Evaluator
  <2> QED BY <1>1, <2>1, <2>3, <2>4 DEF line, rest
<1> QED BY <1>6, <1>7, <1>8

(* A closed stream, a timeout, a deregistration: only the place changes. *)
LEMMA PlaceFields ==
  ASSUME TypeOK, NEW e \in Evals, Closed(e) \/ TimesOut(e) \/ Deregister(e)
  PROVE  /\ Alone(e) /\ ev'[e].worker = ev[e].worker /\ ev'[e].lines = ev[e].lines /\ KeepsCall(e)
         /\ \/ ev[e].pc = "wait" /\ ev'[e].pc = "drop" /\ live' = live
            \/ ev[e].pc = "drop" /\ ev'[e].pc = "reap" /\ live' = live \ {ev[e].worker}
<1>1. CASE Closed(e)
  <2>1. Alone(e) /\ ev'[e] = Transport(e)
    BY <1>1, SetsOne DEF Closed, Alone
  <2> QED BY <1>1, <2>1, TransportFields DEF Closed, KeepsCall
<1>2. CASE TimesOut(e)
  <2>1. Alone(e) /\ ev'[e] = [ev[e] EXCEPT !.pc = "drop", !.then = "fail"]
    BY <1>2, SetsOne DEF TimesOut, Alone
  <2> QED BY <1>2, <2>1, EvaluatorFields DEF TimesOut, KeepsCall, Evaluator
<1>3. CASE Deregister(e)
  <2>1. Alone(e) /\ ev'[e] = [ev[e] EXCEPT !.pc = "reap"]
    BY <1>3, SetsOne DEF Deregister, Alone
  <2> QED BY <1>3, <2>1, EvaluatorFields DEF Deregister, KeepsCall, Evaluator
<1> QED BY <1>1, <1>2, <1>3

(* The worker is reaped and the stream forgotten. *)
LEMMA ReapFields ==
  ASSUME TypeOK, NEW e \in Evals, Reap(e)
  PROVE  /\ Alone(e) /\ ev[e].pc = "reap" /\ ev'[e].worker = NoPid /\ ev'[e].lines = <<>>
         /\ proc' = [proc EXCEPT ![ev[e].worker] = Gone] /\ ev'[e].id = ev[e].id
         /\ \/ ev'[e].pc = "idle" /\ ev'[e].answer.why = "transport"
            \/ ev'[e].pc \in {"idle", "call"} /\ ev'[e].answer = ev[e].answer
<1>0. ev[e].pc = "reap" /\ proc' = [proc EXCEPT ![ev[e].worker] = Gone]
  BY DEF Reap
<1>1. CASE ev[e].then = "fail"
  <2> DEFINE r == Fails(e, "transport", {})
  <2>1. Alone(e) /\ ev'[e] = [r EXCEPT !.worker = NoPid, !.lines = <<>>]
    BY <1>1, SetsOne DEF Alone, Reap
  <2>2. r \in Evaluator
    BY FailsType
  <2>3. r.pc = "idle" /\ r.id = ev[e].id /\ r.answer.why = "transport"
    BY FailsFields
  <2> HIDE DEF r
  <2>4. /\ ev'[e].worker = NoPid /\ ev'[e].lines = <<>> /\ ev'[e].pc = r.pc /\ ev'[e].id = r.id
        /\ ev'[e].answer = r.answer
    BY <2>1, <2>2 DEF Evaluator
  <2> QED BY <1>0, <2>1, <2>3, <2>4
<1>2. CASE ev[e].then # "fail"
  <2>1. Alone(e) /\ ev'[e] = [ev[e] EXCEPT !.worker = NoPid, !.lines = <<>>, !.pc = ev[e].then]
    BY <1>2, SetsOne DEF Alone, Reap, Dropped
  <2>2. /\ ev'[e].worker = NoPid /\ ev'[e].lines = <<>> /\ ev'[e].pc = ev[e].then
        /\ ev'[e].id = ev[e].id /\ ev'[e].answer = ev[e].answer
    BY <2>1, EvaluatorFields DEF Evaluator
  <2>3. ev[e].then \in {"idle", "call"}
    BY <1>2, EvaluatorFields DEF Evaluator
  <2> QED BY <1>0, <2>1, <2>2, <2>3
<1> QED BY <1>1, <1>2

(* A line that arrives changes only the stream it arrives on. *)
LEMMA LineFields ==
  ASSUME TypeOK, NEW o \in Evals, NEW line, ev' = [ev EXCEPT ![o].lines = Append(@, line)]
  PROVE  /\ Alone(o) /\ ev'[o].lines = Append(ev[o].lines, line) /\ ev'[o].pc = ev[o].pc
         /\ ev'[o].worker = ev[o].worker /\ KeepsCall(o) /\ ev'[o].todo = ev[o].todo
<1>1. Alone(o) /\ ev'[o] = [ev[o] EXCEPT !.lines = Append(ev[o].lines, line)]
  BY DEF TypeOK, Alone
<1> QED BY <1>1, EvaluatorFields DEF Evaluator, KeepsCall

(* An evaluation locks the flake, forgets the request and writes its answer. *)
LEMMA EvaluateFields ==
  ASSUME TypeOK, OwnInv, NEW p \in Pids, Evaluate(p)
  PROVE  LET o == Owner(p)
             c == EnsureLocked(p)
         IN
         /\ c \in Contracts /\ Running(p)
         /\ \A q \in Pids \ {p} : proc'[q] = proc[q]
         /\ proc'[p].state = "run" /\ proc'[p].of \in {0, c} /\ proc'[p].ask = Gone.ask
         /\ o \in Warm /\ ev[o].worker = p /\ Alone(o) /\ ev'[o].pc = ev[o].pc
         /\ ev'[o].worker = ev[o].worker /\ KeepsCall(o) /\ ev'[o].todo = ev[o].todo
         /\ ev'[o].lines = Append(ev[o].lines,
               [id |-> proc[p].ask.id, answer |-> ExpectedToplevels(c, proc[p].ask.ms)])
<1> DEFINE c == EnsureLocked(p)
<1>0. proc[p] \in Process /\ Running(p) /\ proc[p].state = "run"
  BY DEF TypeOK, Evaluate, Running
<1>1. c \in Contracts
  BY <1>0 DEF EnsureLocked, Process, TypeOK
<1>2. PICK of \in {0, c} : proc' = [proc EXCEPT ![p].of = of, ![p].ask = Gone.ask]
  BY DEF Evaluate
<1>3. \A q \in Pids \ {p} : proc'[q] = proc[q]
  BY <1>2 DEF TypeOK
<1>4. proc'[p] = [proc[p] EXCEPT !.of = of, !.ask = Gone.ask]
  BY <1>2 DEF TypeOK
<1>5. proc'[p].state = "run" /\ proc'[p].of = of /\ proc'[p].ask = Gone.ask
  BY <1>0, <1>4 DEF Process
<1>6. Owner(p) \in Warm /\ ev[Owner(p)].worker = p /\ Owner(p) \in Evals
  BY <1>0, OwnerHolds DEF Evals
<1> DEFINE line == [id |-> proc[p].ask.id, answer |-> ExpectedToplevels(c, proc[p].ask.ms)]
<1>7. ev' = [ev EXCEPT ![Owner(p)].lines = Append(@, line)]
  BY DEF Evaluate
<1> HIDE DEF line
<1>8. LET o == Owner(p) IN
      /\ Alone(o) /\ ev'[o].lines = Append(ev[o].lines, line) /\ ev'[o].pc = ev[o].pc
      /\ ev'[o].worker = ev[o].worker /\ KeepsCall(o) /\ ev'[o].todo = ev[o].todo
  BY <1>6, <1>7, LineFields
<1> QED BY <1>0, <1>1, <1>3, <1>5, <1>6, <1>8 DEF line

(* A stray line changes its stream only. *)
LEMMA StrayFields ==
  ASSUME TypeOK, OwnInv, NEW p \in Pids, StrayLine(p)
  PROVE  LET o == Owner(p) IN
         /\ o \in Warm /\ Alone(o) /\ ev'[o].pc = ev[o].pc
         /\ ev'[o].worker = ev[o].worker /\ KeepsCall(o) /\ ev'[o].todo = ev[o].todo
         /\ ev'[o].lines = Append(ev[o].lines, [id |-> 0, answer |-> [NoAnswer EXCEPT !.why = "eval"]])
<1>1. Owner(p) \in Warm /\ Owner(p) \in Evals
  BY OwnerHolds DEF Evals, StrayLine
<1> DEFINE line == [id |-> 0, answer |-> [NoAnswer EXCEPT !.why = "eval"]]
<1>2. ev' = [ev EXCEPT ![Owner(p)].lines = Append(@, line)]
  BY DEF StrayLine
<1> HIDE DEF line
<1>3. LET o == Owner(p) IN
      /\ Alone(o) /\ ev'[o].lines = Append(ev[o].lines, line) /\ ev'[o].pc = ev[o].pc
      /\ ev'[o].worker = ev[o].worker /\ KeepsCall(o) /\ ev'[o].todo = ev[o].todo
  BY <1>1, <1>2, LineFields
<1> QED BY <1>1, <1>3 DEF line

(* A changed state leaves the rest of the process alone. *)
LEMMA StateFields ==
  ASSUME TypeOK, NEW p \in Pids, NEW x, proc' = [proc EXCEPT ![p].state = x]
  PROVE  /\ proc'[p].state = x /\ proc'[p].of = proc[p].of /\ proc'[p].ask = proc[p].ask
         /\ \A q \in Pids \ {p} : proc'[q] = proc[q]
<1>1. proc'[p] = [proc[p] EXCEPT !.state = x] /\ proc[p] \in Process
  BY DEF TypeOK
<1>2. \A q \in Pids \ {p} : proc'[q] = proc[q]
  BY DEF TypeOK
<1> QED BY <1>1, <1>2 DEF Process

(* A request leaves the rest of the process alone. *)
LEMMA AskFields ==
  ASSUME TypeOK, NEW p \in Pids, NEW x, proc' = [proc EXCEPT ![p].ask = x]
  PROVE  /\ proc'[p].ask = x /\ proc'[p].of = proc[p].of /\ proc'[p].state = proc[p].state
         /\ \A q \in Pids \ {p} : proc'[q] = proc[q]
<1>1. proc'[p] = [proc[p] EXCEPT !.ask = x] /\ proc[p] \in Process
  BY DEF TypeOK
<1>2. \A q \in Pids \ {p} : proc'[q] = proc[q]
  BY DEF TypeOK
<1> QED BY <1>1, <1>2 DEF Process

(* The sweep only ends processes. *)
LEMMA SweepFields ==
  ASSUME TypeOK, Sweep, NEW q \in Pids
  PROVE  /\ proc'[q].state = (IF q \in live /\ proc[q].state \in {"run", "foreign"}
                              THEN "dead" ELSE proc[q].state)
         /\ proc'[q].of = proc[q].of /\ proc'[q].ask = proc[q].ask
<1>1. proc'[q] = (IF q \in live /\ proc[q].state \in {"run", "foreign"}
                  THEN [proc[q] EXCEPT !.state = "dead"] ELSE proc[q])
  BY DEF Sweep
<1>2. proc[q] \in Process
  BY DEF TypeOK
<1> QED BY <1>1, <1>2 DEF Process

(* The cold batch: a value, an error, or every member by itself. *)
LEMMA BatchFields ==
  ASSUME TypeOK, NEW e \in Evals, Batch(e)
  PROVE  /\ Alone(e) /\ ev[e].pc = "batch"
         /\ ev'[e].worker = ev[e].worker /\ ev'[e].ms = ev[e].ms
         /\ \/ /\ ~Broken(head, ev[e].ms) /\ ev'[e].pc = "idle"
               /\ ev'[e].answer.why = "value" /\ ev'[e].answer.ms = ev[e].ms
               /\ ev'[e].answer.of = {head} /\ ev'[e].answer.errors = {}
               /\ ev'[e].answer.paths = With(ev[e].ms, {head}, "ok")
            \/ /\ Broken(head, ev[e].ms) /\ Cardinality(ev[e].ms) < 2 /\ ev'[e].pc = "idle"
               /\ ev'[e].answer.why = "eval" /\ ev'[e].answer.ms = ev[e].ms
               /\ ev'[e].answer.of = {head}
            \/ /\ Broken(head, ev[e].ms) /\ ~(Cardinality(ev[e].ms) < 2) /\ ev'[e].pc = "single"
               /\ ev'[e].todo = ev[e].ms /\ ev'[e].answer = ev[e].answer
<1>0. ev[e].pc = "batch"
  BY DEF Batch
<1>a. ev[e].ms \in SUBSET Members /\ head \in Contracts
  BY EvaluatorFields DEF Evaluator, TypeOK
<1>1. CASE ~Broken(head, ev[e].ms)
  <2> DEFINE a == [NoAnswer EXCEPT !.why = "value", !.of = {head},
                                   !.paths = With(ev[e].ms, {head}, "ok")]
             r == Returned(e, a)
  <2>1. Alone(e) /\ ev'[e] = r
    BY <1>1, SetsOne DEF Alone, Batch
  <2>2. /\ a \in Answer /\ a.why = "value" /\ a.of = {head} /\ a.errors = {}
        /\ a.paths = With(ev[e].ms, {head}, "ok")
    BY <1>a DEF NoAnswer, Answer, With
  <2> HIDE DEF a
  <2>3. /\ r.pc = "idle" /\ r.worker = ev[e].worker /\ r.ms = ev[e].ms
        /\ r.answer = [a EXCEPT !.ms = ev[e].ms]
    BY ReturnedFields
  <2> HIDE DEF r
  <2>4. /\ r.answer.why = a.why /\ r.answer.of = a.of /\ r.answer.errors = a.errors
        /\ r.answer.paths = a.paths /\ r.answer.ms = ev[e].ms
    BY <2>2, <2>3 DEF Answer
  <2> QED BY <1>0, <1>1, <2>1, <2>2, <2>3, <2>4
<1>2. CASE Broken(head, ev[e].ms) /\ Cardinality(ev[e].ms) < 2
  <2>1. Alone(e) /\ ev'[e] = Fails(e, "eval", {head})
    BY <1>2, SetsOne DEF Alone, Batch
  <2> QED BY <1>0, <1>2, <1>a, <2>1, FailsFields
<1>3. CASE Broken(head, ev[e].ms) /\ ~(Cardinality(ev[e].ms) < 2)
  <2>1. Alone(e) /\ ev'[e] = [ev[e] EXCEPT !.pc = "single", !.todo = ev[e].ms]
    BY <1>3, SetsOne DEF Alone, Batch
  <2> QED BY <1>0, <1>3, <2>1, EvaluatorFields DEF Evaluator
<1> QED BY <1>1, <1>2, <1>3

(* One member evaluated by itself. *)
LEMMA SingleFields ==
  ASSUME TypeOK, NEW e \in Evals, Single(e)
  PROVE  /\ Alone(e) /\ ev[e].pc = "single" /\ ev'[e].worker = ev[e].worker /\ ev'[e].ms = ev[e].ms
         /\ ev'[e].answer.why = ev[e].answer.why
         /\ ev'[e].answer.of = ev[e].answer.of \cup {head}
         /\ \E m \in ev[e].todo :
              /\ ev'[e].todo = ev[e].todo \ {m}
              /\ ev'[e].pc = IF ev[e].todo = {m} THEN "isolated" ELSE "single"
              /\ ev'[e].answer.errors
                   = ev[e].answer.errors \cup (IF Broken(head, {m}) THEN {m} ELSE {})
              /\ ev'[e].answer.paths
                   = ev[e].answer.paths \cup (IF head \in Sick THEN {} ELSE With({m}, {head}, "ok"))
<1>1. PICK m \in ev[e].todo : Sets(e,
         [ev[e] EXCEPT !.todo = @ \ {m},
              !.answer = [ev[e].answer EXCEPT !.of = @ \cup {head},
                          !.errors = @ \cup (IF Broken(head, {m}) THEN {m} ELSE {}),
                          !.paths = @ \cup (IF head \in Sick THEN {} ELSE With({m}, {head}, "ok"))],
              !.pc = IF ev[e].todo = {m} THEN "isolated" ELSE "single"])
  BY DEF Single
<1> DEFINE errors == IF Broken(head, {m}) THEN {m} ELSE {}
           paths == IF head \in Sick THEN {} ELSE With({m}, {head}, "ok")
           b == [ev[e].answer EXCEPT !.of = @ \cup {head}, !.errors = @ \cup errors, !.paths = @ \cup paths]
           pc == IF ev[e].todo = {m} THEN "isolated" ELSE "single"
<1>2. Alone(e) /\ ev'[e] = [ev[e] EXCEPT !.todo = @ \ {m}, !.answer = b, !.pc = pc]
  BY <1>1, SetsOne DEF Alone
<1>3. ev[e].answer \in Answer
  BY EvaluatorFields DEF Evaluator
<1> HIDE DEF errors, paths
<1>4. /\ b.why = ev[e].answer.why /\ b.of = ev[e].answer.of \cup {head}
      /\ b.errors = ev[e].answer.errors \cup errors /\ b.paths = ev[e].answer.paths \cup paths
  BY <1>3 DEF Answer
<1> HIDE DEF b, pc
<1>5. /\ ev'[e].todo = ev[e].todo \ {m} /\ ev'[e].answer = b /\ ev'[e].pc = pc
      /\ ev'[e].worker = ev[e].worker /\ ev'[e].ms = ev[e].ms
  BY <1>2, EvaluatorFields DEF Evaluator
<1>6. ev[e].pc = "single"
  BY DEF Single
<1>7. pc = (IF ev[e].todo = {m} THEN "isolated" ELSE "single")
  BY DEF pc
<1>8. errors = (IF Broken(head, {m}) THEN {m} ELSE {})
      /\ paths = (IF head \in Sick THEN {} ELSE With({m}, {head}, "ok"))
  BY DEF errors, paths
<1> QED BY <1>2, <1>4, <1>5, <1>6, <1>7, <1>8

(* The end of a call that went member by member. *)
LEMMA IsolatedFields ==
  ASSUME TypeOK, NEW e \in Evals, Isolated(e)
  PROVE  /\ Alone(e) /\ ev[e].pc = "isolated" /\ ev'[e].pc = "idle" /\ ev'[e].worker = ev[e].worker
         /\ ev'[e].answer.of = ev[e].answer.of /\ ev'[e].answer.ms = ev[e].ms
         /\ \/ /\ ev[e].answer.paths = {} /\ ev[e].answer.errors = ev[e].ms
               /\ ev'[e].answer.why = "eval"
            \/ /\ ~(ev[e].answer.paths = {} /\ ev[e].answer.errors = ev[e].ms)
               /\ ev'[e].answer.why = "value" /\ ev'[e].answer.paths = ev[e].answer.paths
               /\ ev'[e].answer.errors = ev[e].answer.errors
<1>0. ev[e].pc = "isolated"
  BY DEF Isolated
<1>a. ev[e].answer \in Answer /\ ev[e].answer.of \in SUBSET Contracts
  BY EvaluatorFields DEF Evaluator, Answer
<1>1. CASE ev[e].answer.paths = {} /\ ev[e].answer.errors = ev[e].ms
  <2>1. Alone(e) /\ ev'[e] = Fails(e, "eval", ev[e].answer.of)
    BY <1>1, SetsOne DEF Alone, Isolated
  <2> QED BY <1>0, <1>1, <1>a, <2>1, FailsFields
<1>2. CASE ~(ev[e].answer.paths = {} /\ ev[e].answer.errors = ev[e].ms)
  <2> DEFINE a == [ev[e].answer EXCEPT !.why = "value"]
             r == Returned(e, a)
  <2>1. Alone(e) /\ ev'[e] = r
    BY <1>2, SetsOne DEF Alone, Isolated
  <2>2. /\ a \in Answer /\ a.why = "value" /\ a.of = ev[e].answer.of
        /\ a.errors = ev[e].answer.errors /\ a.paths = ev[e].answer.paths
    BY <1>a DEF Answer
  <2> HIDE DEF a
  <2>3. r.pc = "idle" /\ r.worker = ev[e].worker /\ r.answer = [a EXCEPT !.ms = ev[e].ms]
    BY ReturnedFields
  <2> HIDE DEF r
  <2>4. /\ r.answer.why = a.why /\ r.answer.of = a.of /\ r.answer.errors = a.errors
        /\ r.answer.paths = a.paths /\ r.answer.ms = ev[e].ms
    BY <2>2, <2>3 DEF Answer
  <2> QED BY <1>0, <1>2, <2>1, <2>2, <2>3, <2>4
<1> QED BY <1>1, <1>2

----------------------------------------------------------------------------
(* A step of one evaluator that neither takes nor leaves a worker. *)
LEMMA OwnMove ==
  ASSUME TypeOK, OwnInv, NEW e \in Evals, Alone(e), ev'[e].worker = ev[e].worker, proc' = proc,
         e \in Cold => ev'[e].pc \in {"idle", "batch", "single", "isolated"},
         e \in Warm => ev'[e].pc \in {"idle", "call", "register", "wait", "drop", "reap"},
         ev'[e].pc \in {"register", "wait", "drop", "reap"} => ev[e].worker # NoPid
  PROVE  OwnInv'
BY EvalAssumption DEF OwnInv, Alone, Evals

(* Every step keeps workers and evaluators matched: a pid is reaped by its
   evaluator only, which then holds it no more. *)
LEMMA OwnStep == TypeOK /\ OwnInv /\ RegistryInv /\ [Next]_vars => OwnInv'
<1> SUFFICES ASSUME TypeOK, OwnInv, RegistryInv, [Next]_vars PROVE OwnInv'
  OBVIOUS
<1> USE EvalAssumption DEF OwnInv, Evals, Alone, quitting
<1>a. \A e \in Evals : ev[e].worker \in Pids \cup {NoPid}
  BY EvaluatorFields DEF Evaluator
<1>b. DOMAIN proc = Pids
  BY DEF TypeOK
<1>0. CASE UNCHANGED vars
  BY <1>0 DEF vars
<1>1. ASSUME NEW e \in Evals, NEW ms \in Requests, Call(e, ms) PROVE OwnInv'
  BY <1>1, CallFields, OwnMove DEF Call
<1>2. ASSUME NEW e \in Evals, SpawnRefused(e) PROVE OwnInv'
  BY <1>2, SpawnRefusedFields DEF SpawnRefused
<1>3. ASSUME NEW e \in Evals, SpawnWorker(e) PROVE OwnInv'
  <2>1. e \in Warm
    BY <1>3, SpawnFields
  <2>2. /\ proc'[ev'[e].worker].state = "run"
        /\ \A q \in Pids \ {ev'[e].worker} : proc'[q] = proc[q]
    BY <1>3, <1>b, SpawnFields DEF Gone
  <2>3. \A f \in Warm \ {e} : ev[f].worker # ev'[e].worker /\ ev'[f] = ev[f]
    BY <1>3, SpawnFields
  <2>4. ev'[e].pc = "register" /\ ev'[e].worker \in Pids /\ ev[e].worker = NoPid
    BY <1>3, SpawnFields
  <2>5. \A f \in Cold : ev'[f] = ev[f]
    BY <1>3, <2>1, SpawnFields
  <2> QED BY <1>a, <2>1, <2>2, <2>3, <2>4, <2>5
<1>4. ASSUME NEW e \in Evals, Register(e) PROVE OwnInv'
  <2>1. e \in Warm /\ ev[e].worker \in Pids
    BY <1>4, <1>a, RegisterFields
  <2>2. \A f \in Evals \ {e} : ev'[f] = ev[f]
    BY <1>4, RegisterFields
  <2>3. CASE proc' = proc /\ ev'[e].pc = "call" /\ ev'[e].worker = ev[e].worker
    BY <2>1, <2>2, <2>3
  <2>4. CASE /\ proc' = [proc EXCEPT ![ev[e].worker] = Gone]
             /\ ev'[e].pc = "idle" /\ ev'[e].worker = NoPid
    <3>1. proc'[ev[e].worker].state = "free" /\ \A q \in Pids \ {ev[e].worker} : proc'[q] = proc[q]
      BY <1>b, <2>1, <2>4 DEF Gone
    <3> QED BY <1>a, <2>1, <2>2, <2>4, <3>1
  <2> QED BY <1>4, <2>3, <2>4, RegisterFields
<1>5. ASSUME NEW e \in Evals, Send(e) PROVE OwnInv'
  <2>1. e \in Warm /\ ev[e].worker \in Pids /\ ev'[e].worker = ev[e].worker
        /\ ev'[e].pc \in {"wait", "drop"}
    BY <1>5, <1>a, SendFields
  <2>2. \A f \in Evals \ {e} : ev'[f] = ev[f]
    BY <1>5, SendFields
  <2>3. \A q \in Pids : proc'[q].state = proc[q].state
    <3>1. CASE proc' = proc
      BY <3>1
    <3>2. CASE proc' = [proc EXCEPT ![ev[e].worker].ask = [id |-> ev[e].id + 1, ms |-> ev[e].ms]]
      BY <2>1, <3>2, AskFields DEF TypeOK
    <3> QED BY <1>5, <3>1, <3>2, SendFields
  <2> QED BY <1>a, <2>1, <2>2, <2>3
<1>6. ASSUME NEW e \in Evals, Receive(e) PROVE OwnInv'
  <2>1. e \in Warm /\ ev[e].worker # NoPid /\ proc' = proc
    BY <1>6, ReceiveFields DEF Receive
  <2>2. Alone(e) /\ ev'[e].worker = ev[e].worker /\ ev'[e].pc \in {"idle", "drop"}
    BY <1>6, ReceiveFields
  <2> QED BY <2>1, <2>2, OwnMove
<1>7. ASSUME NEW e \in Evals, Closed(e) \/ TimesOut(e) \/ Deregister(e) PROVE OwnInv'
  <2>1. proc' = proc
    BY <1>7 DEF Closed, TimesOut, Deregister
  <2>2. Alone(e) /\ ev'[e].worker = ev[e].worker /\ ev[e].pc \in {"wait", "drop"}
        /\ ev'[e].pc \in {"drop", "reap"}
    BY <1>7, PlaceFields
  <2>3. e \in Warm /\ ev[e].worker # NoPid
    BY <2>2
  <2> QED BY <2>1, <2>2, <2>3, OwnMove
<1>8. ASSUME NEW e \in Evals, Reload(e) PROVE OwnInv'
  <2>1. ev[e].worker # NoPid /\ e \in Warm /\ proc' = proc
    BY <1>8 DEF Reload
  <2>2. Alone(e) /\ ev'[e].worker = ev[e].worker /\ ev'[e].pc = "drop"
    BY <1>8, ReloadFields
  <2> QED BY <2>1, <2>2, OwnMove
<1>9. ASSUME NEW e \in Evals, Reap(e) PROVE OwnInv'
  <2>1. e \in Warm /\ ev[e].worker \in Pids /\ ev'[e].worker = NoPid /\ ev'[e].pc \in {"idle", "call"}
    BY <1>9, <1>a, ReapFields
  <2>2. \A f \in Evals \ {e} : ev'[f] = ev[f]
    BY <1>9, ReapFields
  <2>3. proc'[ev[e].worker].state = "free" /\ \A q \in Pids \ {ev[e].worker} : proc'[q] = proc[q]
    BY <1>9, <1>b, <2>1, ReapFields DEF Gone
  <2> QED BY <1>a, <2>1, <2>2, <2>3
<1>10. ASSUME NEW p \in Pids, Evaluate(p) PROVE OwnInv'
  <2>0. Running(p) /\ Owner(p) \in Warm
    BY <1>10, EvaluateFields
  <2>1. \A e \in Evals : ev'[e].pc = ev[e].pc /\ ev'[e].worker = ev[e].worker
    BY <1>10, EvaluateFields, ZenonT(30)
  <2>2. \A q \in Pids \ {p} : proc'[q] = proc[q]
    BY <1>10, EvaluateFields
  <2>3. proc'[p].state = "run" /\ proc[p].state = "run"
    BY <1>10, <2>0, EvaluateFields DEF Running
  <2> QED BY <1>a, <2>1, <2>2, <2>3
<1>11. ASSUME NEW p \in Pids, Crash(p) PROVE OwnInv'
  <2>1. proc'[p].state = "dead" /\ \A q \in Pids \ {p} : proc'[q] = proc[q]
    BY <1>11, StateFields DEF Crash
  <2> QED BY <1>11, <1>a, <2>1 DEF Crash, Running
<1>12. ASSUME NEW p \in Pids, StrayLine(p) PROVE OwnInv'
  <2>1. \A e \in Evals : ev'[e].pc = ev[e].pc /\ ev'[e].worker = ev[e].worker
    BY <1>12, StrayFields
  <2> QED BY <1>12, <1>a, <2>1 DEF StrayLine
<1>13. ASSUME NEW p \in Pids, ForeignStarts(p) PROVE OwnInv'
  <2>1. proc'[p].state = "foreign" /\ \A q \in Pids \ {p} : proc'[q] = proc[q]
    BY <1>13, StateFields, ZenonT(30) DEF ForeignStarts
  <2> QED BY <1>13, <1>a, <2>1 DEF ForeignStarts
<1>14. ASSUME NEW p \in Pids, ForeignEnds(p) PROVE OwnInv'
  <2>1. proc'[p].state = "free" /\ \A q \in Pids \ {p} : proc'[q] = proc[q]
    BY <1>14, <1>b DEF ForeignEnds, Gone
  <2> QED BY <1>14, <1>a, <2>1 DEF ForeignEnds
<1>15. ASSUME NEW e \in Evals, Batch(e) PROVE OwnInv'
  <2>1. e \in Cold /\ proc' = proc
    BY <1>15, BatchFields DEF Batch
  <2> QED BY <1>15, <2>1, BatchFields
<1>16. ASSUME NEW e \in Evals, Single(e) PROVE OwnInv'
  <2>1. e \in Cold /\ proc' = proc
    BY <1>16, SingleFields DEF Single
  <2>2. ev'[e].pc \in {"isolated", "single"}
    BY <1>16, SingleFields
  <2> QED BY <1>16, <2>1, <2>2, SingleFields
<1>17. ASSUME NEW e \in Evals, Isolated(e) PROVE OwnInv'
  <2>1. e \in Cold /\ proc' = proc
    BY <1>17, IsolatedFields DEF Isolated
  <2> QED BY <1>17, <2>1, IsolatedFields
<1>18. CASE Latch \/ MoveHead
  BY <1>18 DEF Latch, MoveHead
<1>19. CASE Sweep
  <2>1. \A q \in Pids : proc'[q].state = (IF q \in live /\ proc[q].state \in {"run", "foreign"}
                                          THEN "dead" ELSE proc[q].state)
    BY <1>19, SweepFields
  <2>2. ev' = ev
    BY <1>19 DEF Sweep
  <2> QED BY <1>a, <2>1, <2>2
<1> QED
  BY <1>0, <1>1, <1>2, <1>3, <1>4, <1>5, <1>6, <1>7, <1>8, <1>9, <1>10, <1>11, <1>12, <1>13,
     <1>14, <1>15, <1>16, <1>17, <1>18, <1>19 DEF Next, Step, DropWorker

(* A step of one evaluator that keeps its registered worker, or has none. *)
LEMMA RegistryMove ==
  ASSUME RegistryInv, NEW e \in Evals, Alone(e), live' = live, struck' = struck,
         \/ ev'[e].worker = ev[e].worker /\ ev'[e].pc \notin {"register", "reap"}
         \/ ev[e].worker \notin live
         \/ ev[e].pc \in {"register", "reap"}
  PROVE  RegistryInv'
BY DEF RegistryInv, NoStrangerKilled, Alone, Evals

(* Every step keeps reaped pids off the registry, so the sweep finds none. *)
LEMMA RegistryStep == TypeOK /\ OwnInv /\ RegistryInv /\ [Next]_vars => RegistryInv'
<1> SUFFICES ASSUME TypeOK, OwnInv, RegistryInv, [Next]_vars PROVE RegistryInv'
  OBVIOUS
<1> USE DEF RegistryInv, NoStrangerKilled, Alone, quitting
<1>a. Warm \subseteq Evals
  BY DEF Evals
<1>b. \A e, f \in Warm : ev[e].worker = ev[f].worker /\ ev[e].worker # NoPid => e = f
  BY DEF OwnInv
<1>c. NoPid \notin live
  BY EvalAssumption DEF TypeOK
<1>0. CASE UNCHANGED vars
  BY <1>0 DEF vars
<1>1. ASSUME NEW e \in Evals, NEW ms \in Requests, Call(e, ms) PROVE RegistryInv'
  BY <1>1, CallFields, RegistryMove DEF Call
<1>2. ASSUME NEW e \in Evals, SpawnRefused(e) PROVE RegistryInv'
  BY <1>2, SpawnRefusedFields, RegistryMove DEF SpawnRefused
<1>3. ASSUME NEW e \in Evals, SpawnWorker(e) PROVE RegistryInv'
  BY <1>3, <1>c, SpawnFields, RegistryMove, ZenonT(40) DEF SpawnWorker
<1>4. ASSUME NEW e \in Evals, Register(e) PROVE RegistryInv'
  <2>1. e \in Warm /\ struck' = struck /\ ev[e].pc = "register"
    BY <1>4, EvalAssumption DEF Register, OwnInv, Evals
  <2>2. CASE /\ live' = live \cup {ev[e].worker}
             /\ ev'[e].pc = "call" /\ ev'[e].worker = ev[e].worker
    BY <1>4, <1>a, <2>1, <2>2, RegisterFields
  <2>3. CASE live' = live /\ ev'[e].worker = NoPid
    BY <1>4, <1>a, <2>1, <2>3, RegisterFields
  <2> QED BY <1>4, <2>2, <2>3, RegisterFields
<1>5. ASSUME NEW e \in Evals, Send(e) PROVE RegistryInv'
  <2>1. Alone(e) /\ ev'[e].worker = ev[e].worker /\ ev'[e].pc \in {"wait", "drop"}
    BY <1>5, SendFields
  <2> QED BY <1>5, <2>1, RegistryMove DEF Send
<1>6. ASSUME NEW e \in Evals, Receive(e) PROVE RegistryInv'
  <2>1. Alone(e) /\ ev'[e].worker = ev[e].worker /\ ev'[e].pc \in {"idle", "drop"}
    BY <1>6, ReceiveFields
  <2> QED BY <1>6, <2>1, RegistryMove DEF Receive
<1>7. ASSUME NEW e \in Evals, Closed(e) \/ TimesOut(e) \/ Deregister(e) PROVE RegistryInv'
  <2>1. struck' = struck
    BY <1>7 DEF Closed, TimesOut, Deregister
  <2>2. CASE ev'[e].pc = "drop" /\ live' = live
    BY <1>7, <1>a, <2>1, <2>2, PlaceFields
  <2>3. CASE ev[e].pc = "drop" /\ live' = live \ {ev[e].worker}
    BY <1>7, <1>a, <2>1, <2>3, PlaceFields
  <2> QED BY <1>7, <2>2, <2>3, PlaceFields
<1>8. ASSUME NEW e \in Evals, Reload(e) PROVE RegistryInv'
  BY <1>8, ReloadFields, RegistryMove DEF Reload
<1>9. ASSUME NEW e \in Evals, Reap(e) PROVE RegistryInv'
  BY <1>9, ReapFields, RegistryMove DEF Reap
<1>10. ASSUME NEW p \in Pids, Evaluate(p) PROVE RegistryInv'
  <2>1. \A e \in Warm : ev'[e].pc = ev[e].pc /\ ev'[e].worker = ev[e].worker
    BY <1>10, <1>a, EvaluateFields
  <2> QED BY <1>10, <2>1 DEF Evaluate
<1>11. ASSUME NEW p \in Pids, StrayLine(p) PROVE RegistryInv'
  <2>1. \A e \in Warm : ev'[e].pc = ev[e].pc /\ ev'[e].worker = ev[e].worker
    BY <1>11, <1>a, StrayFields
  <2> QED BY <1>11, <2>1 DEF StrayLine
<1>12. ASSUME NEW p \in Pids, Crash(p) \/ ForeignStarts(p) \/ ForeignEnds(p) PROVE RegistryInv'
  BY <1>12 DEF Crash, ForeignStarts, ForeignEnds
<1>13. ASSUME NEW e \in Evals, Batch(e) \/ Single(e) \/ Isolated(e) PROVE RegistryInv'
  <2>1. UNCHANGED <<live, struck>>
    BY <1>13 DEF Batch, Single, Isolated
  <2>2. Alone(e) /\ ev[e].pc \in {"batch", "single", "isolated"}
    BY <1>13, BatchFields, SingleFields, IsolatedFields
  <2>3. \A f \in Warm : ev'[f] = ev[f]
    BY <1>a, <2>2 DEF OwnInv
  <2> QED BY <2>1, <2>3
<1>14. CASE Latch \/ MoveHead
  BY <1>14 DEF Latch, MoveHead
<1>15. CASE Sweep
  <2>1. \A p \in live : proc[p].state # "foreign"
    BY <1>c DEF OwnInv
  <2> QED BY <1>15, <2>1 DEF Sweep
<1> QED
  BY <1>0, <1>1, <1>2, <1>3, <1>4, <1>5, <1>6, <1>7, <1>8, <1>9, <1>10, <1>11, <1>12, <1>13,
     <1>14, <1>15 DEF Next, Step, DropWorker

(* Every step keeps locked flakes at or after the last reload: a worker that
   was locked before it is gone with it. *)
LEMMA FloorStep == TypeOK /\ OwnInv /\ FloorInv /\ [Next]_vars => FloorInv'
<1> SUFFICES ASSUME TypeOK, OwnInv, FloorInv, [Next]_vars PROVE FloorInv'
  OBVIOUS
<1> USE DEF FloorInv, Alone, quitting
<1>a. Warm \subseteq Evals
  BY DEF Evals
<1>b. \A e, f \in Warm : ev[e].worker = ev[f].worker /\ ev[e].worker # NoPid => e = f
  BY DEF OwnInv
<1>c. \A e \in Evals : ev[e].worker \in Pids \cup {NoPid}
  BY EvaluatorFields DEF Evaluator
<1>d. /\ head \in Nat /\ \A e \in Evals : floor[e] \in Nat
      /\ \A p \in Pids : proc[p].of \in Nat
  BY DEF TypeOK, Contracts, Process
<1>e. DOMAIN proc = Pids /\ DOMAIN floor = Evals
  BY DEF TypeOK
<1>0. CASE UNCHANGED vars
  BY <1>0 DEF vars
<1>1. ASSUME NEW e \in Evals, NEW ms \in Requests, Call(e, ms) PROVE FloorInv'
  <2>1. \A f \in Evals : floor'[f] \in {floor[f], head} /\ (f \in Warm => floor'[f] = floor[f])
    BY <1>1, <1>e, EvalAssumption DEF Call, Evals
  <2>2. UNCHANGED <<head, proc>>
    BY <1>1 DEF Call
  <2> QED BY <1>1, <1>a, <1>d, <2>1, <2>2, CallFields
<1>2. ASSUME NEW e \in Evals, SpawnRefused(e) PROVE FloorInv'
  BY <1>2, <1>a, SpawnRefusedFields DEF SpawnRefused
<1>3. ASSUME NEW e \in Evals, SpawnWorker(e) PROVE FloorInv'
  <2>1. proc'[ev'[e].worker].of = 0 /\ \A q \in Pids \ {ev'[e].worker} : proc'[q] = proc[q]
    BY <1>3, <1>e, SpawnFields DEF Gone
  <2>2. \A f \in Warm \ {e} : ev[f].worker # ev'[e].worker
    BY <1>3, SpawnFields, EvalAssumption DEF OwnInv
  <2>3. UNCHANGED <<head, floor>>
    BY <1>3 DEF SpawnWorker
  <2> QED BY <1>3, <1>a, <1>c, <2>1, <2>2, <2>3, SpawnFields
<1>4. ASSUME NEW e \in Evals, Register(e) PROVE FloorInv'
  <2>1. e \in Warm /\ ev[e].worker # NoPid /\ UNCHANGED <<head, floor>> /\ ev[e].pc = "register"
    BY <1>4, EvalAssumption DEF Register, OwnInv, Evals
  <2>2. CASE proc' = proc /\ ev'[e].worker = ev[e].worker
    BY <1>4, <1>a, <2>1, <2>2, RegisterFields
  <2>3. CASE ev'[e].worker = NoPid /\ proc' = [proc EXCEPT ![ev[e].worker] = Gone]
    <3>1. \A q \in Pids \ {ev[e].worker} : proc'[q] = proc[q]
      BY <1>e, <2>3
    <3> QED BY <1>4, <1>a, <1>b, <1>c, <2>1, <2>3, <3>1, RegisterFields
  <2> QED BY <1>4, <2>2, <2>3, RegisterFields
<1>5. ASSUME NEW e \in Evals, Send(e) PROVE FloorInv'
  <2>1. UNCHANGED <<head, floor>> /\ Alone(e) /\ ev'[e].worker = ev[e].worker /\ ev[e].pc = "call"
        /\ ev[e].worker \in Pids
    BY <1>5, <1>c, SendFields DEF Send
  <2>2. \A q \in Pids : proc'[q].of = proc[q].of
    <3>1. CASE proc' = proc
      BY <3>1
    <3>2. CASE proc' = [proc EXCEPT ![ev[e].worker].ask = [id |-> ev[e].id + 1, ms |-> ev[e].ms]]
      BY <2>1, <3>2, AskFields
    <3> QED BY <1>5, <3>1, <3>2, SendFields
  <2> QED BY <1>a, <1>c, <2>1, <2>2
<1>6. ASSUME NEW e \in Evals, Receive(e) PROVE FloorInv'
  <2>1. UNCHANGED <<head, floor, proc>> /\ Alone(e) /\ ev'[e].worker = ev[e].worker /\ ev[e].pc = "wait"
    BY <1>6, ReceiveFields DEF Receive
  <2> QED BY <1>a, <2>1
<1>7. ASSUME NEW e \in Evals, Closed(e) \/ TimesOut(e) \/ Deregister(e) PROVE FloorInv'
  <2>1. UNCHANGED <<head, floor, proc>>
    BY <1>7 DEF Closed, TimesOut, Deregister
  <2> QED BY <1>7, <1>a, <2>1, PlaceFields
<1>8. ASSUME NEW e \in Evals, Reload(e) PROVE FloorInv'
  <2>1. floor'[e] = head /\ \A f \in Evals \ {e} : floor'[f] = floor[f]
    BY <1>8, <1>e DEF Reload
  <2>2. UNCHANGED <<head, proc>>
    BY <1>8 DEF Reload
  <2> QED BY <1>8, <1>a, <1>d, <2>1, <2>2, ReloadFields
<1>9. ASSUME NEW e \in Evals, Reap(e) PROVE FloorInv'
  <2>1. e \in Warm /\ ev[e].worker # NoPid /\ UNCHANGED <<head, floor>>
    BY <1>9, EvalAssumption DEF Reap, OwnInv, Evals
  <2>2. \A q \in Pids \ {ev[e].worker} : proc'[q] = proc[q]
    BY <1>9, <1>e, ReapFields
  <2> QED BY <1>9, <1>a, <1>b, <1>c, <2>1, <2>2, ReapFields
<1>10. ASSUME NEW p \in Pids, Evaluate(p) PROVE FloorInv'
  <2>1. \A e \in Warm : ev'[e].pc = ev[e].pc /\ ev'[e].worker = ev[e].worker
    BY <1>10, <1>a, EvaluateFields
  <2>2. UNCHANGED <<head, floor>>
    BY <1>10 DEF Evaluate
  <2>3. \A q \in Pids \ {p} : proc'[q] = proc[q]
    BY <1>10, EvaluateFields
  <2>4. proc'[p].of \in {0, head, proc[p].of}
    BY <1>10, EvaluateFields DEF EnsureLocked
  <2> QED BY <1>a, <1>c, <1>d, <2>1, <2>2, <2>3, <2>4
<1>11. ASSUME NEW p \in Pids, StrayLine(p) PROVE FloorInv'
  <2>1. \A e \in Warm : ev'[e].pc = ev[e].pc /\ ev'[e].worker = ev[e].worker
    BY <1>11, <1>a, StrayFields
  <2> QED BY <1>11, <2>1 DEF StrayLine
<1>12. ASSUME NEW p \in Pids, Crash(p) PROVE FloorInv'
  <2>1. \A q \in Pids : proc'[q].of = proc[q].of
    BY <1>12, StateFields DEF Crash
  <2> QED BY <1>12, <1>a, <1>c, <2>1 DEF Crash
<1>13. ASSUME NEW p \in Pids, ForeignStarts(p) \/ ForeignEnds(p) PROVE FloorInv'
  <2>1. proc[p].state \in {"free", "foreign"} /\ \A q \in Pids \ {p} : proc'[q] = proc[q]
    BY <1>13, <1>e DEF ForeignStarts, ForeignEnds
  <2>2. \A e \in Warm : ev[e].worker # p
    BY <2>1, EvalAssumption DEF OwnInv
  <2>3. UNCHANGED <<head, floor, ev>>
    BY <1>13 DEF ForeignStarts, ForeignEnds
  <2> QED BY <1>a, <1>c, <2>1, <2>2, <2>3
<1>14. ASSUME NEW e \in Evals, Batch(e) \/ Single(e) \/ Isolated(e) PROVE FloorInv'
  <2>1. UNCHANGED <<head, floor, proc>>
    BY <1>14 DEF Batch, Single, Isolated
  <2>2. Alone(e) /\ ev[e].pc \in {"batch", "single", "isolated"}
    BY <1>14, BatchFields, SingleFields, IsolatedFields
  <2>3. \A f \in Warm : ev'[f] = ev[f]
    BY <1>a, <2>2 DEF OwnInv
  <2> QED BY <2>1, <2>3
<1>15. CASE Latch
  BY <1>15 DEF Latch
<1>16. CASE MoveHead
  BY <1>16, <1>d DEF MoveHead
<1>17. CASE Sweep
  <2>1. \A q \in Pids : proc'[q].of = proc[q].of
    BY <1>17, SweepFields
  <2> QED BY <1>17, <1>a, <1>c, <2>1 DEF Sweep
<1> QED
  BY <1>0, <1>1, <1>2, <1>3, <1>4, <1>5, <1>6, <1>7, <1>8, <1>9, <1>10, <1>11, <1>12, <1>13,
     <1>14, <1>15, <1>16, <1>17 DEF Next, Step, DropWorker

(* A stream nobody touched. *)
LEMMA StreamFrame ==
  ASSUME NEW e \in Warm, StreamOK(e), floor'[e] = floor[e],
         ev'[e] = ev[e],
         ev[e].worker # NoPid => proc'[ev[e].worker].ask = proc[ev[e].worker].ask
  PROVE  StreamOK(e)'
<1>1. LinesOK(e)'
  BY DEF StreamOK, LinesOK
<1>2. AskOK(e)'
  BY DEF StreamOK, AskOK
<1> QED BY <1>1, <1>2 DEF StreamOK

(* A stream whose evaluator does not wait for a reply. *)
LEMMA StreamQuiet ==
  ASSUME TypeOK, NEW e \in Warm, StreamOK(e), ev'[e].pc # "wait", ev'[e].id = ev[e].id,
         ev'[e].lines \in {ev[e].lines, <<>>},
         \/ ev'[e].worker = NoPid
         \/ ev'[e].worker = ev[e].worker /\ proc'[ev[e].worker].ask = proc[ev[e].worker].ask
  PROVE  StreamOK(e)'
<1>1. LinesOK(e)'
  BY DEF StreamOK, LinesOK
<1>2. AskOK(e)'
  BY DEF StreamOK, AskOK
<1> QED BY <1>1, <1>2 DEF StreamOK

(* A line appended to a stream: it is older than the request out, or its answer. *)
LEMMA StreamGrows ==
  ASSUME TypeOK, NEW o \in Warm, StreamOK(o), NEW line \in Line, floor'[o] = floor[o],
         ev'[o].lines = Append(ev[o].lines, line), ev'[o].pc = ev[o].pc, KeepsCall(o),
         line.id <= ev[o].id,
         ev[o].pc = "wait" /\ line.id = ev[o].id => Good(ev[o].ms, floor[o], line.answer)
  PROVE  LinesOK(o)'
<1>1. ev[o].lines \in Seq(Line)
  BY EvaluatorFields DEF Evaluator, Evals
<1>2. ASSUME NEW i \in 1..Len(ev'[o].lines)
      PROVE  /\ ev'[o].lines[i].id <= ev[o].id
             /\ ev[o].pc = "wait" /\ ev'[o].lines[i].id = ev[o].id
                  => Good(ev[o].ms, floor[o], ev'[o].lines[i].answer)
  <2>1. CASE i \in 1..Len(ev[o].lines)
    <3>1. ev'[o].lines[i] = ev[o].lines[i]
      BY <1>1, <2>1
    <3> QED BY <2>1, <3>1 DEF StreamOK, LinesOK
  <2>2. CASE i = Len(ev[o].lines) + 1
    <3>1. ev'[o].lines[i] = line
      BY <1>1, <2>2
    <3> QED BY <3>1
  <2> QED BY <1>1, <1>2, <2>1, <2>2
<1> QED BY <1>2 DEF LinesOK, KeepsCall

(* Every step keeps the streams in order: through retries and stray lines a
   line with the id of the request out is the answer to it. *)
LEMMA StreamStep ==
  TypeOK /\ OwnInv /\ FloorInv /\ StreamInv /\ [Next]_vars => StreamInv'
<1> SUFFICES ASSUME TypeOK, OwnInv, FloorInv, StreamInv, [Next]_vars, NEW w \in Warm
             PROVE  StreamOK(w)'
  BY DEF StreamInv
<1> USE DEF quitting
<1>a. Warm \subseteq Evals /\ w \in Evals /\ StreamOK(w)
  BY DEF Evals, StreamInv
<1>b. \A e, f \in Warm : ev[e].worker = ev[f].worker /\ ev[e].worker # NoPid => e = f
  BY DEF OwnInv
<1>c. \A e \in Evals : ev[e].worker \in Pids \cup {NoPid} /\ ev[e].id \in Nat
  BY EvaluatorFields DEF Evaluator
<1>e. DOMAIN proc = Pids /\ DOMAIN floor = Evals
  BY DEF TypeOK
<1>0. CASE UNCHANGED vars
  BY <1>0, <1>a, StreamFrame DEF vars
<1>1. ASSUME NEW e \in Evals, NEW ms \in Requests, Call(e, ms) PROVE StreamOK(w)'
  <2>1. proc' = proc /\ floor'[w] = floor[w]
    BY <1>1, <1>a, <1>e, EvalAssumption DEF Call
  <2>2. CASE w = e
    BY <1>1, <1>a, <2>1, <2>2, CallFields, StreamQuiet
  <2>3. CASE w # e
    BY <1>1, <1>a, <2>1, <2>3, CallFields, StreamFrame DEF Alone
  <2> QED BY <2>2, <2>3
<1>2. ASSUME NEW e \in Evals, SpawnRefused(e) PROVE StreamOK(w)'
  <2>1. proc' = proc /\ floor' = floor
    BY <1>2 DEF SpawnRefused
  <2>2. CASE w = e
    BY <1>2, <1>a, <2>1, <2>2, SpawnRefusedFields, StreamQuiet
  <2>3. CASE w # e
    BY <1>2, <1>a, <2>1, <2>3, SpawnRefusedFields, StreamFrame DEF Alone
  <2> QED BY <2>2, <2>3
<1>3. ASSUME NEW e \in Evals, SpawnWorker(e) PROVE StreamOK(w)'
  <2>1. proc'[ev'[e].worker].ask.id = 0 /\ \A q \in Pids \ {ev'[e].worker} : proc'[q] = proc[q]
    BY <1>3, <1>e, SpawnFields DEF Gone
  <2>2. floor' = floor
    BY <1>3 DEF SpawnWorker
  <2>3. CASE w = e
    <3>1. ev'[w].pc = "register" /\ ev'[w].lines = ev[w].lines /\ ev'[w].id = ev[w].id
      BY <1>3, <2>3, SpawnFields DEF KeepsCall
    <3>2. LinesOK(w)'
      BY <1>a, <3>1 DEF StreamOK, LinesOK
    <3>3. AskOK(w)'
      BY <1>a, <1>c, <2>1, <2>3, <3>1 DEF AskOK
    <3> QED BY <3>1, <3>2, <3>3 DEF StreamOK
  <2>4. CASE w # e
    <3>1. ev[w].worker # ev'[e].worker
      BY <1>3, SpawnFields, EvalAssumption DEF OwnInv
    <3> QED BY <1>3, <1>a, <1>c, <2>1, <2>2, <2>4, <3>1, SpawnFields, StreamFrame DEF Alone
  <2> QED BY <2>3, <2>4
<1>4. ASSUME NEW e \in Evals, Register(e) PROVE StreamOK(w)'
  <2>1. e \in Warm /\ ev[e].worker # NoPid /\ floor' = floor
    BY <1>4, EvalAssumption DEF Register, OwnInv, Evals
  <2>2. CASE w = e
    <3>1. ev'[e].lines = ev[e].lines /\ ev'[e].id = ev[e].id /\ ev'[e].pc # "wait"
      BY <1>4, RegisterFields
    <3>2. \/ ev'[e].worker = NoPid
          \/ ev'[e].worker = ev[e].worker /\ proc' = proc
      BY <1>4, RegisterFields
    <3> QED BY <1>a, <2>2, <3>1, <3>2, StreamQuiet
  <2>3. CASE w # e
    <3>1. \A q \in Pids \ {ev[e].worker} : proc'[q] = proc[q]
      BY <1>4, <1>e, RegisterFields
    <3>2. ev'[w] = ev[w]
      BY <1>4, <1>a, <2>3, RegisterFields DEF Alone
    <3> QED BY <1>a, <1>b, <1>c, <2>1, <2>3, <3>1, <3>2, StreamFrame
  <2> QED BY <2>2, <2>3
<1>5. ASSUME NEW e \in Evals, Send(e) PROVE StreamOK(w)'
  <2>1. e \in Warm /\ ev[e].worker \in Pids /\ floor' = floor /\ ev[e].pc = "call"
    BY <1>5, <1>c, EvalAssumption DEF Send, OwnInv, Evals
  <2>2. /\ ev'[e].id = ev[e].id + 1 /\ ev'[e].lines = ev[e].lines /\ ev'[e].ms = ev[e].ms
        /\ ev'[e].worker = ev[e].worker
    BY <1>5, SendFields
  <2>3. \/ ev'[e].pc = "wait" /\ proc'[ev[e].worker].ask = [id |-> ev[e].id + 1, ms |-> ev[e].ms]
        \/ ev'[e].pc = "drop" /\ proc'[ev[e].worker].ask = proc[ev[e].worker].ask
    <3>1. CASE ev'[e].pc = "drop" /\ proc' = proc
      BY <3>1
    <3>2. CASE /\ ev'[e].pc = "wait"
               /\ proc' = [proc EXCEPT ![ev[e].worker].ask = [id |-> ev[e].id + 1, ms |-> ev[e].ms]]
      BY <2>1, <3>2, AskFields
    <3> QED BY <1>5, <3>1, <3>2, SendFields
  <2>4. \A q \in Pids \ {ev[e].worker} : proc'[q] = proc[q]
    BY <1>5, <1>e, <2>1, SendFields
  <2>5. CASE w = e
    <3>1. ev[e].lines \in Seq(Line)
      BY EvaluatorFields DEF Evaluator
    <3>2. ASSUME NEW i \in 1..Len(ev[e].lines) PROVE ev[e].lines[i].id \in Nat
      <4>1. ev[e].lines[i] \in Line
        BY <3>1
      <4> QED BY <4>1 DEF Line
    <3>3. LinesOK(e)'
      BY <1>a, <1>c, <2>2, <2>5, <3>2 DEF StreamOK, LinesOK
    <3>4. proc[ev[e].worker].ask.id \in Nat /\ proc[ev[e].worker].ask.id <= ev[e].id
      BY <1>a, <2>1, <2>5, EvalAssumption DEF TypeOK, Process, StreamOK, AskOK
    <3>5. AskOK(e)'
      BY <1>c, <2>2, <2>3, <3>4 DEF AskOK
    <3> QED BY <1>c, <2>2, <2>5, <3>3, <3>5 DEF StreamOK
  <2>6. CASE w # e
    <3>1. ev'[w] = ev[w]
      BY <1>5, <1>a, <2>6, SendFields DEF Alone
    <3>2. ev[w].worker # NoPid => ev[w].worker \in Pids \ {ev[e].worker}
      BY <1>a, <1>b, <1>c, <2>1, <2>6
    <3> QED BY <1>a, <2>1, <2>4, <3>1, <3>2, StreamFrame
  <2> QED BY <2>5, <2>6
<1>6. ASSUME NEW e \in Evals, Receive(e) PROVE StreamOK(w)'
  <2>1. proc' = proc /\ floor' = floor
    BY <1>6 DEF Receive
  <2>2. CASE w = e
    <3>1. /\ ev'[e].worker = ev[e].worker /\ ev'[e].id = ev[e].id /\ ev'[e].pc # "wait"
          /\ ev[e].lines # <<>> /\ ev'[e].lines = Tail(ev[e].lines)
      BY <1>6, ReceiveFields
    <3>2. ev[e].lines \in Seq(Line)
      BY EvaluatorFields DEF Evaluator
    <3>3. \A i \in 1..Len(ev'[e].lines) :
             i + 1 \in 1..Len(ev[e].lines) /\ ev'[e].lines[i] = ev[e].lines[i + 1]
      BY <3>1, <3>2
    <3>4. LinesOK(e)'
      BY <1>a, <2>2, <3>1, <3>3 DEF StreamOK, LinesOK
    <3>5. AskOK(e)'
      BY <1>a, <2>1, <2>2, <3>1 DEF StreamOK, AskOK
    <3> QED BY <2>2, <3>1, <3>4, <3>5 DEF StreamOK
  <2>3. CASE w # e
    BY <1>6, <1>a, <2>1, <2>3, ReceiveFields, StreamFrame, ZenonT(30) DEF Alone
  <2> QED BY <2>2, <2>3
<1>7. ASSUME NEW e \in Evals, Closed(e) \/ TimesOut(e) \/ Deregister(e) PROVE StreamOK(w)'
  <2>1. proc' = proc /\ floor' = floor
    BY <1>7 DEF Closed, TimesOut, Deregister
  <2>2. CASE w = e
    BY <1>7, <1>a, <2>1, <2>2, PlaceFields, StreamQuiet DEF KeepsCall
  <2>3. CASE w # e
    BY <1>7, <1>a, <2>1, <2>3, PlaceFields, StreamFrame DEF Alone
  <2> QED BY <2>2, <2>3
<1>8. ASSUME NEW e \in Evals, Reload(e) PROVE StreamOK(w)'
  <2>1. proc' = proc /\ (w # e => floor'[w] = floor[w])
    BY <1>8, <1>a, <1>e DEF Reload
  <2>2. CASE w = e
    BY <1>8, <1>a, <2>1, <2>2, ReloadFields, StreamQuiet
  <2>3. CASE w # e
    BY <1>8, <1>a, <2>1, <2>3, ReloadFields, StreamFrame DEF Alone
  <2> QED BY <2>2, <2>3
<1>9. ASSUME NEW e \in Evals, Reap(e) PROVE StreamOK(w)'
  <2>1. e \in Warm /\ ev[e].worker # NoPid /\ floor' = floor
    BY <1>9, EvalAssumption DEF Reap, OwnInv, Evals
  <2>2. \A q \in Pids \ {ev[e].worker} : proc'[q] = proc[q]
    BY <1>9, <1>e, ReapFields
  <2>3. CASE w = e
    BY <1>9, <1>a, <2>3, ReapFields, StreamQuiet
  <2>4. CASE w # e
    <3>1. ev'[w] = ev[w]
      BY <1>9, <1>a, <2>4, ReapFields DEF Alone
    <3> QED BY <1>a, <1>b, <1>c, <2>1, <2>2, <2>4, <3>1, StreamFrame
  <2> QED BY <2>3, <2>4
<1>10. ASSUME NEW p \in Pids, Evaluate(p) PROVE StreamOK(w)'
  <2> DEFINE o == Owner(p)
             c == EnsureLocked(p)
             ask == proc[p].ask
             line == [id |-> ask.id, answer |-> ExpectedToplevels(c, ask.ms)]
  <2>1. /\ c \in Contracts /\ o \in Warm /\ ev[o].worker = p /\ Alone(o) /\ ev'[o].pc = ev[o].pc
        /\ ev'[o].worker = p /\ KeepsCall(o) /\ ev'[o].lines = Append(ev[o].lines, line)
        /\ proc'[p].ask = Gone.ask /\ \A q \in Pids \ {p} : proc'[q] = proc[q]
    BY <1>10, EvaluateFields
  <2>2. floor' = floor
    BY <1>10 DEF Evaluate
  <2> HIDE DEF o
  <2>3. CASE w = o
    <3>1. ask \in [id : Nat, ms : SUBSET Members] /\ proc[p].of \in Contracts \cup {0}
      BY DEF TypeOK, Process
    <3>2. line \in Line
      BY <2>1, <3>1, ExpectedType DEF Line
    <3>3. p # NoPid
      BY EvalAssumption
    <3>4. ask.id <= ev[w].id /\ (ev[w].pc = "wait" /\ ask.id = ev[w].id => ask.ms = ev[w].ms)
      BY <1>a, <2>1, <2>3, <3>3 DEF StreamOK, AskOK
    <3>5. ev[w].pc = "wait" => c >= floor[w]
      <4>1. ev[w].pc = "wait" => proc[p].of = 0 \/ proc[p].of >= floor[w]
        BY <2>1, <2>3, <3>3 DEF FloorInv
      <4>2. head >= floor[w]
        BY <1>a DEF FloorInv, TypeOK, Contracts
      <4> QED BY <4>1, <4>2 DEF EnsureLocked
    <3>6. ev[w].pc = "wait" /\ ask.id = ev[w].id => Good(ev[w].ms, floor[w], ExpectedToplevels(c, ask.ms))
      BY <2>1, <3>4, <3>5 DEF Good
    <3> HIDE DEF c, ask
    <3>7. line.id = ask.id /\ line.answer = ExpectedToplevels(c, ask.ms)
      OBVIOUS
    <3> HIDE DEF line
    <3>8. LinesOK(w)'
      BY <1>a, <2>1, <2>2, <2>3, <3>2, <3>4, <3>6, <3>7, StreamGrows
    <3>9. AskOK(w)'
      <4>1. ev'[w].worker = p /\ proc'[p].ask.id = 0 /\ ev'[w].id = ev[w].id /\ ev'[w].pc = ev[w].pc
        BY <2>1, <2>3 DEF Gone, KeepsCall
      <4>2. ev[w].pc = "wait" => ev[w].id > 0
        BY <1>a DEF StreamOK
      <4> QED BY <1>a, <1>c, <4>1, <4>2 DEF AskOK
    <3> QED BY <1>a, <2>1, <2>3, <3>8, <3>9 DEF StreamOK, KeepsCall
  <2>4. CASE w # o
    <3>1. ev'[w] = ev[w] /\ ev[w].worker # p
      BY <1>a, <1>b, <2>1, <2>4, EvalAssumption DEF Alone
    <3> QED BY <1>a, <1>c, <2>1, <2>2, <3>1, StreamFrame
  <2> QED BY <2>3, <2>4
<1>11. ASSUME NEW p \in Pids, StrayLine(p) PROVE StreamOK(w)'
  <2> DEFINE o == Owner(p)
             line == [id |-> 0, answer |-> [NoAnswer EXCEPT !.why = "eval"]]
  <2>1. /\ o \in Warm /\ Alone(o) /\ ev'[o].pc = ev[o].pc
        /\ ev'[o].worker = ev[o].worker /\ KeepsCall(o) /\ ev'[o].lines = Append(ev[o].lines, line)
    BY <1>11, StrayFields
  <2>2. floor' = floor /\ proc' = proc
    BY <1>11 DEF StrayLine
  <2>3. line \in Line /\ line.id = 0
    BY DEF NoAnswer, Line, Answer
  <2> HIDE DEF o, line
  <2>4. CASE w = o
    <3>1. ev[w].pc = "wait" => ev[w].id > 0
      BY <1>a DEF StreamOK
    <3>2. LinesOK(w)'
      BY <1>a, <1>c, <2>1, <2>2, <2>3, <2>4, <3>1, StreamGrows
    <3>3. AskOK(w)'
      BY <1>a, <2>1, <2>2, <2>4 DEF StreamOK, AskOK, KeepsCall
    <3> QED BY <2>1, <2>4, <3>1, <3>2, <3>3 DEF StreamOK, KeepsCall
  <2>5. CASE w # o
    BY <1>a, <2>1, <2>2, <2>5, StreamFrame DEF Alone
  <2> QED BY <2>4, <2>5
<1>12. ASSUME NEW p \in Pids, Crash(p) PROVE StreamOK(w)'
  <2>1. \A q \in Pids : proc'[q].ask = proc[q].ask
    BY <1>12, StateFields DEF Crash
  <2> QED BY <1>12, <1>a, <1>c, <2>1, StreamFrame DEF Crash
<1>13. ASSUME NEW p \in Pids, ForeignStarts(p) \/ ForeignEnds(p) PROVE StreamOK(w)'
  <2>1. proc[p].state \in {"free", "foreign"} /\ \A q \in Pids \ {p} : proc'[q] = proc[q]
    BY <1>13, <1>e DEF ForeignStarts, ForeignEnds
  <2>2. ev[w].worker # p
    BY <2>1, EvalAssumption DEF OwnInv
  <2>3. UNCHANGED <<floor, ev>>
    BY <1>13 DEF ForeignStarts, ForeignEnds
  <2> QED BY <1>a, <1>c, <2>1, <2>2, <2>3, StreamFrame
<1>14. ASSUME NEW e \in Evals, Batch(e) \/ Single(e) \/ Isolated(e) PROVE StreamOK(w)'
  <2>1. UNCHANGED <<floor, proc>>
    BY <1>14 DEF Batch, Single, Isolated
  <2>2. Alone(e) /\ ev[e].pc \in {"batch", "single", "isolated"}
    BY <1>14, BatchFields, SingleFields, IsolatedFields
  <2>3. ev'[w] = ev[w]
    BY <1>a, <2>2 DEF OwnInv, Alone
  <2> QED BY <1>a, <2>1, <2>3, StreamFrame
<1>15. CASE Latch \/ MoveHead
  BY <1>15, <1>a, StreamFrame DEF Latch, MoveHead
<1>16. CASE Sweep
  <2>1. \A q \in Pids : proc'[q].ask = proc[q].ask
    BY <1>16, SweepFields
  <2> QED BY <1>16, <1>a, <1>c, <2>1, StreamFrame DEF Sweep
<1> QED
  BY <1>0, <1>1, <1>2, <1>3, <1>4, <1>5, <1>6, <1>7, <1>8, <1>9, <1>10, <1>11, <1>12, <1>13,
     <1>14, <1>15, <1>16 DEF Next, Step, DropWorker

----------------------------------------------------------------------------
(* The worker's answer is true to the contract it was evaluated at. *)
LEMMA ExpectedTruthful ==
  ASSUME NEW ms \in SUBSET Members, NEW fl \in Nat, NEW a, Good(ms, fl, a)
  PROVE  Truthful([a EXCEPT !.ms = ms], fl)
<1>1. PICK c \in Contracts : c >= fl /\ a = ExpectedToplevels(c, ms)
  BY DEF Good
<1> DEFINE b == [a EXCEPT !.ms = ms]
<1>2. CASE c \in Sick
  <2>1. a = [NoAnswer EXCEPT !.why = "eval", !.of = {c}]
    BY <1>1, <1>2 DEF ExpectedToplevels
  <2>2. b.why = "eval" /\ b.of = {c}
    BY <2>1 DEF NoAnswer
  <2> HIDE DEF b
  <2>3. Truthful(b, fl)
    BY <1>1, <1>2, <2>2 DEF Truthful
  <2> QED BY <2>3 DEF b
<1>3. CASE c \notin Sick
  <2>1. a = [NoAnswer EXCEPT !.why = "value", !.of = {c}, !.paths = With(ms, {c}, "ok"),
                        !.errors = With(ms, {c}, "broken")]
    BY <1>1, <1>3 DEF ExpectedToplevels
  <2>2. /\ b.why = "value" /\ b.of = {c} /\ b.ms = ms
        /\ b.paths = With(ms, {c}, "ok") /\ b.errors = With(ms, {c}, "broken")
    BY <2>1 DEF NoAnswer
  <2>3. With(ms, {c}, "ok") \cap With(ms, {c}, "broken") = {}
    BY DEF With
  <2> HIDE DEF b
  <2>4. Truthful(b, fl)
    BY <1>1, <1>3, <2>2, <2>3 DEF Truthful
  <2> QED BY <2>4 DEF b
<1> QED BY <1>2, <1>3

(* A single broken member leaves nothing healthy to answer with. *)
LEMMA LoneBroken ==
  ASSUME NEW ms \in SUBSET Members, NEW c, Cardinality(ms) < 2, With(ms, {c}, "broken") # {}
  PROVE  With(ms, {c}, "ok") = {}
<1>1. PICK m \in ms : Fleet[c][m] = "broken"
  BY DEF With
<1>2. IsFiniteSet(ms) /\ Cardinality(ms) \in Nat
  BY EvalAssumption, FS_Subset, FS_CardinalityType
<1>3. IsFiniteSet(ms \ {m}) /\ Cardinality(ms \ {m}) = Cardinality(ms) - 1
  BY <1>1, <1>2, FS_RemoveElement
<1>4. Cardinality(ms \ {m}) = 0
  BY <1>2, <1>3, FS_CardinalityType
<1>5. ms = {m}
  BY <1>1, <1>3, <1>4, FS_EmptySet
<1> QED BY <1>1, <1>5 DEF With

(* One more member evaluated keeps the partial answer true. *)
LEMMA PartialGrows ==
  ASSUME NEW ms, NEW todo, NEW a, NEW b, NEW fl \in Nat, NEW h \in Contracts, NEW m \in todo,
         Partial(ms, todo, a, fl), h >= fl,
         b.of = a.of \cup {h},
         b.errors = a.errors \cup (IF Broken(h, {m}) THEN {m} ELSE {}),
         b.paths = a.paths \cup (IF h \in Sick THEN {} ELSE With({m}, {h}, "ok"))
  PROVE  Partial(ms, todo \ {m}, b, fl)
<1> DEFINE done == ms \ todo
           more == ms \ (todo \ {m})
<1>1. m \in ms /\ m \notin done /\ more = done \cup {m}
  BY DEF Partial
<1>2. With({m}, {h}, "ok") \subseteq {m} /\ (h \notin Sick /\ Broken(h, {m}) => With({m}, {h}, "ok") = {})
  BY DEF With, Broken
<1>3. b.paths \cup b.errors \subseteq more
  BY <1>1, <1>2 DEF Partial
<1>4. b.paths \cap b.errors = {}
  <2>1. a.paths \subseteq done /\ a.errors \subseteq done /\ a.paths \cap a.errors = {}
    BY DEF Partial
  <2> QED BY <1>1, <1>2, <2>1
<1>5. ASSUME NEW c \in b.of, b.of = {c}
      PROVE  /\ b.errors = {x \in more : Broken(c, {x})}
             /\ b.paths = IF c \in Sick THEN {} ELSE With(more, {c}, "ok")
  <2>1. c = h /\ (a.of = {} \/ a.of = {h})
    BY <1>5
  <2>2. a.errors = {x \in done : Broken(h, {x})}
        /\ a.paths = IF h \in Sick THEN {} ELSE With(done, {h}, "ok")
    <3>1. CASE a.of = {h}
      BY <3>1 DEF Partial
    <3>2. CASE a.of = {}
      <4>1. done = {} /\ a.errors = {} /\ a.paths = {}
        BY <3>2 DEF Partial
      <4> QED BY <4>1 DEF With
    <3> QED BY <2>1, <3>1, <3>2
  <2>3. b.errors = {x \in more : Broken(h, {x})}
    BY <1>1, <2>2
  <2>4. With(more, {h}, "ok") = With(done, {h}, "ok") \cup With({m}, {h}, "ok")
    BY <1>1 DEF With
  <2>5. b.paths = IF h \in Sick THEN {} ELSE With(more, {h}, "ok")
    BY <2>2, <2>4
  <2> QED BY <2>1, <2>3, <2>5
<1>6. \A c \in b.of : c >= fl
  BY DEF Partial
<1>7. ms # {} /\ todo \ {m} \subseteq ms /\ b.of # {}
  BY DEF Partial
<1> QED BY <1>3, <1>4, <1>5, <1>6, <1>7 DEF Partial

(* The end of a call member by member: the value, or the batch's error. *)
LEMMA PartialEnds ==
  ASSUME NEW ms \in SUBSET Members, NEW a, NEW b, NEW fl \in Nat, Partial(ms, {}, a, fl),
         b.of = a.of, b.ms = ms,
         \/ a.paths = {} /\ a.errors = ms /\ b.why = "eval"
         \/ ~(a.paths = {} /\ a.errors = ms) /\ b.why = "value" /\ b.paths = a.paths /\ b.errors = a.errors
  PROVE  Truthful(b, fl)
<1>1. b.of # {} /\ (\A c \in b.of : c >= fl) /\ a.paths \cap a.errors = {}
  BY DEF Partial
<1>2. ASSUME NEW c \in b.of, b.of = {c}
      PROVE  \/ b.why = "value" /\ c \notin Sick
                /\ b.paths = With(ms, {c}, "ok") /\ b.errors = With(ms, {c}, "broken")
             \/ b.why = "eval" /\ (c \in Sick \/ With(ms, {c}, "ok") = {})
  <2>1. /\ a.errors = {m \in ms : Broken(c, {m})}
        /\ a.paths = IF c \in Sick THEN {} ELSE With(ms, {c}, "ok")
    BY <1>2 DEF Partial
  <2>2. c \in Sick => a.errors = ms /\ a.paths = {}
    BY <2>1 DEF Broken
  <2>3. c \notin Sick => {m \in ms : Broken(c, {m})} = With(ms, {c}, "broken")
    BY DEF Broken, With
  <2> QED BY <2>1, <2>2, <2>3
<1> QED BY <1>1, <1>2 DEF Truthful

(* The answer of an evaluator nobody touched. *)
LEMMA CallFrame ==
  ASSUME NEW e \in Evals, CallOK(e), ev'[e] = ev[e], floor'[e] = floor[e]
  PROVE  CallOK(e)'
BY DEF CallOK

(* An evaluator whose call goes on, or that has nothing to answer. *)
LEMMA CallSilent ==
  ASSUME NEW e \in Evals,
         \/ ev'[e].answer.why = "none"
         \/ ev'[e].answer.why = "transport" /\ ev'[e].pc = "idle",
         ev'[e].pc \notin {"single", "isolated"},
         ev'[e].pc = "batch" => ev'[e].answer = NoAnswer
  PROVE  CallOK(e)'
BY DEF CallOK, Truthful

(* Every step keeps the answers true. *)
LEMMA CallStep ==
  TypeOK /\ OwnInv /\ FloorInv /\ StreamInv /\ CallInv /\ [Next]_vars => CallInv'
<1> SUFFICES ASSUME TypeOK, OwnInv, FloorInv, StreamInv, CallInv, [Next]_vars, NEW w \in Evals
             PROVE  CallOK(w)'
  BY DEF CallInv
<1> USE DEF quitting
<1>a. CallOK(w) /\ (ev[w].pc # "idle" => ev[w].answer.why = "none")
  BY DEF CallInv, CallOK
<1>b. DOMAIN floor = Evals /\ floor[w] \in Nat /\ ev[w].ms \in SUBSET Members /\ head \in Contracts
  BY EvaluatorFields DEF TypeOK, Evaluator
<1>c. head >= floor[w] /\ head \in Nat
  BY DEF FloorInv, TypeOK, Contracts
<1>n. NoAnswer.why = "none"
  BY DEF NoAnswer
<1>0. CASE UNCHANGED vars
  BY <1>0, <1>a, CallFrame DEF vars
<1>1. ASSUME NEW e \in Evals, NEW ms \in Requests, Call(e, ms) PROVE CallOK(w)'
  <2>1. CASE w = e
    <3>1. ev'[e].answer = NoAnswer /\ ev'[e].pc \in {"call", "batch"}
      BY <1>1, CallFields
    <3> QED BY <1>n, <2>1, <3>1, CallSilent
  <2>2. CASE w # e
    <3>1. floor'[w] = floor[w] /\ ev'[w] = ev[w]
      BY <1>1, <1>b, <2>2, CallFields, ZenonT(30) DEF Call, Alone
    <3> QED BY <1>a, <3>1, CallFrame
  <2> QED BY <2>1, <2>2
<1>2. ASSUME NEW e \in Evals, SpawnRefused(e) PROVE CallOK(w)'
  <2>1. CASE w = e
    BY <1>2, <2>1, SpawnRefusedFields, CallSilent
  <2>2. CASE w # e
    BY <1>2, <1>a, <2>2, SpawnRefusedFields, CallFrame DEF SpawnRefused, Alone
  <2> QED BY <2>1, <2>2
<1>3. ASSUME NEW e \in Evals, SpawnWorker(e) PROVE CallOK(w)'
  <2>1. CASE w = e
    BY <1>3, <1>a, <2>1, SpawnFields, CallSilent DEF KeepsCall
  <2>2. CASE w # e
    BY <1>3, <1>a, <2>2, SpawnFields, CallFrame, ZenonT(30) DEF SpawnWorker, Alone
  <2> QED BY <2>1, <2>2
<1>4. ASSUME NEW e \in Evals, Register(e) PROVE CallOK(w)'
  <2>1. CASE w = e
    <3>1. \/ ev'[w].pc = "call" /\ ev'[w].answer.why = "none"
          \/ ev'[w].pc = "idle" /\ ev'[w].answer.why = "transport"
      BY <1>4, <1>a, <2>1, RegisterFields DEF KeepsCall
    <3> QED BY <3>1, CallSilent
  <2>2. CASE w # e
    <3>1. floor' = floor /\ ev'[w] = ev[w]
      BY <1>4, <2>2, RegisterFields DEF Register, Alone
    <3> QED BY <1>a, <3>1, CallFrame
  <2> QED BY <2>1, <2>2
<1>5. ASSUME NEW e \in Evals, Send(e) PROVE CallOK(w)'
  <2>1. CASE w = e
    <3>1. ev'[w].pc \in {"wait", "drop"} /\ ev'[w].answer.why = "none"
      BY <1>5, <1>a, <2>1, SendFields
    <3> QED BY <3>1, CallSilent
  <2>2. CASE w # e
    <3>1. floor' = floor /\ ev'[w] = ev[w]
      BY <1>5, <2>2, SendFields DEF Send, Alone
    <3> QED BY <1>a, <3>1, CallFrame
  <2> QED BY <2>1, <2>2
<1>6. ASSUME NEW e \in Evals, Receive(e) PROVE CallOK(w)'
  <2>0. floor' = floor /\ Alone(e) /\ ev[e].pc = "wait" /\ ev[e].lines # <<>>
    BY <1>6, ReceiveFields DEF Receive
  <2>1. CASE w = e
    <3>1. CASE ev'[e].pc = "drop" /\ ev'[e].answer = ev[e].answer
      BY <1>a, <2>0, <2>1, <3>1, CallSilent
    <3>2. CASE /\ Head(ev[e].lines).id = ev[e].id /\ ev'[e].pc = "idle"
               /\ ev'[e].answer = [Head(ev[e].lines).answer EXCEPT !.ms = ev[e].ms]
      <4>1. e \in Warm
        BY <2>0 DEF OwnInv, Evals
      <4>2. ev[e].lines \in Seq(Line)
        BY EvaluatorFields DEF Evaluator
      <4>3. 1 \in 1..Len(ev[e].lines) /\ Head(ev[e].lines) = ev[e].lines[1]
        BY <2>0, <4>2
      <4>4. Good(ev[e].ms, floor[e], Head(ev[e].lines).answer)
        BY <2>0, <3>2, <4>1, <4>3 DEF StreamInv, StreamOK, LinesOK
      <4>5. Truthful(ev'[e].answer, floor[e])
        BY <1>b, <2>1, <3>2, <4>4, ExpectedTruthful
      <4> QED BY <2>0, <2>1, <3>2, <4>5 DEF CallOK
    <3> QED BY <1>6, <3>1, <3>2, ReceiveFields
  <2>2. CASE w # e
    BY <1>a, <2>0, <2>2, CallFrame DEF Alone
  <2> QED BY <2>1, <2>2
<1>7. ASSUME NEW e \in Evals, Closed(e) \/ TimesOut(e) \/ Deregister(e) PROVE CallOK(w)'
  <2>0. floor' = floor
    BY <1>7 DEF Closed, TimesOut, Deregister
  <2>1. CASE w = e
    <3>1. ev'[w].pc \in {"drop", "reap"} /\ ev'[w].answer.why = "none"
      BY <1>7, <1>a, <2>1, PlaceFields DEF KeepsCall
    <3> QED BY <3>1, CallSilent
  <2>2. CASE w # e
    BY <1>7, <1>a, <2>0, <2>2, PlaceFields, CallFrame DEF Alone
  <2> QED BY <2>1, <2>2
<1>8. ASSUME NEW e \in Evals, Reload(e) PROVE CallOK(w)'
  <2>1. CASE w = e
    BY <1>8, <1>n, <2>1, ReloadFields, CallSilent
  <2>2. CASE w # e
    <3>1. floor'[w] = floor[w] /\ ev'[w] = ev[w]
      BY <1>8, <1>b, <2>2, ReloadFields DEF Reload, Alone
    <3> QED BY <1>a, <3>1, CallFrame
  <2> QED BY <2>1, <2>2
<1>9. ASSUME NEW e \in Evals, Reap(e) PROVE CallOK(w)'
  <2>1. CASE w = e
    <3>1. \/ ev'[w].pc = "idle" /\ ev'[w].answer.why = "transport"
          \/ ev'[w].pc \in {"idle", "call"} /\ ev'[w].answer.why = "none"
      BY <1>9, <1>a, <2>1, ReapFields
    <3> QED BY <3>1, CallSilent
  <2>2. CASE w # e
    <3>1. floor' = floor /\ ev'[w] = ev[w]
      BY <1>9, <2>2, ReapFields DEF Reap, Alone
    <3> QED BY <1>a, <3>1, CallFrame
  <2> QED BY <2>1, <2>2
<1>10. ASSUME NEW p \in Pids, Evaluate(p) \/ StrayLine(p) PROVE CallOK(w)'
  <2>1. floor' = floor
    BY <1>10 DEF Evaluate, StrayLine
  <2>2. CASE w = Owner(p)
    <3>1. w \in Warm /\ ev'[w].pc = ev[w].pc /\ ev'[w].answer = ev[w].answer
      BY <1>10, <2>2, EvaluateFields, StrayFields DEF KeepsCall
    <3>2. ev[w].pc \notin {"batch", "single", "isolated"}
      BY <3>1 DEF OwnInv
    <3> QED BY <1>a, <2>1, <3>1, <3>2 DEF CallOK
  <2>3. CASE w # Owner(p)
    <3>1. ev'[w] = ev[w]
      BY <1>10, <2>3, EvaluateFields, StrayFields DEF Alone
    <3> QED BY <1>a, <2>1, <3>1, CallFrame
  <2> QED BY <2>2, <2>3
<1>11. ASSUME NEW p \in Pids, Crash(p) \/ ForeignStarts(p) \/ ForeignEnds(p) PROVE CallOK(w)'
  BY <1>11, <1>a, CallFrame DEF Crash, ForeignStarts, ForeignEnds
<1>12. ASSUME NEW e \in Evals, Batch(e) PROVE CallOK(w)'
  <2>0. floor' = floor /\ Alone(e) /\ ev[e].pc = "batch"
    BY <1>12, BatchFields DEF Batch
  <2>1. CASE w = e
    <3> DEFINE b == ev'[w].answer
    <3>1. CASE /\ ~Broken(head, ev[w].ms) /\ ev'[w].pc = "idle" /\ b.why = "value"
               /\ b.ms = ev[w].ms /\ b.of = {head} /\ b.errors = {}
               /\ b.paths = With(ev[w].ms, {head}, "ok")
      <4>1. Truthful(b, floor[w])
        BY <1>c, <3>1 DEF Truthful, Broken
      <4> QED BY <2>0, <3>1, <4>1 DEF CallOK
    <3>2. CASE /\ Broken(head, ev[w].ms) /\ Cardinality(ev[w].ms) < 2 /\ ev'[w].pc = "idle"
               /\ b.why = "eval" /\ b.ms = ev[w].ms /\ b.of = {head}
      <4>1. head \in Sick \/ With(ev[w].ms, {head}, "ok") = {}
        BY <1>b, <3>2, LoneBroken DEF Broken
      <4>2. Truthful(b, floor[w])
        BY <1>c, <3>2, <4>1 DEF Truthful
      <4> QED BY <2>0, <3>2, <4>2 DEF CallOK
    <3>3. CASE /\ ~(Cardinality(ev[w].ms) < 2) /\ ev'[w].pc = "single"
               /\ ev'[w].todo = ev[w].ms /\ ev'[w].answer = ev[w].answer /\ ev'[w].ms = ev[w].ms
      <4>1. ev[w].ms # {}
        BY <3>3, FS_EmptySet
      <4>2. ev[w].answer = NoAnswer
        BY <1>a, <2>0, <2>1 DEF CallOK
      <4>3. Partial(ev[w].ms, ev[w].ms, NoAnswer, floor[w])
        BY <4>1 DEF Partial, NoAnswer
      <4>4. Truthful(NoAnswer, floor[w])
        BY DEF Truthful, NoAnswer
      <4> QED BY <1>n, <2>0, <3>3, <4>2, <4>3, <4>4 DEF CallOK
    <3> QED BY <1>12, <2>1, <3>1, <3>2, <3>3, BatchFields
  <2>2. CASE w # e
    BY <1>a, <2>0, <2>2, CallFrame DEF Alone
  <2> QED BY <2>1, <2>2
<1>13. ASSUME NEW e \in Evals, Single(e) PROVE CallOK(w)'
  <2>0. floor' = floor /\ Alone(e) /\ ev[e].pc = "single"
    BY <1>13, SingleFields DEF Single
  <2>1. CASE w = e
    <3>1. PICK m \in ev[w].todo :
              /\ ev'[w].todo = ev[w].todo \ {m}
              /\ ev'[w].pc = IF ev[w].todo = {m} THEN "isolated" ELSE "single"
              /\ ev'[w].answer.errors
                   = ev[w].answer.errors \cup (IF Broken(head, {m}) THEN {m} ELSE {})
              /\ ev'[w].answer.paths
                   = ev[w].answer.paths \cup (IF head \in Sick THEN {} ELSE With({m}, {head}, "ok"))
      BY <1>13, <2>1, SingleFields
    <3>2. /\ ev'[w].ms = ev[w].ms /\ ev'[w].answer.why = ev[w].answer.why
          /\ ev'[w].answer.of = ev[w].answer.of \cup {head}
      BY <1>13, <2>1, SingleFields
    <3>3. Partial(ev[w].ms, ev[w].todo, ev[w].answer, floor[w])
      BY <1>a, <2>0, <2>1 DEF CallOK
    <3>4. Partial(ev[w].ms, ev'[w].todo, ev'[w].answer, floor[w])
      <4>1. Partial(ev[w].ms, ev[w].todo \ {m}, ev'[w].answer, floor[w])
        BY <1>b, <1>c, <3>1, <3>2, <3>3, PartialGrows
      <4> QED BY <3>1, <4>1
    <3>5. ev'[w].answer.why = "none" /\ Truthful(ev'[w].answer, floor[w])
      BY <1>a, <2>0, <2>1, <3>2 DEF Truthful
    <3>6. ev'[w].pc = "isolated" => ev'[w].todo = {}
      BY <3>1
    <3>7. ev'[w].pc \in {"single", "isolated"}
      BY <3>1
    <3> QED BY <2>0, <3>2, <3>4, <3>5, <3>6, <3>7 DEF CallOK
  <2>2. CASE w # e
    BY <1>a, <2>0, <2>2, CallFrame DEF Alone
  <2> QED BY <2>1, <2>2
<1>14. ASSUME NEW e \in Evals, Isolated(e) PROVE CallOK(w)'
  <2>0. floor' = floor /\ Alone(e) /\ ev[e].pc = "isolated" /\ ev'[e].pc = "idle"
    BY <1>14, IsolatedFields DEF Isolated
  <2>1. CASE w = e
    <3>1. Partial(ev[w].ms, {}, ev[w].answer, floor[w])
      BY <1>a, <2>0, <2>1 DEF CallOK
    <3>2. /\ ev'[w].answer.of = ev[w].answer.of /\ ev'[w].answer.ms = ev[w].ms
          /\ \/ /\ ev[w].answer.paths = {} /\ ev[w].answer.errors = ev[w].ms
                /\ ev'[w].answer.why = "eval"
             \/ /\ ~(ev[w].answer.paths = {} /\ ev[w].answer.errors = ev[w].ms)
                /\ ev'[w].answer.why = "value" /\ ev'[w].answer.paths = ev[w].answer.paths
                /\ ev'[w].answer.errors = ev[w].answer.errors
      BY <1>14, <2>1, IsolatedFields
    <3>3. Truthful(ev'[w].answer, floor[w])
      BY <1>b, <3>1, <3>2, PartialEnds
    <3> QED BY <2>0, <2>1, <3>3 DEF CallOK
  <2>2. CASE w # e
    BY <1>a, <2>0, <2>2, CallFrame DEF Alone
  <2> QED BY <2>1, <2>2
<1>15. CASE Latch \/ Sweep \/ MoveHead
  BY <1>15, <1>a, CallFrame DEF Latch, Sweep, MoveHead
<1> QED
  BY <1>0, <1>1, <1>2, <1>3, <1>4, <1>5, <1>6, <1>7, <1>8, <1>9, <1>10, <1>11, <1>12, <1>13,
     <1>14, <1>15 DEF Next, Step, DropWorker

(* The initial states satisfy the invariant. *)
LEMMA InitInv == Init => EInv
<1> SUFFICES ASSUME Init PROVE EInv
  OBVIOUS
<1>1. Fresh \in Evaluator /\ Gone \in Process
  <2>1. NoAnswer \in Answer /\ <<>> \in Seq(Line)
    BY DEF NoAnswer, Answer
  <2> QED BY <2>1 DEF Fresh, Evaluator, Gone, Process
<1>2. TypeOK
  BY <1>1, EvalAssumption DEF Init, TypeOK, Contracts
<1>3. /\ Fresh.pc = "idle" /\ Fresh.worker = NoPid /\ Fresh.lines = <<>> /\ Fresh.answer = NoAnswer
      /\ Gone.state = "free" /\ NoAnswer.why = "none"
  BY DEF Fresh, Gone, NoAnswer
<1>4. OwnInv /\ RegistryInv
  BY <1>3 DEF Init, OwnInv, RegistryInv, NoStrangerKilled, Evals
<1>5. FloorInv
  BY <1>3 DEF Init, FloorInv, Evals
<1>6. StreamInv
  <2> SUFFICES ASSUME NEW e \in Warm PROVE StreamOK(e)
    BY DEF StreamInv
  <2>1. ev[e] = Fresh
    BY DEF Init, Evals
  <2> QED BY <1>3, <2>1 DEF StreamOK, LinesOK, AskOK
<1>7. CallInv
  BY <1>3 DEF Init, CallInv, CallOK, Truthful
<1> QED BY <1>2, <1>4, <1>5, <1>6, <1>7 DEF EInv

(* The invariant of the evaluation pool: who holds which process, what the
   registry lists, which answers the streams carry. *)
THEOREM EvalInvariance == Spec => []EInv
<1>1. EInv /\ [Next]_vars => EInv'
  BY TypeStep, OwnStep, RegistryStep, FloorStep, StreamStep, CallStep DEF EInv
<1> QED BY InitInv, <1>1, PTL DEF Spec

(* The teardown's sweep signals workers only, whatever pids the kernel has
   recycled: a pid is taken off the registry before it is reaped. *)
THEOREM TeardownSparesStrangers == Spec => []NoStrangerKilled
<1>1. EInv => NoStrangerKilled
  BY DEF EInv, RegistryInv
<1> QED BY EvalInvariance, <1>1, PTL

(* Every answer, warm or cold, is true to a contract no older than the last
   reload, for every fleet and through every retry, stray line and crash. *)
THEOREM AnswersAreTrue == Spec => []AnswersTrue
<1>1. EInv => AnswersTrue
  <2> SUFFICES ASSUME EInv, NEW e \in Evals PROVE Truthful(ev[e].answer, floor[e])
    BY DEF AnswersTrue, Truthful
  <2> QED BY DEF EInv, CallInv, CallOK
<1> QED BY EvalInvariance, <1>1, PTL

(***************************************************************************)
(* The build forest and the tracker's counts.                              *)
(***************************************************************************)

(* The types of what the counts are made from. *)
Statuses == {"absent", "unknown", "planned", "building", "downloading", "substituting", "built",
             "failed"}
Phases == {"wanted", "substituting", "missing", "building", "failing", "broken", "failed", "valid",
           "copied"}
Forests == [status : [Paths -> Statuses], inputs : [Drvs -> SUBSET Drvs],
            output_to_drv : [Outs -> Drvs \cup {None}], activities : SUBSET Activities,
            pending_drvs : SUBSET Drvs, drv_cache : SUBSET Drvs]
Trackers == [built : Nat, finished : Nat, fetched : Nat, fetched_done : Nat, errors : Nat,
             running : SUBSET Activities]
CountType ==
  /\ phase \in [Drvs -> Phases] /\ running \subseteq Activities
  /\ stream \in {"open", "ended", "resolved"}
  /\ forest \in Forests
  /\ tracker \in Trackers

(* nix and the forest that follows it: the forest has the activities that run,
   knows no output while the stream is open, and shows a derivation as begun
   from the start of its build. *)
Begun == {"building", "built", "failed"}
Following ==
  /\ forest.activities = running
  /\ stream = "open" => \A o \in Outs : forest.output_to_drv[o] = None
  /\ \A d \in Drvs :
       /\ Act("build", d) \in running <=> phase[d] \in {"building", "failing"}
       /\ Act("copy", d) \in running => phase[d] = "copied"
       /\ Act("substitute", d) \in running => phase[d] = "substituting"
       /\ forest.status[d] = "building" => Act("build", d) \in running
       /\ phase[d] \in {"wanted", "substituting", "missing"} => forest.status[d] \notin Begun
       /\ phase[d] \in {"building", "failing", "broken", "failed"} => forest.status[d] \in Begun

(* The counts against the sets they count. *)
BegunDrvs == {d \in Drvs : forest.status[d] \in Begun}
Builds == {a \in running : a.kind = "build"}
Copies == {a \in running : a.kind = "copy"}
Counting ==
  /\ tracker.running = Builds
  /\ IsFiniteSet(BegunDrvs) /\ tracker.built = Cardinality(BegunDrvs)
  /\ IsFiniteSet(Builds) /\ tracker.finished + Cardinality(Builds) = tracker.built
  /\ IsFiniteSet(Copies) /\ tracker.fetched_done <= tracker.fetched
  /\ tracker.fetched <= tracker.fetched_done + Cardinality(Copies)

CountInv == CountType /\ Following /\ Counting

----------------------------------------------------------------------------
(* What a line of nix does to the engine's forest and its counts. *)

(* The start of an activity. *)
LEMMA StartEffect ==
  ASSUME CountInv, NEW kind \in Kinds, NEW d \in Drvs, StartActivity(kind, d)
  PROVE  /\ running' = running \cup {Act(kind, d)} /\ running' \subseteq Activities
         /\ stream = "open" /\ stream' = stream /\ forest' \in Forests
         /\ forest'.activities = running' /\ forest'.output_to_drv = forest.output_to_drv
         /\ forest'.status = IF kind = "build" THEN [forest.status EXCEPT ![d] = "building"]
                             ELSE forest.status
         /\ tracker' = CASE kind = "build" -> [tracker EXCEPT !.built = @ + 1,
                                                              !.running = @ \cup {Act(kind, d)}]
                         [] kind = "copy" -> [tracker EXCEPT !.fetched = @ + 1]
                         [] OTHER -> tracker
<1> DEFINE a == Act(kind, d)
<1>1. a \in Activities /\ a.kind = kind /\ a.drv = d
  BY DEF Act, Activities
<1>2. /\ running' = running \cup {a} /\ stream = "open" /\ stream' = stream
      /\ forest' = FeedMessage(forest, Start(a)) /\ tracker' = Track(tracker, Start(a))
  BY DEF StartActivity, NixLine
<1>3. forest \in Forests /\ forest.activities = running /\ d \in Paths /\ Out[d] \in Outs
  BY DEF CountInv, CountType, Trackers, Following, Paths, Outs
<1>4. Start(a).action = "start" /\ Start(a).of = a
  BY DEF Start
<1>5. forest' = FeedStart(forest, a)
  BY <1>2, <1>4 DEF FeedMessage
<1>6. tracker' = CASE kind = "build" -> [tracker EXCEPT !.built = @ + 1, !.running = @ \cup {a}]
                   [] kind = "copy" -> [tracker EXCEPT !.fetched = @ + 1]
                   [] OTHER -> tracker
  BY <1>1, <1>2, <1>4 DEF Track
<1> HIDE DEF a
<1>7. CASE kind = "build"
  <2>1. NodeOf(forest, a) = d /\ d # None /\ StartStatus[kind] = "building" /\ kind \in DOMAIN StartStatus
    BY <1>1, <1>7, NoneAssumption DEF NodeOf, StartStatus
  <2>2. forest' = [[forest EXCEPT !.status[d] = "building"]
                     EXCEPT !.activities = @ \cup {a}, !.pending_drvs = @ \cup {d}]
    BY <1>1, <1>5, <1>7, <2>1 DEF FeedStart, Mark
  <2>3. /\ forest' \in Forests /\ forest'.activities = forest.activities \cup {a}
        /\ forest'.output_to_drv = forest.output_to_drv
        /\ forest'.status = [forest.status EXCEPT ![d] = "building"]
    BY <1>1, <1>3, <2>2 DEF Forests, Statuses
  <2> QED BY <1>1, <1>2, <1>3, <1>6, <1>7, <2>3 DEF a, CountInv, CountType
<1>8. CASE kind # "build"
  <2>1. NodeOf(forest, a) = None
    BY <1>1, <1>2, <1>3, <1>8 DEF NodeOf, CountInv, Following
  <2>2. forest' = [forest EXCEPT !.activities = @ \cup {a}, !.pending_drvs = @]
    BY <1>1, <1>5, <1>8, <2>1 DEF FeedStart
  <2>3. /\ forest' \in Forests /\ forest'.activities = forest.activities \cup {a}
        /\ forest'.output_to_drv = forest.output_to_drv /\ forest'.status = forest.status
    BY <1>1, <1>3, <2>2 DEF Forests
  <2> QED BY <1>1, <1>2, <1>3, <1>6, <1>8, <2>3 DEF a, CountInv, CountType
<1> QED BY <1>7, <1>8

(* The stop of an activity that runs. *)
LEMMA StopEffect ==
  ASSUME CountInv, NEW kind \in Kinds, NEW d \in Drvs, StopActivity(kind, d)
  PROVE  /\ Act(kind, d) \in running /\ running' = running \ {Act(kind, d)}
         /\ stream = "open" /\ stream' = stream /\ forest' \in Forests
         /\ forest'.activities = running' /\ forest'.output_to_drv = forest.output_to_drv
         /\ forest'.status = IF kind = "build" /\ forest.status[d] # "failed"
                               THEN [forest.status EXCEPT ![d] = "built"] ELSE forest.status
         /\ kind = "build" => tracker' = [tracker EXCEPT !.finished = @ + 1,
                                                         !.running = @ \ {Act(kind, d)}]
         /\ kind # "build" => \/ /\ tracker.fetched_done < tracker.fetched
                                 /\ tracker' = [tracker EXCEPT !.fetched_done = @ + 1]
                              \/ ~ (tracker.fetched_done < tracker.fetched) /\ tracker' = tracker
<1> DEFINE a == Act(kind, d)
<1>1. a \in Activities /\ a.kind = kind /\ a.drv = d
  BY DEF Act, Activities
<1>2. /\ a \in running /\ running' = running \ {a} /\ stream = "open" /\ stream' = stream
      /\ forest' = FeedMessage(forest, Stop(a)) /\ tracker' = Track(tracker, Stop(a))
  BY DEF StopActivity, NixLine
<1>3. forest \in Forests /\ forest.activities = running /\ d \in Paths /\ Out[d] \in Outs
  BY DEF CountInv, CountType, Trackers, Following, Paths, Outs
<1>4. Stop(a).action = "stop" /\ Stop(a).of = a
  BY DEF Stop
<1>5. forest' = FeedStop(forest, a)
  BY <1>2, <1>4 DEF FeedMessage
<1>6. a \in tracker.running <=> kind = "build"
  BY <1>1, <1>2 DEF CountInv, Counting, Builds
<1>7. /\ kind = "build" => tracker' = [tracker EXCEPT !.finished = @ + 1, !.running = @ \ {a}]
      /\ kind # "build" => \/ /\ tracker.fetched_done < tracker.fetched
                              /\ tracker' = [tracker EXCEPT !.fetched_done = @ + 1]
                           \/ ~ (tracker.fetched_done < tracker.fetched) /\ tracker' = tracker
  BY <1>2, <1>4, <1>6 DEF Track
<1> HIDE DEF a
<1>8. CASE kind = "build" /\ forest.status[d] # "failed"
  <2>1. NodeOf(forest, a) = d /\ d # None /\ kind \in DOMAIN StartStatus
    BY <1>1, <1>8, NoneAssumption DEF NodeOf, StartStatus
  <2>2. forest' = [[forest EXCEPT !.activities = @ \ {a}] EXCEPT !.status[d] = "built"]
    BY <1>1, <1>2, <1>3, <1>5, <1>8, <2>1 DEF FeedStop, Mark
  <2>3. /\ forest' \in Forests /\ forest'.activities = forest.activities \ {a}
        /\ forest'.output_to_drv = forest.output_to_drv
        /\ forest'.status = [forest.status EXCEPT ![d] = "built"]
    BY <1>1, <1>3, <2>2 DEF Forests, Statuses
  <2> QED BY <1>2, <1>3, <1>7, <1>8, <2>3 DEF a
<1>9. CASE ~ (kind = "build" /\ forest.status[d] # "failed")
  <2>1. NodeOf(forest, a) = None \/ forest.status[NodeOf(forest, a)] = "failed"
    BY <1>1, <1>2, <1>3, <1>9 DEF NodeOf, CountInv, Following
  <2>2. forest' = [forest EXCEPT !.activities = @ \ {a}]
    BY <1>1, <1>2, <1>3, <1>5, <2>1 DEF FeedStop
  <2>3. /\ forest' \in Forests /\ forest'.activities = forest.activities \ {a}
        /\ forest'.output_to_drv = forest.output_to_drv /\ forest'.status = forest.status
    BY <1>1, <1>3, <2>2 DEF Forests
  <2> QED BY <1>2, <1>3, <1>7, <1>9, <2>3 DEF a
<1> QED BY <1>8, <1>9

(* Two activities are one only if they do the same to the same derivation. *)
LEMMA ActApart ==
  ASSUME NEW k, NEW d, NEW l, NEW e
  PROVE  Act(k, d) = Act(l, e) <=> k = l /\ d = e
<1>1. /\ Act(k, d).kind = k /\ Act(k, d).drv = d /\ Act(l, e).kind = l /\ Act(l, e).drv = e
  BY DEF Act
<1> QED BY <1>1

----------------------------------------------------------------------------
(* nix's steps keep the counts. *)

(* The start of what is neither a build nor a copy. *)
LEMMA OtherStart ==
  ASSUME CountInv, NEW kind \in {"query", "substitute"}, NEW d \in Drvs, StartActivity(kind, d),
         \/ kind = "query" /\ phase' = phase
         \/ phase[d] = "wanted" /\ phase' = [phase EXCEPT ![d] = "substituting"]
  PROVE  CountInv'
<1>1. kind \in Kinds /\ kind # "build" /\ kind # "copy"
  BY DEF Kinds
<1>2. /\ running' = running \cup {Act(kind, d)} /\ running' \subseteq Activities
      /\ stream = "open" /\ stream' = stream /\ forest' \in Forests
      /\ forest'.activities = running' /\ forest'.output_to_drv = forest.output_to_drv
      /\ forest'.status = forest.status /\ tracker' = tracker
  BY <1>1, StartEffect
<1>3. CountType'
  BY <1>2 DEF CountInv, CountType, Trackers, Phases
<1>4. \A e \in Drvs : /\ Act("build", e) \in running' <=> Act("build", e) \in running
                      /\ Act("copy", e) \in running' <=> Act("copy", e) \in running
                      /\ Act("substitute", e) \in running' =>
                           Act("substitute", e) \in running \/ (e = d /\ kind = "substitute")
  BY <1>1, <1>2, ActApart
<1>5. Following'
  BY <1>2, <1>4 DEF CountInv, CountType, Trackers, Following
<1>6. Builds' = Builds /\ Copies' = Copies /\ BegunDrvs' = BegunDrvs
  <2>1. Act(kind, d).kind = kind
    BY DEF Act
  <2> QED BY <1>1, <1>2, <2>1 DEF Builds, Copies, BegunDrvs
<1>7. Counting'
  BY <1>2, <1>6 DEF CountInv, Counting
<1> QED BY <1>3, <1>5, <1>7 DEF CountInv

(* The stop of what is no build. *)
LEMMA OtherStop ==
  ASSUME CountInv, NEW kind \in {"query", "substitute", "copy"}, NEW d \in Drvs, StopActivity(kind, d),
         \/ phase' = phase
         \/ kind = "substitute" /\ \E next \in {"valid", "missing"} : phase' = [phase EXCEPT ![d] = next]
  PROVE  CountInv'
<1> DEFINE a == Act(kind, d)
<1>1. kind \in Kinds /\ kind # "build"
  BY DEF Kinds
<1>2. /\ a \in running /\ running' = running \ {a}
      /\ stream = "open" /\ stream' = stream /\ forest' \in Forests
      /\ forest'.activities = running' /\ forest'.output_to_drv = forest.output_to_drv
      /\ forest'.status = forest.status
      /\ \/ /\ tracker.fetched_done < tracker.fetched
            /\ tracker' = [tracker EXCEPT !.fetched_done = @ + 1]
         \/ ~ (tracker.fetched_done < tracker.fetched) /\ tracker' = tracker
  BY <1>1, StopEffect
<1>3. CountType'
  BY <1>2 DEF CountInv, CountType, Trackers, Phases
<1>4. \A e \in Drvs : /\ Act("build", e) \in running' <=> Act("build", e) \in running
                      /\ Act("copy", e) \in running' => Act("copy", e) \in running
                      /\ Act("substitute", e) \in running' =>
                           Act("substitute", e) \in running /\ ~ (e = d /\ kind = "substitute")
  BY <1>1, <1>2, ActApart
<1>5. Following'
  BY <1>2, <1>4 DEF CountInv, CountType, Trackers, Following, Begun
<1>6. Builds' = Builds /\ BegunDrvs' = BegunDrvs /\ Copies' = IF kind = "copy" THEN Copies \ {a} ELSE Copies
  <2>1. a.kind = kind
    BY DEF Act
  <2> HIDE DEF a
  <2> QED BY <1>1, <1>2, <2>1 DEF Builds, Copies, BegunDrvs
<1>7. Counting'
  <2>1. /\ IsFiniteSet(Copies \ {a}) /\ Cardinality(Copies) \in Nat
        /\ a \in Copies => Cardinality(Copies \ {a}) = Cardinality(Copies) - 1
        /\ a \notin Copies => Copies \ {a} = Copies
    BY FS_RemoveElement, FS_CardinalityType DEF CountInv, Counting
  <2>2. /\ tracker.fetched \in Nat /\ tracker.fetched_done \in Nat
        /\ tracker'.running = tracker.running /\ tracker'.built = tracker.built
        /\ tracker'.finished = tracker.finished /\ tracker'.fetched = tracker.fetched
        /\ tracker'.fetched_done = IF tracker.fetched_done < tracker.fetched
                                     THEN tracker.fetched_done + 1 ELSE tracker.fetched_done
    BY <1>2 DEF CountInv, CountType, Trackers
  <2>3. IsFiniteSet(Copies') /\ tracker'.fetched_done <= tracker'.fetched
        /\ tracker'.fetched <= tracker'.fetched_done + Cardinality(Copies')
    <3>1. PICK n \in Nat : n = Cardinality(Copies)
      BY <2>1
    <3>2. IsFiniteSet(Copies') /\ Cardinality(Copies') \in {n, n - 1} /\ Cardinality(Copies') \in Nat
      BY <1>6, <2>1, <3>1, FS_CardinalityType DEF CountInv, Counting
    <3>3. tracker.fetched_done <= tracker.fetched /\ tracker.fetched <= tracker.fetched_done + n
      BY <3>1 DEF CountInv, Counting
    <3>4. PICK m \in Nat : m = Cardinality(Copies') /\ m \in {n, n - 1}
      BY <3>2
    <3> QED BY <2>2, <3>2, <3>3, <3>4
  <2> QED BY <1>6, <2>2, <2>3 DEF CountInv, Counting
<1> QED BY <1>3, <1>5, <1>7 DEF CountInv

(* A build starts. *)
LEMMA BuildStarts ==
  ASSUME CountInv, NEW d \in Drvs, Build(d)
  PROVE  CountInv'
<1> DEFINE a == Act("build", d)
<1>0. "build" \in Kinds /\ StartActivity("build", d) /\ phase[d] \in {"wanted", "missing"}
      /\ phase' = [phase EXCEPT ![d] = "building"]
  BY DEF Kinds, Build
<1>2. /\ running' = running \cup {a} /\ running' \subseteq Activities
      /\ stream = "open" /\ stream' = stream /\ forest' \in Forests
      /\ forest'.activities = running' /\ forest'.output_to_drv = forest.output_to_drv
      /\ forest'.status = [forest.status EXCEPT ![d] = "building"]
      /\ tracker' = [tracker EXCEPT !.built = @ + 1, !.running = @ \cup {a}]
  BY <1>0, StartEffect
<1>3. d \in Paths /\ Drvs \subseteq Paths /\ forest.status[d] \notin Begun /\ a \notin running
  BY <1>0 DEF CountInv, Following, Paths
<1>4. CountType'
  <2>1. tracker.running \cup {a} \in SUBSET Activities
    BY DEF CountInv, CountType, Trackers, Activities, Act, Kinds
  <2> HIDE DEF a
  <2>3. tracker.built + 1 \in Nat
    BY DEF CountInv, CountType, Trackers
  <2>2. tracker' \in Trackers
    BY <1>2, <2>1, <2>3 DEF CountInv, CountType, Trackers
  <2> QED BY <1>0, <1>2, <2>2 DEF CountInv, CountType, Trackers, Phases
<1>5. \A e \in Drvs : /\ Act("build", e) \in running' <=> Act("build", e) \in running \/ e = d
                      /\ Act("copy", e) \in running' <=> Act("copy", e) \in running
                      /\ Act("substitute", e) \in running' <=> Act("substitute", e) \in running
  BY <1>2, ActApart
<1>6. \A e \in Drvs : /\ phase'[e] = IF e = d THEN "building" ELSE phase[e]
                      /\ forest'.status[e] = IF e = d THEN "building" ELSE forest.status[e]
  BY <1>0, <1>2, <1>3 DEF CountInv, CountType, Trackers, Forests
<1>7. Following'
  BY <1>0, <1>2, <1>5, <1>6 DEF CountInv, CountType, Trackers, Following, Begun
<1>8. Builds' = Builds \cup {a} /\ Copies' = Copies /\ BegunDrvs' = BegunDrvs \cup {d}
  <2>1. a.kind = "build"
    BY DEF Act
  <2> HIDE DEF a
  <2>2. Builds' = Builds \cup {a} /\ Copies' = Copies
    BY <1>2, <2>1 DEF Builds, Copies
  <2>3. BegunDrvs' = BegunDrvs \cup {d}
    BY <1>6 DEF BegunDrvs, Begun
  <2> QED BY <2>2, <2>3
<1>9. Counting'
  <2>1. /\ IsFiniteSet(BegunDrvs \cup {d}) /\ Cardinality(BegunDrvs \cup {d}) = Cardinality(BegunDrvs) + 1
        /\ IsFiniteSet(Builds \cup {a}) /\ Cardinality(Builds \cup {a}) = Cardinality(Builds) + 1
        /\ Cardinality(Builds) \in Nat
    BY <1>3, FS_AddElement, FS_CardinalityType DEF CountInv, Counting, BegunDrvs, Builds
  <2>2. /\ tracker.built \in Nat /\ tracker.finished \in Nat
        /\ tracker'.running = tracker.running \cup {a} /\ tracker'.built = tracker.built + 1
        /\ tracker'.finished = tracker.finished /\ tracker'.fetched = tracker.fetched
        /\ tracker'.fetched_done = tracker.fetched_done
    BY <1>2 DEF CountInv, CountType, Trackers
  <2> HIDE DEF a
  <2> QED BY <1>8, <2>1, <2>2 DEF CountInv, Counting
<1> QED BY <1>4, <1>7, <1>9 DEF CountInv

(* A build ends. *)
LEMMA BuildEnds ==
  ASSUME CountInv, NEW d \in Drvs, BuildDone(d)
  PROVE  CountInv'
<1> DEFINE a == Act("build", d)
<1>0. "build" \in Kinds /\ StopActivity("build", d)
  BY DEF Kinds, BuildDone
<1>1. PICK next \in {"failed", "valid", "broken"} : phase' = [phase EXCEPT ![d] = next]
  BY DEF BuildDone
<1>2. /\ a \in running /\ running' = running \ {a}
      /\ stream = "open" /\ stream' = stream /\ forest' \in Forests
      /\ forest'.activities = running' /\ forest'.output_to_drv = forest.output_to_drv
      /\ forest'.status = IF forest.status[d] # "failed" THEN [forest.status EXCEPT ![d] = "built"]
                          ELSE forest.status
      /\ tracker' = [tracker EXCEPT !.finished = @ + 1, !.running = @ \ {a}]
  BY <1>0, StopEffect
<1>3. /\ d \in Paths /\ Drvs \subseteq Paths /\ phase[d] \in {"building", "failing"}
      /\ forest.status[d] \in Begun
  BY <1>2 DEF CountInv, Following, Paths
<1>4. CountType'
  <2> HIDE DEF a
  <2>1. tracker.running \ {a} \in SUBSET Activities
    BY DEF CountInv, CountType, Trackers
  <2>3. tracker.finished + 1 \in Nat
    BY DEF CountInv, CountType, Trackers
  <2>2. tracker' \in Trackers
    BY <1>2, <2>1, <2>3 DEF CountInv, CountType, Trackers
  <2> QED BY <1>1, <1>2, <2>2 DEF CountInv, CountType, Trackers, Phases
<1>5. \A e \in Drvs : /\ Act("build", e) \in running' <=> Act("build", e) \in running /\ e # d
                      /\ Act("copy", e) \in running' <=> Act("copy", e) \in running
                      /\ Act("substitute", e) \in running' <=> Act("substitute", e) \in running
  BY <1>2, ActApart
<1>6. \A e \in Drvs : /\ phase'[e] = IF e = d THEN next ELSE phase[e]
                      /\ e # d => forest'.status[e] = forest.status[e]
                      /\ e = d => forest'.status[e] \in {"built", "failed"}
  BY <1>1, <1>2, <1>3 DEF CountInv, CountType, Trackers, Forests
<1>7. Following'
  BY <1>2, <1>3, <1>5, <1>6 DEF CountInv, CountType, Trackers, Following, Begun
<1>8. Builds' = Builds \ {a} /\ a \in Builds /\ Copies' = Copies /\ BegunDrvs' = BegunDrvs
  <2>1. a.kind = "build"
    BY DEF Act
  <2> HIDE DEF a
  <2>2. Builds' = Builds \ {a} /\ a \in Builds /\ Copies' = Copies
    BY <1>2, <2>1 DEF Builds, Copies
  <2>3. BegunDrvs' = BegunDrvs
    BY <1>3, <1>6 DEF BegunDrvs, Begun
  <2> QED BY <2>2, <2>3
<1>9. Counting'
  <2>1. /\ IsFiniteSet(Builds \ {a}) /\ Cardinality(Builds \ {a}) = Cardinality(Builds) - 1
        /\ Cardinality(Builds) \in Nat
    BY <1>8, FS_RemoveElement, FS_CardinalityType DEF CountInv, Counting
  <2>2. /\ tracker.built \in Nat /\ tracker.finished \in Nat
        /\ tracker'.running = tracker.running \ {a} /\ tracker'.built = tracker.built
        /\ tracker'.finished = tracker.finished + 1 /\ tracker'.fetched = tracker.fetched
        /\ tracker'.fetched_done = tracker.fetched_done
    BY <1>2 DEF CountInv, CountType, Trackers
  <2> HIDE DEF a
  <2> QED BY <1>8, <2>1, <2>2 DEF CountInv, Counting
<1> QED BY <1>4, <1>7, <1>9 DEF CountInv

(* A copy starts. *)
LEMMA CopyStarts ==
  ASSUME CountInv, NEW d \in Drvs, Copy(d)
  PROVE  CountInv'
<1> DEFINE a == Act("copy", d)
<1>0. "copy" \in Kinds /\ StartActivity("copy", d) /\ phase[d] = "valid"
      /\ phase' = [phase EXCEPT ![d] = "copied"]
  BY DEF Kinds, Copy
<1>2. /\ running' = running \cup {a} /\ running' \subseteq Activities
      /\ stream = "open" /\ stream' = stream /\ forest' \in Forests
      /\ forest'.activities = running' /\ forest'.output_to_drv = forest.output_to_drv
      /\ forest'.status = forest.status
      /\ tracker' = [tracker EXCEPT !.fetched = @ + 1]
  BY <1>0, StartEffect
<1>3. a \notin running
  BY <1>0 DEF CountInv, Following
<1>4. CountType'
  BY <1>0, <1>2 DEF CountInv, CountType, Trackers, Phases
<1>5. \A e \in Drvs : /\ Act("build", e) \in running' <=> Act("build", e) \in running
                      /\ Act("copy", e) \in running' <=> Act("copy", e) \in running \/ e = d
                      /\ Act("substitute", e) \in running' <=> Act("substitute", e) \in running
  BY <1>2, ActApart
<1>6. \A e \in Drvs : phase'[e] = IF e = d THEN "copied" ELSE phase[e]
  BY <1>0 DEF CountInv, CountType, Trackers
<1>7. Following'
  BY <1>0, <1>2, <1>5, <1>6 DEF CountInv, CountType, Trackers, Following, Begun
<1>8. Builds' = Builds /\ Copies' = Copies \cup {a} /\ BegunDrvs' = BegunDrvs
  <2>1. a.kind = "copy"
    BY DEF Act
  <2> HIDE DEF a
  <2> QED BY <1>2, <2>1 DEF Builds, Copies, BegunDrvs
<1>9. Counting'
  <2>1. /\ IsFiniteSet(Copies \cup {a}) /\ Cardinality(Copies \cup {a}) = Cardinality(Copies) + 1
        /\ Cardinality(Copies) \in Nat
    BY <1>3, FS_AddElement, FS_CardinalityType DEF CountInv, Counting, Copies
  <2>2. /\ tracker.fetched \in Nat /\ tracker.fetched_done \in Nat
        /\ tracker'.running = tracker.running /\ tracker'.built = tracker.built
        /\ tracker'.finished = tracker.finished /\ tracker'.fetched = tracker.fetched + 1
        /\ tracker'.fetched_done = tracker.fetched_done
    BY <1>2 DEF CountInv, CountType, Trackers
  <2> HIDE DEF a
  <2> QED BY <1>8, <2>1, <2>2 DEF CountInv, Counting
<1> QED BY <1>4, <1>7, <1>9 DEF CountInv

(* Messages that start and stop nothing.  A report touches the node of an
   activity, a message plans or fails nodes. *)
LEMMA SameCounts ==
  ASSUME CountInv, forest' \in Forests, tracker' \in Trackers,
         \A field \in {"built", "finished", "fetched", "fetched_done", "running"} :
           tracker'[field] = tracker[field],
         running' = running, stream' \in {stream, "ended", "resolved"},
         forest'.activities = forest.activities,
         stream' = "open" => stream = "open" /\ forest'.output_to_drv = forest.output_to_drv,
         \A d \in Drvs : /\ forest'.status[d] \in Begun <=> forest.status[d] \in Begun
                         /\ forest'.status[d] = "building" => forest.status[d] = "building",
         \/ phase' = phase
         \/ \E d \in Drvs : \/ phase[d] = "building" /\ phase' = [phase EXCEPT ![d] = "failing"]
                            \/ phase[d] = "broken" /\ phase' = [phase EXCEPT ![d] = "failed"]
  PROVE  CountInv'
<1>1. CountType'
  BY DEF CountInv, CountType, Trackers, Phases
<1>2. Following'
  <2>1. CASE phase' = phase
    BY <2>1 DEF CountInv, Following
  <2>2. ASSUME NEW d \in Drvs, \/ phase[d] = "building" /\ phase' = [phase EXCEPT ![d] = "failing"]
                               \/ phase[d] = "broken" /\ phase' = [phase EXCEPT ![d] = "failed"]
        PROVE  Following'
    BY <2>2 DEF CountInv, CountType, Trackers, Following
  <2> QED BY <2>1, <2>2
<1>3. Builds' = Builds /\ Copies' = Copies /\ BegunDrvs' = BegunDrvs
  BY DEF Builds, Copies, BegunDrvs
<1>4. Counting'
  <2>1. /\ tracker'.built = tracker.built /\ tracker'.finished = tracker.finished
        /\ tracker'.fetched = tracker.fetched /\ tracker'.fetched_done = tracker.fetched_done
        /\ tracker'.running = tracker.running
    OBVIOUS
  <2> QED BY <1>3, <2>1 DEF CountInv, Counting
<1> QED BY <1>1, <1>2, <1>4 DEF CountInv

(* A phase or a fetch status counts nothing. *)
LEMMA ReportCounts ==
  ASSUME CountInv, NEW kind \in Kinds, NEW d \in Drvs, Report(kind, d)
  PROVE  CountInv'
<1> DEFINE a == Act(kind, d)
<1>1. a \in Activities /\ a.kind = kind /\ a.drv = d /\ a \in running
  BY DEF Act, Activities, Report
<1>2. /\ running' = running /\ phase' = phase /\ stream' = stream
      /\ forest' = FeedMessage(forest, Result(a)) /\ tracker' = Track(tracker, Result(a))
  BY DEF Report, NixLine
<1>3. Result(a).action = "result" /\ Result(a).of = a
  BY DEF Result
<1>4. forest' = FeedResult(forest, a) /\ tracker' = tracker
  BY <1>2, <1>3 DEF FeedMessage, Track
<1>5. forest \in Forests /\ PathOf(a) \in Paths
  BY <1>1 DEF CountInv, CountType, Trackers, PathOf, Paths, Outs
<1> HIDE DEF a
<1>6. \/ forest' = forest
      \/ forest.status[PathOf(a)] = "absent" /\ forest' = [forest EXCEPT !.status[PathOf(a)] = "unknown"]
  BY <1>4 DEF FeedResult, Entry
<1>7. /\ forest' \in Forests /\ forest'.activities = forest.activities
      /\ forest'.output_to_drv = forest.output_to_drv
      /\ \A p \in Paths : \/ forest'.status[p] = forest.status[p]
                          \/ forest.status[p] = "absent" /\ forest'.status[p] = "unknown"
  BY <1>5, <1>6 DEF Forests, Statuses
<1>8. \A e \in Drvs : /\ forest'.status[e] \in Begun <=> forest.status[e] \in Begun
                      /\ forest'.status[e] = "building" => forest.status[e] = "building"
  BY <1>7 DEF Begun, Paths
<1> QED BY <1>2, <1>4, <1>7, <1>8, SameCounts DEF CountInv, CountType, Trackers

(* What a message does to a forest and to the counts. *)
LEMMA MsgEffect ==
  ASSUME CountInv, NEW level \in {0, 1, 3}, NEW drvs \in SUBSET Drvs, NixLine(Msg(level, drvs))
  PROVE  /\ stream' = stream /\ forest' \in Forests /\ forest'.activities = forest.activities
         /\ forest'.output_to_drv = forest.output_to_drv
         /\ \A d \in Drvs : forest'.status[d] =
              IF d \in drvs /\ level = 0 THEN "failed"
              ELSE IF d \in drvs /\ forest.status[d] \in {"absent", "unknown"} THEN "planned"
              ELSE forest.status[d]
         /\ tracker' = IF level = 0 THEN [tracker EXCEPT !.errors = @ + 1] ELSE tracker
<1> DEFINE m == Msg(level, drvs)
<1>1. m.action = "msg" /\ m.level = level /\ m.drvs = drvs
  BY DEF Msg
<1>2. stream' = stream /\ forest' = FeedMessage(forest, m) /\ tracker' = Track(tracker, m)
  BY DEF NixLine
<1> HIDE DEF m
<1>3. forest' = FeedMsg(forest, level, drvs)
  BY <1>1, <1>2 DEF FeedMessage
<1>4. tracker' = IF level = 0 THEN [tracker EXCEPT !.errors = @ + 1] ELSE tracker
  BY <1>1, <1>2 DEF Track
<1>5. forest \in Forests /\ Drvs \subseteq Paths
  BY DEF CountInv, CountType, Trackers, Paths
<1>6. CASE level = 0
  <2>1. forest' = [forest EXCEPT !.status = [p \in Paths |-> IF p \in drvs THEN "failed" ELSE @[p]]]
    BY <1>3, <1>6 DEF FeedMsg
  <2> QED BY <1>2, <1>4, <1>5, <1>6, <2>1 DEF Forests, Statuses
<1>7. CASE level # 0
  <2>1. forest' = [forest EXCEPT !.status = [p \in Paths |->
                                    IF p \in drvs /\ @[p] \in {"absent", "unknown"} THEN "planned" ELSE @[p]],
                                 !.pending_drvs = @ \cup drvs]
    BY <1>3, <1>7 DEF FeedMsg
  <2> DEFINE status == [p \in Paths |-> IF p \in drvs /\ forest.status[p] \in {"absent", "unknown"}
                                          THEN "planned" ELSE forest.status[p]]
  <2>2. /\ status \in [Paths -> Statuses] /\ forest.pending_drvs \cup drvs \in SUBSET Drvs
        /\ \A d \in Drvs : status[d] = IF d \in drvs /\ forest.status[d] \in {"absent", "unknown"}
                                         THEN "planned" ELSE forest.status[d]
    BY <1>5 DEF Forests, Statuses
  <2>3. forest' = [forest EXCEPT !.status = status, !.pending_drvs = @ \cup drvs]
    BY <2>1
  <2> HIDE DEF status
  <2>4. forest' \in Forests /\ forest'.status = status /\ forest'.activities = forest.activities
        /\ forest'.output_to_drv = forest.output_to_drv
    BY <1>5, <2>2, <2>3 DEF Forests
  <2> QED BY <1>2, <1>4, <1>7, <2>2, <2>4
<1> QED BY <1>6, <1>7

(* Nor does the list of what will be built. *)
LEMMA AnnounceCounts ==
  ASSUME CountInv, Announce
  PROVE  CountInv'
<1> DEFINE drvs == {a.drv : a \in {b \in Traffic : b.kind = "build"}}
<1>1. PICK level \in {1, 3} : NixLine(Msg(level, drvs))
  BY DEF Announce
<1>2. drvs \in SUBSET Drvs
  BY TrafficAssumption DEF Activities
<1>3. running' = running /\ phase' = phase
  BY DEF Announce
<1> HIDE DEF drvs
<1>4. level \in {0, 1, 3} /\ level # 0
  OBVIOUS
<1>5. /\ stream' = stream /\ forest' \in Forests /\ forest'.activities = forest.activities
      /\ forest'.output_to_drv = forest.output_to_drv /\ tracker' = tracker
      /\ \A d \in Drvs : \/ forest'.status[d] = forest.status[d]
                         \/ forest'.status[d] = "planned" /\ forest.status[d] \in {"absent", "unknown"}
  BY <1>1, <1>2, <1>4, MsgEffect
<1> QED BY <1>3, <1>5, SameCounts DEF Begun, CountInv, CountType

(* An error marks a begun derivation as failed: it stays counted as begun. *)
LEMMA ErrorCounts ==
  ASSUME CountInv, NEW d \in Drvs, BuildError(d)
  PROVE  CountInv'
<1>1. NixLine(Msg(0, {d})) /\ running' = running /\ 0 \in {0, 1, 3} /\ {d} \in SUBSET Drvs
  BY DEF BuildError
<1>2. /\ stream' = stream /\ forest' \in Forests /\ forest'.activities = forest.activities
      /\ forest'.output_to_drv = forest.output_to_drv
      /\ tracker' = [tracker EXCEPT !.errors = @ + 1]
      /\ \A e \in Drvs : forest'.status[e] = IF e = d THEN "failed" ELSE forest.status[e]
  BY <1>1, MsgEffect
<1>3. forest.status[d] \in Begun /\ phase[d] \in {"building", "broken"}
  BY DEF BuildError, CountInv, Following
<1>4. /\ tracker' \in Trackers
      /\ \A field \in {"built", "finished", "fetched", "fetched_done", "running"} :
           tracker'[field] = tracker[field]
  BY <1>2 DEF CountInv, CountType, Trackers
<1>5. \A e \in Drvs : /\ forest'.status[e] \in Begun <=> forest.status[e] \in Begun
                      /\ forest'.status[e] = "building" => forest.status[e] = "building"
  BY <1>2, <1>3 DEF Begun
<1>6. \/ phase[d] = "building" /\ phase' = [phase EXCEPT ![d] = "failing"]
      \/ phase[d] = "broken" /\ phase' = [phase EXCEPT ![d] = "failed"]
  BY DEF BuildError
<1> QED BY <1>1, <1>2, <1>4, <1>5, <1>6, SameCounts

(* Reading the derivations after the stream has ended begins no build. *)
LEMMA ResolveCounts ==
  ASSUME CountInv, ResolvePending
  PROVE  CountInv'
<1>1. stream = "ended" /\ running' = running /\ phase' = phase /\ tracker' = tracker
  BY DEF ResolvePending, nix
<1>2. forest \in Forests /\ Drvs \subseteq Paths
  BY DEF CountInv, CountType, Trackers, Paths
<1>3. CASE stream' = "resolved" /\ forest' = Taken(forest)
  <2>1. /\ forest' \in Forests /\ forest'.activities = forest.activities
        /\ forest'.status = forest.status
    BY <1>2, <1>3 DEF Taken, Forests
  <2> QED BY <1>1, <1>3, <2>1, SameCounts DEF CountInv, CountType, Trackers
<1>4. ASSUME NEW d \in TakePending(forest), forest' = ApplyRead(forest, d), stream' = stream
      PROVE  CountInv'
  <2>1. d \in Drvs /\ d \in Paths /\ Out[d] \in Outs /\ Inputs[d] \in SUBSET Drvs
    BY <1>2, InputsAssumption DEF TakePending, Forests, Outs
  <2>2. /\ forest' \in Forests /\ forest'.activities = forest.activities
        /\ \A p \in Paths : \/ forest'.status[p] = forest.status[p]
                            \/ forest.status[p] = "absent" /\ forest'.status[p] = "unknown"
    <3>1. CASE d \in Unreadable
      <4>1. \/ forest' = [forest EXCEPT !.drv_cache = @ \cup {d}]
            \/ /\ forest.status[d] = "absent"
               /\ forest' = [[forest EXCEPT !.status[d] = "unknown"] EXCEPT !.drv_cache = @ \cup {d}]
        BY <1>4, <3>1 DEF ApplyRead, ApplyDerivationError, Entry
      <4>2. CASE forest' = [forest EXCEPT !.drv_cache = @ \cup {d}]
        BY <1>2, <2>1, <4>2 DEF Forests
      <4>3. CASE /\ forest.status[d] = "absent"
                 /\ forest' = [[forest EXCEPT !.status[d] = "unknown"] EXCEPT !.drv_cache = @ \cup {d}]
        <5> DEFINE marked == [forest.status EXCEPT ![d] = "unknown"]
                   f == [forest EXCEPT !.status = marked]
        <5>1. marked \in [Paths -> Statuses]
          BY <1>2, <2>1 DEF Forests, Statuses
        <5>2. /\ marked[d] = "unknown" /\ forest.status[d] = "absent"
              /\ \A p \in Paths : p # d => marked[p] = forest.status[p]
          BY <1>2, <2>1, <4>3 DEF Forests
        <5>3. [forest EXCEPT !.status[d] = "unknown"] = f
          BY <1>2 DEF Forests
        <5> HIDE DEF marked
        <5>4. f \in Forests /\ f.status = marked /\ f.activities = forest.activities
          BY <1>2, <5>1 DEF Forests
        <5>5. forest' = [f EXCEPT !.drv_cache = @ \cup {d}]
          BY <4>3, <5>3
        <5> HIDE DEF f
        <5>6. forest' \in Forests /\ forest'.activities = f.activities /\ forest'.status = f.status
          BY <2>1, <5>4, <5>5 DEF Forests
        <5> QED BY <5>2, <5>4, <5>6
      <4> QED BY <4>1, <4>2, <4>3
    <3>2. CASE d \notin Unreadable
      <4> DEFINE known == [forest EXCEPT !.inputs[d] = Inputs[d], !.output_to_drv[Out[d]] = d,
                             !.drv_cache = @ \cup {d},
                             !.pending_drvs = @ \cup (Inputs[d] \ forest.drv_cache)]
      <4>1. known \in Forests /\ known.status = forest.status /\ known.activities = forest.activities
        BY <1>2, <2>1 DEF Forests
      <4>2. forest' = [known EXCEPT !.status = [p \in Paths |->
                         IF p \in Inputs[d] \cup {d} /\ @[p] = "absent" THEN "unknown" ELSE @[p]]]
        BY <1>4, <3>2 DEF ApplyRead, ApplyDerivation
      <4> HIDE DEF known
      <4> QED BY <4>1, <4>2 DEF Forests, Statuses
    <3> QED BY <3>1, <3>2
  <2>3. \A e \in Drvs : /\ forest'.status[e] \in Begun <=> forest.status[e] \in Begun
                        /\ forest'.status[e] = "building" => forest.status[e] = "building"
    BY <1>2, <2>2 DEF Begun
  <2> QED BY <1>1, <1>4, <2>2, <2>3, SameCounts DEF CountInv, CountType, Trackers
<1> QED BY <1>3, <1>4 DEF ResolvePending

(* Nothing has been counted before the first line. *)
LEMMA InitCounts == BFInit => CountInv
<1> SUFFICES ASSUME BFInit PROVE CountInv
  OBVIOUS
<1>1. /\ phase = Before /\ running = {} /\ stream = "open" /\ forest = EmptyForest
      /\ tracker = NoCounts
  BY DEF BFInit
<1>2. CountType
  BY <1>1 DEF CountType, Trackers, Before, Phases, EmptyForest, NoCounts, Forests, Statuses
<1>3. Following
  BY <1>1 DEF Following, Before, EmptyForest, Begun, Paths
<1>4. BegunDrvs = {} /\ Builds = {} /\ Copies = {}
  BY <1>1 DEF BegunDrvs, Builds, Copies, EmptyForest, Begun, Paths
<1>5. Counting
  BY <1>1, <1>4, FS_EmptySet DEF Counting, NoCounts
<1> QED BY <1>2, <1>3, <1>5 DEF CountInv

(* Every step keeps the counts. *)
LEMMA NextCounts == CountInv /\ [BFNext]_bfvars => CountInv'
<1> SUFFICES ASSUME CountInv, [BFNext]_bfvars PROVE CountInv'
  OBVIOUS
<1>1. ASSUME UNCHANGED nix, UNCHANGED <<forest, tracker>>, stream' \in {stream, "ended"}
      PROVE  CountInv'
  <2>1. running' = running /\ phase' = phase /\ forest' = forest /\ tracker' = tracker
    BY <1>1 DEF nix
  <2> QED BY <1>1, <2>1, SameCounts DEF CountInv, CountType, Trackers
<1>2. CASE StreamEnds \/ ReadDrv \/ Poll \/ Idle \/ UNCHANGED bfvars
  BY <1>1, <1>2 DEF StreamEnds, ReadDrv, Poll, Idle, bfvars, nix
<1>3. ASSUME NEW d \in Drvs, NixStep(d)
      PROVE  CountInv'
  <2>1. CASE Query(d)
    BY <2>1, OtherStart DEF Query
  <2>2. CASE QueryDone(d)
    BY <2>2, OtherStop DEF QueryDone
  <2>3. CASE Substitute(d)
    BY <2>3, OtherStart DEF Substitute
  <2>4. CASE SubstituteDone(d)
    BY <2>4, OtherStop DEF SubstituteDone
  <2>5. CASE BuildLog(d) \/ CopyStatus(d)
    BY <2>5, ReportCounts DEF BuildLog, CopyStatus, Kinds
  <2>6. CASE CopyDone(d)
    BY <2>6, OtherStop DEF CopyDone
  <2> QED BY <1>3, <2>1, <2>2, <2>3, <2>4, <2>5, <2>6, BuildStarts, BuildEnds, ErrorCounts, CopyStarts
          DEF NixStep
<1> QED BY <1>2, <1>3, AnnounceCounts, ResolveCounts DEF BFNext

(* The counts an engine reports as final are exact (BuildTracker::feed of the
   nix-build-forest crate), whatever nix builds, copies, substitutes and
   queries, for any number of derivations. *)
THEOREM FinalCountsAreTrue == BFSpec => []FinalCountsTrue
<1>1. CountInv => FinalCountsTrue
  <2> SUFFICES ASSUME CountInv PROVE FinalCountsTrue
    OBVIOUS
  <2>1. Cardinality(Builds) \in Nat /\ tracker.finished \in Nat /\ tracker.fetched_done \in Nat
        /\ tracker.fetched \in Nat
    BY FS_CardinalityType DEF CountInv, CountType, Trackers, Counting
  <2>2. tracker.finished <= tracker.built /\ tracker.fetched_done <= tracker.fetched
    BY <2>1 DEF CountInv, Counting
  <2>3. ASSUME running = {}
        PROVE  /\ tracker.finished = tracker.built /\ tracker.fetched_done = tracker.fetched
               /\ tracker.built = Cardinality({d \in Drvs : forest.status[d] \in {"built", "failed"}})
    <3>1. Builds = {} /\ Copies = {} /\ Cardinality({}) = 0
      BY <2>3, FS_EmptySet DEF Builds, Copies
    <3>2. BegunDrvs = {d \in Drvs : forest.status[d] \in {"built", "failed"}}
      BY <2>3 DEF BegunDrvs, Begun, CountInv, Following
    <3> QED BY <2>1, <3>1, <3>2 DEF CountInv, Counting
  <2> QED BY <2>2, <2>3 DEF FinalCountsTrue
<1> QED BY <1>1, InitCounts, NextCounts, PTL DEF BFSpec

(***************************************************************************)
(* The frontend's forest.  The invariant relates what a frontend has        *)
(* applied, the records and reads it has still to apply, and the engine's   *)
(* forest; it is kept by every line of nix (which adds to what waits) and   *)
(* by every message fed (which takes from it), in the order of the log.     *)
(***************************************************************************)

----------------------------------------------------------------------------
(* Folds.  Induction over the natural numbers is taken from their being well
   founded, in the form of a least element. *)

(* Every non-empty set of numbers has a least one. *)
LEMMA LeastNatural ==
  ASSUME NEW T \in SUBSET Nat, T # {}
  PROVE  \E x \in T : \A y \in T : x <= y
<1>1. IsWellFoundedOn(OpToRel(<, Nat), Nat)
  BY NatLessThanWellFounded
<1>2. PICK x \in T : \A y \in T : ~ (<<y, x>> \in OpToRel(<, Nat))
  BY <1>1, WFMin
<1>3. \A y \in T : ~ (y < x)
  BY <1>2 DEF OpToRel
<1> QED BY <1>3

(* A set that holds 0 and with every number up to n the next one holds them all. *)
LEMMA UpTo ==
  ASSUME NEW n \in Nat, NEW T, 0 \in T, \A k \in 0..(n - 1) : k \in T => k + 1 \in T
  PROVE  \A k \in 0..n : k \in T
<1> SUFFICES ASSUME {k \in 0..n : k \notin T} # {}
             PROVE  FALSE
  OBVIOUS
<1>1. {k \in 0..n : k \notin T} \in SUBSET Nat
  OBVIOUS
<1>2. PICK x \in {k \in 0..n : k \notin T} : \A y \in {k \in 0..n : k \notin T} : x <= y
  BY <1>1, LeastNatural
<1>3. x # 0 /\ x - 1 \in 0..(n - 1) /\ x - 1 \in T
  BY <1>2
<1> QED BY <1>2, <1>3

(* A bounded set of numbers has its maximum. *)
LEMMA MaxIn ==
  ASSUME NEW n \in Nat, NEW u \in SUBSET (1..n), u # {}
  PROVE  Max(u) \in u /\ \A y \in u : Max(u) >= y
<1> DEFINE T == {k \in Nat : \A y \in u : y <= k}
<1>1. T \in SUBSET Nat /\ n \in T
  OBVIOUS
<1>2. PICK x \in T : \A y \in T : x <= y
  BY <1>1, LeastNatural
<1>3. x \in u
  <2> SUFFICES ASSUME x \notin u PROVE FALSE
    OBVIOUS
  <2>1. \A y \in u : y <= x /\ y # x /\ y \in 1..n
    BY <1>2
  <2>2. x # 0
    <3>1. PICK y : y \in u
      OBVIOUS
    <3> QED BY <2>1, <3>1
  <2>3. x - 1 \in T
    BY <1>2, <2>1, <2>2
  <2> QED BY <1>2, <2>3
<1>4. \E k \in u : \A y \in u : k >= y
  BY <1>2, <1>3
<1> QED BY <1>4 DEF Max

(* it is the fold of s over the sets of its indices. *)
Solves(it, F, b, n, s) ==
  it = [u \in SUBSET (1..n) |-> IF u = {} THEN b ELSE F[it[u \ {Max(u)}]][s[Max(u)]]]

(* The recursion by which the folds of the library are defined has a solution,
   whatever is folded. *)
LEMMA Solvable ==
  ASSUME NEW T, NEW E, NEW F \in [T -> [E -> T]], NEW b \in T,
         NEW n \in Nat, NEW s, \A i \in 1..n : s[i] \in E
  PROVE  \E it \in [SUBSET (1..n) -> T] : Solves(it, F, b, n, s)
<1> DEFINE G == {k \in 0..n : \E it \in [SUBSET (1..k) -> T] : Solves(it, F, b, k, s)}
<1>1. 0 \in G
  <2> DEFINE it == [u \in SUBSET (1..0) |-> b]
  <2>1. \A u \in SUBSET (1..0) : u = {}
    OBVIOUS
  <2>2. Solves(it, F, b, 0, s)
    BY <2>1 DEF Solves
  <2>3. it \in [SUBSET (1..0) -> T]
    OBVIOUS
  <2>4. \E x \in [SUBSET (1..0) -> T] : Solves(x, F, b, 0, s)
    BY <2>2, <2>3
  <2>5. 0 \in 0..n
    OBVIOUS
  <2> QED BY <2>4, <2>5
<1>2. \A k \in 0..(n - 1) : k \in G => k + 1 \in G
  <2> SUFFICES ASSUME NEW k \in 0..(n - 1), k \in G
               PROVE  k + 1 \in G
    OBVIOUS
  <2>1. PICK it \in [SUBSET (1..k) -> T] : Solves(it, F, b, k, s)
    OBVIOUS
  <2> DEFINE next == [u \in SUBSET (1..(k + 1)) |->
                        IF k + 1 \in u THEN F[it[u \ {k + 1}]][s[k + 1]] ELSE it[u]]
  <2>2. \A u \in SUBSET (1..(k + 1)) : u \ {k + 1} \in SUBSET (1..k)
    OBVIOUS
  <2>3. \A u \in SUBSET (1..(k + 1)) : k + 1 \notin u => u \in SUBSET (1..k)
    <3> SUFFICES ASSUME NEW u \in SUBSET (1..(k + 1)), k + 1 \notin u, NEW y \in u
                 PROVE  y \in 1..k
      OBVIOUS
    <3>1. y \in 1..(k + 1) /\ y # k + 1
      OBVIOUS
    <3> QED BY <3>1
  <2>n. k \in Nat /\ k + 1 \in Nat
    OBVIOUS
  <2>4. s[k + 1] \in E
    OBVIOUS
  <2>5. next \in [SUBSET (1..(k + 1)) -> T]
    BY <2>2, <2>3, <2>4
  <2>6. ASSUME NEW u \in SUBSET (1..(k + 1))
        PROVE  next[u] = IF u = {} THEN b ELSE F[next[u \ {Max(u)}]][s[Max(u)]]
    <3>1. CASE k + 1 \in u
      <4>0. u # {}
        BY <3>1
      <4>1. Max(u) \in u /\ Max(u) >= k + 1
        BY <2>n, <3>1, <4>0, MaxIn
      <4>2. Max(u) \in 1..(k + 1)
        BY <4>1
      <4>6. \A m \in 1..(k + 1) : m >= k + 1 => m = k + 1
        BY <2>n
      <4>5. Max(u) = k + 1
        BY <4>1, <4>2, <4>6
      <4>3. u \ {k + 1} \in SUBSET (1..(k + 1)) /\ k + 1 \notin u \ {k + 1}
        OBVIOUS
      <4>4. next[u \ {k + 1}] = it[u \ {k + 1}]
        BY <4>3
      <4> QED BY <3>1, <4>5, <4>4
    <3>2. CASE k + 1 \notin u /\ u # {}
      <4>1. u \in SUBSET (1..k) /\ Max(u) \in u
        BY <2>3, <2>n, <3>2, MaxIn
      <4>2. next[u] = it[u]
        BY <3>2
      <4>3. next[u \ {Max(u)}] = it[u \ {Max(u)}]
        BY <3>2
      <4>4. it[u] = F[it[u \ {Max(u)}]][s[Max(u)]]
        BY <2>1, <3>2, <4>1 DEF Solves
      <4> QED BY <3>2, <4>2, <4>3, <4>4
    <3>3. CASE u = {}
      <4>1. u \in SUBSET (1..k) /\ it[u] = b
        BY <2>1, <3>3 DEF Solves
      <4> QED BY <3>3, <4>1
    <3> QED BY <3>1, <3>2, <3>3
  <2> HIDE DEF next
  <2>7. Solves(next, F, b, k + 1, s)
    BY <2>5, <2>6 DEF Solves
  <2> QED BY <2>5, <2>7
<1>3. n \in G
  <2> HIDE DEF G
  <2>1. \A k \in 0..n : k \in G
    BY <1>1, <1>2, UpTo
  <2> QED BY <2>1
<1> QED BY <1>3

----------------------------------------------------------------------------
(* What a frontend that has applied part of what it was sent knows: f is its
   forest, R the retained messages it has still to be fed, todo the derivations
   whose reading it has asked for. *)

Messages == {Start(a) : a \in Activities} \cup {Stop(a) : a \in Activities}
            \cup {Result(a) : a \in Activities}
            \cup {Msg(level, ds) : level \in {0, 1, 3}, ds \in SUBSET Drvs}

(* What nix never says after m. *)
Earlier == [substitute |-> {}, build |-> {"substitute"}, copy |-> {"substitute", "build"},
            query |-> {}]
Obsolete(m) ==
  IF m.action = "start"
    THEN {m} \cup UNION {{Start(Act(k, m.of.drv)), Stop(Act(k, m.of.drv))} : k \in Earlier[m.of.kind]}
  ELSE IF m.action = "stop" THEN {Start(m.of), m}
  ELSE IF m.action = "msg" /\ m.level = 0 THEN {Start(Act("build", d)) : d \in m.drvs}
  ELSE {}
Ordered(s) == \A i, j \in DOMAIN s : i < j => s[j] \notin Obsolete(s[i])

(* A message that can be waiting. *)
Sent(m) ==
  /\ m \in Messages
  /\ m.action # "msg" => m.of.kind # "query"
  /\ m.action = "result" => forest.status[PathOf(m.of)] # "absent"
  /\ m.action = "msg" => \/ m.level = 0 /\ \E d \in Drvs : m.drvs = {d} /\ forest.status[d] \in Begun
                         \/ m.level = 1 /\ \A d \in m.drvs : forest.status[d] # "absent"

(* What runs is what the frontend will have running when it is fed. *)
Touched(f, R, a) == a \in f.activities \/ Start(a) \in R
Live(f, R) ==
  /\ \A a \in f.activities : a.kind # "query"
  /\ \A a \in Activities : a.kind # "query" =>
       /\ a \in running <=> Touched(f, R, a) /\ Stop(a) \notin R
       /\ Stop(a) \in R => Touched(f, R, a)
       /\ a \in f.activities => Start(a) \notin R

(* How far nix was with d when it said what is waiting. *)
Waits(R, kind, d) == Start(Act(kind, d)) \in R \/ Stop(Act(kind, d)) \in R
Staged(f, R) == \A d \in Drvs :
  /\ Touched(f, R, Act("build", d)) => forest.status[d] \in Begun
  /\ Touched(f, R, Act("copy", d)) => phase[d] = "copied"
  /\ Touched(f, R, Act("substitute", d)) => phase[d] # "wanted"
  /\ forest.status[d] \in Begun /\ Waits(R, "substitute", d) => Start(Act("build", d)) \in R
  /\ phase[d] = "copied" /\ (Waits(R, "substitute", d) \/ Waits(R, "build", d))
       => Start(Act("copy", d)) \in R
  /\ f.status[d] = "failed" => Start(Act("build", d)) \notin R

(* What the frontend shows of d. *)
Shown(f, R) ==
  /\ \A d \in Drvs :
       /\ forest.status[d] = "failed" <=> f.status[d] = "failed" \/ Msg(0, {d}) \in R
       /\ forest.status[d] \in Begun /\ Start(Act("build", d)) \notin R /\ f.status[d] # "failed"
            => f.status[d] \in IF Act("build", d) \in f.activities THEN {"building"}
                               ELSE {"built", "downloading"}
       /\ f.status[d] \in {"downloading", "substituting"}
            => /\ f.output_to_drv[Out[d]] = d
               /\ Act("copy", d) \in f.activities \/ Act("substitute", d) \in f.activities
  /\ \A o \in Outs : f.status[o] \in {"absent", "unknown"}

(* What has been read of the derivations, and what is still to be. *)
Read(f, todo) ==
  /\ f.pending_drvs \cup f.drv_cache \cup todo \subseteq Nodes(f)
  /\ Nodes(f) \cap Drvs \subseteq f.pending_drvs \cup f.drv_cache \cup todo
  /\ \A d \in Drvs :
       /\ f.output_to_drv[Out[d]] \in {None, d}
       /\ f.output_to_drv[Out[d]] = d => d \in f.drv_cache
       /\ f.inputs[d] = IF d \in f.drv_cache \ Unreadable THEN Inputs[d] ELSE {}
       /\ f.inputs[d] \subseteq Nodes(f)

(* The frontend's graph is within any that holds the engine's nodes and the
   inputs of its own. *)
Bounded(f) ==
  \A S \in SUBSET Paths :
    Nodes(forest) \subseteq S /\ (\A d \in S \cap (Drvs \ Unreadable) : Inputs[d] \subseteq S)
      => Nodes(f) \subseteq S

View(f, R, todo) ==
  /\ f \in Forests /\ todo \subseteq Drvs /\ \A m \in R : Sent(m)
  /\ Live(f, R) /\ Staged(f, R) /\ Shown(f, R) /\ Read(f, todo) /\ Bounded(f)

(* The engine's side. *)
Elements(s) == {s[i] : i \in DOMAIN s}
EngineSide ==
  /\ Read(forest, {})
  /\ stream = "resolved" => forest.pending_drvs = {}
  /\ filter = {a \in running : a.kind # "query"}
  /\ \A d \in Drvs : /\ Act("build", d) \in running => forest.status[d] \in {"building", "failed"}
                     /\ forest.status[d] = "failed" => phase[d] \in {"failing", "failed"}
  /\ \A o \in Outs : forest.status[o] \in {"absent", "unknown"}

ObserverInv ==
  /\ EngineSide
  /\ log \in Seq(Messages) /\ Ordered(log)
  /\ requests \in Seq(Drvs) /\ results \in Seq(Drvs)
  /\ observed.pending_drvs = {}
  /\ View(observed, Elements(log), Elements(requests) \cup Elements(results))

----------------------------------------------------------------------------
(* The operations on a forest keep its type. *)

(* Reading a derivation: what it changes (apply_derivation of forest.rs). *)
LEMMA ReadEffect ==
  ASSUME NEW f \in Forests, NEW d \in Drvs
  PROVE  LET g == ApplyRead(f, d)
             met == IF d \in Unreadable THEN {d} ELSE Inputs[d] \cup {d}
         IN /\ g \in Forests /\ g.activities = f.activities
            /\ g.status = [p \in Paths |-> IF p \in met /\ f.status[p] = "absent" THEN "unknown"
                                            ELSE f.status[p]]
            /\ g.drv_cache = f.drv_cache \cup {d}
            /\ g.pending_drvs = IF d \in Unreadable THEN f.pending_drvs
                                ELSE f.pending_drvs \cup (Inputs[d] \ f.drv_cache)
            /\ g.inputs = IF d \in Unreadable THEN f.inputs ELSE [f.inputs EXCEPT ![d] = Inputs[d]]
            /\ g.output_to_drv = IF d \in Unreadable THEN f.output_to_drv
                                 ELSE [f.output_to_drv EXCEPT ![Out[d]] = d]
<1> DEFINE g == ApplyRead(f, d)
<1>1. d \in Paths /\ Out[d] \in Outs /\ Inputs[d] \in SUBSET Drvs
  BY InputsAssumption DEF Paths, Outs
<1>2. CASE d \in Unreadable
  <2> DEFINE marked == [p \in Paths |-> IF p = d /\ f.status[p] = "absent" THEN "unknown"
                                        ELSE f.status[p]]
  <2>1. marked \in [Paths -> Statuses]
    BY DEF Forests, Statuses
  <2>2. Entry(f, d).status = marked
    <3>1. CASE f.status[d] = "absent"
      <4>1. Entry(f, d) = [f EXCEPT !.status[d] = "unknown"]
        BY <3>1 DEF Entry
      <4> QED BY <1>1, <3>1, <4>1 DEF Forests
    <3>2. CASE f.status[d] # "absent"
      <4>1. Entry(f, d) = f
        BY <3>2 DEF Entry
      <4> QED BY <1>1, <3>2, <4>1 DEF Forests
    <3> QED BY <3>1, <3>2
  <2> HIDE DEF marked
  <2>3. Entry(f, d) = [f EXCEPT !.status = marked]
    <3>1. Entry(f, d) = [f EXCEPT !.status = Entry(f, d).status]
      BY DEF Entry, Forests
    <3> QED BY <2>2, <3>1
  <2>4. g = [f EXCEPT !.status = marked, !.drv_cache = @ \cup {d}]
    BY <1>2, <2>3 DEF ApplyRead, ApplyDerivationError, Forests
  <2>5. /\ g \in Forests /\ g.activities = f.activities /\ g.status = marked
        /\ g.drv_cache = f.drv_cache \cup {d} /\ g.pending_drvs = f.pending_drvs
        /\ g.inputs = f.inputs /\ g.output_to_drv = f.output_to_drv
    BY <2>1, <2>4, ZenonT(40) DEF Forests
  <2> HIDE DEF g
  <2> QED BY <1>2, <2>5 DEF marked, g
<1>3. CASE d \notin Unreadable
  <2> DEFINE marked == [p \in Paths |-> IF p \in Inputs[d] \cup {d} /\ f.status[p] = "absent"
                                        THEN "unknown" ELSE f.status[p]]
             edges == [f.inputs EXCEPT ![d] = Inputs[d]]
             makers == [f.output_to_drv EXCEPT ![Out[d]] = d]
             wanted == f.pending_drvs \cup (Inputs[d] \ f.drv_cache)
  <2>1. /\ marked \in [Paths -> Statuses] /\ edges \in [Drvs -> SUBSET Drvs]
        /\ makers \in [Outs -> Drvs \cup {None}] /\ wanted \in SUBSET Drvs
    BY <1>1 DEF Forests, Statuses
  <2>2. g = [f EXCEPT !.status = marked, !.inputs = edges, !.output_to_drv = makers,
                      !.drv_cache = @ \cup {d}, !.pending_drvs = wanted]
    BY <1>3 DEF ApplyRead, ApplyDerivation, Forests
  <2> HIDE DEF marked, edges, makers, wanted, g
  <2>3. /\ g \in Forests /\ g.activities = f.activities /\ g.status = marked
        /\ g.drv_cache = f.drv_cache \cup {d} /\ g.pending_drvs = wanted
        /\ g.inputs = edges /\ g.output_to_drv = makers
    BY <2>1, <2>2 DEF Forests
  <2> QED BY <1>3, <2>3 DEF marked, edges, makers, wanted, g
<1> QED BY <1>2, <1>3

(* A forest that has read a derivation is a forest. *)
LEMMA ReadType ==
  ASSUME NEW f \in Forests, NEW d \in Drvs
  PROVE  ApplyRead(f, d) \in Forests
BY ReadEffect

(* What feeding a message does (BuildForest::feed). *)
Kept(f, g) == /\ g \in Forests /\ g.inputs = f.inputs /\ g.output_to_drv = f.output_to_drv
              /\ g.drv_cache = f.drv_cache

(* The node and the path of an activity, and how it is named. *)
LEMMA NodeType ==
  ASSUME NEW f \in Forests, NEW a \in Activities
  PROVE  /\ NodeOf(f, a) \in Drvs \cup {None} /\ a.kind \in Kinds /\ a.drv \in Drvs
         /\ PathOf(a) \in Paths /\ Out[a.drv] \in Outs /\ Drvs \subseteq Paths
         /\ a = Act(a.kind, a.drv)
BY DEF NodeOf, Forests, Activities, Outs, PathOf, Paths, Act

(* What feeding a start changes (FeedStart). *)
LEMMA StartFed ==
  ASSUME NEW f \in Forests, NEW a \in Activities
  PROVE  LET g == FeedMessage(f, Start(a))
             node == NodeOf(f, a)
         IN /\ Kept(f, g) /\ g.activities = f.activities \cup {a}
            /\ g.pending_drvs = IF a.kind = "build" THEN f.pending_drvs \cup {a.drv}
                                ELSE f.pending_drvs
            /\ g.status = IF a.kind # "query" /\ node # None
                            THEN [f.status EXCEPT ![node] = StartStatus[a.kind]] ELSE f.status
            /\ a.kind # "query" => StartStatus[a.kind] \in {"building", "downloading", "substituting"}
<1> DEFINE node == NodeOf(f, a)
           wanted == IF a.kind = "build" THEN f.pending_drvs \cup {a.drv} ELSE f.pending_drvs
           marked == IF a.kind # "query" /\ node # None
                       THEN [f.status EXCEPT ![node] = StartStatus[a.kind]] ELSE f.status
           g == FeedMessage(f, Start(a))
<1>1. node \in Drvs \cup {None} /\ a.kind \in Kinds /\ a.drv \in Drvs /\ Drvs \subseteq Paths
  BY NodeType
<1>2. a.kind # "query" => /\ a.kind \in DOMAIN StartStatus
                          /\ StartStatus[a.kind] \in {"building", "downloading", "substituting"}
  BY <1>1 DEF StartStatus, Kinds
<1>3. a.kind = "query" => a.kind \notin DOMAIN StartStatus
  BY DEF StartStatus
<1>4. marked \in [Paths -> Statuses] /\ wanted \in SUBSET Drvs
  BY <1>1, <1>2 DEF Forests, Statuses
<1>5. Start(a).action = "start" /\ Start(a).of = a
  BY DEF Start
<1>6. g = FeedStart(f, a)
  BY <1>5 DEF FeedMessage
<1>7. g = [f EXCEPT !.status = marked, !.activities = @ \cup {a}, !.pending_drvs = wanted]
  BY <1>1, <1>2, <1>3, <1>6 DEF FeedStart, Mark, Forests
<1> HIDE DEF marked, wanted, g
<1>8. /\ Kept(f, g) /\ g.activities = f.activities \cup {a} /\ g.pending_drvs = wanted
      /\ g.status = marked
  BY <1>4, <1>7 DEF Forests, Kept
<1> QED BY <1>2, <1>8 DEF marked, wanted, g

(* What feeding a stop changes. *)
LEMMA StopFed ==
  ASSUME NEW f \in Forests, NEW a \in Activities
  PROVE  LET g == FeedMessage(f, Stop(a))
             node == NodeOf(f, a)
         IN /\ Kept(f, g) /\ g.activities = f.activities \ {a} /\ g.pending_drvs = f.pending_drvs
            /\ g.status = IF /\ a \in f.activities /\ a.kind # "query" /\ node # None
                             /\ f.status[node] # "failed"
                            THEN [f.status EXCEPT ![node] = "built"] ELSE f.status
<1> DEFINE node == NodeOf(f, a)
           marked == IF /\ a \in f.activities /\ a.kind # "query" /\ node # None
                        /\ f.status[node] # "failed"
                       THEN [f.status EXCEPT ![node] = "built"] ELSE f.status
           g == FeedMessage(f, Stop(a))
<1>1. node \in Drvs \cup {None} /\ a.kind \in Kinds /\ Drvs \subseteq Paths
  BY NodeType
<1>2. a.kind # "query" <=> a.kind \in DOMAIN StartStatus
  BY <1>1 DEF StartStatus, Kinds
<1>4. marked \in [Paths -> Statuses]
  BY <1>1 DEF Forests, Statuses
<1>5. Stop(a).action = "stop" /\ Stop(a).of = a
  BY DEF Stop
<1>6. g = FeedStop(f, a)
  BY <1>5 DEF FeedMessage
<1>7. g = [f EXCEPT !.status = marked, !.activities = @ \ {a}]
  <2>1. CASE a \notin f.activities
    BY <1>6, <2>1, ZenonT(40) DEF FeedStop, Forests
  <2>2. CASE /\ a \in f.activities /\ a.kind # "query" /\ node # None /\ f.status[node] # "failed"
    BY <1>1, <1>2, <1>6, <2>2 DEF FeedStop, Mark, Forests
  <2>3. CASE a \in f.activities /\ (a.kind = "query" \/ node = None \/ f.status[node] = "failed")
    BY <1>1, <1>2, <1>6, <2>3 DEF FeedStop, Forests
  <2> QED BY <2>1, <2>2, <2>3
<1> HIDE DEF marked, g
<1>8. Kept(f, g) /\ g.activities = f.activities \ {a} /\ g.pending_drvs = f.pending_drvs
      /\ g.status = marked
  BY <1>4, <1>7 DEF Forests, Kept
<1> QED BY <1>8 DEF marked, g

(* What feeding a result changes. *)
LEMMA ResultFed ==
  ASSUME NEW f \in Forests, NEW a \in Activities
  PROVE  LET g == FeedMessage(f, Result(a))
         IN /\ Kept(f, g) /\ g.activities = f.activities /\ g.pending_drvs = f.pending_drvs
            /\ a \in f.activities => g.status[PathOf(a)] # "absent"
            /\ \/ g.status = f.status
               \/ /\ a \in f.activities /\ f.status[PathOf(a)] = "absent"
                  /\ g.status = [f.status EXCEPT ![PathOf(a)] = "unknown"]
<1> DEFINE g == FeedMessage(f, Result(a))
<1>1. Result(a).action = "result" /\ Result(a).of = a
  BY DEF Result
<1>2. g = FeedResult(f, a)
  BY <1>1 DEF FeedMessage
<1>3. PathOf(a) \in Paths
  BY NodeType
<1>4. CASE a \in f.activities /\ f.status[PathOf(a)] = "absent"
  <2> DEFINE marked == [f.status EXCEPT ![PathOf(a)] = "unknown"]
  <2>1. marked \in [Paths -> Statuses]
    BY <1>3 DEF Forests, Statuses
  <2>2. g = [f EXCEPT !.status = marked]
    BY <1>2, <1>4 DEF FeedResult, Entry, Forests
  <2> HIDE DEF marked, g
  <2>3. Kept(f, g) /\ g.activities = f.activities /\ g.pending_drvs = f.pending_drvs
        /\ g.status = marked
    BY <2>1, <2>2 DEF Forests, Kept
  <2>4. marked[PathOf(a)] = "unknown"
    BY <1>3 DEF marked, Forests
  <2> QED BY <1>4, <2>3, <2>4 DEF marked, g
<1>5. CASE ~ (a \in f.activities /\ f.status[PathOf(a)] = "absent")
  <2>1. g = f
    BY <1>2, <1>5 DEF FeedResult, Entry
  <2> HIDE DEF g
  <2>2. Kept(f, g) /\ g.activities = f.activities /\ g.pending_drvs = f.pending_drvs
        /\ g.status = f.status
    BY <2>1 DEF Kept
  <2> QED BY <1>5, <2>2 DEF g
<1> QED BY <1>4, <1>5

(* What feeding a message changes. *)
LEMMA MsgFed ==
  ASSUME NEW f \in Forests, NEW level \in {0, 1, 3}, NEW ds \in SUBSET Drvs
  PROVE  LET g == FeedMessage(f, Msg(level, ds))
         IN /\ Kept(f, g) /\ g.activities = f.activities
            /\ g.pending_drvs = IF level = 0 THEN f.pending_drvs ELSE f.pending_drvs \cup ds
            /\ g.status = [p \in Paths |-> IF p \notin ds THEN f.status[p]
                                           ELSE IF level = 0 THEN "failed"
                                           ELSE IF f.status[p] \in {"absent", "unknown"} THEN "planned"
                                           ELSE f.status[p]]
<1> DEFINE g == FeedMessage(f, Msg(level, ds))
           marked == [p \in Paths |-> IF p \notin ds THEN f.status[p]
                                      ELSE IF level = 0 THEN "failed"
                                      ELSE IF f.status[p] \in {"absent", "unknown"} THEN "planned"
                                      ELSE f.status[p]]
           wanted == IF level = 0 THEN f.pending_drvs ELSE f.pending_drvs \cup ds
<1>1. Msg(level, ds).action = "msg" /\ Msg(level, ds).level = level /\ Msg(level, ds).drvs = ds
  BY DEF Msg
<1>2. g = FeedMsg(f, level, ds)
  BY <1>1 DEF FeedMessage
<1>3. marked \in [Paths -> Statuses] /\ wanted \in SUBSET Drvs
  BY DEF Forests, Statuses
<1>4. g = [f EXCEPT !.status = marked, !.pending_drvs = wanted]
  BY <1>2 DEF FeedMsg, Forests
<1> HIDE DEF g, marked, wanted
<1>5. Kept(f, g) /\ g.activities = f.activities /\ g.pending_drvs = wanted /\ g.status = marked
  BY <1>3, <1>4 DEF Forests, Kept
<1> QED BY <1>5 DEF g, marked, wanted

(* Feeding keeps the type of a forest. *)
LEMMA MessageType ==
  ASSUME NEW f \in Forests, NEW m \in Messages
  PROVE  FeedMessage(f, m) \in Forests
<1>1. ASSUME NEW a \in Activities, m = Start(a) PROVE FeedMessage(f, m) \in Forests
  BY <1>1, StartFed DEF Kept
<1>2. ASSUME NEW a \in Activities, m = Stop(a) PROVE FeedMessage(f, m) \in Forests
  BY <1>2, StopFed DEF Kept
<1>3. ASSUME NEW a \in Activities, m = Result(a) PROVE FeedMessage(f, m) \in Forests
  BY <1>3, ResultFed DEF Kept
<1>4. ASSUME NEW level \in {0, 1, 3}, NEW ds \in SUBSET Drvs, m = Msg(level, ds)
      PROVE  FeedMessage(f, m) \in Forests
  BY <1>4, MsgFed DEF Kept
<1> QED BY <1>1, <1>2, <1>3, <1>4 DEF Messages

(* Folding reads into a forest reads one derivation after the other. *)
LEMMA ReadRun ==
  ASSUME NEW s \in Seq(Drvs), NEW b \in Forests
  PROVE  \E g \in [0..Len(s) -> Forests] :
           /\ g[0] = b /\ FoldLeft(ApplyRead, b, s) = g[Len(s)]
           /\ \A k \in 0..(Len(s) - 1) : g[k + 1] = ApplyRead(g[k], s[k + 1])
<1>n. PICK n \in Nat : n = Len(s) /\ DOMAIN s = 1..n /\ \A i \in 1..n : s[i] \in Drvs
  OBVIOUS
<1> DEFINE Folds(it) == it = [u \in SUBSET (DOMAIN s) |->
                                IF u = {} THEN b ELSE ApplyRead(it[u \ {Max(u)}], s[Max(u)])]
           F == [x \in Forests |-> [e \in Drvs |-> ApplyRead(x, e)]]
<1>1. \E it : Folds(it)
  <2>1. F \in [Forests -> [Drvs -> Forests]]
    BY ReadType
  <2>2. PICK it \in [SUBSET (1..n) -> Forests] : Solves(it, F, b, n, s)
    <3>1. \A i \in 1..n : s[i] \in Drvs
      BY <1>n
    <3> HIDE DEF F
    <3> QED BY <2>1, <3>1, Solvable, ZenonT(30)
  <2>3. ASSUME NEW u \in SUBSET (1..n), u # {}
        PROVE  F[it[u \ {Max(u)}]][s[Max(u)]] = ApplyRead(it[u \ {Max(u)}], s[Max(u)])
    <3>1. Max(u) \in 1..n
      BY <1>n, <2>3, MaxIn
    <3>2. it[u \ {Max(u)}] \in Forests /\ s[Max(u)] \in Drvs
      BY <1>n, <3>1
    <3> QED BY <3>2
  <2>4. Folds(it)
    BY <1>n, <2>2, <2>3 DEF Solves
  <2> QED BY <2>4
<1>2. FoldLeft(ApplyRead, b, s) = (CHOOSE it : Folds(it))[DOMAIN s]
  BY DEF FoldLeft, MapThenFoldSet
<1>3. PICK it : Folds(it) /\ FoldLeft(ApplyRead, b, s) = it[DOMAIN s]
  BY <1>1, <1>2
<1> DEFINE G == {k \in 0..n : it[1..k] \in Forests}
<1>4. ASSUME NEW k \in 0..(n - 1) PROVE it[1..(k + 1)] = ApplyRead(it[1..k], s[k + 1])
  <2>1. k \in Nat /\ k + 1 \in Nat /\ k + 1 \in 1..(k + 1) /\ \A i \in 1..(k + 1) : i \in 1..n
    BY <1>n
  <2>2. Max(1..(k + 1)) \in 1..(k + 1) /\ Max(1..(k + 1)) >= k + 1
    BY <2>1, MaxIn
  <2>3. \A m \in 1..(k + 1) : m >= k + 1 => m = k + 1
    BY <1>n
  <2>4. Max(1..(k + 1)) = k + 1
    BY <2>2, <2>3
  <2>5. (1..(k + 1)) \ {k + 1} = 1..k
    BY <1>n
  <2> QED BY <1>n, <1>3, <2>1, <2>4, <2>5
<1>5. it[1..0] = b
  BY <1>n, <1>3
<1>6. \A k \in 0..n : k \in G
  <2>1. 0 \in G
    BY <1>n, <1>5
  <2>2. \A k \in 0..(n - 1) : k \in G => k + 1 \in G
    <3> SUFFICES ASSUME NEW k \in 0..(n - 1), it[1..k] \in Forests
                 PROVE  k + 1 \in 0..n /\ it[1..(k + 1)] \in Forests
      OBVIOUS
    <3>1. k + 1 \in 1..n /\ k + 1 \in 0..n
      BY <1>n
    <3> QED BY <1>n, <1>4, <3>1, ReadType
  <2> HIDE DEF G
  <2> QED BY <1>n, <2>1, <2>2, UpTo
<1> DEFINE g == [k \in 0..n |-> it[1..k]]
<1>7. g \in [0..n -> Forests] /\ g[0] = b /\ g[n] = it[1..n]
  BY <1>n, <1>5, <1>6
<1>8. \A k \in 0..(n - 1) : g[k + 1] = ApplyRead(g[k], s[k + 1])
  <2> SUFFICES ASSUME NEW k \in 0..(n - 1) PROVE g[k + 1] = ApplyRead(g[k], s[k + 1])
    OBVIOUS
  <2>1. k \in 0..n /\ k + 1 \in 0..n
    BY <1>n
  <2>2. g[k] = it[1..k] /\ g[k + 1] = it[1..(k + 1)]
    BY <2>1
  <2> HIDE DEF g
  <2> QED BY <1>4, <2>2
<1> HIDE DEF g
<1> QED BY <1>n, <1>3, <1>7, <1>8

(* Folding messages feeds one after the other. *)
LEMMA MessageRun ==
  ASSUME NEW s \in Seq(Messages), NEW b \in Forests
  PROVE  \E g \in [0..Len(s) -> Forests] :
           /\ g[0] = b /\ FoldLeft(FeedMessage, b, s) = g[Len(s)]
           /\ \A k \in 0..(Len(s) - 1) : g[k + 1] = FeedMessage(g[k], s[k + 1])
<1>n. PICK n \in Nat : n = Len(s) /\ DOMAIN s = 1..n /\ \A i \in 1..n : s[i] \in Messages
  OBVIOUS
<1> DEFINE Folds(it) == it = [u \in SUBSET (DOMAIN s) |->
                                IF u = {} THEN b ELSE FeedMessage(it[u \ {Max(u)}], s[Max(u)])]
           F == [x \in Forests |-> [e \in Messages |-> FeedMessage(x, e)]]
<1>1. \E it : Folds(it)
  <2>1. F \in [Forests -> [Messages -> Forests]]
    BY MessageType
  <2>2. PICK it \in [SUBSET (1..n) -> Forests] : Solves(it, F, b, n, s)
    <3>1. \A i \in 1..n : s[i] \in Messages
      BY <1>n
    <3> HIDE DEF F
    <3> QED BY <2>1, <3>1, Solvable, ZenonT(30)
  <2>3. ASSUME NEW u \in SUBSET (1..n), u # {}
        PROVE  F[it[u \ {Max(u)}]][s[Max(u)]] = FeedMessage(it[u \ {Max(u)}], s[Max(u)])
    <3>1. Max(u) \in 1..n
      BY <1>n, <2>3, MaxIn
    <3>2. it[u \ {Max(u)}] \in Forests /\ s[Max(u)] \in Messages
      BY <1>n, <3>1
    <3> QED BY <3>2
  <2>4. Folds(it)
    BY <1>n, <2>2, <2>3 DEF Solves
  <2> QED BY <2>4
<1>2. FoldLeft(FeedMessage, b, s) = (CHOOSE it : Folds(it))[DOMAIN s]
  BY DEF FoldLeft, MapThenFoldSet
<1>3. PICK it : Folds(it) /\ FoldLeft(FeedMessage, b, s) = it[DOMAIN s]
  BY <1>1, <1>2
<1> DEFINE G == {k \in 0..n : it[1..k] \in Forests}
<1>4. ASSUME NEW k \in 0..(n - 1) PROVE it[1..(k + 1)] = FeedMessage(it[1..k], s[k + 1])
  <2>1. k \in Nat /\ k + 1 \in Nat /\ k + 1 \in 1..(k + 1) /\ \A i \in 1..(k + 1) : i \in 1..n
    BY <1>n
  <2>2. Max(1..(k + 1)) \in 1..(k + 1) /\ Max(1..(k + 1)) >= k + 1
    BY <2>1, MaxIn
  <2>3. \A m \in 1..(k + 1) : m >= k + 1 => m = k + 1
    BY <1>n
  <2>4. Max(1..(k + 1)) = k + 1
    BY <2>2, <2>3
  <2>5. (1..(k + 1)) \ {k + 1} = 1..k
    BY <1>n
  <2> QED BY <1>n, <1>3, <2>1, <2>4, <2>5
<1>5. it[1..0] = b
  BY <1>n, <1>3
<1>6. \A k \in 0..n : k \in G
  <2>1. 0 \in G
    BY <1>n, <1>5
  <2>2. \A k \in 0..(n - 1) : k \in G => k + 1 \in G
    <3> SUFFICES ASSUME NEW k \in 0..(n - 1), it[1..k] \in Forests
                 PROVE  k + 1 \in 0..n /\ it[1..(k + 1)] \in Forests
      OBVIOUS
    <3>1. k + 1 \in 1..n /\ k + 1 \in 0..n
      BY <1>n
    <3> QED BY <1>n, <1>4, <3>1, MessageType
  <2> HIDE DEF G
  <2> QED BY <1>n, <2>1, <2>2, UpTo
<1> DEFINE g == [k \in 0..n |-> it[1..k]]
<1>7. g \in [0..n -> Forests] /\ g[0] = b /\ g[n] = it[1..n]
  BY <1>n, <1>5, <1>6
<1>8. \A k \in 0..(n - 1) : g[k + 1] = FeedMessage(g[k], s[k + 1])
  <2> SUFFICES ASSUME NEW k \in 0..(n - 1) PROVE g[k + 1] = FeedMessage(g[k], s[k + 1])
    OBVIOUS
  <2>1. k \in 0..n /\ k + 1 \in 0..n
    BY <1>n
  <2>2. g[k] = it[1..k] /\ g[k + 1] = it[1..(k + 1)]
    BY <2>1
  <2> HIDE DEF g
  <2> QED BY <1>4, <2>2
<1> HIDE DEF g
<1> QED BY <1>n, <1>3, <1>7, <1>8

(* The elements of a set, in some order. *)
LEMMA Listed ==
  ASSUME NEW S, IsFiniteSet(S)
  PROVE  SetToSeq(S) \in Seq(S) /\ Elements(SetToSeq(S)) = S
<1>1. PICK n \in Nat : n = Cardinality(S) /\ ExistsBijection(1..n, S)
  BY FS_CardinalityType
<1>2. \E f \in [1..n -> S] : IsInjective(f)
  BY <1>1 DEF ExistsBijection, Bijection, Injection
<1>3. PICK f \in [1..n -> S] : IsInjective(f) /\ SetToSeq(S) = f
  BY <1>1, <1>2 DEF SetToSeq
<1>4. f \in Injection(1..n, S)
  BY <1>3 DEF Injection
<1>5. f \in Surjection(1..n, S)
  <2>1. IsFiniteSet(1..n) /\ Cardinality(1..n) = n
    BY FS_Interval
  <2> QED BY <1>1, <1>4, <2>1, FS_Injection
<1>6. \A y \in S : \E i \in 1..n : f[i] = y
  BY <1>5 DEF Surjection
<1>7. f \in Seq(S) /\ DOMAIN f = 1..n
  OBVIOUS
<1> QED BY <1>3, <1>6, <1>7 DEF Elements

----------------------------------------------------------------------------
(* What the frontend knows stays right while it works off what waits. *)

(* Every output path has one derivation that makes it. *)
OneMaker == \A d, e \in Drvs : Out[d] = Out[e] => d = e

(* Reading keeps what has been read consistent, for engine and frontend. *)
LEMMA ReadKeepsRead ==
  ASSUME OneMaker, NEW f \in Forests, NEW todo \in SUBSET Drvs, NEW d \in Drvs, Read(f, todo \cup {d})
  PROVE  Read(ApplyRead(f, d), todo)
<1> DEFINE met == IF d \in Unreadable THEN {d} ELSE Inputs[d] \cup {d}
<1>1. PICK g : g = ApplyRead(f, d)
  OBVIOUS
<1>2. /\ g \in Forests
      /\ g.status = [p \in Paths |-> IF p \in met /\ f.status[p] = "absent" THEN "unknown"
                                     ELSE f.status[p]]
      /\ g.drv_cache = f.drv_cache \cup {d}
      /\ g.pending_drvs = IF d \in Unreadable THEN f.pending_drvs
                          ELSE f.pending_drvs \cup (Inputs[d] \ f.drv_cache)
      /\ g.inputs = IF d \in Unreadable THEN f.inputs ELSE [f.inputs EXCEPT ![d] = Inputs[d]]
      /\ g.output_to_drv = IF d \in Unreadable THEN f.output_to_drv
                           ELSE [f.output_to_drv EXCEPT ![Out[d]] = d]
  BY <1>1, ReadEffect
<1>3. /\ met \subseteq Drvs /\ Drvs \subseteq Paths /\ Out[d] \in Outs
      /\ d \notin Unreadable => Inputs[d] \subseteq Drvs /\ Inputs[d] \subseteq met
  BY InputsAssumption DEF Paths, Outs
<1>4. Nodes(g) = Nodes(f) \cup met
  BY <1>2, <1>3 DEF Nodes
<1>5. d \in Nodes(f)
  BY DEF Read
<1>6. g.pending_drvs \cup g.drv_cache \cup todo \subseteq Nodes(g)
  BY <1>2, <1>3, <1>4, <1>5 DEF Read
<1>7. Nodes(g) \cap Drvs \subseteq g.pending_drvs \cup g.drv_cache \cup todo
  <2> SUFFICES ASSUME NEW x \in Nodes(g) \cap Drvs
               PROVE  x \in g.pending_drvs \cup g.drv_cache \cup todo
    OBVIOUS
  <2>1. CASE x \in Nodes(f)
    BY <1>2, <2>1 DEF Read
  <2>2. CASE x \in met
    BY <1>2, <2>2
  <2> QED BY <1>4, <2>1, <2>2
<1>8. ASSUME NEW x \in Drvs
      PROVE  /\ g.output_to_drv[Out[x]] \in {None, x}
             /\ g.output_to_drv[Out[x]] = x => x \in g.drv_cache
             /\ g.inputs[x] = IF x \in g.drv_cache \ Unreadable THEN Inputs[x] ELSE {}
             /\ g.inputs[x] \subseteq Nodes(g)
  <2>1. Out[x] \in Outs /\ f.inputs \in [Drvs -> SUBSET Drvs] /\ f.output_to_drv \in [Outs -> Drvs \cup {None}]
    BY DEF Outs, Forests
  <2>2. /\ f.output_to_drv[Out[x]] \in {None, x}
        /\ f.output_to_drv[Out[x]] = x => x \in f.drv_cache
        /\ f.inputs[x] = IF x \in f.drv_cache \ Unreadable THEN Inputs[x] ELSE {}
        /\ f.inputs[x] \subseteq Nodes(f)
    BY DEF Read
  <2>3. CASE x = d
    BY <1>2, <1>3, <1>4, <2>1, <2>2, <2>3
  <2>4. CASE x # d
    <3>1. Out[x] # Out[d]
      BY <2>4 DEF OneMaker
    <3>2. g.output_to_drv[Out[x]] = f.output_to_drv[Out[x]] /\ g.inputs[x] = f.inputs[x]
      BY <1>2, <2>1, <2>4, <3>1
    <3> QED BY <1>2, <1>4, <2>2, <2>4, <3>2
  <2> QED BY <2>3, <2>4
<1> QED BY <1>1, <1>6, <1>7, <1>8 DEF Read

(* A frontend that applies a read derivation still shows what it should. *)
LEMMA ViewRead ==
  ASSUME OneMaker, NEW f, NEW R, NEW todo \in SUBSET Drvs, NEW d \in Drvs, View(f, R, todo \cup {d})
  PROVE  View(ApplyRead(f, d), R, todo)
<1> DEFINE met == IF d \in Unreadable THEN {d} ELSE Inputs[d] \cup {d}
<1>1. PICK g : g = ApplyRead(f, d)
  OBVIOUS
<1>2. f \in Forests /\ Read(f, todo \cup {d})
  BY DEF View
<1>3. /\ g \in Forests /\ g.activities = f.activities
      /\ g.status = [p \in Paths |-> IF p \in met /\ f.status[p] = "absent" THEN "unknown"
                                     ELSE f.status[p]]
      /\ g.output_to_drv = IF d \in Unreadable THEN f.output_to_drv
                           ELSE [f.output_to_drv EXCEPT ![Out[d]] = d]
  BY <1>1, <1>2, ReadEffect
<1>4. met \subseteq Drvs /\ Drvs \subseteq Paths /\ Outs \subseteq Paths /\ Drvs \cap Outs = {}
  BY InputsAssumption, DrvsAssumption DEF Paths
<1>5. \A p \in Paths : /\ f.status[p] # "absent" => g.status[p] = f.status[p]
                       /\ f.status[p] = "absent" => g.status[p] \in {"absent", "unknown"}
                       /\ p \notin met => g.status[p] = f.status[p]
  BY <1>3
<1>6. Read(g, todo)
  BY <1>1, <1>2, ReadKeepsRead
<1>7. Live(g, R)
  BY <1>3 DEF View, Live, Touched
<1>8. \A x \in Drvs : g.status[x] = "failed" <=> f.status[x] = "failed"
  BY <1>4, <1>5
<1>9. Staged(g, R)
  BY <1>3, <1>8 DEF View, Staged, Touched
<1>10. Shown(g, R)
  <2>1. ASSUME NEW x \in Drvs
        PROVE  /\ forest.status[x] = "failed" <=> g.status[x] = "failed" \/ Msg(0, {x}) \in R
               /\ forest.status[x] \in Begun /\ Start(Act("build", x)) \notin R /\ g.status[x] # "failed"
                    => g.status[x] \in IF Act("build", x) \in g.activities THEN {"building"}
                                       ELSE {"built", "downloading"}
    BY <1>3, <1>4, <1>5, <1>8 DEF View, Shown
  <2>2. ASSUME NEW x \in Drvs, g.status[x] \in {"downloading", "substituting"}
        PROVE  /\ g.output_to_drv[Out[x]] = x
               /\ Act("copy", x) \in g.activities \/ Act("substitute", x) \in g.activities
    <3>1. f.status[x] \in {"downloading", "substituting"}
      BY <1>4, <1>5, <2>2
    <3>2. /\ f.output_to_drv[Out[x]] = x
          /\ Act("copy", x) \in f.activities \/ Act("substitute", x) \in f.activities
      BY <3>1 DEF View, Shown
    <3>3. g.output_to_drv[Out[x]] = x
      <4>1. Out[x] \in Outs /\ f.output_to_drv \in [Outs -> Drvs \cup {None}]
        BY <1>2 DEF Outs, Forests
      <4>2. x # d => Out[x] # Out[d]
        BY DEF OneMaker
      <4> QED BY <1>3, <3>2, <4>1, <4>2
    <3> QED BY <1>3, <3>2, <3>3
  <2>3. \A o \in Outs : g.status[o] \in {"absent", "unknown"}
    BY <1>4, <1>5 DEF View, Shown
  <2> QED BY <2>1, <2>2, <2>3 DEF Shown
<1>11. Bounded(g)
  <2> SUFFICES ASSUME NEW S \in SUBSET Paths, Nodes(forest) \subseteq S,
                      \A x \in S \cap (Drvs \ Unreadable) : Inputs[x] \subseteq S,
                      NEW p \in Nodes(g)
               PROVE  p \in S
    BY DEF Bounded
  <2>1. Nodes(f) \subseteq S /\ d \in Nodes(f)
    BY DEF View, Bounded, Read
  <2>2. p \in Nodes(f) \/ p \in met
    BY <1>3 DEF Nodes
  <2> QED BY <2>1, <2>2
<1> QED BY <1>1, <1>3, <1>6, <1>7, <1>9, <1>10, <1>11 DEF View

(* Requesting what is pending loses none of it. *)
LEMMA ViewTaken ==
  ASSUME NEW f, NEW R, NEW todo, View(f, R, todo)
  PROVE  View(Taken(f), R, todo \cup TakePending(f))
<1>1. PICK g : g = Taken(f)
  OBVIOUS
<1>2. /\ f \in Forests /\ g \in Forests /\ g.status = f.status /\ g.activities = f.activities
      /\ g.inputs = f.inputs /\ g.output_to_drv = f.output_to_drv /\ g.drv_cache = f.drv_cache
      /\ g.pending_drvs = {}
  BY <1>1 DEF View, Taken, Forests
<1>3. Nodes(g) = Nodes(f) /\ f.pending_drvs \subseteq Drvs
  BY <1>2 DEF Nodes, Forests
<1>4. Read(g, todo \cup TakePending(f))
  BY <1>2, <1>3 DEF View, Read, TakePending
<1>5. Live(g, R) /\ Staged(g, R)
  BY <1>2 DEF View, Live, Staged, Touched
<1>6. Shown(g, R) /\ Bounded(g)
  BY <1>2, <1>3 DEF View, Shown, Bounded
<1> QED BY <1>1, <1>2, <1>3, <1>4, <1>5, <1>6 DEF View, TakePending

(* Messages and activities are told apart by what they are made of. *)
LEMMA Apart ==
  /\ \A a, b : Start(a) = Start(b) => a = b
  /\ \A a, b : Stop(a) = Stop(b) => a = b
  /\ \A a, b : Start(a) # Stop(b) /\ Start(a) # Result(b) /\ Stop(a) # Result(b)
  /\ \A a, level, ds : Start(a) # Msg(level, ds) /\ Stop(a) # Msg(level, ds) /\ Result(a) # Msg(level, ds)
  /\ \A l1, l2, ds1, ds2 : Msg(l1, ds1) = Msg(l2, ds2) => l1 = l2 /\ ds1 = ds2
  /\ \A k1, k2, d1, d2 : Act(k1, d1) = Act(k2, d2) => k1 = k2 /\ d1 = d2
  /\ \A a \in Activities : a = Act(a.kind, a.drv)
<1>1. /\ \A a : Start(a).action = "start" /\ Start(a).of = a
      /\ \A a : Stop(a).action = "stop" /\ Stop(a).of = a
      /\ \A a : Result(a).action = "result"
      /\ \A l, ds : Msg(l, ds).action = "msg" /\ Msg(l, ds).level = l /\ Msg(l, ds).drvs = ds
      /\ \A k, d : Act(k, d).kind = k /\ Act(k, d).drv = d
  BY DEF Start, Stop, Result, Msg, Act
<1>2. /\ \A a, b : Start(a) = Start(b) => a = b
      /\ \A a, b : Stop(a) = Stop(b) => a = b
      /\ \A l1, l2, ds1, ds2 : Msg(l1, ds1) = Msg(l2, ds2) => l1 = l2 /\ ds1 = ds2
      /\ \A k1, k2, d1, d2 : Act(k1, d1) = Act(k2, d2) => k1 = k2 /\ d1 = d2
  BY <1>1
<1>3. /\ \A a, b : Start(a) # Stop(b) /\ Start(a) # Result(b) /\ Stop(a) # Result(b)
      /\ \A a, level, ds : Start(a) # Msg(level, ds) /\ Stop(a) # Msg(level, ds) /\ Result(a) # Msg(level, ds)
  BY <1>1
<1>4. \A a \in Activities : a = Act(a.kind, a.drv)
  BY DEF Activities, Act
<1> QED BY <1>2, <1>3, <1>4

(* What nix is no longer to say after each message. *)
LEMMA ObsoleteFacts ==
  /\ \A a \in Activities : /\ Start(a) \in Obsolete(Start(a))
                           /\ Start(a) \in Obsolete(Stop(a)) /\ Stop(a) \in Obsolete(Stop(a))
  /\ \A d \in Drvs :
       /\ \A n \in {Start(Act("substitute", d)), Stop(Act("substitute", d))} :
            n \in Obsolete(Start(Act("build", d))) /\ n \in Obsolete(Start(Act("copy", d)))
       /\ \A n \in {Start(Act("build", d)), Stop(Act("build", d))} : n \in Obsolete(Start(Act("copy", d)))
       /\ Start(Act("build", d)) \in Obsolete(Msg(0, {d}))
<1>1. /\ \A a : Start(a).action = "start" /\ Start(a).of = a
      /\ \A a : Stop(a).action = "stop" /\ Stop(a).of = a
      /\ \A l, ds : Msg(l, ds).action = "msg" /\ Msg(l, ds).level = l /\ Msg(l, ds).drvs = ds
      /\ \A k, d : Act(k, d).kind = k /\ Act(k, d).drv = d
  BY DEF Start, Stop, Msg, Act
<1>2. \A a \in Activities : /\ Start(a) \in Obsolete(Start(a))
                            /\ Start(a) \in Obsolete(Stop(a)) /\ Stop(a) \in Obsolete(Stop(a))
  BY <1>1 DEF Obsolete
<1>3. Earlier["build"] = {"substitute"} /\ Earlier["copy"] = {"substitute", "build"}
  BY DEF Earlier
<1>4. ASSUME NEW d \in Drvs, NEW j, NEW k \in Earlier[j]
      PROVE  Start(Act(k, d)) \in Obsolete(Start(Act(j, d))) /\ Stop(Act(k, d)) \in Obsolete(Start(Act(j, d)))
  BY <1>1 DEF Obsolete
<1>5. \A d \in Drvs : Start(Act("build", d)) \in Obsolete(Msg(0, {d}))
  BY <1>1 DEF Obsolete
<1> QED BY <1>2, <1>3, <1>4, <1>5

(* A derivation whose build the frontend has been told of is shown so. *)
LEMMA ToldBuild ==
  ASSUME NEW f, NEW R, NEW todo, View(f, R, todo), NEW d \in Drvs,
         forest.status[d] \in Begun, Start(Act("build", d)) \notin R
  PROVE  f.status[d] \in {"failed", "building", "built", "downloading"} /\ d \in Nodes(f)
<1>1. f.status[d] \in {"failed", "building", "built", "downloading"}
  BY DEF View, Shown
<1> QED BY <1>1 DEF Nodes, Paths

(* A derivation that is being copied is not being built and has not failed. *)
LEMMA CopiedFacts ==
  ASSUME CountInv, EngineSide, NEW f, NEW R, NEW todo, View(f, R, todo), NEW d \in Drvs,
         phase[d] = "copied"
  PROVE  /\ forest.status[d] # "failed" /\ f.status[d] # "failed"
         /\ Act("build", d) \in f.activities => Stop(Act("build", d)) \in R
<1>1. forest.status[d] # "failed"
  BY DEF EngineSide
<1>2. f.status[d] # "failed"
  BY <1>1 DEF View, Shown
<1>3. Act("build", d) \notin running /\ Act("build", d) \in Activities /\ Act("build", d).kind = "build"
  BY DEF CountInv, Following, Activities, Act, Kinds
<1>4. Act("build", d) \in f.activities => Stop(Act("build", d)) \in R
  BY <1>3 DEF View, Live, Touched
<1> QED BY <1>1, <1>2, <1>4

(* So does one that applies a log line or a fetch status, *)
LEMMA ViewResult ==
  ASSUME NEW f, NEW R, NEW todo, NEW a \in Activities, View(f, R \cup {Result(a)}, todo)
  PROVE  View(FeedMessage(f, Result(a)), R, todo)
<1> DEFINE R1 == R \cup {Result(a)}
<1>1. PICK g : g = FeedMessage(f, Result(a))
  OBVIOUS
<1>2. f \in Forests /\ Sent(Result(a)) /\ View(f, R1, todo)
  BY DEF View
<1>3. /\ Kept(f, g) /\ g.activities = f.activities /\ g.pending_drvs = f.pending_drvs
      /\ \/ g.status = f.status
         \/ /\ a \in f.activities /\ f.status[PathOf(a)] = "absent"
            /\ g.status = [f.status EXCEPT ![PathOf(a)] = "unknown"]
  BY <1>1, <1>2, ResultFed
<1>4. a.kind # "query" /\ forest.status[PathOf(a)] # "absent"
  BY <1>2 DEF Sent, Result
<1>5. PathOf(a) \in Paths /\ a.drv \in Drvs /\ a = Act(a.kind, a.drv)
  BY <1>2, NodeType
<1>6. \A b : (Start(b) \in R <=> Start(b) \in R1) /\ (Stop(b) \in R <=> Stop(b) \in R1)
  BY Apart
<1>7. \A l, ds : Msg(l, ds) \in R <=> Msg(l, ds) \in R1
  BY Apart
<1> HIDE DEF R1
<1>8. a \in f.activities /\ f.status[PathOf(a)] = "absent" => PathOf(a) \in Outs
  <2> SUFFICES ASSUME a \in f.activities, f.status[PathOf(a)] = "absent", a.kind = "build" PROVE FALSE
    BY <1>5 DEF PathOf, Outs
  <2>1. PathOf(a) = a.drv /\ Act("build", a.drv) \in f.activities
    BY <1>5 DEF PathOf
  <2>2. forest.status[a.drv] \in Begun /\ Start(Act("build", a.drv)) \notin R1
    BY <1>2, <1>4, <1>5, <2>1 DEF View, Staged, Live, Touched
  <2> QED BY <1>2, <1>5, <2>1, <2>2, ToldBuild DEF Nodes
<1>9. /\ \A x \in Drvs : g.status[x] = f.status[x]
      /\ \A o \in Outs : g.status[o] = f.status[o] \/ g.status[o] = "unknown"
      /\ Nodes(g) \subseteq Nodes(f) \cup {PathOf(a)} /\ Nodes(f) \subseteq Nodes(g)
      /\ Nodes(g) \cap Drvs = Nodes(f) \cap Drvs
  <2>1. Outs \cap Drvs = {} /\ Outs \subseteq Paths /\ Drvs \subseteq Paths
    BY DrvsAssumption DEF Paths
  <2>2. f.status \in [Paths -> Statuses]
    BY <1>2 DEF Forests
  <2> QED BY <1>3, <1>5, <1>8, <2>1, <2>2 DEF Nodes
<1>10. Live(g, R)
  BY <1>2, <1>3, <1>6 DEF View, Live, Touched
<1>11. Staged(g, R)
  BY <1>2, <1>3, <1>6, <1>9 DEF View, Staged, Touched, Waits
<1>12. Shown(g, R)
  BY <1>2, <1>3, <1>6, <1>7, <1>9 DEF View, Shown, Kept
<1>13. Read(g, todo)
  BY <1>2, <1>3, <1>9 DEF View, Read, Kept
<1>14. Bounded(g)
  BY <1>2, <1>4, <1>5, <1>9 DEF View, Bounded, Nodes
<1> QED BY <1>1, <1>3, <1>10, <1>11, <1>12, <1>13, <1>14 DEF View, Kept

(* a plan, *)
LEMMA ViewPlan ==
  ASSUME NEW f, NEW R, NEW todo, NEW ds \in SUBSET Drvs, View(f, R \cup {Msg(1, ds)}, todo)
  PROVE  View(FeedMessage(f, Msg(1, ds)), R, todo)
<1> DEFINE R1 == R \cup {Msg(1, ds)}
<1>1. PICK g : g = FeedMessage(f, Msg(1, ds))
  OBVIOUS
<1>2. f \in Forests /\ Sent(Msg(1, ds)) /\ View(f, R1, todo)
  BY DEF View
<1>3. /\ Kept(f, g) /\ g.activities = f.activities /\ g.pending_drvs = f.pending_drvs \cup ds
      /\ g.status = [p \in Paths |-> IF p \notin ds THEN f.status[p]
                                     ELSE IF f.status[p] \in {"absent", "unknown"} THEN "planned"
                                     ELSE f.status[p]]
  BY <1>1, <1>2, MsgFed
<1>4. \A d \in ds : forest.status[d] # "absent"
  BY <1>2 DEF Sent, Msg
<1>6. \A b : (Start(b) \in R <=> Start(b) \in R1) /\ (Stop(b) \in R <=> Stop(b) \in R1)
  BY Apart
<1>7. \A d : Msg(0, {d}) \in R <=> Msg(0, {d}) \in R1
  BY Apart
<1> HIDE DEF R1
<1>8. Drvs \subseteq Paths /\ Outs \subseteq Paths /\ Drvs \cap Outs = {}
  BY DrvsAssumption DEF Paths
<1>9. /\ \A x \in Drvs : \/ g.status[x] = f.status[x]
                         \/ f.status[x] \in {"absent", "unknown"} /\ g.status[x] = "planned"
      /\ \A o \in Outs : g.status[o] = f.status[o]
      /\ Nodes(g) = Nodes(f) \cup ds
  BY <1>3, <1>8 DEF Nodes
<1>10. Live(g, R)
  BY <1>2, <1>3, <1>6 DEF View, Live, Touched
<1>11. Staged(g, R)
  BY <1>2, <1>3, <1>6, <1>9 DEF View, Staged, Touched, Waits
<1>12. Shown(g, R)
  <2>1. ASSUME NEW x \in Drvs
        PROVE  /\ forest.status[x] = "failed" <=> g.status[x] = "failed" \/ Msg(0, {x}) \in R
               /\ forest.status[x] \in Begun /\ Start(Act("build", x)) \notin R /\ g.status[x] # "failed"
                    => g.status[x] \in IF Act("build", x) \in g.activities THEN {"building"}
                                       ELSE {"built", "downloading"}
    <3>1. /\ forest.status[x] = "failed" <=> f.status[x] = "failed" \/ Msg(0, {x}) \in R1
          /\ forest.status[x] \in Begun /\ Start(Act("build", x)) \notin R1 /\ f.status[x] # "failed"
               => f.status[x] \in IF Act("build", x) \in f.activities THEN {"building"}
                                  ELSE {"built", "downloading"}
      BY <1>2 DEF View, Shown
    <3>2. CASE g.status[x] = f.status[x]
      BY <1>3, <1>6, <1>7, <3>1, <3>2
    <3>3. CASE f.status[x] \in {"absent", "unknown"} /\ g.status[x] = "planned"
      BY <1>3, <1>6, <1>7, <3>1, <3>3
    <3> QED BY <1>9, <3>2, <3>3
  <2>2. ASSUME NEW x \in Drvs, g.status[x] \in {"downloading", "substituting"}
        PROVE  /\ g.output_to_drv[Out[x]] = x
               /\ Act("copy", x) \in g.activities \/ Act("substitute", x) \in g.activities
    BY <1>2, <1>3, <1>9, <2>2, ZenonT(40) DEF View, Shown, Kept
  <2>3. \A o \in Outs : g.status[o] \in {"absent", "unknown"}
    BY <1>2, <1>9 DEF View, Shown
  <2> QED BY <2>1, <2>2, <2>3 DEF Shown
<1>13. Read(g, todo)
  BY <1>2, <1>3, <1>9 DEF View, Read, Kept
<1>14. Bounded(g)
  BY <1>2, <1>4, <1>8, <1>9 DEF View, Bounded, Nodes
<1> QED BY <1>1, <1>3, <1>10, <1>11, <1>12, <1>13, <1>14 DEF View, Kept

(* an error, which comes after the start of its build, *)
LEMMA ViewFail ==
  ASSUME NEW f, NEW R, NEW todo, NEW d \in Drvs, View(f, R \cup {Msg(0, {d})}, todo),
         Start(Act("build", d)) \notin R
  PROVE  View(FeedMessage(f, Msg(0, {d})), R, todo)
<1> DEFINE R1 == R \cup {Msg(0, {d})}
<1>1. PICK g : g = FeedMessage(f, Msg(0, {d}))
  OBVIOUS
<1>2. f \in Forests /\ Sent(Msg(0, {d})) /\ View(f, R1, todo)
  BY DEF View
<1>3. /\ Kept(f, g) /\ g.activities = f.activities /\ g.pending_drvs = f.pending_drvs
      /\ g.status = [p \in Paths |-> IF p = d THEN "failed" ELSE f.status[p]]
  BY <1>1, <1>2, MsgFed
<1>4. forest.status[d] \in Begun
  BY <1>2 DEF Sent, Msg
<1>6. \A b : (Start(b) \in R <=> Start(b) \in R1) /\ (Stop(b) \in R <=> Stop(b) \in R1)
  BY Apart
<1>7. \A x \in Drvs : x # d => (Msg(0, {x}) \in R <=> Msg(0, {x}) \in R1)
  BY Apart
<1>8. Drvs \subseteq Paths /\ Outs \subseteq Paths /\ Drvs \cap Outs = {} /\ Msg(0, {d}) \in R1
  BY DrvsAssumption DEF Paths
<1> HIDE DEF R1
<1>5. d \in Nodes(f) /\ Start(Act("build", d)) \notin R1
  BY <1>2, <1>4, <1>6, ToldBuild
<1>9. /\ \A x \in Drvs : x # d => g.status[x] = f.status[x]
      /\ g.status[d] = "failed"
      /\ \A o \in Outs : g.status[o] = f.status[o]
      /\ Nodes(g) = Nodes(f)
  BY <1>3, <1>5, <1>8 DEF Nodes
<1>10. Live(g, R)
  BY <1>2, <1>3, <1>6 DEF View, Live, Touched
<1>11. Staged(g, R)
  BY <1>2, <1>3, <1>5, <1>6, <1>9 DEF View, Staged, Touched, Waits
<1>12. Shown(g, R)
  <2>1. ASSUME NEW x \in Drvs
        PROVE  /\ forest.status[x] = "failed" <=> g.status[x] = "failed" \/ Msg(0, {x}) \in R
               /\ forest.status[x] \in Begun /\ Start(Act("build", x)) \notin R /\ g.status[x] # "failed"
                    => g.status[x] \in IF Act("build", x) \in g.activities THEN {"building"}
                                       ELSE {"built", "downloading"}
               /\ g.status[x] \in {"downloading", "substituting"}
                    => /\ g.output_to_drv[Out[x]] = x
                       /\ Act("copy", x) \in g.activities \/ Act("substitute", x) \in g.activities
    <3>1. CASE x = d
      <4>1. forest.status[d] = "failed"
        BY <1>2, <1>8 DEF View, Shown
      <4> QED BY <1>9, <3>1, <4>1
    <3>2. CASE x # d
      BY <1>2, <1>3, <1>6, <1>7, <1>9, <3>2 DEF View, Shown, Kept
    <3> QED BY <3>1, <3>2
  <2>2. \A o \in Outs : g.status[o] \in {"absent", "unknown"}
    BY <1>2, <1>9 DEF View, Shown
  <2> QED BY <2>1, <2>2 DEF Shown
<1>13. Read(g, todo)
  BY <1>2, <1>3, <1>9 DEF View, Read, Kept
<1>14. Bounded(g)
  BY <1>2, <1>9 DEF View, Bounded
<1> QED BY <1>1, <1>3, <1>10, <1>11, <1>12, <1>13, <1>14 DEF View, Kept

(* a start that nothing obsolete still follows, *)
LEMMA ViewStart ==
  ASSUME CountInv, EngineSide, NEW f, NEW R, NEW todo, NEW a \in Activities,
         View(f, R \cup {Start(a)}, todo), \A n \in R : n \notin Obsolete(Start(a))
  PROVE  View(FeedMessage(f, Start(a)), R, todo)
<1> DEFINE R1 == R \cup {Start(a)}
           d == a.drv
           node == NodeOf(f, a)
           st == StartStatus[a.kind]
<1>1. PICK g : g = FeedMessage(f, Start(a))
  OBVIOUS
<1>2. f \in Forests /\ Sent(Start(a)) /\ View(f, R1, todo)
  BY DEF View
<1>3. a.kind # "query" /\ a.kind \in {"build", "copy", "substitute"} /\ d \in Drvs /\ a = Act(a.kind, d)
  <2>1. a.kind # "query"
    BY <1>2 DEF Sent, Start
  <2> QED BY <1>2, <2>1, NodeType DEF Kinds
<1>4. /\ Kept(f, g) /\ g.activities = f.activities \cup {a}
      /\ g.pending_drvs = IF a.kind = "build" THEN f.pending_drvs \cup {d} ELSE f.pending_drvs
      /\ g.status = IF node # None THEN [f.status EXCEPT ![node] = st] ELSE f.status
      /\ st \in {"building", "downloading", "substituting"}
      /\ a.kind = "build" => st = "building"
      /\ a.kind = "copy" => st = "downloading"
  <2>1. StartStatus["build"] = "building" /\ StartStatus["copy"] = "downloading"
    BY DEF StartStatus
  <2> QED BY <1>1, <1>2, <1>3, <2>1, StartFed
<1>5. /\ Start(a) \in R1 /\ Start(a) \notin R
      /\ \A b : b # a => (Start(b) \in R <=> Start(b) \in R1)
      /\ \A b : (Stop(b) \in R <=> Stop(b) \in R1)
      /\ \A x : Msg(0, {x}) \in R <=> Msg(0, {x}) \in R1
  <2>1. Start(a) \notin R
    BY ObsoleteFacts
  <2> QED BY <2>1, Apart
<1>6. Touched(f, R1, a) /\ a \notin f.activities
  BY <1>2, <1>3, <1>5 DEF View, Live, Touched
<1>7. \A b : Touched(g, R, b) <=> Touched(f, R1, b)
  BY <1>4, <1>5 DEF Touched
<1>8. Drvs \subseteq Paths /\ Outs \subseteq Paths /\ Drvs \cap Outs = {} /\ None \notin Drvs
  BY DrvsAssumption, NoneAssumption DEF Paths
<1>9. node \in {d, None} /\ (a.kind = "build" => node = d)
      /\ (a.kind # "build" => node = f.output_to_drv[Out[d]])
  BY <1>2, <1>3 DEF NodeOf, View, Read
<1>10. node = d => (a.kind = "build" \/ d \in Nodes(f))
  BY <1>2, <1>3, <1>9 DEF View, Read
<1>11. a.kind = "build" => forest.status[d] \in Begun
  BY <1>2, <1>3, <1>6 DEF View, Staged
<1>12. \A k1, k2, x, y : Act(k1, x) = Act(k2, y) => k1 = k2 /\ x = y
  BY Apart
<1> HIDE DEF R1, node, st
<1>13. f.status[d] # "failed"
  <2>1. CASE a.kind = "build"
    BY <1>2, <1>3, <1>5, <2>1 DEF View, Staged
  <2>2. CASE a.kind = "substitute"
    <3> SUFFICES ASSUME f.status[d] = "failed" PROVE FALSE
      OBVIOUS
    <3>1. forest.status[d] \in Begun
      BY <1>2, <1>3 DEF View, Shown, Begun
    <3>2. Waits(R1, "substitute", d)
      BY <1>3, <1>5, <2>2 DEF Waits
    <3> QED BY <1>2, <1>3, <3>1, <3>2 DEF View, Staged
  <2>3. CASE a.kind = "copy"
    <3>1. phase[d] = "copied"
      BY <1>2, <1>3, <1>6, <2>3 DEF View, Staged
    <3> QED BY <1>2, <1>3, <3>1, CopiedFacts
  <2> QED BY <1>3, <2>1, <2>2, <2>3
<1>14. /\ \A x \in Drvs : x # d => g.status[x] = f.status[x]
       /\ g.status[d] = IF node = d THEN st ELSE f.status[d]
       /\ \A o \in Outs : g.status[o] = f.status[o]
       /\ Nodes(g) = Nodes(f) \cup (IF node = d THEN {d} ELSE {})
  <2>1. f.status \in [Paths -> Statuses] /\ d \in Paths
    BY <1>2, <1>3, <1>8 DEF Forests
  <2>2. \A o \in Outs : o # d
    BY <1>3, <1>8
  <2>3. CASE node = d
    <3>1. g.status = [f.status EXCEPT ![d] = st] /\ st # "absent"
      BY <1>3, <1>4, <1>8, <2>3
    <3> QED BY <1>3, <1>8, <2>1, <2>2, <2>3, <3>1 DEF Nodes
  <2>4. CASE node # d
    <3>1. g.status = f.status
      BY <1>4, <1>9, <2>4
    <3> QED BY <2>4, <3>1 DEF Nodes
  <2> QED BY <2>3, <2>4
<1>15. \A x \in Drvs : g.status[x] = "failed" <=> f.status[x] = "failed"
  BY <1>3, <1>4, <1>13, <1>14
<1>16. Live(g, R)
  <2>1. \A b \in g.activities : b.kind # "query"
    BY <1>2, <1>3, <1>4 DEF View, Live
  <2>2. ASSUME NEW b \in Activities, b.kind # "query"
        PROVE  /\ b \in running <=> Touched(g, R, b) /\ Stop(b) \notin R
               /\ Stop(b) \in R => Touched(g, R, b)
               /\ b \in g.activities => Start(b) \notin R
    BY <1>2, <1>4, <1>5, <1>7, <2>2 DEF View, Live
  <2> QED BY <2>1, <2>2 DEF Live
<1>17. \A x \in Drvs, k \in {"build", "substitute"} : Waits(R, k, x) => Waits(R1, k, x)
  BY DEF Waits, R1
<1>18. Staged(g, R)
  <2> SUFFICES ASSUME NEW x \in Drvs
               PROVE  /\ Touched(g, R, Act("build", x)) => forest.status[x] \in Begun
                      /\ Touched(g, R, Act("copy", x)) => phase[x] = "copied"
                      /\ Touched(g, R, Act("substitute", x)) => phase[x] # "wanted"
                      /\ forest.status[x] \in Begun /\ Waits(R, "substitute", x)
                           => Start(Act("build", x)) \in R
                      /\ phase[x] = "copied" /\ (Waits(R, "substitute", x) \/ Waits(R, "build", x))
                           => Start(Act("copy", x)) \in R
                      /\ g.status[x] = "failed" => Start(Act("build", x)) \notin R
    BY DEF Staged
  <2>1. /\ Touched(f, R1, Act("build", x)) => forest.status[x] \in Begun
        /\ Touched(f, R1, Act("copy", x)) => phase[x] = "copied"
        /\ Touched(f, R1, Act("substitute", x)) => phase[x] # "wanted"
        /\ forest.status[x] \in Begun /\ Waits(R1, "substitute", x) => Start(Act("build", x)) \in R1
        /\ phase[x] = "copied" /\ (Waits(R1, "substitute", x) \/ Waits(R1, "build", x))
             => Start(Act("copy", x)) \in R1
        /\ f.status[x] = "failed" => Start(Act("build", x)) \notin R1
    BY <1>2 DEF View, Staged
  <2>2. forest.status[x] \in Begun /\ Waits(R, "substitute", x) => Start(Act("build", x)) \in R
    <3> SUFFICES ASSUME Waits(R, "substitute", x), Start(Act("build", x)) \in R1
                 PROVE  Act("build", x) # a
      BY <1>5, <1>17, <2>1
    <3> QED BY ObsoleteFacts DEF Waits
  <2>3. phase[x] = "copied" /\ (Waits(R, "substitute", x) \/ Waits(R, "build", x))
          => Start(Act("copy", x)) \in R
    <3> SUFFICES ASSUME Waits(R, "substitute", x) \/ Waits(R, "build", x), Start(Act("copy", x)) \in R1
                 PROVE  Act("copy", x) # a
      BY <1>5, <1>17, <2>1
    <3> QED BY ObsoleteFacts DEF Waits
  <2>4. g.status[x] = "failed" => Start(Act("build", x)) \notin R
    BY <1>15, <2>1 DEF R1
  <2> QED BY <1>7, <2>1, <2>2, <2>3, <2>4
<1>19. Shown(g, R)
  <2>1. ASSUME NEW x \in Drvs
        PROVE  /\ forest.status[x] = "failed" <=> f.status[x] = "failed" \/ Msg(0, {x}) \in R1
               /\ forest.status[x] \in Begun /\ Start(Act("build", x)) \notin R1 /\ f.status[x] # "failed"
                    => f.status[x] \in IF Act("build", x) \in f.activities THEN {"building"}
                                       ELSE {"built", "downloading"}
               /\ f.status[x] \in {"downloading", "substituting"}
                    => /\ f.output_to_drv[Out[x]] = x
                       /\ Act("copy", x) \in f.activities \/ Act("substitute", x) \in f.activities
    BY <1>2 DEF View, Shown
  <2>2. ASSUME NEW x \in Drvs
        PROVE  forest.status[x] = "failed" <=> g.status[x] = "failed" \/ Msg(0, {x}) \in R
    BY <1>5, <1>15, <2>1
  <2>3. ASSUME NEW x \in Drvs, forest.status[x] \in Begun, Start(Act("build", x)) \notin R,
               g.status[x] # "failed"
        PROVE  g.status[x] \in IF Act("build", x) \in g.activities THEN {"building"}
                               ELSE {"built", "downloading"}
    <3>1. CASE x # d
      <4>1. Act("build", x) # a
        BY <1>3, <1>12, <3>1
      <4> QED BY <1>4, <1>5, <1>14, <2>1, <2>3, <3>1, <4>1, ZenonT(40)
    <3>2. CASE x = d /\ a.kind = "build"
      BY <1>3, <1>4, <1>9, <1>14, <3>2
    <3>3. CASE x = d /\ a.kind = "substitute"
      <4>1. Waits(R1, "substitute", x)
        BY <1>3, <1>5, <3>3 DEF Waits
      <4>2. Start(Act("build", x)) \in R1 /\ Act("build", x) # a
        BY <1>2, <1>3, <1>12, <2>3, <3>3, <4>1 DEF View, Staged
      <4> QED BY <1>5, <2>3, <4>2
    <3>4. CASE x = d /\ a.kind = "copy"
      <4>1. Act("build", x) # a /\ a = Act("copy", x)
        BY <1>3, <1>12, <3>4
      <4>2. phase[x] = "copied"
        BY <1>2, <1>3, <1>6, <3>4, <4>1 DEF View, Staged
      <4>3. Stop(Act("build", x)) \notin R1
        BY <1>5, <4>1, ObsoleteFacts
      <4>4. Act("build", x) \notin f.activities
        BY <1>2, <4>2, <4>3, CopiedFacts
      <4>5. f.status[x] \in {"built", "downloading"}
        BY <1>5, <1>15, <2>1, <2>3, <4>1, <4>4
      <4> QED BY <1>4, <1>14, <3>4, <4>1, <4>4, <4>5
    <3> QED BY <1>3, <3>1, <3>2, <3>3, <3>4
  <2>4. ASSUME NEW x \in Drvs, g.status[x] \in {"downloading", "substituting"}
        PROVE  /\ g.output_to_drv[Out[x]] = x
               /\ Act("copy", x) \in g.activities \/ Act("substitute", x) \in g.activities
    <3>1. CASE g.status[x] = f.status[x]
      BY <1>4, <2>1, <2>4, <3>1 DEF Kept
    <3>2. CASE x = d /\ node = d /\ a.kind # "build"
      BY <1>3, <1>4, <1>9, <3>2 DEF Kept
    <3>3. CASE x = d /\ node = d /\ a.kind = "build"
      BY <1>4, <1>14, <2>4, <3>3
    <3> QED BY <1>14, <3>1, <3>2, <3>3
  <2>5. \A o \in Outs : g.status[o] \in {"absent", "unknown"}
    BY <1>2, <1>14 DEF View, Shown
  <2> QED BY <2>2, <2>3, <2>4, <2>5 DEF Shown
<1>20. Read(g, todo)
  BY <1>2, <1>3, <1>4, <1>9, <1>10, <1>14 DEF View, Read, Kept
<1>21. Bounded(g)
  <2>1. a.kind = "build" => d \in Nodes(forest)
    BY <1>3, <1>8, <1>11 DEF Nodes, Begun
  <2> QED BY <1>2, <1>10, <1>14, <2>1 DEF View, Bounded
<1> QED BY <1>1, <1>4, <1>16, <1>18, <1>19, <1>20, <1>21 DEF View, Kept

(* or a stop. *)
LEMMA ViewStop ==
  ASSUME CountInv, EngineSide, NEW f, NEW R, NEW todo, NEW a \in Activities,
         View(f, R \cup {Stop(a)}, todo), \A n \in R : n \notin Obsolete(Stop(a))
  PROVE  View(FeedMessage(f, Stop(a)), R, todo)
<1> DEFINE R1 == R \cup {Stop(a)}
           d == a.drv
           node == NodeOf(f, a)
<1>1. PICK g : g = FeedMessage(f, Stop(a))
  OBVIOUS
<1>2. f \in Forests /\ Sent(Stop(a)) /\ View(f, R1, todo)
  BY DEF View
<1>3. a.kind # "query" /\ a.kind \in {"build", "copy", "substitute"} /\ d \in Drvs /\ a = Act(a.kind, d)
  <2>1. a.kind # "query"
    BY <1>2 DEF Sent, Stop
  <2> QED BY <1>2, <2>1, NodeType DEF Kinds
<1>5. /\ Stop(a) \in R1 /\ Start(a) \notin R1 /\ Stop(a) \notin R
      /\ \A b : (Start(b) \in R <=> Start(b) \in R1)
      /\ \A b : b # a => (Stop(b) \in R <=> Stop(b) \in R1)
      /\ \A x : Msg(0, {x}) \in R <=> Msg(0, {x}) \in R1
  <2>1. Start(a) \notin R /\ Stop(a) \notin R
    BY ObsoleteFacts
  <2> QED BY <2>1, Apart
<1>6. a \in f.activities /\ a \notin running
  BY <1>2, <1>3, <1>5 DEF View, Live, Touched
<1>4. /\ Kept(f, g) /\ g.activities = f.activities \ {a} /\ g.pending_drvs = f.pending_drvs
      /\ g.status = IF node # None /\ f.status[node] # "failed"
                      THEN [f.status EXCEPT ![node] = "built"] ELSE f.status
  BY <1>1, <1>2, <1>3, <1>6, StopFed
<1>7. \A b : Touched(g, R, b) => Touched(f, R1, b)
  BY <1>4, <1>5 DEF Touched
<1>8. Drvs \subseteq Paths /\ Outs \subseteq Paths /\ Drvs \cap Outs = {} /\ None \notin Drvs
  BY DrvsAssumption, NoneAssumption DEF Paths
<1>9. node \in {d, None} /\ (a.kind = "build" => node = d)
      /\ (a.kind # "build" => node = f.output_to_drv[Out[d]])
  BY <1>2, <1>3 DEF NodeOf, View, Read
<1>11. a.kind = "build" => forest.status[d] \in Begun
  BY <1>2, <1>3, <1>6 DEF View, Staged, Touched
<1>10. node = d => d \in Nodes(f)
  <2>1. CASE a.kind = "build"
    BY <1>2, <1>3, <1>5, <1>11, <2>1, ToldBuild
  <2>2. CASE a.kind # "build"
    BY <1>2, <1>3, <1>9, <2>2 DEF View, Read
  <2> QED BY <2>1, <2>2
<1>12. \A k1, k2, x, y : Act(k1, x) = Act(k2, y) => k1 = k2 /\ x = y
  BY Apart
<1> HIDE DEF R1, node
<1>14. /\ \A x \in Drvs : x # d => g.status[x] = f.status[x]
       /\ g.status[d] = IF node = d /\ f.status[d] # "failed" THEN "built" ELSE f.status[d]
       /\ \A o \in Outs : g.status[o] = f.status[o]
       /\ Nodes(g) = Nodes(f)
  <2>1. f.status \in [Paths -> Statuses] /\ d \in Paths
    BY <1>2, <1>3, <1>8 DEF Forests
  <2>2. \A o \in Outs : o # d
    BY <1>3, <1>8
  <2>3. CASE node = d /\ f.status[d] # "failed"
    <3>1. g.status = [f.status EXCEPT ![d] = "built"]
      BY <1>3, <1>4, <1>8, <2>3
    <3> QED BY <1>3, <1>8, <1>10, <2>1, <2>2, <2>3, <3>1 DEF Nodes
  <2>4. CASE ~ (node = d /\ f.status[d] # "failed")
    <3>1. g.status = f.status
      BY <1>4, <1>9, <2>4
    <3> QED BY <2>4, <3>1 DEF Nodes
  <2> QED BY <2>3, <2>4
<1>15. \A x \in Drvs : g.status[x] = "failed" <=> f.status[x] = "failed"
  BY <1>14
<1>16. Live(g, R)
  <2>1. \A b \in g.activities : b.kind # "query"
    BY <1>2, <1>4 DEF View, Live
  <2>2. ASSUME NEW b \in Activities, b.kind # "query"
        PROVE  /\ b \in running <=> Touched(g, R, b) /\ Stop(b) \notin R
               /\ Stop(b) \in R => Touched(g, R, b)
               /\ b \in g.activities => Start(b) \notin R
    <3>1. CASE b = a
      BY <1>4, <1>5, <1>6, <3>1 DEF Touched
    <3>2. CASE b # a
      <4>1. Touched(g, R, b) <=> Touched(f, R1, b)
        BY <1>4, <1>5, <3>2 DEF Touched
      <4> QED BY <1>2, <1>4, <1>5, <2>2, <3>2, <4>1 DEF View, Live
    <3> QED BY <3>1, <3>2
  <2> QED BY <2>1, <2>2 DEF Live
<1>17. \A x \in Drvs, k \in {"build", "substitute"} : Waits(R, k, x) => Waits(R1, k, x)
  BY DEF Waits, R1
<1>18. Staged(g, R)
  BY <1>2, <1>5, <1>7, <1>15, <1>17 DEF View, Staged
<1>19. Shown(g, R)
  <2>1. ASSUME NEW x \in Drvs
        PROVE  /\ forest.status[x] = "failed" <=> f.status[x] = "failed" \/ Msg(0, {x}) \in R1
               /\ forest.status[x] \in Begun /\ Start(Act("build", x)) \notin R1 /\ f.status[x] # "failed"
                    => f.status[x] \in IF Act("build", x) \in f.activities THEN {"building"}
                                       ELSE {"built", "downloading"}
               /\ f.status[x] \in {"downloading", "substituting"}
                    => /\ f.output_to_drv[Out[x]] = x
                       /\ Act("copy", x) \in f.activities \/ Act("substitute", x) \in f.activities
    BY <1>2 DEF View, Shown
  <2>2. ASSUME NEW x \in Drvs
        PROVE  forest.status[x] = "failed" <=> g.status[x] = "failed" \/ Msg(0, {x}) \in R
    BY <1>5, <1>15, <2>1
  <2>3. ASSUME NEW x \in Drvs, forest.status[x] \in Begun, Start(Act("build", x)) \notin R,
               g.status[x] # "failed"
        PROVE  g.status[x] \in IF Act("build", x) \in g.activities THEN {"building"}
                               ELSE {"built", "downloading"}
    <3>1. CASE x # d
      <4>1. Act("build", x) # a
        BY <1>3, <1>12, <3>1
      <4> QED BY <1>4, <1>5, <1>14, <2>1, <2>3, <3>1, <4>1, ZenonT(40)
    <3>2. CASE x = d /\ a.kind = "build"
      BY <1>3, <1>4, <1>9, <1>14, <1>15, <2>3, <3>2
    <3>3. CASE x = d /\ a.kind = "substitute"
      <4>1. Waits(R1, "substitute", x)
        BY <1>3, <1>5, <3>3 DEF Waits
      <4> QED BY <1>2, <1>5, <2>3, <4>1 DEF View, Staged
    <3>4. CASE x = d /\ a.kind = "copy"
      <4>1. Act("build", x) # a /\ a = Act("copy", x)
        BY <1>3, <1>12, <3>4
      <4>2. phase[x] = "copied"
        BY <1>2, <1>6, <4>1 DEF View, Staged, Touched
      <4>3. ~ Waits(R1, "build", x)
        BY <1>2, <1>5, <4>1, <4>2 DEF View, Staged
      <4>4. Act("build", x) \notin f.activities
        BY <1>2, <4>2, <4>3, CopiedFacts DEF Waits
      <4>5. f.status[x] \in {"built", "downloading"}
        BY <1>5, <1>15, <2>1, <2>3, <4>4
      <4> QED BY <1>4, <1>14, <3>4, <4>4, <4>5
    <3> QED BY <1>3, <3>1, <3>2, <3>3, <3>4
  <2>4. ASSUME NEW x \in Drvs, g.status[x] \in {"downloading", "substituting"}
        PROVE  /\ g.output_to_drv[Out[x]] = x
               /\ Act("copy", x) \in g.activities \/ Act("substitute", x) \in g.activities
    <3>1. g.status[x] = f.status[x] /\ (x = d => node # d)
      BY <1>14, <2>4
    <3>2. f.output_to_drv[Out[x]] = x /\ (Act("copy", x) \in f.activities \/ Act("substitute", x) \in f.activities)
      BY <2>1, <2>4, <3>1
    <3>3. x # d
      BY <1>9, <3>1, <3>2
    <3>4. Act("copy", x) # a /\ Act("substitute", x) # a
      BY <1>3, <1>12, <3>3
    <3> QED BY <1>4, <3>2, <3>4 DEF Kept
  <2>5. \A o \in Outs : g.status[o] \in {"absent", "unknown"}
    BY <1>2, <1>14 DEF View, Shown
  <2> QED BY <2>2, <2>3, <2>4, <2>5 DEF Shown
<1>20. Read(g, todo)
  BY <1>2, <1>4, <1>14 DEF View, Read, Kept
<1>21. Bounded(g)
  BY <1>2, <1>14 DEF View, Bounded
<1> QED BY <1>1, <1>4, <1>16, <1>18, <1>19, <1>20, <1>21 DEF View, Kept

(* Whatever waits, feeding it leaves the frontend knowing what it should. *)
LEMMA ViewFeed ==
  ASSUME CountInv, EngineSide, NEW f, NEW R, NEW todo, NEW m,
         View(f, R \cup {m}, todo), \A n \in R : n \notin Obsolete(m)
  PROVE  View(FeedMessage(f, m), R, todo)
<1>1. Sent(m)
  BY DEF View
<1>2. ASSUME NEW a \in Activities, m = Start(a) PROVE View(FeedMessage(f, m), R, todo)
  BY <1>2, ViewStart
<1>3. ASSUME NEW a \in Activities, m = Stop(a) PROVE View(FeedMessage(f, m), R, todo)
  BY <1>3, ViewStop
<1>4. ASSUME NEW a \in Activities, m = Result(a) PROVE View(FeedMessage(f, m), R, todo)
  BY <1>4, ViewResult
<1>5. ASSUME NEW level \in {0, 1, 3}, NEW ds \in SUBSET Drvs, m = Msg(level, ds)
      PROVE  View(FeedMessage(f, m), R, todo)
  <2>1. \/ level = 0 /\ \E d \in Drvs : ds = {d}
        \/ level = 1
    BY <1>1, <1>5 DEF Sent, Msg
  <2>2. CASE level = 1
    BY <1>5, <2>2, ViewPlan
  <2>3. ASSUME NEW d \in Drvs, level = 0, ds = {d} PROVE View(FeedMessage(f, m), R, todo)
    BY <1>5, <2>3, ViewFail, ObsoleteFacts
  <2> QED BY <2>1, <2>2, <2>3
<1> QED BY <1>1, <1>2, <1>3, <1>4, <1>5 DEF Sent, Messages

----------------------------------------------------------------------------
(* The steps of the frontend. *)

(* Nothing the frontend does changes what is true of its view. *)
LEMMA ViewSame ==
  ASSUME NEW f, NEW R, NEW todo, View(f, R, todo),
         forest' = forest, phase' = phase, running' = running
  PROVE  View(f, R, todo)'
<1>1. /\ f \in Forests /\ todo \subseteq Drvs /\ \A m \in R : Sent(m)
      /\ Live(f, R) /\ Staged(f, R) /\ Shown(f, R) /\ Read(f, todo) /\ Bounded(f)
  BY DEF View
<1>2. \A m \in R : Sent(m)'
  BY <1>1 DEF Sent
<1>3. Live(f, R)'
  BY <1>1 DEF Live, Touched
<1>4. Staged(f, R)'
  BY <1>1 DEF Staged, Touched, Waits
<1>5. Shown(f, R)'
  BY <1>1 DEF Shown
<1>6. Bounded(f)'
  BY <1>1 DEF Bounded, Nodes
<1>7. Read(f, todo)'
  BY <1>1 DEF Read, Nodes
<1> QED BY <1>1, <1>2, <1>3, <1>4, <1>5, <1>6, <1>7 DEF View

(* The engine's side when nothing it is made of changes. *)
LEMMA EngineSame ==
  ASSUME EngineSide, forest' = forest, phase' = phase, running' = running, stream' = stream,
         filter' = filter
  PROVE  EngineSide'
<1>1. Read(forest, {})'
  BY DEF EngineSide, Read, Nodes
<1> QED BY <1>1 DEF EngineSide

(* The reads that came back, one after the other. *)
LEMMA ReadsApplied ==
  ASSUME OneMaker, NEW f, NEW R, NEW todo \in SUBSET Drvs, NEW s \in Seq(Drvs),
         View(f, R, todo \cup Elements(s))
  PROVE  View(FoldLeft(ApplyRead, f, s), R, todo)
<1>1. PICK n \in Nat : n = Len(s) /\ DOMAIN s = 1..n /\ \A i \in 1..n : s[i] \in Drvs
  OBVIOUS
<1>2. f \in Forests
  BY DEF View
<1>3. PICK g \in [0..n -> Forests] :
           /\ g[0] = f /\ FoldLeft(ApplyRead, f, s) = g[n]
           /\ \A k \in 0..(n - 1) : g[k + 1] = ApplyRead(g[k], s[k + 1])
  BY <1>1, <1>2, ReadRun
<1> DEFINE left(k) == todo \cup {s[i] : i \in (k + 1)..n}
           G == {k \in 0..n : View(g[k], R, left(k))}
<1>4. 0 \in G
  <2>1. left(0) = todo \cup Elements(s)
    BY <1>1 DEF Elements
  <2>2. View(g[0], R, left(0))
    BY <1>3, <2>1
  <2> QED BY <1>1, <2>2
<1>5. \A k \in 0..(n - 1) : k \in G => k + 1 \in G
  <2> SUFFICES ASSUME NEW k \in 0..(n - 1), View(g[k], R, left(k))
               PROVE  k + 1 \in 0..n /\ View(g[k + 1], R, left(k + 1))
    BY <1>1
  <2>1. k + 1 \in 0..n /\ k + 1 \in 1..n /\ s[k + 1] \in Drvs
    BY <1>1
  <2>2. left(k) = left(k + 1) \cup {s[k + 1]}
    <3>1. (k + 1)..n = {k + 1} \cup ((k + 1) + 1)..n
      BY <1>1
    <3> QED BY <3>1
  <2>3. left(k + 1) \in SUBSET Drvs
    <3>1. \A i \in ((k + 1) + 1)..n : i \in 1..n
      BY <1>1
    <3> QED BY <1>1, <3>1
  <2> HIDE DEF left
  <2>4. View(ApplyRead(g[k], s[k + 1]), R, left(k + 1))
    BY <2>1, <2>2, <2>3, ViewRead
  <2> QED BY <1>3, <2>1, <2>4
<1>6. n \in G
  <2> HIDE DEF G
  <2>1. \A k \in 0..n : k \in G
    BY <1>1, <1>4, <1>5, UpTo
  <2> QED BY <1>1, <2>1
<1>7. left(n) = todo
  <2>1. (n + 1)..n = {}
    BY <1>1
  <2> QED BY <2>1
<1> HIDE DEF left
<1> QED BY <1>3, <1>6, <1>7

(* The new records, in the order of the log. *)
LEMMA MessagesFed ==
  ASSUME CountInv, EngineSide, NEW f, NEW todo, NEW s \in Seq(Messages), Ordered(s),
         View(f, Elements(s), todo)
  PROVE  View(FoldLeft(FeedMessage, f, s), {}, todo)
<1>1. PICK n \in Nat : n = Len(s) /\ DOMAIN s = 1..n /\ \A i \in 1..n : s[i] \in Messages
  OBVIOUS
<1>2. f \in Forests
  BY DEF View
<1>3. PICK g \in [0..n -> Forests] :
           /\ g[0] = f /\ FoldLeft(FeedMessage, f, s) = g[n]
           /\ \A k \in 0..(n - 1) : g[k + 1] = FeedMessage(g[k], s[k + 1])
  BY <1>1, <1>2, MessageRun
<1> DEFINE left(k) == {s[i] : i \in (k + 1)..n}
           G == {k \in 0..n : View(g[k], left(k), todo)}
<1>4. 0 \in G
  <2>1. left(0) = Elements(s)
    BY <1>1 DEF Elements
  <2> HIDE DEF left
  <2> QED BY <1>3, <2>1
<1>5. \A k \in 0..(n - 1) : k \in G => k + 1 \in G
  <2> SUFFICES ASSUME NEW k \in 0..(n - 1), View(g[k], left(k), todo)
               PROVE  k + 1 \in 0..n /\ View(g[k + 1], left(k + 1), todo)
    BY <1>1
  <2>1. k + 1 \in 0..n /\ k + 1 \in 1..n
    BY <1>1
  <2>2. left(k) = left(k + 1) \cup {s[k + 1]}
    <3>1. (k + 1)..n = {k + 1} \cup ((k + 1) + 1)..n
      BY <1>1
    <3> QED BY <3>1
  <2>3. \A m \in left(k + 1) : m \notin Obsolete(s[k + 1])
    <3>1. \A i \in ((k + 1) + 1)..n : i \in 1..n /\ k + 1 < i
      BY <1>1
    <3>2. \A i \in ((k + 1) + 1)..n : s[i] \notin Obsolete(s[k + 1])
      BY <1>1, <2>1, <3>1 DEF Ordered
    <3> QED BY <3>2
  <2> HIDE DEF left
  <2>4. View(FeedMessage(g[k], s[k + 1]), left(k + 1), todo)
    BY <2>2, <2>3, ViewFeed
  <2> QED BY <1>3, <2>1, <2>4
<1>6. n \in G
  <2> HIDE DEF G
  <2>1. \A k \in 0..n : k \in G
    BY <1>1, <1>4, <1>5, UpTo
  <2> QED BY <1>1, <2>1
<1>7. left(n) = {}
  <2>1. (n + 1)..n = {}
    BY <1>1
  <2> QED BY <2>1
<1> HIDE DEF left
<1> QED BY <1>3, <1>6, <1>7

(* The elements of sequences put together. *)
LEMMA ElementsFacts ==
  ASSUME NEW S, NEW s \in Seq(S), NEW t \in Seq(S)
  PROVE  /\ Elements(s) \subseteq S /\ Elements(<<>>) = {}
         /\ s \o t \in Seq(S) /\ Elements(s \o t) = Elements(s) \cup Elements(t)
<1>1. PICK n \in Nat, m \in Nat : /\ n = Len(s) /\ DOMAIN s = 1..n /\ \A i \in 1..n : s[i] \in S
                                  /\ m = Len(t) /\ DOMAIN t = 1..m /\ \A i \in 1..m : t[i] \in S
  OBVIOUS
<1>2. PICK u \in Seq(S) : /\ u = s \o t /\ DOMAIN u = 1..(n + m)
                          /\ \A i \in 1..n : u[i] = s[i]
                          /\ \A i \in 1..m : u[n + i] = t[i]
  <2>1. /\ s \o t \in Seq(S) /\ DOMAIN (s \o t) = 1..(n + m)
        /\ \A i \in 1..(n + m) : (s \o t)[i] = IF i <= n THEN s[i] ELSE t[i - n]
    BY <1>1
  <2>2. \A i \in 1..n : (s \o t)[i] = s[i]
    BY <1>1, <2>1
  <2>3. \A i \in 1..m : n + i \in 1..(n + m) /\ ~ (n + i <= n) /\ (n + i) - n = i
    BY <1>1
  <2>4. \A i \in 1..m : (s \o t)[n + i] = t[i]
    BY <2>1, <2>3
  <2> QED BY <2>1, <2>2, <2>4
<1>3. \A i \in 1..(n + m) : i \in 1..n \/ (i - n \in 1..m /\ i = n + (i - n))
  BY <1>1
<1>4. \A i \in 1..n : i \in 1..(n + m)
  BY <1>1
<1>5. \A i \in 1..m : n + i \in 1..(n + m)
  BY <1>1
<1>6. Elements(u) = Elements(s) \cup Elements(t)
  <2>1. ASSUME NEW x \in Elements(u) PROVE x \in Elements(s) \/ x \in Elements(t)
    <3>1. PICK i \in 1..(n + m) : x = u[i]
      BY <1>2 DEF Elements
    <3>2. CASE i \in 1..n
      BY <1>1, <1>2, <3>1, <3>2 DEF Elements
    <3>3. CASE i - n \in 1..m /\ i = n + (i - n)
      BY <1>1, <1>2, <3>1, <3>3 DEF Elements
    <3> QED BY <1>3, <3>2, <3>3
  <2>2. ASSUME NEW x \in Elements(s) PROVE x \in Elements(u)
    BY <1>1, <1>2, <1>4 DEF Elements
  <2>3. ASSUME NEW x \in Elements(t) PROVE x \in Elements(u)
    <3>1. PICK i \in 1..m : x = t[i]
      BY <1>1 DEF Elements
    <3>2. PICK j : j = n + i
      OBVIOUS
    <3>3. j \in 1..(n + m)
      BY <1>5, <3>2
    <3>4. u[j] = x
      BY <1>2, <3>1, <3>2
    <3> QED BY <1>2, <3>3, <3>4 DEF Elements
  <2> QED BY <2>1, <2>2, <2>3
<1>7. Elements(s) \subseteq S /\ Elements(<<>>) = {}
  BY <1>1 DEF Elements
<1> QED BY <1>2, <1>6, <1>7

(* A poll: reads, then records, then what both made pending. *)
LEMMA PollObserver ==
  ASSUME OneMaker, CountInv, ObserverInv, Poll
  PROVE  ObserverInv'
<1> DEFINE applied == FoldLeft(ApplyRead, observed, results)
           fed == FoldLeft(FeedMessage, Taken(applied), log)
           asked == SetToSeq(TakePending(applied))
           more == SetToSeq(TakePending(fed))
<1>1. /\ observed' = Taken(fed) /\ requests' = (requests \o asked) \o more
      /\ results' = <<>> /\ log' = <<>>
      /\ forest' = forest /\ phase' = phase /\ running' = running /\ stream' = stream
      /\ filter' = filter
  BY DEF Poll, nix
<1>2. /\ EngineSide /\ log \in Seq(Messages) /\ Ordered(log) /\ requests \in Seq(Drvs)
      /\ results \in Seq(Drvs) /\ View(observed, Elements(log), Elements(requests) \cup Elements(results))
  BY DEF ObserverInv
<1>3. Elements(requests) \subseteq Drvs /\ Elements(<<>>) = {}
  BY <1>2, ElementsFacts
<1>4. View(applied, Elements(log), Elements(requests))
  BY <1>2, <1>3, ReadsApplied
<1> HIDE DEF applied
<1>5. View(Taken(applied), Elements(log), Elements(requests) \cup TakePending(applied))
  BY <1>4, ViewTaken
<1>6. View(fed, {}, Elements(requests) \cup TakePending(applied))
  BY <1>2, <1>5, MessagesFed
<1> HIDE DEF fed
<1>7. View(Taken(fed), {}, (Elements(requests) \cup TakePending(applied)) \cup TakePending(fed))
  BY <1>6, ViewTaken
<1>8. TakePending(applied) \subseteq Drvs /\ TakePending(fed) \subseteq Drvs
  BY <1>4, <1>6 DEF View, Forests, TakePending
<1>9. /\ asked \in Seq(Drvs) /\ Elements(asked) = TakePending(applied)
      /\ more \in Seq(Drvs) /\ Elements(more) = TakePending(fed)
  <2>1. IsFiniteSet(TakePending(applied)) /\ IsFiniteSet(TakePending(fed))
    BY <1>8, DrvsAssumption, FS_Subset
  <2>2. \A S \in SUBSET Drvs : \A s \in Seq(S) : s \in Seq(Drvs)
    OBVIOUS
  <2>3. asked \in Seq(TakePending(applied)) /\ Elements(asked) = TakePending(applied)
    BY <2>1, Listed
  <2>4. more \in Seq(TakePending(fed)) /\ Elements(more) = TakePending(fed)
    BY <2>1, Listed
  <2> QED BY <1>8, <2>2, <2>3, <2>4
<1> HIDE DEF asked, more
<1>10. requests \o asked \in Seq(Drvs) /\ Elements(requests \o asked) = Elements(requests) \cup TakePending(applied)
  BY <1>2, <1>9, ElementsFacts
<1>11. /\ requests' \in Seq(Drvs)
       /\ Elements(requests') = (Elements(requests) \cup TakePending(applied)) \cup TakePending(fed)
  <2>1. PICK both \in Seq(Drvs) : /\ both = requests \o asked
                                  /\ Elements(both) = Elements(requests) \cup TakePending(applied)
    BY <1>10
  <2>2. both \o more \in Seq(Drvs) /\ Elements(both \o more) = Elements(both) \cup Elements(more)
    BY <1>9, ElementsFacts
  <2> QED BY <1>1, <1>9, <2>1, <2>2
<1>12. View(observed', {}, Elements(requests') \cup {})
  BY <1>1, <1>7, <1>11
<1>13. View(observed, Elements(log), Elements(requests) \cup Elements(results))'
  <2>1. PICK f, todo : f = observed' /\ todo = Elements(requests') \cup {}
    OBVIOUS
  <2>2. View(f, {}, todo)'
    BY <1>1, <1>12, <2>1, ViewSame
  <2>3. Elements(log') = {} /\ Elements(results') = {}
    BY <1>1, <1>3
  <2> QED BY <2>1, <2>2, <2>3
<1>14. EngineSide'
  BY <1>1, <1>2, EngineSame
<1>15. observed'.pending_drvs = {}
  BY <1>1, <1>6 DEF View, Taken, Forests
<1>16. /\ log' \in Seq(Messages) /\ Ordered(log') /\ results' \in Seq(Drvs)
  BY <1>1 DEF Ordered
<1> QED BY <1>11, <1>13, <1>14, <1>15, <1>16 DEF ObserverInv

(* The resolver moves a request to the results. *)
LEMMA ReadObserver ==
  ASSUME ObserverInv, ReadDrv
  PROVE  ObserverInv'
<1>1. /\ requests # <<>> /\ requests' = Tail(requests) /\ results' = Append(results, Head(requests))
      /\ forest' = forest /\ phase' = phase /\ running' = running /\ stream' = stream
      /\ filter' = filter /\ log' = log /\ observed' = observed
  BY DEF ReadDrv, nix
<1>2. /\ EngineSide /\ log \in Seq(Messages) /\ Ordered(log) /\ requests \in Seq(Drvs)
      /\ results \in Seq(Drvs) /\ observed.pending_drvs = {}
      /\ View(observed, Elements(log), Elements(requests) \cup Elements(results))
  BY DEF ObserverInv
<1>3. /\ requests' \in Seq(Drvs) /\ results' \in Seq(Drvs)
      /\ Elements(requests') \cup Elements(results') = Elements(requests) \cup Elements(results)
  <2>1. PICK n \in Nat, m \in Nat : /\ n = Len(requests) /\ DOMAIN requests = 1..n
                                    /\ \A i \in 1..n : requests[i] \in Drvs
                                    /\ m = Len(results) /\ DOMAIN results = 1..m
                                    /\ \A i \in 1..m : results[i] \in Drvs
    BY <1>2
  <2>2. n > 0 /\ Head(requests) = requests[1] /\ 1 \in 1..n
    BY <1>1, <1>2, <2>1
  <2>3. /\ requests' \in Seq(Drvs) /\ DOMAIN requests' = 1..(n - 1)
        /\ \A i \in 1..(n - 1) : requests'[i] = requests[i + 1]
    BY <1>1, <1>2, <2>1, <2>2
  <2>4. /\ results' \in Seq(Drvs) /\ DOMAIN results' = 1..(m + 1)
        /\ \A i \in 1..m : results'[i] = results[i]
        /\ results'[m + 1] = requests[1]
    BY <1>1, <1>2, <2>1, <2>2
  <2>5. \A i \in 1..n : i = 1 \/ (i - 1 \in 1..(n - 1) /\ i = (i - 1) + 1)
    BY <2>1
  <2>6. \A i \in 1..(n - 1) : i + 1 \in 1..n
    BY <2>1
  <2>7. \A i \in 1..(m + 1) : i \in 1..m \/ i = m + 1
    BY <2>1
  <2>8. m + 1 \in 1..(m + 1) /\ \A i \in 1..m : i \in 1..(m + 1)
    BY <2>1
  <2>9. Elements(requests) = {requests[1]} \cup Elements(requests')
    BY <2>1, <2>2, <2>3, <2>5, <2>6 DEF Elements
  <2>10. Elements(results') = Elements(results) \cup {requests[1]}
    BY <2>1, <2>4, <2>7, <2>8 DEF Elements
  <2> QED BY <2>3, <2>4, <2>9, <2>10
<1>4. View(observed, Elements(log), Elements(requests) \cup Elements(results))'
  <2>1. PICK f, R, todo : /\ f = observed /\ R = Elements(log)
                          /\ todo = Elements(requests) \cup Elements(results)
    OBVIOUS
  <2>2. View(f, R, todo)'
    BY <1>1, <1>2, <2>1, ViewSame
  <2> QED BY <1>1, <1>3, <2>1, <2>2
<1>5. EngineSide'
  BY <1>1, <1>2, EngineSame
<1> QED BY <1>1, <1>2, <1>3, <1>4, <1>5 DEF ObserverInv

----------------------------------------------------------------------------
(* The steps of nix and of the engine. *)

(* Only the start and the stop of an activity can come too late. *)
LEMMA ObsoleteOnly ==
  ASSUME NEW n \in Messages
  PROVE  /\ \A a \in Activities : Start(a) \in Obsolete(n) =>
              \/ n = Start(a) \/ n = Stop(a)
              \/ \E j \in Kinds : a.kind \in Earlier[j] /\ n = Start(Act(j, a.drv))
              \/ \E ds \in SUBSET Drvs : n = Msg(0, ds) /\ a.kind = "build" /\ a.drv \in ds
         /\ \A a \in Activities : Stop(a) \in Obsolete(n) =>
              \/ n = Stop(a)
              \/ \E j \in Kinds : a.kind \in Earlier[j] /\ n = Start(Act(j, a.drv))
         /\ \A a : Result(a) \notin Obsolete(n)
         /\ \A l, ds : Msg(l, ds) \notin Obsolete(n)
<1>1. /\ \A a : Start(a).action = "start" /\ Start(a).of = a
      /\ \A a : Stop(a).action = "stop" /\ Stop(a).of = a
      /\ \A a : Result(a).action = "result"
      /\ \A l, ds : Msg(l, ds).action = "msg" /\ Msg(l, ds).level = l /\ Msg(l, ds).drvs = ds
  BY DEF Start, Stop, Result, Msg
<1>2. ASSUME NEW b \in Activities, n = Start(b)
      PROVE  \A m \in Obsolete(n) : \/ m = Start(b)
                                    \/ \E k \in Earlier[b.kind] : \/ m = Start(Act(k, b.drv))
                                                                  \/ m = Stop(Act(k, b.drv))
  BY <1>1, <1>2 DEF Obsolete
<1>3. ASSUME NEW b \in Activities, n = Stop(b) PROVE Obsolete(n) = {Start(b), Stop(b)}
  BY <1>1, <1>3 DEF Obsolete
<1>4. ASSUME NEW b \in Activities, n = Result(b) PROVE Obsolete(n) = {}
  BY <1>1, <1>4 DEF Obsolete
<1>5. ASSUME NEW l \in {0, 1, 3}, NEW ds \in SUBSET Drvs, n = Msg(l, ds)
      PROVE  \A m \in Obsolete(n) : l = 0 /\ \E d \in ds : m = Start(Act("build", d))
  BY <1>1, <1>5 DEF Obsolete
<1>6. \A b \in Activities : b = Act(b.kind, b.drv) /\ b.kind \in Kinds /\ b.drv \in Drvs
  BY DEF Activities, Act
<1>7. \A k, d : Act(k, d).kind = k /\ Act(k, d).drv = d
  BY DEF Act
<1>8. ASSUME NEW a \in Activities, Start(a) \in Obsolete(n)
      PROVE  \/ n = Start(a) \/ n = Stop(a)
             \/ \E j \in Kinds : a.kind \in Earlier[j] /\ n = Start(Act(j, a.drv))
             \/ \E ds \in SUBSET Drvs : n = Msg(0, ds) /\ a.kind = "build" /\ a.drv \in ds
  <2>1. ASSUME NEW b \in Activities, n = Start(b), a # b
        PROVE  \E j \in Kinds : a.kind \in Earlier[j] /\ n = Start(Act(j, a.drv))
    <3>1. PICK k \in Earlier[b.kind] : a = Act(k, b.drv)
      BY <1>2, <1>8, <2>1, Apart
    <3> QED BY <1>6, <1>7, <2>1, <3>1
  <2>2. ASSUME NEW b \in Activities, n = Stop(b) PROVE n = Stop(a)
    BY <1>3, <1>8, <2>2, Apart
  <2>3. ASSUME NEW l \in {0, 1, 3}, NEW ds \in SUBSET Drvs, n = Msg(l, ds)
        PROVE  n = Msg(0, ds) /\ a.kind = "build" /\ a.drv \in ds
    <3>1. PICK d \in ds : l = 0 /\ a = Act("build", d)
      BY <1>5, <1>8, <2>3, Apart
    <3> QED BY <1>7, <2>3, <3>1
  <2> QED BY <1>4, <1>8, <2>1, <2>2, <2>3 DEF Messages
<1>9. ASSUME NEW a \in Activities, Stop(a) \in Obsolete(n)
      PROVE  \/ n = Stop(a)
             \/ \E j \in Kinds : a.kind \in Earlier[j] /\ n = Start(Act(j, a.drv))
  <2>1. ASSUME NEW b \in Activities, n = Start(b)
        PROVE  \E j \in Kinds : a.kind \in Earlier[j] /\ n = Start(Act(j, a.drv))
    <3>1. PICK k \in Earlier[b.kind] : a = Act(k, b.drv)
      BY <1>2, <1>9, <2>1, Apart
    <3> QED BY <1>6, <1>7, <2>1, <3>1
  <2>2. ASSUME NEW b \in Activities, n = Stop(b) PROVE n = Stop(a)
    BY <1>3, <1>9, <2>2, Apart
  <2>3. ASSUME NEW l \in {0, 1, 3}, NEW ds \in SUBSET Drvs, n = Msg(l, ds) PROVE FALSE
    BY <1>5, <1>9, <2>3, Apart
  <2> QED BY <1>4, <1>9, <2>1, <2>2, <2>3 DEF Messages
<1>10. ASSUME NEW m \in Obsolete(n) PROVE \E a : m = Start(a) \/ m = Stop(a)
  BY <1>2, <1>3, <1>4, <1>5 DEF Messages
<1>11. /\ \A a : Result(a) \notin Obsolete(n)
       /\ \A l, ds : Msg(l, ds) \notin Obsolete(n)
  BY <1>10, Apart
<1> QED BY <1>8, <1>9, <1>11

(* A message that is not too late can be added to the log. *)
LEMMA LogGrows ==
  ASSUME NEW s \in Seq(Messages), Ordered(s), NEW m \in Messages,
         \A n \in Elements(s) : m \notin Obsolete(n)
  PROVE  LET t == Append(s, m)
         IN t \in Seq(Messages) /\ Ordered(t) /\ Elements(t) = Elements(s) \cup {m}
<1>1. PICK n \in Nat : n = Len(s) /\ DOMAIN s = 1..n /\ \A i \in 1..n : s[i] \in Messages
  OBVIOUS
<1>2. PICK t \in Seq(Messages) : /\ t = Append(s, m) /\ DOMAIN t = 1..(n + 1) /\ t[n + 1] = m
                                 /\ \A i \in 1..n : t[i] = s[i]
  <2>1. /\ Append(s, m) \in Seq(Messages) /\ Len(Append(s, m)) = n + 1
        /\ DOMAIN Append(s, m) = 1..Len(Append(s, m))
    BY <1>1
  <2>2. Append(s, m)[n + 1] = m
    BY <1>1
  <2>3. \A i \in 1..n : Append(s, m)[i] = s[i]
    BY <1>1
  <2> QED BY <2>1, <2>2, <2>3
<1>3. \A i \in 1..(n + 1) : i \in 1..n \/ i = n + 1
  BY <1>1
<1>4. n + 1 \in 1..(n + 1) /\ \A i \in 1..n : i \in 1..(n + 1)
  BY <1>1
<1>5. Elements(t) = Elements(s) \cup {m}
  BY <1>1, <1>2, <1>3, <1>4 DEF Elements
<1>6. ASSUME NEW i \in DOMAIN t, NEW j \in DOMAIN t, i < j PROVE t[j] \notin Obsolete(t[i])
  <2>1. i \in 1..n
    BY <1>1, <1>2, <1>6
  <2>2. t[i] = s[i] /\ s[i] \in Elements(s)
    BY <1>1, <1>2, <2>1 DEF Elements
  <2>3. CASE j = n + 1
    BY <1>2, <2>2, <2>3
  <2>4. CASE j \in 1..n
    BY <1>1, <1>2, <1>6, <2>1, <2>2, <2>4 DEF Ordered
  <2> QED BY <1>2, <1>3, <2>3, <2>4
<1>7. Ordered(t)
  BY <1>6 DEF Ordered
<1> QED BY <1>2, <1>5, <1>7

(* What waits stays valid while the engine's graph grows. *)
LEMMA SentKept ==
  ASSUME NEW m, Sent(m),
         \A p \in Paths : forest.status[p] # "absent" => forest'.status[p] # "absent",
         \A d \in Drvs : forest.status[d] \in Begun => forest'.status[d] \in Begun
  PROVE  Sent(m)'
<1>1. /\ \A a : Start(a).action = "start" /\ Stop(a).action = "stop" /\ Result(a).action = "result"
      /\ \A a : Result(a).of = a
      /\ \A l, ds : Msg(l, ds).action = "msg" /\ Msg(l, ds).drvs = ds
  BY DEF Start, Stop, Result, Msg
<1>2. m.action = "result" => forest'.status[PathOf(m.of)] # "absent"
  <2> SUFFICES ASSUME m.action = "result" PROVE forest'.status[PathOf(m.of)] # "absent"
    OBVIOUS
  <2>1. PICK a \in Activities : m = Result(a)
    BY <1>1 DEF Sent, Messages
  <2>2. m.of = a /\ PathOf(a) \in Paths
    BY <1>1, <2>1 DEF PathOf, Paths, Outs, Activities
  <2> QED BY <2>2 DEF Sent
<1>3. Drvs \subseteq Paths
  BY DEF Paths
<1>4. m.action = "msg" => m.drvs \subseteq Drvs
  <2> SUFFICES ASSUME m.action = "msg" PROVE m.drvs \subseteq Drvs
    OBVIOUS
  <2>1. PICK l \in {0, 1, 3}, ds \in SUBSET Drvs : m = Msg(l, ds)
    BY <1>1 DEF Sent, Messages
  <2> QED BY <1>1, <2>1
<1> QED BY <1>2, <1>3, <1>4 DEF Sent

(* The frontend's graph stays within bounds while the engine's grows. *)
LEMMA BoundedKept ==
  ASSUME NEW f, Bounded(f),
         \A p \in Paths : forest.status[p] # "absent" => forest'.status[p] # "absent"
  PROVE  Bounded(f)'
<1>1. Nodes(forest) \subseteq Nodes(forest')
  BY DEF Nodes
<1>2. Bounded(f)' <=>
        \A S \in SUBSET Paths :
          Nodes(forest') \subseteq S /\ (\A d \in S \cap (Drvs \ Unreadable) : Inputs[d] \subseteq S)
            => Nodes(f) \subseteq S
  BY DEF Bounded, Nodes
<1> QED BY <1>1, <1>2 DEF Bounded

(* Steps that begin and end nothing the frontend is told of, and fail nothing. *)
LEMMA ViewQuiet ==
  ASSUME NEW f, NEW R, NEW todo, View(f, R, todo), NEW R2, R \subseteq R2,
         \A m \in R2 : m \in R \/ Sent(m)',
         \A b \in Activities : /\ Start(b) \in R2 => Start(b) \in R
                               /\ Stop(b) \in R2 => Stop(b) \in R,
         \A d \in Drvs : Msg(0, {d}) \in R2 => Msg(0, {d}) \in R,
         \A b \in Activities : b.kind # "query" => (b \in running' <=> b \in running),
         phase' = phase,
         \A p \in Paths : forest.status[p] # "absent" => forest'.status[p] # "absent",
         \A d \in Drvs : /\ forest'.status[d] \in Begun <=> forest.status[d] \in Begun
                         /\ forest'.status[d] = "failed" <=> forest.status[d] = "failed"
  PROVE  View(f, R2, todo)'
<1>1. /\ f \in Forests /\ todo \subseteq Drvs /\ \A m \in R : Sent(m)
      /\ Live(f, R) /\ Staged(f, R) /\ Shown(f, R) /\ Read(f, todo) /\ Bounded(f)
  BY DEF View
<1>2. \A d \in Drvs, k \in Kinds : Act(k, d) \in Activities
  BY DEF Act, Activities
<1>3. \A b \in Activities : /\ Touched(f, R2, b) <=> Touched(f, R, b)
                            /\ Stop(b) \in R2 <=> Stop(b) \in R
                            /\ Start(b) \in R2 <=> Start(b) \in R
  BY DEF Touched
<1>4. \A m \in R2 : Sent(m)'
  BY <1>1, SentKept
<1>5. Live(f, R2)'
  <2>1. \A b \in Activities : Touched(f, R2, b)' <=> Touched(f, R, b)
    BY <1>3 DEF Touched
  <2> QED BY <1>1, <1>3, <2>1 DEF Live
<1>6. Staged(f, R2)'
  <2>1. \A d \in Drvs : \A k \in {"build", "copy", "substitute"} :
          /\ Touched(f, R2, Act(k, d))' <=> Touched(f, R, Act(k, d))
          /\ Waits(R2, k, d)' <=> Waits(R, k, d)
          /\ Start(Act(k, d)) \in R2 <=> Start(Act(k, d)) \in R
    BY <1>2, <1>3 DEF Touched, Waits, Kinds
  <2> QED BY <1>1, <2>1 DEF Staged
<1>7. Shown(f, R2)'
  <2>1. \A d \in Drvs : /\ Start(Act("build", d)) \in R2 <=> Start(Act("build", d)) \in R
                        /\ Msg(0, {d}) \in R2 <=> Msg(0, {d}) \in R
    BY <1>2, <1>3 DEF Kinds
  <2> QED BY <1>1, <2>1 DEF Shown
<1>8. Bounded(f)'
  BY <1>1, BoundedKept
<1>9. Read(f, todo)'
  BY <1>1 DEF Read, Nodes
<1> QED BY <1>1, <1>4, <1>5, <1>6, <1>7, <1>8, <1>9 DEF View

(* nix begins to build, copy or substitute a derivation. *)
LEMMA ViewBegin ==
  ASSUME CountInv, NEW f, NEW R, NEW todo, View(f, R, todo),
         NEW kind \in {"build", "copy", "substitute"}, NEW d \in Drvs,
         running' = running \cup {Act(kind, d)},
         \A p \in Paths : forest'.status[p] = IF kind = "build" /\ p = d THEN "building"
                                              ELSE forest.status[p],
         \A x \in Drvs : x # d => phase'[x] = phase[x],
         kind = "substitute" => phase[d] = "wanted" /\ phase'[d] = "substituting",
         kind = "build" => phase[d] \in {"wanted", "missing"} /\ phase'[d] = "building",
         kind = "copy" => phase[d] = "valid" /\ phase'[d] = "copied"
  PROVE  /\ View(f, R \cup {Start(Act(kind, d))}, todo)'
         /\ \A n \in R : Start(Act(kind, d)) \notin Obsolete(n)
<1> DEFINE a == Act(kind, d)
           R2 == R \cup {Start(a)}
<1>1. /\ f \in Forests /\ todo \subseteq Drvs /\ \A m \in R : Sent(m)
      /\ Live(f, R) /\ Staged(f, R) /\ Shown(f, R) /\ Read(f, todo) /\ Bounded(f)
  BY DEF View
<1>2. /\ a \in Activities /\ a.kind = kind /\ a.drv = d
      /\ \A x \in Drvs, k \in {"build", "copy", "substitute"} :
           Act(k, x) \in Activities /\ Act(k, x).kind = k
  BY DEF Act, Activities, Kinds
<1>3. /\ \A k1, k2, x, y : Act(k1, x) = Act(k2, y) => k1 = k2 /\ x = y
      /\ \A b, c : Start(b) = Start(c) => b = c
      /\ \A b, c : Start(b) # Stop(c)
      /\ \A b, l, ds : Start(b) # Msg(l, ds)
  BY Apart
<1>4. forest.status[d] \notin Begun \/ kind = "copy"
  BY DEF CountInv, Following
<1>5. \A x \in Drvs : /\ forest'.status[x] \in Begun <=> forest.status[x] \in Begun \/ (kind = "build" /\ x = d)
                      /\ forest'.status[x] = "failed" <=> forest.status[x] = "failed"
  BY <1>4 DEF Paths, Begun
<1>6. ~ Touched(f, R, a) /\ Start(a) \notin R /\ Stop(a) \notin R
  <2>1. ~ Touched(f, R, a)
    BY <1>1, <1>4 DEF Staged
  <2> QED BY <1>1, <1>2, <2>1 DEF Live, Touched
<1>7. \A n \in R : Start(a) \notin Obsolete(n)
  <2> SUFFICES ASSUME NEW n \in R, Start(a) \in Obsolete(n) PROVE FALSE
    OBVIOUS
  <2>1. n \in Messages
    BY <1>1 DEF Sent
  <2>2. \/ n = Start(a) \/ n = Stop(a)
        \/ \E j \in Kinds : kind \in Earlier[j] /\ n = Start(Act(j, d))
        \/ \E ds \in SUBSET Drvs : n = Msg(0, ds) /\ kind = "build" /\ d \in ds
    BY <1>2, <2>1, ObsoleteOnly
  <2>3. ASSUME NEW j \in Kinds, kind \in Earlier[j], n = Start(Act(j, d)) PROVE FALSE
    <3>1. \/ j = "build" /\ kind = "substitute"
          \/ j = "copy" /\ kind \in {"substitute", "build"}
      BY <2>3 DEF Earlier, Kinds
    <3>2. Touched(f, R, Act(j, d))
      BY <2>3 DEF Touched
    <3> QED BY <1>1, <1>4, <3>1, <3>2 DEF Staged
  <2>4. ASSUME NEW ds \in SUBSET Drvs, n = Msg(0, ds), kind = "build", d \in ds PROVE FALSE
    <3>1. \E x \in Drvs : ds = {x} /\ forest.status[x] \in Begun
      BY <1>1, <2>4 DEF Sent, Msg
    <3> QED BY <1>4, <2>4, <3>1
  <2> QED BY <1>6, <2>2, <2>3, <2>4
<1>8. /\ \A b : Touched(f, R2, b)' <=> Touched(f, R, b) \/ b = a
      /\ \A b : Start(b) \in R2 <=> Start(b) \in R \/ b = a
      /\ \A b : Stop(b) \in R2 <=> Stop(b) \in R
      /\ \A x : Msg(0, {x}) \in R2 <=> Msg(0, {x}) \in R
  BY <1>3 DEF Touched
<1>9. \A p \in Paths : forest.status[p] # "absent" => forest'.status[p] # "absent"
  OBVIOUS
<1>10. Sent(Start(a))'
  <2>1. Start(a).action = "start" /\ Start(a).of = a
    BY DEF Start
  <2>2. Start(a) \in Messages
    BY <1>2 DEF Messages
  <2> QED BY <1>2, <2>1, <2>2 DEF Sent
<1> HIDE DEF a, R2
<1>11. \A m \in R2 : Sent(m)'
  <2>1. \A m \in R : Sent(m)'
    BY <1>1, <1>5, <1>9, SentKept
  <2> QED BY <1>10, <2>1 DEF R2
<1>12. Live(f, R2)'
  <2>1. a \notin f.activities
    BY <1>6 DEF Touched
  <2>2. \A b \in Activities : b \in running' <=> b \in running \/ b = a
    BY DEF a
  <2> QED BY <1>1, <1>6, <1>8, <2>1, <2>2 DEF Live
<1>13. Staged(f, R2)'
  <2> SUFFICES ASSUME NEW x \in Drvs
               PROVE  /\ Touched(f, R2, Act("build", x))' => forest'.status[x] \in Begun
                      /\ Touched(f, R2, Act("copy", x))' => phase'[x] = "copied"
                      /\ Touched(f, R2, Act("substitute", x))' => phase'[x] # "wanted"
                      /\ forest'.status[x] \in Begun /\ Waits(R2, "substitute", x)
                           => Start(Act("build", x)) \in R2
                      /\ phase'[x] = "copied" /\ (Waits(R2, "substitute", x) \/ Waits(R2, "build", x))
                           => Start(Act("copy", x)) \in R2
                      /\ f.status[x] = "failed" => Start(Act("build", x)) \notin R2
    BY DEF Staged, Waits
  <2>1. /\ Touched(f, R, Act("build", x)) => forest.status[x] \in Begun
        /\ Touched(f, R, Act("copy", x)) => phase[x] = "copied"
        /\ Touched(f, R, Act("substitute", x)) => phase[x] # "wanted"
        /\ forest.status[x] \in Begun /\ Waits(R, "substitute", x) => Start(Act("build", x)) \in R
        /\ phase[x] = "copied" /\ (Waits(R, "substitute", x) \/ Waits(R, "build", x))
             => Start(Act("copy", x)) \in R
        /\ f.status[x] = "failed" => Start(Act("build", x)) \notin R
    BY <1>1 DEF Staged
  <2>2. \A k \in {"build", "copy", "substitute"} : a = Act(k, x) <=> k = kind /\ x = d
    BY <1>3 DEF a
  <2>3. \A k : Waits(R2, k, x) <=> Waits(R, k, x) \/ a = Act(k, x)
    BY <1>8 DEF Waits
  <2>4. /\ Touched(f, R2, Act("build", x))' => forest'.status[x] \in Begun
        /\ Touched(f, R2, Act("copy", x))' => phase'[x] = "copied"
        /\ Touched(f, R2, Act("substitute", x))' => phase'[x] # "wanted"
    <3>1. CASE x = d
      BY <1>4, <1>5, <1>8, <2>1, <2>2, <3>1
    <3>2. CASE x # d
      BY <1>5, <1>8, <2>1, <2>2, <3>2
    <3> QED BY <3>1, <3>2
  <2>5. forest'.status[x] \in Begun /\ Waits(R2, "substitute", x) => Start(Act("build", x)) \in R2
    BY <1>4, <1>5, <1>8, <2>1, <2>2, <2>3
  <2>6. phase'[x] = "copied" /\ (Waits(R2, "substitute", x) \/ Waits(R2, "build", x))
          => Start(Act("copy", x)) \in R2
    BY <1>8, <2>1, <2>2, <2>3
  <2>7. f.status[x] = "failed" => Start(Act("build", x)) \notin R2
    <3>1. f.status[x] = "failed" => forest.status[x] \in Begun
      BY <1>1 DEF Shown, Begun
    <3> QED BY <1>4, <1>8, <2>1, <2>2, <3>1
  <2> QED BY <2>4, <2>5, <2>6, <2>7
<1>14. Shown(f, R2)'
  <2>1. ASSUME NEW x \in Drvs, forest'.status[x] \in Begun, Start(Act("build", x)) \notin R2
        PROVE  forest.status[x] \in Begun /\ Start(Act("build", x)) \notin R
    <3>1. a # Act("build", x)
      BY <1>8, <2>1
    <3>2. ~ (kind = "build" /\ x = d)
      BY <3>1 DEF a
    <3> QED BY <1>5, <1>8, <2>1, <3>2
  <2>2. \A x \in Drvs : forest'.status[x] = "failed" <=> f.status[x] = "failed" \/ Msg(0, {x}) \in R2
    BY <1>1, <1>5, <1>8 DEF Shown
  <2> QED BY <1>1, <2>1, <2>2 DEF Shown
<1>15. Bounded(f)'
  BY <1>1, <1>9, BoundedKept
<1>16. Read(f, todo)'
  BY <1>1 DEF Read, Nodes
<1>17. View(f, R2, todo)'
  BY <1>1, <1>11, <1>12, <1>13, <1>14, <1>15, <1>16 DEF View
<1> QED BY <1>7, <1>17 DEF a, R2

(* One of them ends. *)
LEMMA ViewEnd ==
  ASSUME CountInv, EngineSide, NEW f, NEW R, NEW todo, View(f, R, todo),
         NEW kind \in {"build", "copy", "substitute"}, NEW d \in Drvs,
         Act(kind, d) \in running, running' = running \ {Act(kind, d)},
         \A p \in Paths : forest'.status[p] = IF kind = "build" /\ p = d /\ forest.status[d] # "failed"
                                                THEN "built" ELSE forest.status[p],
         \A x \in Drvs : x # d => phase'[x] = phase[x],
         kind = "substitute" => phase'[d] \in {"valid", "missing"},
         kind = "build" => phase'[d] \in {"valid", "broken", "failed"},
         kind = "copy" => phase'[d] = phase[d]
  PROVE  /\ View(f, R \cup {Stop(Act(kind, d))}, todo)'
         /\ \A n \in R : Stop(Act(kind, d)) \notin Obsolete(n)
<1> DEFINE a == Act(kind, d)
           R2 == R \cup {Stop(a)}
<1>1. /\ f \in Forests /\ todo \subseteq Drvs /\ \A m \in R : Sent(m)
      /\ Live(f, R) /\ Staged(f, R) /\ Shown(f, R) /\ Read(f, todo) /\ Bounded(f)
  BY DEF View
<1>2. a \in Activities /\ a.kind = kind /\ a.drv = d
  BY DEF Act, Activities, Kinds
<1>3. /\ \A k1, k2, x, y : Act(k1, x) = Act(k2, y) => k1 = k2 /\ x = y
      /\ \A b, c : Stop(b) = Stop(c) => b = c
      /\ \A b, c : Start(b) # Stop(c)
      /\ \A b, l, ds : Stop(b) # Msg(l, ds)
  BY Apart
<1>4. /\ kind = "substitute" => phase[d] = "substituting" /\ forest.status[d] \notin Begun
      /\ kind = "build" => phase[d] \in {"building", "failing"} /\ forest.status[d] \in {"building", "failed"}
  BY DEF CountInv, Following, EngineSide
<1>5. \A x \in Drvs : /\ forest'.status[x] \in Begun <=> forest.status[x] \in Begun
                      /\ forest'.status[x] = "failed" <=> forest.status[x] = "failed"
  BY <1>4 DEF Paths, Begun
<1>6. Touched(f, R, a) /\ Stop(a) \notin R
  BY <1>1, <1>2 DEF Live
<1>7. \A n \in R : Stop(a) \notin Obsolete(n)
  <2> SUFFICES ASSUME NEW n \in R, Stop(a) \in Obsolete(n) PROVE FALSE
    OBVIOUS
  <2>1. n \in Messages
    BY <1>1 DEF Sent
  <2>2. \/ n = Stop(a)
        \/ \E j \in Kinds : kind \in Earlier[j] /\ n = Start(Act(j, d))
    BY <1>2, <2>1, ObsoleteOnly
  <2>3. ASSUME NEW j \in Kinds, kind \in Earlier[j], n = Start(Act(j, d)) PROVE FALSE
    <3>1. \/ j = "build" /\ kind = "substitute"
          \/ j = "copy" /\ kind \in {"substitute", "build"}
      BY <2>3 DEF Earlier, Kinds
    <3>2. Touched(f, R, Act(j, d))
      BY <2>3 DEF Touched
    <3> QED BY <1>1, <1>4, <3>1, <3>2 DEF Staged
  <2> QED BY <1>6, <2>2, <2>3
<1>8. /\ \A b : Touched(f, R2, b)' <=> Touched(f, R, b)
      /\ \A b : Start(b) \in R2 <=> Start(b) \in R
      /\ \A b : Stop(b) \in R2 <=> Stop(b) \in R \/ b = a
      /\ \A x : Msg(0, {x}) \in R2 <=> Msg(0, {x}) \in R
  BY <1>3 DEF Touched
<1>9. \A p \in Paths : forest.status[p] # "absent" => forest'.status[p] # "absent"
  OBVIOUS
<1>10. Sent(Stop(a))'
  <2>1. Stop(a).action = "stop" /\ Stop(a).of = a
    BY DEF Stop
  <2>2. Stop(a) \in Messages
    BY <1>2 DEF Messages
  <2> QED BY <1>2, <2>1, <2>2 DEF Sent
<1> HIDE DEF a, R2
<1>11. \A m \in R2 : Sent(m)'
  <2>1. \A m \in R : Sent(m)'
    BY <1>1, <1>5, <1>9, SentKept
  <2> QED BY <1>10, <2>1 DEF R2
<1>12. Live(f, R2)'
  <2>1. \A b \in Activities : b \in running' <=> b \in running /\ b # a
    BY DEF a
  <2> QED BY <1>1, <1>6, <1>8, <2>1 DEF Live
<1>13. Staged(f, R2)'
  <2> SUFFICES ASSUME NEW x \in Drvs
               PROVE  /\ Touched(f, R2, Act("build", x))' => forest'.status[x] \in Begun
                      /\ Touched(f, R2, Act("copy", x))' => phase'[x] = "copied"
                      /\ Touched(f, R2, Act("substitute", x))' => phase'[x] # "wanted"
                      /\ forest'.status[x] \in Begun /\ Waits(R2, "substitute", x)
                           => Start(Act("build", x)) \in R2
                      /\ phase'[x] = "copied" /\ (Waits(R2, "substitute", x) \/ Waits(R2, "build", x))
                           => Start(Act("copy", x)) \in R2
                      /\ f.status[x] = "failed" => Start(Act("build", x)) \notin R2
    BY DEF Staged, Waits
  <2>1. /\ Touched(f, R, Act("build", x)) => forest.status[x] \in Begun
        /\ Touched(f, R, Act("copy", x)) => phase[x] = "copied"
        /\ Touched(f, R, Act("substitute", x)) => phase[x] # "wanted"
        /\ forest.status[x] \in Begun /\ Waits(R, "substitute", x) => Start(Act("build", x)) \in R
        /\ phase[x] = "copied" /\ (Waits(R, "substitute", x) \/ Waits(R, "build", x))
             => Start(Act("copy", x)) \in R
        /\ f.status[x] = "failed" => Start(Act("build", x)) \notin R
    BY <1>1 DEF Staged
  <2>2. \A k \in {"build", "copy", "substitute"} : a = Act(k, x) <=> k = kind /\ x = d
    BY <1>3 DEF a
  <2>3. \A k : Waits(R2, k, x) <=> Waits(R, k, x) \/ a = Act(k, x)
    BY <1>8 DEF Waits
  <2>4. phase'[x] = "copied" <=> phase[x] = "copied"
    BY <1>4
  <2>5. phase'[x] = "wanted" => phase[x] = "wanted"
    <3>1. CASE x = d
      BY <1>4, <3>1
    <3> QED BY <3>1
  <2>6. forest'.status[x] \in Begun /\ Waits(R2, "substitute", x) => Start(Act("build", x)) \in R2
    BY <1>4, <1>5, <1>8, <2>1, <2>2, <2>3
  <2>7. phase'[x] = "copied" /\ (Waits(R2, "substitute", x) \/ Waits(R2, "build", x))
          => Start(Act("copy", x)) \in R2
    BY <1>4, <1>8, <2>1, <2>2, <2>3, <2>4
  <2> QED BY <1>5, <1>8, <2>1, <2>4, <2>5, <2>6, <2>7
<1>14. Shown(f, R2)'
  BY <1>1, <1>5, <1>8 DEF Shown
<1>15. Bounded(f)'
  BY <1>1, <1>9, BoundedKept
<1>16. Read(f, todo)'
  BY <1>1 DEF Read, Nodes
<1>17. View(f, R2, todo)'
  BY <1>1, <1>11, <1>12, <1>13, <1>14, <1>15, <1>16 DEF View
<1> QED BY <1>7, <1>17 DEF a, R2

(* A build fails: the error names the derivation. *)
LEMMA ViewFails ==
  ASSUME NEW f, NEW R, NEW todo, View(f, R, todo), NEW d \in Drvs,
         forest.status[d] \in Begun, running' = running,
         \A p \in Paths : forest'.status[p] = IF p = d THEN "failed" ELSE forest.status[p],
         \A x \in Drvs : x # d => phase'[x] = phase[x],
         phase[d] \notin {"wanted", "copied"}, phase'[d] \notin {"wanted", "copied"}
  PROVE  /\ View(f, R \cup {Msg(0, {d})}, todo)'
         /\ \A n \in R : Msg(0, {d}) \notin Obsolete(n)
<1> DEFINE R2 == R \cup {Msg(0, {d})}
<1>1. /\ f \in Forests /\ todo \subseteq Drvs /\ \A m \in R : Sent(m)
      /\ Live(f, R) /\ Staged(f, R) /\ Shown(f, R) /\ Read(f, todo) /\ Bounded(f)
  BY DEF View
<1>2. \A n \in R : Msg(0, {d}) \notin Obsolete(n)
  BY <1>1, ObsoleteOnly DEF Sent
<1>3. /\ \A b : Start(b) \in R2 <=> Start(b) \in R
      /\ \A b : Stop(b) \in R2 <=> Stop(b) \in R
      /\ \A x : Msg(0, {x}) \in R2 <=> Msg(0, {x}) \in R \/ x = d
  <2>1. \A x : {x} = {d} => x = d
    OBVIOUS
  <2>2. /\ \A b : Start(b) # Msg(0, {d})
        /\ \A b : Stop(b) # Msg(0, {d})
        /\ \A x : Msg(0, {x}) = Msg(0, {d}) => {x} = {d}
    BY Apart
  <2>3. \A x : x = d => Msg(0, {x}) = Msg(0, {d})
    OBVIOUS
  <2>4. \A x : Msg(0, {x}) \in R2 <=> Msg(0, {x}) \in R \/ x = d
    BY <2>1, <2>2, <2>3
  <2> QED BY <2>2, <2>4
<1>4. \A b : Touched(f, R2, b)' <=> Touched(f, R, b)
  BY <1>3 DEF Touched
<1>5. \A x \in Drvs : /\ forest'.status[x] \in Begun <=> forest.status[x] \in Begun
                      /\ forest'.status[x] = "failed" <=> forest.status[x] = "failed" \/ x = d
  BY DEF Paths, Begun
<1>6. \A p \in Paths : forest.status[p] # "absent" => forest'.status[p] # "absent"
  OBVIOUS
<1>7. Sent(Msg(0, {d}))'
  <2>1. Msg(0, {d}).action = "msg" /\ Msg(0, {d}).level = 0 /\ Msg(0, {d}).drvs = {d}
    BY DEF Msg
  <2>2. 0 \in {0, 1, 3} /\ {d} \in SUBSET Drvs
    OBVIOUS
  <2>3. Msg(0, {d}) \in Messages
    BY <2>2 DEF Messages
  <2> QED BY <1>5, <2>1, <2>3 DEF Sent
<1> HIDE DEF R2
<1>8. \A m \in R2 : Sent(m)'
  <2>1. \A m \in R : Sent(m)'
    BY <1>1, <1>5, <1>6, SentKept
  <2> QED BY <1>7, <2>1 DEF R2
<1>9. Live(f, R2)'
  BY <1>1, <1>3, <1>4 DEF Live
<1>10. Staged(f, R2)'
  <2>1. \A x \in Drvs : /\ phase'[x] = "copied" <=> phase[x] = "copied"
                        /\ phase'[x] = "wanted" <=> phase[x] = "wanted"
    OBVIOUS
  <2>2. \A k, x : Waits(R2, k, x)' <=> Waits(R, k, x)
    BY <1>3 DEF Waits
  <2> QED BY <1>1, <1>3, <1>4, <1>5, <2>1, <2>2 DEF Staged
<1>11. Shown(f, R2)'
  BY <1>1, <1>3, <1>5 DEF Shown
<1>12. Bounded(f)'
  BY <1>1, <1>6, BoundedKept
<1>13. Read(f, todo)'
  BY <1>1 DEF Read, Nodes
<1>14. View(f, R2, todo)'
  BY <1>1, <1>8, <1>9, <1>10, <1>11, <1>12, <1>13 DEF View
<1> QED BY <1>2, <1>14 DEF R2

----------------------------------------------------------------------------
(* The frontend's side of each step of nix. *)

(* A message adds to what has been read only derivations still to be read. *)
LEMMA ReadFed ==
  ASSUME NEW f \in Forests, NEW g, NEW todo, Read(f, todo), Kept(f, g),
         f.pending_drvs \subseteq g.pending_drvs, g.pending_drvs \subseteq Nodes(g),
         Nodes(f) \subseteq Nodes(g), Nodes(g) \cap Drvs \subseteq Nodes(f) \cup g.pending_drvs
  PROVE  Read(g, todo)
<1>1. g.pending_drvs \cup g.drv_cache \cup todo \subseteq Nodes(g)
  BY DEF Read, Kept
<1>2. Nodes(g) \cap Drvs \subseteq g.pending_drvs \cup g.drv_cache \cup todo
  BY DEF Read, Kept
<1>3. \A d \in Drvs : /\ g.output_to_drv[Out[d]] \in {None, d}
                      /\ g.output_to_drv[Out[d]] = d => d \in g.drv_cache
                      /\ g.inputs[d] = IF d \in g.drv_cache \ Unreadable THEN Inputs[d] ELSE {}
                      /\ g.inputs[d] \subseteq Nodes(g)
  BY DEF Read, Kept
<1> QED BY <1>1, <1>2, <1>3 DEF Read

(* The same for the engine's own forest, in terms of the nodes that are new. *)
LEMMA EngineReads ==
  ASSUME CountInv, EngineSide, NEW g, g = forest', Kept(forest, g),
         g.pending_drvs \in SUBSET Drvs, forest.pending_drvs \subseteq g.pending_drvs,
         \A p \in Paths : forest.status[p] # "absent" => g.status[p] # "absent",
         \A d \in g.pending_drvs : d \in forest.pending_drvs \/ g.status[d] # "absent",
         \A d \in Drvs : g.status[d] # "absent" => forest.status[d] # "absent" \/ d \in g.pending_drvs
  PROVE  Read(forest, {})'
<1>1. forest \in Forests /\ Read(forest, {}) /\ Drvs \subseteq Paths
  BY DEF CountInv, CountType, EngineSide, Paths
<1>2. Nodes(forest) \subseteq Nodes(g)
  BY DEF Nodes
<1>3. g.pending_drvs \subseteq Nodes(g)
  BY <1>1, <1>2 DEF Nodes, Read
<1>4. Nodes(g) \cap Drvs \subseteq Nodes(forest) \cup g.pending_drvs
  BY <1>1 DEF Nodes
<1>5. Read(g, {})
  BY <1>1, <1>2, <1>3, <1>4, ReadFed
<1> QED BY <1>5 DEF Read, Nodes

(* A line that the filter keeps. *)
LEMMA LineLogged ==
  ASSUME ObserverInv, NEW m \in Messages, NixLine(m), Retains(m), EngineSide',
         NEW f, NEW R, NEW todo, f = observed, R = Elements(log),
         todo = Elements(requests) \cup Elements(results),
         \A n \in R : m \notin Obsolete(n), View(f, R \cup {m}, todo)'
  PROVE  ObserverInv'
<1>1. /\ log' = Append(log, m) /\ observed' = observed
      /\ requests' = requests /\ results' = results
  BY DEF NixLine
<1>2. /\ log \in Seq(Messages) /\ Ordered(log) /\ requests \in Seq(Drvs)
      /\ results \in Seq(Drvs) /\ observed.pending_drvs = {}
  BY DEF ObserverInv
<1>3. /\ log' \in Seq(Messages) /\ Ordered(log') /\ Elements(log') = R \cup {m}
  BY <1>1, <1>2, LogGrows
<1>4. View(observed, Elements(log), Elements(requests) \cup Elements(results))'
  <2>1. /\ f = observed' /\ R \cup {m} = Elements(log')
        /\ todo = Elements(requests') \cup Elements(results')
    BY <1>1, <1>3
  <2> QED BY <2>1
<1> QED BY <1>1, <1>2, <1>3, <1>4 DEF ObserverInv

(* A line that the filter drops. *)
LEMMA LineUnlogged ==
  ASSUME ObserverInv, NEW m, NixLine(m), ~ Retains(m), EngineSide',
         NEW f, NEW R, NEW todo, f = observed, R = Elements(log),
         todo = Elements(requests) \cup Elements(results), View(f, R, todo)'
  PROVE  ObserverInv'
<1>1. log' = log /\ observed' = observed /\ requests' = requests /\ results' = results
  BY DEF NixLine
<1>2. /\ log \in Seq(Messages) /\ Ordered(log) /\ requests \in Seq(Drvs)
      /\ results \in Seq(Drvs) /\ observed.pending_drvs = {}
  BY DEF ObserverInv
<1>3. View(observed, Elements(log), Elements(requests) \cup Elements(results))'
  <2>1. /\ f = observed' /\ R = Elements(log')
        /\ todo = Elements(requests') \cup Elements(results')
    BY <1>1
  <2> QED BY <2>1
<1> QED BY <1>1, <1>2, <1>3 DEF ObserverInv

(* An activity begins: the engine feeds the start, the log keeps it. *)
LEMMA ObserverBegin ==
  ASSUME CountInv, ObserverInv, NEW kind \in {"build", "copy", "substitute"}, NEW d \in Drvs,
         StartActivity(kind, d), \A x \in Drvs : x # d => phase'[x] = phase[x],
         kind = "substitute" => phase[d] = "wanted" /\ phase'[d] = "substituting",
         kind = "build" => phase[d] \in {"wanted", "missing"} /\ phase'[d] = "building",
         kind = "copy" => phase[d] = "valid" /\ phase'[d] = "copied"
  PROVE  ObserverInv'
<1> DEFINE a == Act(kind, d)
<1>1. a \in Activities /\ a.kind = kind /\ a.drv = d
  BY DEF Act, Activities, Kinds
<1>2. /\ running' = running \cup {a} /\ NixLine(Start(a)) /\ stream = "open" /\ stream' = stream
  BY DEF StartActivity, NixLine
<1>3. /\ forest \in Forests /\ EngineSide /\ d \in Paths /\ Out[d] \in Outs
      /\ \A o \in Outs : forest.output_to_drv[o] = None
  BY <1>2 DEF CountInv, CountType, Following, ObserverInv, Paths, Outs
<1>n. NodeOf(forest, a) = IF kind = "build" THEN d ELSE None
  BY <1>1, <1>3 DEF NodeOf
<1>4. PICK g : g = forest' /\ g = FeedMessage(forest, Start(a))
  BY <1>2 DEF NixLine
<1> HIDE DEF a
<1>5. /\ Kept(forest, g) /\ g.activities = forest.activities \cup {a}
      /\ g.pending_drvs = IF kind = "build" THEN forest.pending_drvs \cup {d}
                          ELSE forest.pending_drvs
      /\ g.status = IF kind # "query" /\ NodeOf(forest, a) # None
                      THEN [forest.status EXCEPT ![NodeOf(forest, a)] = StartStatus[kind]] ELSE forest.status
  BY <1>1, <1>3, <1>4, StartFed
<1>6. \A p \in Paths : g.status[p] = IF kind = "build" /\ p = d THEN "building" ELSE forest.status[p]
  <2>1. d # None /\ StartStatus["build"] = "building" /\ forest.status \in [Paths -> Statuses]
    BY <1>3, NoneAssumption DEF StartStatus, Forests
  <2> QED BY <1>3, <1>n, <1>5, <2>1
<1>7. Read(forest, {})'
  <2>1. g.pending_drvs \in SUBSET Drvs /\ forest.pending_drvs \in SUBSET Drvs /\ Drvs \subseteq Paths
    BY <1>3, <1>5 DEF Forests, Paths
  <2>2. \A x \in g.pending_drvs : x \in forest.pending_drvs \/ g.status[x] # "absent"
    BY <1>3, <1>5, <1>6
  <2>3. \A x \in Drvs : g.status[x] # "absent" => forest.status[x] # "absent" \/ x \in g.pending_drvs
    BY <1>5, <1>6, <2>1
  <2>4. \A p \in Paths : forest.status[p] # "absent" => g.status[p] # "absent"
    BY <1>6
  <2> QED BY <1>3, <1>4, <1>5, <2>1, <2>2, <2>3, <2>4, EngineReads
<1>8. Start(a) \in Messages /\ Retains(Start(a)) /\ filter' = filter \cup {a}
  <2>1. Start(a).action = "start" /\ Start(a).of = a
    BY DEF Start
  <2>2. Start(a) \in Messages
    BY <1>1 DEF Messages
  <2>3. Retains(Start(a))
    BY <1>1, <2>1 DEF Retains
  <2>4. filter' = Filtered(Start(a))
    BY <1>2 DEF NixLine
  <2> QED BY <2>1, <2>2, <2>3, <2>4 DEF Filtered
<1>9. EngineSide'
  <2>1. filter' = {b \in running' : b.kind # "query"}
    BY <1>1, <1>2, <1>3, <1>8 DEF EngineSide
  <2>2. ASSUME NEW x \in Drvs
        PROVE  /\ Act("build", x) \in running' => forest'.status[x] \in {"building", "failed"}
               /\ forest'.status[x] = "failed" => phase'[x] \in {"failing", "failed"}
    <3>1. /\ Act("build", x) \in running => forest.status[x] \in {"building", "failed"}
          /\ forest.status[x] = "failed" => phase[x] \in {"failing", "failed"}
      BY <1>3 DEF EngineSide
    <3>2. Act("build", x) = a => kind = "build" /\ x = d
      BY Apart DEF a
    <3>3. g.status[x] = IF kind = "build" /\ x = d THEN "building" ELSE forest.status[x]
      BY <1>6 DEF Paths
    <3>4. x = d => phase[x] \notin {"failing", "failed"}
      OBVIOUS
    <3> QED BY <1>2, <1>4, <3>1, <3>2, <3>3, <3>4
  <2>3. \A o \in Outs : forest'.status[o] \in {"absent", "unknown"}
    <3>1. \A o \in Outs : o \in Paths /\ o # d
      BY DrvsAssumption DEF Paths
    <3> QED BY <1>3, <1>4, <1>6, <3>1 DEF EngineSide
  <2> QED BY <1>2, <1>7, <2>1, <2>2, <2>3 DEF EngineSide
<1>10. PICK f, R, todo : f = observed /\ R = Elements(log) /\ todo = Elements(requests) \cup Elements(results)
  OBVIOUS
<1>11. View(f, R, todo)
  BY <1>10 DEF ObserverInv
<1>12. View(f, R \cup {Start(a)}, todo)' /\ \A n \in R : Start(a) \notin Obsolete(n)
  BY <1>2, <1>4, <1>6, <1>11, ViewBegin DEF a
<1> QED BY <1>2, <1>8, <1>9, <1>10, <1>12, LineLogged

(* An activity that the log knows ends. *)
LEMMA ObserverEnd ==
  ASSUME CountInv, ObserverInv, NEW kind \in {"build", "copy", "substitute"}, NEW d \in Drvs,
         StopActivity(kind, d), \A x \in Drvs : x # d => phase'[x] = phase[x],
         kind = "substitute" => phase'[d] \in {"valid", "missing"},
         kind = "build" => phase'[d] \in IF phase[d] = "failing" THEN {"failed"} ELSE {"valid", "broken"},
         kind = "copy" => phase'[d] = phase[d]
  PROVE  ObserverInv'
<1> DEFINE a == Act(kind, d)
<1>1. a \in Activities /\ a.kind = kind /\ a.drv = d
  BY DEF Act, Activities, Kinds
<1>2. /\ a \in running /\ running' = running \ {a} /\ NixLine(Stop(a))
      /\ stream = "open" /\ stream' = stream
  BY DEF StopActivity, NixLine
<1>3. /\ forest \in Forests /\ EngineSide /\ d \in Paths /\ Out[d] \in Outs /\ forest.activities = running
      /\ \A o \in Outs : forest.output_to_drv[o] = None
  BY <1>2 DEF CountInv, CountType, Following, ObserverInv, Paths, Outs
<1>n. NodeOf(forest, a) = IF kind = "build" THEN d ELSE None
  BY <1>1, <1>3 DEF NodeOf
<1>4. PICK g : g = forest' /\ g = FeedMessage(forest, Stop(a))
  BY <1>2 DEF NixLine
<1>m. kind = "build" => forest.status[d] \in {"building", "failed"} /\ phase[d] \in {"building", "failing"}
  BY <1>2, <1>3 DEF EngineSide, CountInv, Following
<1> HIDE DEF a
<1>5. /\ Kept(forest, g) /\ g.activities = forest.activities \ {a}
      /\ g.pending_drvs = forest.pending_drvs
      /\ g.status = IF /\ a \in forest.activities /\ kind # "query" /\ NodeOf(forest, a) # None
                       /\ forest.status[NodeOf(forest, a)] # "failed"
                      THEN [forest.status EXCEPT ![NodeOf(forest, a)] = "built"] ELSE forest.status
  BY <1>1, <1>3, <1>4, StopFed
<1>6. \A p \in Paths : g.status[p] = IF kind = "build" /\ p = d /\ forest.status[d] # "failed"
                                       THEN "built" ELSE forest.status[p]
  <2>1. d # None /\ forest.status \in [Paths -> Statuses]
    BY <1>3, NoneAssumption DEF Forests
  <2> QED BY <1>2, <1>3, <1>n, <1>5, <2>1
<1>7. Read(forest, {})'
  <2>1. g.pending_drvs \in SUBSET Drvs /\ Drvs \subseteq Paths
    BY <1>3, <1>5 DEF Forests, Paths
  <2>2. \A p \in Paths : g.status[p] # "absent" <=> forest.status[p] # "absent"
    BY <1>6, <1>m
  <2> QED BY <1>3, <1>4, <1>5, <2>1, <2>2, EngineReads
<1>8. Stop(a) \in Messages /\ Retains(Stop(a)) /\ filter' = filter \ {a}
  <2>1. Stop(a).action = "stop" /\ Stop(a).of = a
    BY DEF Stop
  <2>2. Stop(a) \in Messages
    BY <1>1 DEF Messages
  <2>n. a \in filter
    BY <1>1, <1>2, <1>3 DEF EngineSide
  <2>3. Retains(Stop(a))
    BY <2>1, <2>n DEF Retains
  <2>4. filter' = Filtered(Stop(a))
    BY <1>2 DEF NixLine
  <2> QED BY <2>1, <2>2, <2>3, <2>4 DEF Filtered
<1>9. EngineSide'
  <2>1. filter' = {b \in running' : b.kind # "query"}
    BY <1>2, <1>3, <1>8 DEF EngineSide
  <2>2. ASSUME NEW x \in Drvs
        PROVE  /\ Act("build", x) \in running' => forest'.status[x] \in {"building", "failed"}
               /\ forest'.status[x] = "failed" => phase'[x] \in {"failing", "failed"}
    <3>1. /\ Act("build", x) \in running => forest.status[x] \in {"building", "failed"}
          /\ forest.status[x] = "failed" => phase[x] \in {"failing", "failed"}
      BY <1>3 DEF EngineSide
    <3>2. kind = "build" /\ x = d => Act("build", x) = a
      BY DEF a
    <3>3. g.status[x] = IF kind = "build" /\ x = d /\ forest.status[d] # "failed"
                          THEN "built" ELSE forest.status[x]
      BY <1>6 DEF Paths
    <3>4. Act("build", x) \in running' => forest'.status[x] \in {"building", "failed"}
      BY <1>2, <1>4, <3>1, <3>2, <3>3
    <3>5. ASSUME forest'.status[x] = "failed" PROVE phase'[x] \in {"failing", "failed"}
      <4>1. forest.status[x] = "failed"
        BY <1>4, <3>3, <3>5
      <4>2. phase[x] \in {"failing", "failed"}
        BY <3>1, <4>1
      <4>3. kind = "substitute" => phase[d] = "substituting"
        BY <1>2 DEF a, CountInv, Following
      <4> QED BY <1>m, <4>2, <4>3
    <3> QED BY <3>4, <3>5
  <2>3. \A o \in Outs : forest'.status[o] \in {"absent", "unknown"}
    <3>1. \A o \in Outs : o \in Paths /\ o # d
      BY DrvsAssumption DEF Paths
    <3> QED BY <1>3, <1>4, <1>6, <3>1 DEF EngineSide
  <2> QED BY <1>2, <1>7, <2>1, <2>2, <2>3 DEF EngineSide
<1>10. PICK f, R, todo : f = observed /\ R = Elements(log) /\ todo = Elements(requests) \cup Elements(results)
  OBVIOUS
<1>11. View(f, R, todo)
  BY <1>10 DEF ObserverInv
<1>12. View(f, R \cup {Stop(a)}, todo)' /\ \A n \in R : Stop(a) \notin Obsolete(n)
  BY <1>2, <1>3, <1>4, <1>6, <1>11, ViewEnd DEF a
<1> QED BY <1>2, <1>8, <1>9, <1>10, <1>12, LineLogged

(* A path-info query leaves no record and no trace in the graph. *)
LEMMA ObserverQuery ==
  ASSUME CountInv, ObserverInv, NEW d \in Drvs, Query(d) \/ QueryDone(d)
  PROVE  ObserverInv'
<1> DEFINE a == Act("query", d)
<1>1. a \in Activities /\ a.kind = "query" /\ a.drv = d
  BY DEF Act, Activities, Kinds
<1>2. PICK m \in {Start(a), Stop(a)} :
         /\ NixLine(m) /\ stream = "open" /\ stream' = stream /\ phase' = phase
         /\ running' = running \cup {a} \/ running' = running \ {a}
  BY DEF Query, QueryDone, StartActivity, StopActivity, NixLine
<1>3. /\ forest \in Forests /\ EngineSide /\ forest.activities = running
      /\ \A o \in Outs : forest.output_to_drv[o] = None
  BY <1>2 DEF CountInv, CountType, Following, ObserverInv
<1>4. PICK g : g = forest' /\ g = FeedMessage(forest, m)
  BY <1>2 DEF NixLine
<1>5. Start(a).action = "start" /\ Start(a).of = a /\ Stop(a).action = "stop" /\ Stop(a).of = a
  BY DEF Start, Stop
<1>6. a \notin filter
  BY <1>1, <1>3 DEF EngineSide
<1> HIDE DEF a
<1>7. Kept(forest, g) /\ g.pending_drvs = forest.pending_drvs /\ g.status = forest.status
  <2>1. CASE m = Start(a)
    BY <1>1, <1>3, <1>4, <2>1, StartFed
  <2>2. CASE m = Stop(a)
    <3>1. g = FeedMessage(forest, Stop(a))
      BY <1>4, <2>2
    <3>2. /\ Kept(forest, g) /\ g.pending_drvs = forest.pending_drvs
          /\ g.status = IF /\ a \in forest.activities /\ a.kind # "query" /\ NodeOf(forest, a) # None
                           /\ forest.status[NodeOf(forest, a)] # "failed"
                          THEN [forest.status EXCEPT ![NodeOf(forest, a)] = "built"] ELSE forest.status
      BY <1>1, <1>3, <3>1, StopFed
    <3> QED BY <1>1, <3>2
  <2> QED BY <2>1, <2>2
<1>8. ~ Retains(m) /\ filter' = filter
  <2>1. ~ Retains(m)
    BY <1>1, <1>5, <1>6 DEF Retains
  <2>2. filter' = Filtered(m)
    BY <1>2 DEF NixLine
  <2>3. filter \ {a} = filter
    BY <1>6
  <2> QED BY <1>5, <2>1, <2>2, <2>3 DEF Filtered
<1>9. \A b \in Activities : b.kind # "query" => (b \in running' <=> b \in running)
  BY <1>1, <1>2
<1>10. EngineSide'
  <2>1. Read(forest, {})'
    <3>1. g.pending_drvs \in SUBSET Drvs /\ Drvs \subseteq Paths
      BY <1>3, <1>7 DEF Forests, Paths
    <3> QED BY <1>3, <1>4, <1>7, <3>1, EngineReads
  <2>2. filter' = {b \in running' : b.kind # "query"}
    BY <1>1, <1>2, <1>3, <1>8 DEF EngineSide
  <2>3. \A x \in Drvs : Act("build", x) \in running' <=> Act("build", x) \in running
    <3>1. \A x \in Drvs : Act("build", x) \in Activities /\ Act("build", x).kind = "build"
      BY DEF Act, Activities, Kinds
    <3> QED BY <1>9, <3>1
  <2> QED BY <1>2, <1>3, <1>4, <1>7, <2>1, <2>2, <2>3 DEF EngineSide
<1>11. PICK f, R, todo : f = observed /\ R = Elements(log) /\ todo = Elements(requests) \cup Elements(results)
  OBVIOUS
<1>12. View(f, R, todo)
  BY <1>11 DEF ObserverInv
<1>13. View(f, R, todo)'
  BY <1>2, <1>4, <1>7, <1>9, <1>12, ViewQuiet
<1> QED BY <1>2, <1>8, <1>10, <1>11, <1>13, LineUnlogged

(* A log line of a build or the status of a fetch: its activity runs, so the
   record is kept and the node it touches stays. *)
LEMMA ObserverReport ==
  ASSUME CountInv, ObserverInv, NEW kind \in {"build", "copy"}, NEW d \in Drvs, Report(kind, d)
  PROVE  ObserverInv'
<1> DEFINE a == Act(kind, d)
<1>1. a \in Activities /\ a.kind = kind /\ a.drv = d
  BY DEF Act, Activities, Kinds
<1>2. /\ a \in running /\ running' = running /\ phase' = phase /\ NixLine(Result(a))
      /\ stream = "open" /\ stream' = stream
  BY DEF Report, NixLine
<1>3. /\ forest \in Forests /\ EngineSide /\ d \in Paths /\ Out[d] \in Outs /\ forest.activities = running
  BY DEF CountInv, CountType, Following, ObserverInv, Paths, Outs
<1>4. PICK g : g = forest' /\ g = FeedMessage(forest, Result(a))
  BY <1>2 DEF NixLine
<1>5. kind = "build" => forest.status[d] \in {"building", "failed"}
  BY <1>2, <1>3 DEF EngineSide
<1>6. PathOf(a) = (IF kind = "build" THEN d ELSE Out[d]) /\ PathOf(a) \in Paths
  BY <1>1, <1>3 DEF PathOf, Paths
<1> HIDE DEF a
<1>7. /\ Kept(forest, g) /\ g.activities = forest.activities /\ g.pending_drvs = forest.pending_drvs
      /\ g.status[PathOf(a)] # "absent"
      /\ \/ g.status = forest.status
         \/ /\ forest.status[PathOf(a)] = "absent"
            /\ g.status = [forest.status EXCEPT ![PathOf(a)] = "unknown"]
  BY <1>1, <1>2, <1>3, <1>4, ResultFed
<1>8. /\ \A x \in Drvs : g.status[x] = forest.status[x]
      /\ \A o \in Outs : g.status[o] = forest.status[o] \/ g.status[o] = "unknown"
      /\ \A p \in Paths : forest.status[p] # "absent" => g.status[p] # "absent"
  <2>1. \A x \in Drvs : x # Out[d]
    BY <1>3, DrvsAssumption
  <2>2. forest.status \in [Paths -> Statuses]
    BY <1>3 DEF Forests
  <2>3. \A p \in Paths : \/ g.status[p] = forest.status[p]
                         \/ p = PathOf(a) /\ forest.status[p] = "absent" /\ g.status[p] = "unknown"
    BY <1>7, <2>2
  <2> QED BY <1>5, <1>6, <2>1, <2>3 DEF Paths
<1>9. Read(forest, {})'
  <2>1. g.pending_drvs \in SUBSET Drvs
    BY <1>3, <1>7 DEF Forests
  <2> QED BY <1>3, <1>4, <1>7, <1>8, <2>1, EngineReads
<1>10. Result(a) \in Messages /\ Retains(Result(a)) /\ filter' = filter
  <2>1. Result(a).action = "result" /\ Result(a).of = a
    BY DEF Result
  <2>2. Result(a) \in Messages
    BY <1>1 DEF Messages
  <2>3. a \in filter
    BY <1>1, <1>2, <1>3 DEF EngineSide
  <2>4. Retains(Result(a))
    BY <2>1, <2>3 DEF Retains
  <2>5. filter' = Filtered(Result(a))
    BY <1>2 DEF NixLine
  <2> QED BY <2>1, <2>2, <2>4, <2>5 DEF Filtered
<1>11. EngineSide'
  BY <1>2, <1>3, <1>4, <1>8, <1>9, <1>10 DEF EngineSide
<1>12. PICK f, R, todo : f = observed /\ R = Elements(log) /\ todo = Elements(requests) \cup Elements(results)
  OBVIOUS
<1>13. View(f, R, todo)
  BY <1>12 DEF ObserverInv
<1>14. Sent(Result(a))'
  <2>1. Result(a).action = "result" /\ Result(a).of = a
    BY DEF Result
  <2>2. forest'.status[PathOf(a)] # "absent"
    BY <1>4, <1>7
  <2> QED BY <1>1, <1>10, <2>1, <2>2 DEF Sent
<1>15. \A n \in R : Result(a) \notin Obsolete(n)
  BY <1>13, ObsoleteOnly DEF View, Sent
<1>16. View(f, R \cup {Result(a)}, todo)'
  <2> DEFINE R2 == R \cup {Result(a)}
  <2>1. /\ \A b \in Activities : /\ Start(b) \in R2 => Start(b) \in R
                                 /\ Stop(b) \in R2 => Stop(b) \in R
        /\ \A x \in Drvs : Msg(0, {x}) \in R2 => Msg(0, {x}) \in R
    BY Apart
  <2>2. R \subseteq R2 /\ \A m \in R2 : m \in R \/ Sent(m)'
    BY <1>14
  <2> HIDE DEF R2
  <2>3. View(f, R2, todo)'
    BY <1>2, <1>4, <1>8, <1>13, <2>1, <2>2, ViewQuiet
  <2> QED BY <2>3 DEF R2
<1> QED BY <1>2, <1>10, <1>11, <1>12, <1>15, <1>16, LineLogged

(* nix says what it will build. *)
LEMMA ObserverPlan ==
  ASSUME CountInv, ObserverInv, Announce
  PROVE  ObserverInv'
<1> DEFINE drvs == {a.drv : a \in {b \in Traffic : b.kind = "build"}}
<1>1. PICK level \in {1, 3} : NixLine(Msg(level, drvs))
  BY DEF Announce
<1>2. PICK ds \in SUBSET Drvs : ds = drvs
  BY TrafficAssumption DEF Activities
<1>3. running' = running /\ phase' = phase /\ stream = "open" /\ stream' = stream
  BY DEF Announce, NixLine
<1>4. forest \in Forests /\ EngineSide /\ Drvs \subseteq Paths
  BY DEF CountInv, CountType, ObserverInv, Paths
<1>5. NixLine(Msg(level, ds))
  BY <1>1, <1>2
<1> HIDE DEF drvs
<1>6. PICK g : g = forest' /\ g = FeedMessage(forest, Msg(level, ds))
  BY <1>5 DEF NixLine
<1>l. level \in {0, 1, 3} /\ level # 0
  OBVIOUS
<1>7. /\ Kept(forest, g) /\ g.activities = forest.activities
      /\ g.pending_drvs = forest.pending_drvs \cup ds
      /\ g.status = [p \in Paths |-> IF p \notin ds THEN forest.status[p]
                                     ELSE IF forest.status[p] \in {"absent", "unknown"} THEN "planned"
                                     ELSE forest.status[p]]
  BY <1>4, <1>6, <1>l, MsgFed
<1>8. \A p \in Paths : IF p \in ds /\ forest.status[p] \in {"absent", "unknown"}
                         THEN g.status[p] = "planned" ELSE g.status[p] = forest.status[p]
  BY <1>7
<1>9. /\ \A x \in Drvs : /\ g.status[x] \in Begun <=> forest.status[x] \in Begun
                         /\ g.status[x] = "failed" <=> forest.status[x] = "failed"
                         /\ forest.status[x] \in {"building", "failed"} => g.status[x] = forest.status[x]
      /\ \A o \in Outs : g.status[o] = forest.status[o]
      /\ \A p \in Paths : forest.status[p] # "absent" => g.status[p] # "absent"
      /\ \A x \in ds : g.status[x] # "absent"
  <2>1. \A o \in Outs : o \in Paths /\ o \notin ds
    BY <1>2, DrvsAssumption DEF Paths
  <2> QED BY <1>4, <1>8, <2>1 DEF Begun
<1>10. Read(forest, {})'
  <2>1. g.pending_drvs \in SUBSET Drvs
    BY <1>4, <1>7 DEF Forests
  <2>2. \A x \in Drvs : g.status[x] # "absent" => forest.status[x] # "absent" \/ x \in g.pending_drvs
    BY <1>4, <1>7, <1>8
  <2> QED BY <1>4, <1>6, <1>7, <1>9, <2>1, <2>2, EngineReads
<1>11. /\ Msg(level, ds).action = "msg" /\ Msg(level, ds).level = level /\ Msg(level, ds).drvs = ds
  BY DEF Msg
<1>12. Msg(level, ds) \in Messages
  BY <1>l DEF Messages
<1>13. filter' = filter /\ (Retains(Msg(level, ds)) <=> level = 1)
  <2>1. filter' = Filtered(Msg(level, ds))
    BY <1>5 DEF NixLine
  <2> QED BY <1>11, <2>1 DEF Filtered, Retains
<1>14. EngineSide'
  BY <1>3, <1>4, <1>6, <1>9, <1>10, <1>13 DEF EngineSide
<1>15. PICK f, R, todo : f = observed /\ R = Elements(log) /\ todo = Elements(requests) \cup Elements(results)
  OBVIOUS
<1>16. View(f, R, todo)
  BY <1>15 DEF ObserverInv
<1>17. \A n \in R : Msg(level, ds) \notin Obsolete(n)
  BY <1>16, ObsoleteOnly DEF View, Sent
<1>18. CASE level = 1
  <2> DEFINE R2 == R \cup {Msg(level, ds)}
  <2>1. Sent(Msg(level, ds))'
    BY <1>6, <1>9, <1>11, <1>12, <1>18 DEF Sent
  <2>2. /\ \A b \in Activities : /\ Start(b) \in R2 => Start(b) \in R
                                 /\ Stop(b) \in R2 => Stop(b) \in R
        /\ \A x \in Drvs : Msg(0, {x}) \in R2 => Msg(0, {x}) \in R
    BY <1>l, Apart
  <2>3. R \subseteq R2 /\ \A m \in R2 : m \in R \/ Sent(m)'
    BY <2>1
  <2> HIDE DEF R2
  <2>4. View(f, R2, todo)'
    BY <1>3, <1>6, <1>9, <1>16, <2>2, <2>3, ViewQuiet
  <2>5. View(f, R \cup {Msg(level, ds)}, todo)'
    BY <2>4 DEF R2
  <2> QED BY <1>5, <1>12, <1>13, <1>14, <1>15, <1>17, <1>18, <2>5, LineLogged
<1>19. CASE level = 3
  <2>1. View(f, R, todo)'
    BY <1>3, <1>6, <1>9, <1>16, ViewQuiet
  <2> QED BY <1>5, <1>13, <1>14, <1>15, <1>19, <2>1, LineUnlogged
<1> QED BY <1>18, <1>19

(* A build fails. *)
LEMMA ObserverError ==
  ASSUME CountInv, ObserverInv, NEW d \in Drvs, BuildError(d)
  PROVE  ObserverInv'
<1>1. /\ NixLine(Msg(0, {d})) /\ running' = running /\ stream = "open" /\ stream' = stream
      /\ phase[d] \in {"building", "broken"}
      /\ phase' = [phase EXCEPT ![d] = IF phase[d] = "building" THEN "failing" ELSE "failed"]
  BY DEF BuildError, NixLine
<1>2. /\ forest \in Forests /\ EngineSide /\ Drvs \subseteq Paths /\ phase \in [Drvs -> Phases]
      /\ forest.status[d] \in Begun
  BY <1>1 DEF CountInv, CountType, Following, ObserverInv, Paths
<1>3. phase'[d] \in {"failing", "failed"} /\ \A x \in Drvs : x # d => phase'[x] = phase[x]
  BY <1>1, <1>2
<1>4. PICK g : g = forest' /\ g = FeedMessage(forest, Msg(0, {d}))
  BY <1>1 DEF NixLine
<1>5. /\ Kept(forest, g) /\ g.activities = forest.activities
      /\ g.pending_drvs = forest.pending_drvs
      /\ \A p \in Paths : g.status[p] = IF p = d THEN "failed" ELSE forest.status[p]
  <2>1. 0 \in {0, 1, 3} /\ {d} \in SUBSET Drvs
    OBVIOUS
  <2>2. /\ Kept(forest, g) /\ g.activities = forest.activities
        /\ g.pending_drvs = forest.pending_drvs
        /\ g.status = [p \in Paths |-> IF p \notin {d} THEN forest.status[p] ELSE "failed"]
    BY <1>2, <1>4, <2>1, MsgFed
  <2> QED BY <2>2
<1>6. Read(forest, {})'
  <2>1. g.pending_drvs \in SUBSET Drvs
    BY <1>2, <1>5 DEF Forests
  <2>2. forest.status[d] # "absent"
    BY <1>2 DEF Begun
  <2>3. \A p \in Paths : g.status[p] # "absent" <=> forest.status[p] # "absent"
    BY <1>5, <2>2
  <2> QED BY <1>2, <1>4, <1>5, <2>1, <2>3, EngineReads
<1>7. Msg(0, {d}).action = "msg" /\ Msg(0, {d}).level = 0
  BY DEF Msg
<1>8. Msg(0, {d}) \in Messages
  <2>1. 0 \in {0, 1, 3} /\ {d} \in SUBSET Drvs
    OBVIOUS
  <2> QED BY <2>1 DEF Messages
<1>9. Retains(Msg(0, {d})) /\ filter' = filter
  <2>1. filter' = Filtered(Msg(0, {d}))
    BY <1>1 DEF NixLine
  <2>2. PICK m : m = Msg(0, {d}) /\ m.action = "msg" /\ m.level = 0
    BY <1>7
  <2>3. m.level <= 1
    BY <2>2
  <2>4. Retains(m)
    BY <2>2, <2>3 DEF Retains
  <2>5. Filtered(m) = filter
    BY <2>2 DEF Filtered
  <2> QED BY <2>1, <2>2, <2>4, <2>5
<1>10. EngineSide'
  <2>1. \A o \in Outs : o \in Paths /\ o # d
    BY DrvsAssumption DEF Paths
  <2>2. \A o \in Outs : forest'.status[o] \in {"absent", "unknown"}
    BY <1>2, <1>4, <1>5, <2>1 DEF EngineSide
  <2>3. ASSUME NEW x \in Drvs
        PROVE  /\ Act("build", x) \in running' => forest'.status[x] \in {"building", "failed"}
               /\ forest'.status[x] = "failed" => phase'[x] \in {"failing", "failed"}
    <3>1. /\ Act("build", x) \in running => forest.status[x] \in {"building", "failed"}
          /\ forest.status[x] = "failed" => phase[x] \in {"failing", "failed"}
      BY <1>2 DEF EngineSide
    <3>2. forest'.status[x] = IF x = d THEN "failed" ELSE forest.status[x]
      BY <1>2, <1>4, <1>5
    <3> QED BY <1>1, <1>3, <3>1, <3>2
  <2> QED BY <1>1, <1>2, <1>6, <1>9, <2>2, <2>3 DEF EngineSide
<1>11. PICK f, R, todo : f = observed /\ R = Elements(log) /\ todo = Elements(requests) \cup Elements(results)
  OBVIOUS
<1>12. View(f, R, todo)
  BY <1>11 DEF ObserverInv
<1>13. View(f, R \cup {Msg(0, {d})}, todo)' /\ \A n \in R : Msg(0, {d}) \notin Obsolete(n)
  BY <1>1, <1>2, <1>3, <1>4, <1>5, <1>12, ViewFails
<1> QED BY <1>1, <1>8, <1>9, <1>10, <1>11, <1>13, LineLogged

(* The engine reads the derivations once the stream has ended. *)
LEMMA ObserverResolve ==
  ASSUME OneMaker, CountInv, ObserverInv, ResolvePending
  PROVE  ObserverInv'
<1>1. /\ phase' = phase /\ running' = running /\ filter' = filter /\ log' = log
      /\ observed' = observed /\ requests' = requests /\ results' = results /\ stream = "ended"
  BY DEF ResolvePending, nix, reader
<1>2. /\ forest \in Forests /\ EngineSide /\ Read(forest, {}) /\ forest.pending_drvs \subseteq Drvs
      /\ Drvs \subseteq Paths
  BY DEF CountInv, CountType, ObserverInv, EngineSide, Forests, Paths
<1>3. PICK g : g = forest'
  OBVIOUS
<1>4. /\ g \in Forests /\ Read(g, {})
      /\ stream' = "resolved" => g.pending_drvs = {}
      /\ \A p \in Paths : \/ g.status[p] = forest.status[p]
                          \/ forest.status[p] = "absent" /\ g.status[p] = "unknown"
  <2>1. ASSUME NEW d \in TakePending(forest), g = ApplyRead(forest, d), stream' = stream
        PROVE  /\ g \in Forests /\ Read(g, {})
               /\ \A p \in Paths : \/ g.status[p] = forest.status[p]
                                   \/ forest.status[p] = "absent" /\ g.status[p] = "unknown"
    <3>1. d \in Drvs /\ d \in forest.pending_drvs
      BY <1>2 DEF TakePending
    <3>2. Read(forest, {} \cup {d})
      BY <1>2, <3>1 DEF Read
    <3>3. {} \in SUBSET Drvs
      OBVIOUS
    <3>4. Read(g, {})
      BY <1>2, <2>1, <3>1, <3>2, <3>3, ReadKeepsRead
    <3>5. /\ g \in Forests
          /\ g.status = [p \in Paths |->
               IF p \in (IF d \in Unreadable THEN {d} ELSE Inputs[d] \cup {d}) /\ forest.status[p] = "absent"
                 THEN "unknown" ELSE forest.status[p]]
      BY <1>2, <2>1, <3>1, ReadEffect
    <3> QED BY <3>4, <3>5
  <2>2. ASSUME TakePending(forest) = {}, g = Taken(forest)
        PROVE  g \in Forests /\ Read(g, {}) /\ g.pending_drvs = {} /\ g.status = forest.status
    <3>1. /\ g \in Forests /\ g.pending_drvs = {} /\ g.status = forest.status
          /\ g.inputs = forest.inputs /\ g.output_to_drv = forest.output_to_drv
          /\ g.drv_cache = forest.drv_cache
      BY <1>2, <2>2 DEF Taken, Forests
    <3>2. forest.pending_drvs \subseteq forest.drv_cache
      BY <2>2 DEF TakePending
    <3> QED BY <1>2, <3>1, <3>2 DEF Read, Nodes
  <2> QED BY <1>1, <1>3, <2>1, <2>2 DEF ResolvePending
<1>5. Read(forest, {})'
  BY <1>3, <1>4 DEF Read, Nodes
<1>6. /\ \A x \in Drvs : /\ g.status[x] \in Begun <=> forest.status[x] \in Begun
                         /\ g.status[x] = "failed" <=> forest.status[x] = "failed"
                         /\ forest.status[x] \in {"building", "failed"} => g.status[x] = forest.status[x]
      /\ \A o \in Outs : forest.status[o] \in {"absent", "unknown"} => g.status[o] \in {"absent", "unknown"}
      /\ \A p \in Paths : forest.status[p] # "absent" => g.status[p] # "absent"
  <2>1. Outs \subseteq Paths
    BY DEF Paths
  <2> QED BY <1>2, <1>4, <2>1 DEF Begun
<1>7. EngineSide'
  BY <1>1, <1>2, <1>3, <1>4, <1>5, <1>6 DEF EngineSide
<1>8. PICK f, R, todo : f = observed /\ R = Elements(log) /\ todo = Elements(requests) \cup Elements(results)
  OBVIOUS
<1>9. View(f, R, todo)
  BY <1>8 DEF ObserverInv
<1>10. View(f, R, todo)'
  BY <1>1, <1>3, <1>6, <1>9, ViewQuiet
<1>11. View(observed, Elements(log), Elements(requests) \cup Elements(results))'
  <2>1. f = observed' /\ R = Elements(log') /\ todo = Elements(requests') \cup Elements(results')
    BY <1>1, <1>8
  <2> QED BY <1>10, <2>1
<1> QED BY <1>1, <1>7, <1>11 DEF ObserverInv

(* A step that touches neither nix's work, nor a graph, nor what is under way. *)
LEMMA ObserverSame ==
  ASSUME ObserverInv, phase' = phase, running' = running, filter' = filter, log' = log,
         observed' = observed, requests' = requests, results' = results, forest' = forest,
         stream' \in {stream, "ended"}
  PROVE  ObserverInv'
<1>1. Read(forest, {})'
  BY DEF ObserverInv, EngineSide, Read, Nodes
<1>2. EngineSide'
  BY <1>1 DEF ObserverInv, EngineSide
<1>3. PICK f, R, todo : f = observed /\ R = Elements(log) /\ todo = Elements(requests) \cup Elements(results)
  OBVIOUS
<1>4. View(f, R, todo)
  BY <1>3 DEF ObserverInv
<1>5. View(f, R, todo)'
  BY <1>4, ViewSame
<1>6. View(observed, Elements(log), Elements(requests) \cup Elements(results))'
  <2>1. f = observed' /\ R = Elements(log') /\ todo = Elements(requests') \cup Elements(results')
    BY <1>3
  <2> QED BY <1>5, <2>1
<1> QED BY <1>2, <1>6 DEF ObserverInv

(* A step of nix about one derivation. *)
LEMMA ObserverNix ==
  ASSUME CountInv, ObserverInv, NEW d \in Drvs, NixStep(d)
  PROVE  ObserverInv'
<1>1. phase \in [Drvs -> Phases]
  BY DEF CountInv, CountType
<1>2. CASE Substitute(d)
  <2>1. phase[d] = "wanted" /\ phase' = [phase EXCEPT ![d] = "substituting"] /\ StartActivity("substitute", d)
    BY <1>2 DEF Substitute
  <2>2. phase'[d] = "substituting" /\ \A x \in Drvs : x # d => phase'[x] = phase[x]
    BY <1>1, <2>1
  <2> QED BY <2>1, <2>2, ObserverBegin
<1>3. CASE Build(d)
  <2>1. /\ phase[d] \in {"wanted", "missing"} /\ phase' = [phase EXCEPT ![d] = "building"]
        /\ StartActivity("build", d)
    BY <1>3 DEF Build
  <2>2. phase'[d] = "building" /\ \A x \in Drvs : x # d => phase'[x] = phase[x]
    BY <1>1, <2>1
  <2> QED BY <2>1, <2>2, ObserverBegin
<1>4. CASE Copy(d)
  <2>1. phase[d] = "valid" /\ phase' = [phase EXCEPT ![d] = "copied"] /\ StartActivity("copy", d)
    BY <1>4 DEF Copy
  <2>2. phase'[d] = "copied" /\ \A x \in Drvs : x # d => phase'[x] = phase[x]
    BY <1>1, <2>1
  <2> QED BY <2>1, <2>2, ObserverBegin
<1>5. CASE SubstituteDone(d)
  <2>1. PICK next \in {"valid", "missing"} : phase' = [phase EXCEPT ![d] = next]
    BY <1>5 DEF SubstituteDone
  <2>2. phase'[d] \in {"valid", "missing"} /\ \A x \in Drvs : x # d => phase'[x] = phase[x]
    BY <1>1, <2>1
  <2>3. StopActivity("substitute", d)
    BY <1>5 DEF SubstituteDone
  <2> QED BY <2>2, <2>3, ObserverEnd
<1>6. CASE BuildDone(d)
  <2>1. PICK next : /\ phase' = [phase EXCEPT ![d] = next]
                    /\ \/ phase[d] = "failing" /\ next = "failed"
                       \/ phase[d] = "building" /\ next \in {"valid", "broken"}
    BY <1>6 DEF BuildDone
  <2>2. phase'[d] = next /\ \A x \in Drvs : x # d => phase'[x] = phase[x]
    BY <1>1, <2>1
  <2>3. StopActivity("build", d)
    BY <1>6 DEF BuildDone
  <2>4. phase'[d] \in IF phase[d] = "failing" THEN {"failed"} ELSE {"valid", "broken"}
    BY <2>1, <2>2
  <2> QED BY <2>2, <2>3, <2>4, ObserverEnd
<1>7. CASE CopyDone(d)
  <2>1. StopActivity("copy", d) /\ phase' = phase
    BY <1>7 DEF CopyDone
  <2> QED BY <2>1, ObserverEnd
<1>8. CASE BuildLog(d) \/ CopyStatus(d)
  BY <1>8, ObserverReport DEF BuildLog, CopyStatus
<1> QED BY <1>2, <1>3, <1>4, <1>5, <1>6, <1>7, <1>8, ObserverQuery, ObserverError DEF NixStep

(* Every step keeps the invariant. *)
LEMMA ObserverNext ==
  ASSUME OneMaker, CountInv, ObserverInv, [BFNext]_bfvars
  PROVE  ObserverInv'
<1>1. CASE StreamEnds \/ Idle \/ UNCHANGED bfvars
  <2>1. /\ phase' = phase /\ running' = running /\ filter' = filter /\ log' = log
        /\ observed' = observed /\ requests' = requests /\ results' = results /\ forest' = forest
        /\ stream' \in {stream, "ended"}
    BY <1>1 DEF StreamEnds, Idle, bfvars, nix, reader
  <2> QED BY <2>1, ObserverSame
<1> QED BY <1>1, ObserverPlan, ObserverNix, ObserverResolve, ReadObserver, PollObserver DEF BFNext

(* It holds before the first line. *)
LEMMA ObserverInit == BFInit => ObserverInv
<1> SUFFICES ASSUME BFInit PROVE ObserverInv
  OBVIOUS
<1>1. /\ phase = Before /\ running = {} /\ stream = "open" /\ forest = EmptyForest /\ filter = {}
      /\ log = <<>> /\ observed = EmptyForest /\ requests = <<>> /\ results = <<>>
  BY DEF BFInit
<1>2. /\ EmptyForest \in Forests /\ EmptyForest.activities = {} /\ EmptyForest.pending_drvs = {}
      /\ EmptyForest.drv_cache = {} /\ \A p \in Paths : EmptyForest.status[p] = "absent"
      /\ \A d \in Drvs : EmptyForest.inputs[d] = {}
      /\ \A o \in Outs : EmptyForest.output_to_drv[o] = None
  BY DEF EmptyForest, Forests, Statuses
<1>3. Nodes(EmptyForest) = {}
  BY <1>2 DEF Nodes
<1>4. /\ Drvs \subseteq Paths /\ Outs \subseteq Paths
      /\ \A d \in Drvs : Out[d] \in Outs /\ d # None
  BY NoneAssumption DEF Paths, Outs
<1>5. Read(EmptyForest, {})
  BY <1>2, <1>3, <1>4 DEF Read
<1>6. EngineSide
  BY <1>1, <1>2, <1>4, <1>5 DEF EngineSide
<1>7. Live(EmptyForest, {})
  BY <1>1, <1>2 DEF Live, Touched
<1>8. Staged(EmptyForest, {})
  BY <1>1, <1>2, <1>4 DEF Staged, Touched, Waits, Begun
<1>9. Shown(EmptyForest, {})
  BY <1>1, <1>2, <1>4 DEF Shown, Begun
<1>10. Bounded(EmptyForest)
  BY <1>3 DEF Bounded
<1>11. View(EmptyForest, {}, {})
  BY <1>2, <1>5, <1>7, <1>8, <1>9, <1>10 DEF View
<1>12. Elements(<<>>) = {}
  BY DEF Elements
<1>13. <<>> \in Seq(Messages) /\ <<>> \in Seq(Drvs) /\ Ordered(<<>>)
  BY DEF Ordered
<1>14. View(observed, Elements(log), Elements(requests) \cup Elements(results))
  <2>1. Elements(requests) \cup Elements(results) = {}
    BY <1>1, <1>12
  <2> QED BY <1>1, <1>11, <1>12, <2>1
<1> QED BY <1>1, <1>2, <1>6, <1>13, <1>14 DEF ObserverInv

(* A frontend with nothing left to apply shows what the engine resolved. *)
LEMMA ObserverShows ==
  ASSUME CountInv, ObserverInv
  PROVE  ObserverAgrees
<1> SUFFICES ASSUME Drained PROVE Agreement
  BY DEF ObserverAgrees
<1>1. Elements(log) = {} /\ Elements(requests) \cup Elements(results) = {} /\ forest.pending_drvs = {}
  BY DEF Drained, Elements, ObserverInv, EngineSide
<1>2. /\ View(observed, {}, {}) /\ observed.pending_drvs = {} /\ EngineSide
  BY <1>1 DEF ObserverInv
<1>3. /\ observed \in Forests /\ Live(observed, {}) /\ Shown(observed, {}) /\ Read(observed, {})
      /\ Bounded(observed) /\ Read(forest, {}) /\ forest \in Forests
      /\ forest.activities = running
  BY <1>2 DEF View, EngineSide, CountInv, CountType, Following
<1>4. /\ \A d \in Drvs : Act("build", d) \in Activities /\ Act("build", d).kind = "build"
      /\ Drvs \subseteq Paths /\ \A k, d : Act(k, d).drv = d /\ Act(k, d).kind = k
  BY DEF Act, Activities, Kinds, Paths
<1>5. Nodes(observed) \subseteq Nodes(forest)
  <2>1. Nodes(forest) \in SUBSET Paths
    BY DEF Nodes
  <2>2. \A d \in Nodes(forest) \cap (Drvs \ Unreadable) : Inputs[d] \subseteq Nodes(forest)
    BY <1>1, <1>3 DEF Read
  <2> QED BY <1>3, <2>1, <2>2 DEF Bounded
<1>6. \A d \in Drvs \cap Nodes(observed) : observed.inputs[d] = forest.inputs[d]
  <2>1. \A d \in Drvs \cap Nodes(observed) : d \in observed.drv_cache /\ d \in forest.drv_cache
    BY <1>1, <1>2, <1>3, <1>5 DEF Read
  <2> QED BY <1>3, <2>1 DEF Read
<1>7. Failed(observed) = Failed(forest)
  <2>1. \A d \in Drvs : forest.status[d] = "failed" <=> observed.status[d] = "failed"
    BY <1>3 DEF Shown
  <2>2. \A o \in Outs : forest.status[o] # "failed" /\ observed.status[o] # "failed"
    BY <1>2, <1>3 DEF Shown, EngineSide
  <2> QED BY <2>1, <2>2 DEF Failed, Paths
<1>8. observed.activities = {a \in forest.activities : a.kind # "query"}
  <2>1. \A a \in Activities : a.kind # "query" => (a \in running <=> a \in observed.activities)
    BY <1>3 DEF Live, Touched
  <2>2. running \subseteq Activities /\ observed.activities \subseteq Activities
    BY <1>3 DEF CountInv, CountType, Forests
  <2>3. \A a \in observed.activities : a.kind # "query"
    BY <1>3 DEF Live
  <2> QED BY <1>3, <2>1, <2>2, <2>3
<1>9. ASSUME NEW d \in Drvs, observed.status[d] \in {"downloading", "substituting"}
      PROVE  d \in InTransfer(observed)
  <2>1. PICK k \in {"copy", "substitute"} : /\ observed.output_to_drv[Out[d]] = d
                                            /\ Act(k, d) \in observed.activities
    BY <1>3, <1>9 DEF Shown
  <2>2. Act(k, d) \in {b \in observed.activities : b.kind # "build"} /\ Act(k, d).drv = d
    BY <1>4, <2>1
  <2> QED BY <2>1, <2>2 DEF InTransfer
<1>10. ASSUME NEW d \in Drvs, forest.status[d] \in {"building", "built"}
       PROVE  observed.status[d] = forest.status[d] \/ d \in InTransfer(observed)
  <2>1. observed.status[d] # "failed" /\ forest.status[d] \in Begun
    BY <1>3, <1>10 DEF Shown, Begun
  <2>2. observed.status[d] \in IF Act("build", d) \in observed.activities THEN {"building"}
                               ELSE {"built", "downloading"}
    BY <1>3, <2>1 DEF Shown
  <2>3. forest.status[d] = "building" <=> Act("build", d) \in running
    BY <1>2, <1>10 DEF CountInv, Following, EngineSide
  <2>4. Act("build", d) \in observed.activities <=> Act("build", d) \in running
    BY <1>3, <1>4, <1>8
  <2> QED BY <1>9, <1>10, <2>2, <2>3, <2>4
<1> QED BY <1>5, <1>6, <1>7, <1>8, <1>9, <1>10 DEF Agreement

(* A frontend that has read all of build.jsonl shows the graph the engine
   resolved, the same failures and builds, and no work that has ended
   (BuildLogFilter::retain, EventTailer::poll and the forest's apply): for any
   derivations, any split of the log into polls and any delay of the reads,
   where no two derivations make the same path. *)
THEOREM ObserversAgree ==
  ASSUME OneMaker
  PROVE  BFSpec => []ObserverAgrees
<1>1. BFInit => CountInv /\ ObserverInv
  BY InitCounts, ObserverInit
<1>2. CountInv /\ ObserverInv /\ [BFNext]_bfvars => (CountInv /\ ObserverInv)'
  BY NextCounts, ObserverNext
<1>3. CountInv /\ ObserverInv => ObserverAgrees
  BY ObserverShows
<1> QED BY <1>1, <1>2, <1>3, PTL DEF BFSpec

=============================================================================
