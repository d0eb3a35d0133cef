----------------------------- MODULE FleetCall -----------------------------
(***************************************************************************)
(* What the `FleetContext` seam promises its callers about one tool call   *)
(* (fleet.rs, trait FleetContext and CallError), whichever side of the     *)
(* wire executes it and however often the leader dies:                     *)
(*   - a call that answers, with a value or a tool error, did run;         *)
(*   - a mutation runs at most once, a read at most twice;                 *)
(*   - the other outcomes say nothing about whether the call ran, and an   *)
(*     execution that was already accepted may still finish after them.    *)
(***************************************************************************)
EXTENDS Naturals

CONSTANTS Calls, Mutations

VARIABLES
  status,   \* "idle", "pending" or how the call returned
  runs      \* how often its dispatch ran

callVars == <<status, runs>>

Failures == {"failover", "acquire", "closed"}

(* The retry discipline: reads are retried once, mutations never. *)
Limit(c) == IF c \in Mutations THEN 1 ELSE 2

Init ==
  /\ status = [c \in Calls |-> "idle"]
  /\ runs = [c \in Calls |-> 0]

Begin(c) ==
  /\ status[c] = "idle"
  /\ status' = [status EXCEPT ![c] = "pending"]
  /\ UNCHANGED runs

Execute(c) ==
  /\ status[c] # "idle"
  /\ runs[c] < Limit(c)
  /\ runs' = [runs EXCEPT ![c] = @ + 1]
  /\ UNCHANGED status

Return(c) ==
  /\ status[c] = "pending"
  /\ \E o \in {"answered"} \cup Failures :
       /\ o = "answered" => runs[c] > 0
       /\ status' = [status EXCEPT ![c] = o]
  /\ UNCHANGED runs

(* A leader's own call: the dispatch runs and answers in one go. *)
ExecuteAndReturn(c) ==
  /\ status[c] = "pending"
  /\ runs[c] < Limit(c)
  /\ runs' = [runs EXCEPT ![c] = @ + 1]
  /\ status' = [status EXCEPT ![c] = "answered"]

Next == \E c \in Calls : Begin(c) \/ Execute(c) \/ Return(c) \/ ExecuteAndReturn(c)

Spec == Init /\ [][Next]_callVars
=============================================================================
