---------------------------- MODULE ForestViews -----------------------------
(***************************************************************************)
(* The bounded views of a build forest (sort.rs of nix-build-forest): the   *)
(* rows a frontend draws of the forest its poll left it, and the nodes the  *)
(* MCP server returns.  Recursion stays in this module.                     *)
(***************************************************************************)
EXTENDS BuildForest

CONSTANTS RowBudget,   \* DEFAULT_ACTIVITY_ROW_BUDGET
          Cap          \* nodes kept by capped_nodes

ASSUME ViewsAssumption == RowBudget \in Nat /\ Cap \in Nat

----------------------------------------------------------------------------
(* The roots of a snapshot. *)
InputsOf(f, p) == IF p \in Drvs THEN f.inputs[p] ELSE {}
Roots(f) == {p \in Nodes(f) : \A q \in Nodes(f) : p \notin InputsOf(f, q)}

Priority == [failed |-> 0, building |-> 1, downloading |-> 2, substituting |-> 2,
             planned |-> 3, built |-> 4, unknown |-> 5]
(* The elements of S by rank, then by name. *)
ByRank(S, Rank(_)) ==
  LET Precedes(p, q) == Rank(p) < Rank(q) \/ (Rank(p) = Rank(q) /\ p < q)
  IN [i \in 1..Cardinality(S) |->
        CHOOSE p \in S : Cardinality({q \in S : Precedes(q, p)}) = i - 1]
ByName(S) == ByRank(S, LAMBDA p : 0)
Sorted(f, S) == ByRank(S, LAMBDA p : Priority[f.status[p]])

(* visit: inputs before the node, every node once. *)
RECURSIVE Visit(_, _, _)
Visit(f, rows, p) ==
  IF Contains(rows, p) THEN rows
  ELSE Append(FoldLeft(LAMBDA acc, q : Visit(f, acc, q), rows, Sorted(f, InputsOf(f, p))), p)

DisplayRows(f) ==
  FoldLeft(LAMBDA acc, p : Visit(f, acc, p), <<>>,
           Sorted(f, Roots(f)) \o ByName(Nodes(f)))

Mandatory(f) == {p \in Nodes(f) : f.status[p] \in {"building", "downloading", "substituting", "failed"}}

(* The nodes and everything that consumes them. *)
RECURSIVE WithConsumers(_, _)
WithConsumers(f, S) ==
  LET up == S \cup {p \in Nodes(f) : InputsOf(f, p) \cap S # {}}
  IN IF up = S THEN S ELSE WithConsumers(f, up)

FirstOf(seq, room) == {seq[i] : i \in 1..(IF room < Len(seq) THEN room ELSE Len(seq))}
Room(S) == IF Cardinality(S) < RowBudget THEN RowBudget - Cardinality(S) ELSE 0

(* A faulty variant of Keep. *)
KeepWithinBudget(f) ==
  LET full == DisplayRows(f)
      work == SelectSeq(full, LAMBDA p : f.status[p] \notin {"built", "unknown"})
  IN FirstOf(work, RowBudget)

(* activity_projection: work and its consumers whatever the budget, planned
   nodes while it lasts, and the roots when there is neither. *)
Keep(f) ==
  LET work == WithConsumers(f, Mandatory(f))
      planned == SelectSeq(DisplayRows(f), LAMBDA p : f.status[p] = "planned" /\ p \notin work)
      kept == work \cup FirstOf(planned, Room(work))
  IN IF kept # {} THEN kept ELSE FirstOf(ByName(Roots(f)), RowBudget)

Projection(f) ==
  LET kept == Keep(f)
  IN [rows |-> SelectSeq(DisplayRows(f), LAMBDA p : p \in kept),
      elided |-> [s \in {"unknown", "planned", "built"} |->
                    Cardinality({p \in Nodes(f) \ kept : f.status[p] = s})]]

(* capped_nodes: failed, building, transfers, planned, the rest. *)
Tier(status) == IF status = "unknown" THEN 4 ELSE Priority[status]
CappedNodes(f) ==
  FirstOf(ByRank(Nodes(f), LAMBDA p : Tier(f.status[p])), Cap)

----------------------------------------------------------------------------
(* A frontend draws what a poll has left of its forest. *)
Polled == log = <<>> /\ results = <<>>

(* The bounded views account for the whole graph: the display lists every node
   once; failed and active work and all that waits for it has a row; rows and
   elided counts add up to the nodes; the budget is only exceeded for work; and
   capped_nodes drops failed or active work only for work that ranks higher. *)
ViewsKeepWork ==
  LET f == observed
      full == DisplayRows(f)
      view == Projection(f)
      work == WithConsumers(f, Mandatory(f))
      capped == CappedNodes(f)
  IN Polled =>
     /\ Len(full) = Cardinality(Nodes(f)) /\ Range(full) = Nodes(f)
     /\ work \subseteq Range(view.rows)
     /\ Len(view.rows) + view.elided.unknown + view.elided.planned + view.elided.built
          = Cardinality(Nodes(f))
     /\ Len(view.rows) > RowBudget => Range(view.rows) = work
     /\ \A p \in Mandatory(f) \ capped, q \in capped : Tier(f.status[q]) <= Tier(f.status[p])
=============================================================================
