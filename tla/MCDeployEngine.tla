--------------------------- MODULE MCDeployEngine ---------------------------
(* A best-effort live deploy and a dry run that halts on a failed build: between
   them the two plans take every branch of the engine. *)
EXTENDS DeployEngine

LivePlan == [halt |-> FALSE, dry |-> FALSE, boot |-> FALSE, magic |-> TRUE]
DryPlan == [halt |-> TRUE, dry |-> TRUE, boot |-> FALSE, magic |-> FALSE]
SmallPlans == {LivePlan, DryPlan}
=============================================================================
