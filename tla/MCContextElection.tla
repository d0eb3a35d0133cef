------------------------- MODULE MCContextElection -------------------------
(* Small instances of ContextElection for TLC. *)
EXTENDS ContextElection, TLC

Symmetry == Permutations(Procs)
=============================================================================
