------------------------------ MODULE MCScreens -----------------------------
(* The tasks of Screens are interchangeable. *)
EXTENDS Screens, TLC

Symmetry == Permutations(Tasks)
=============================================================================
