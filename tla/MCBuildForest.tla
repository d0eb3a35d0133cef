--------------------------- MODULE MCBuildForest ----------------------------
EXTENDS ForestViews

(* A chain of three derivations; their outputs. *)
ChainInputs == [d \in {1, 2, 3} |-> IF d = 3 THEN {} ELSE {d + 1}]
OwnOut == [d \in {1, 2, 3} |-> d + 10]

(* The first two are built, the second one or substituted and copied; the
   third is in the store already. *)
MixedTraffic == [kind : {"build"}, drv : {1, 2}] \cup [kind : {"copy", "substitute"}, drv : {2}]
                \cup [kind : {"query"}, drv : {1}]
=============================================================================
