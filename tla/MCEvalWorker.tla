---------------------------- MODULE MCEvalWorker ----------------------------
(* Three members, one of each status; the second commit does not evaluate. *)
EXTENDS EvalWorker

MCFleet == [c \in Contracts |->
             [m \in Members |-> CASE m = "a" -> "ok" [] m = "b" -> "broken" [] m = "c" -> "absent"]]

MCRequests == {{}, {"b"}, {"a", "b", "c"}}

=============================================================================
