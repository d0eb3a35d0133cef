-------------------------- MODULE MCContextSession --------------------------
(* Model values for the calls of ContextSession. *)
EXTENDS ContextSession
=============================================================================
