----------------------------- MODULE MCExplorer -----------------------------
(* Two explorers: the first leads until it dies, the second follows it    *)
(* or found no context.                                                    *)
EXTENDS Explorer
=============================================================================
