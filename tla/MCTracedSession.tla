--------------------------- MODULE MCTracedSession ---------------------------
(* TracedSession for TLC. *)
EXTENDS TracedSession, TLC
=============================================================================
