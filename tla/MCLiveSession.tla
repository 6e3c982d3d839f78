---------------------------- MODULE MCLiveSession ----------------------------
(* LiveSession for TLC. *)
EXTENDS LiveSession, TLC

\* The callers of Close are interchangeable.
Symmetry == Permutations(Closers)
=============================================================================
