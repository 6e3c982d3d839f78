-------------------------------- MODULE MCFeed --------------------------------
(* Feed for TLC; the callers are interchangeable. *)
EXTENDS Feed, TLC

Symmetry == Permutations(Callers)
=============================================================================
