---------------------------- MODULE MCClientSetup ----------------------------
(* Instances of ClientSetup for TLC. *)
EXTENDS ClientSetup, TLC

Symmetry == Permutations(Known)
=============================================================================
