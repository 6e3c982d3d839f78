--------------------------- MODULE MCMessageHistory ---------------------------
(* MessageHistory for TLC. *)
EXTENDS MessageHistory, TLC

Symmetry == Permutations(Sessions) \cup Permutations(Ids)
=============================================================================
