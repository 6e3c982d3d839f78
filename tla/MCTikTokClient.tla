---------------------------- MODULE MCTikTokClient ----------------------------
(* TikTokClient for TLC; the sessions are interchangeable. *)
EXTENDS TikTokClient, TLC

Symmetry == Permutations(Sessions)
=============================================================================
