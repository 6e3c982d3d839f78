---------------------------- MODULE MCLiveDownload ----------------------------
(* LiveDownload for TLC. *)
EXTENDS LiveDownload, TLC
=============================================================================
