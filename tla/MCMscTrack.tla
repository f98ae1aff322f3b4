----------------------------- MODULE MCMscTrack -----------------------------
(* Small instances of MscTrack for TLC. *)
EXTENDS MscTrack
=============================================================================
