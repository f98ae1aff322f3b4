------------------------------- MODULE MCDri2 -------------------------------
(* Small instances of Dri2 for TLC. *)
EXTENDS Dri2
=============================================================================
