---------------------------- MODULE MCSwapTarget ----------------------------
(* Small instances of SwapTarget for TLC. *)
EXTENDS SwapTarget
=============================================================================
