----------------------------- MODULE MCPageFlip -----------------------------
(* Small instances of PageFlip for TLC. *)
EXTENDS PageFlip
=============================================================================
