--------------------------- MODULE MCSharedFlip ---------------------------
(* TLC instance of SharedFlip *)
EXTENDS SharedFlip
=============================================================================
