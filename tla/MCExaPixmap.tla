---------------------------- MODULE MCExaPixmap ----------------------------
(* TLC instance of ExaPixmap: pixmaps are interchangeable *)
EXTENDS ExaPixmap, TLC
Symmetry == Permutations(Pixmaps)
=============================================================================
