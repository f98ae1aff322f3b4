---------------------------- MODULE MCCrtcCover ----------------------------
(* Small instances of CrtcCover for TLC. *)
EXTENDS CrtcCover

\* Two places side by side, and one that overlaps both (clones, panning).
MCModes ==
    {[x |-> 0, y |-> 0, width |-> 2, height |-> 1],
     [x |-> 2, y |-> 0, width |-> 3, height |-> 2],
     [x |-> 1, y |-> 1, width |-> 2, height |-> 2]}

MCDrawables ==
    {[x |-> x, y |-> y, width |-> w, height |-> h] :
        x \in {-1, 1, 4}, y \in {0}, w \in {1, 4}, h \in {1, 3}}

\* An output slave to the right of the screen.
MCSlaveBoxes == {[x1 |-> 5, x2 |-> 7, y1 |-> 0, y2 |-> 2]}
=============================================================================
