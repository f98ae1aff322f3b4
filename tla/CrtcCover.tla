------------------------------ MODULE CrtcCover ------------------------------
(***************************************************************************)
(* Which CRTC a drawable belongs to, src/src/vblank.c: the boxes of CRTCs, *)
(* their intersection with the drawable, the search for the best coverage  *)
(* in ms_covering_xf86_crtc (for DRI2) and ms_covering_randr_crtc (for     *)
(* Present), and the fallback to the primary output for drawables on       *)
(* output slaves.                                                          *)
(*                                                                         *)
(* The two searches differ in the box of a CRTC: the first masks the       *)
(* reflection out of the rotation (xf86ModeWidth), the second compares the *)
(* rotation as it is.  The search is a loop over config->crtc, one         *)
(* iteration a step, so that what it computes can be proved for any number *)
(* of CRTCs.                                                               *)
(***************************************************************************)
EXTENDS Integers, FiniteSets

CONSTANTS
    NumCrtcs,       \* CRTCs of the screen, in the order of config->crtc
    NumOutputs,     \* outputs of the screen
    Modes,          \* places a CRTC may show: x, y and the size of the mode
    Drawables,      \* drawables: x, y, width, height
    SlaveBoxes,     \* boxes of the CRTCs of output slaves
    Short           \* 2^16: BoxRec has 16 bit coordinates

Crtcs   == 1..NumCrtcs
Outputs == 1..NumOutputs
NULL    == 0

ASSUME CrtcCoverAssumption ==
    /\ NumCrtcs \in Nat /\ NumOutputs \in Nat
    /\ Short \in Nat \ {0}
    /\ Modes \subseteq [x : Int, y : Int, width : Nat, height : Nat]
    /\ Drawables \subseteq [x : Int, y : Int, width : Nat, height : Nat]
    /\ \A d \in Drawables : \A v \in {d.x, d.y} :    \* which a DrawableRec has in 16 bits
          -(Short \div 2) <= v /\ v < Short - Short \div 2
    /\ SlaveBoxes \subseteq [x1 : Int, x2 : Int, y1 : Int, y2 : Int]

VARIABLES
    mode,           \* where each CRTC is and how large its mode is
    quarter,        \* whether it is rotated by 90 or 270 degrees
    reflected,      \* whether it is reflected
    on,             \* CRTCs for which ms_crtc_on holds
    outputCrtc,     \* the CRTC of each output, or NULL
    primaryOutput,  \* pScrPriv->primaryOutput, NULL if on another screen
    slaves,         \* boxes of enabled CRTCs of output slaves
    pc,
    api,            \* which of the two searches runs
    drawable, box,  \* what is searched for
    c,              \* the loop counter
    best_crtc, best_coverage,
    result          \* the CRTC returned

config == <<mode, quarter, reflected, on, outputCrtc, primaryOutput, slaves>>
search == <<pc, api, drawable, box, c, best_crtc, best_coverage, result>>
vars   == <<config, search>>

Empty == [x1 |-> 0, x2 |-> 0, y1 |-> 0, y2 |-> 0]

-----------------------------------------------------------------------------
(* Boxes *)

Larger(a, b)  == IF a > b THEN a ELSE b
Smaller(a, b) == IF a < b THEN a ELSE b

ms_box_intersect(a, b) ==
    LET x1 == Larger(a.x1, b.x1)
        x2 == Smaller(a.x2, b.x2)
        y1 == Larger(a.y1, b.y1)
        y2 == Smaller(a.y2, b.y2)
    IN  IF x1 >= x2 \/ y1 >= y2 THEN Empty
        ELSE [x1 |-> x1, x2 |-> x2, y1 |-> y1, y2 |-> y2]

ms_box_area(b) == (b.x2 - b.x1) * (b.y2 - b.y1)

BoxAt(x, y, width, height) == [x1 |-> x, x2 |-> x + width, y1 |-> y, y2 |-> y + height]

\* Mutant: the rotation is not looked at.
MutCrtcBox(k) == BoxAt(mode[k].x, mode[k].y, mode[k].width, mode[k].height)

\* The box of CRTC k, which is enabled, with xf86ModeWidth and xf86ModeHeight.
ms_crtc_box(k) ==
    LET m == mode[k]
    IN  IF quarter[k] THEN BoxAt(m.x, m.y, m.height, m.width)
        ELSE BoxAt(m.x, m.y, m.width, m.height)

\* The cases for 90 and 270 degrees are not met if there is a reflection too.
ms_randr_crtc_box(k) ==
    LET m == mode[k]
    IN  IF quarter[k] /\ ~reflected[k] THEN BoxAt(m.x, m.y, m.height, m.width)
        ELSE BoxAt(m.x, m.y, m.width, m.height)

CrtcBox(k) == IF api = "xf86" THEN ms_crtc_box(k) ELSE ms_randr_crtc_box(k)

Coverage(k) == ms_box_area(ms_box_intersect(CrtcBox(k), box))

\* A BoxRec coordinate: 16 bits with sign.
Coordinate(v) == ((v + Short \div 2) % Short) - Short \div 2

\* The box ms_dri2_crtc_covering_drawable makes of a drawable.
DrawableBox(d) ==
    [x1 |-> Coordinate(d.x), x2 |-> Coordinate(d.x + d.width),
     y1 |-> Coordinate(d.y), y2 |-> Coordinate(d.y + d.height)]

-----------------------------------------------------------------------------
(* Outputs *)

\* The CRTC of ms_first_output: of the primary output, else of the first CRTC
\* that some output uses.
ms_first_output ==
    LET used == {k \in Crtcs : \E o \in Outputs : outputCrtc[o] = k}
    IN  IF primaryOutput # NULL /\ outputCrtc[primaryOutput] # NULL
          THEN outputCrtc[primaryOutput]
        ELSE IF used = {} THEN NULL
        ELSE CHOOSE k \in used : \A l \in used : k <= l

\* Some CRTC of an output slave shows part of the box: ms_covering_xf86_crtc for
\* the slave.
SlaveCovers ==
    \E s \in slaves : ms_box_area(ms_box_intersect(s, box)) > 0

-----------------------------------------------------------------------------
Init ==
    /\ mode \in [Crtcs -> Modes]
    /\ quarter \in [Crtcs -> BOOLEAN]
    /\ reflected \in [Crtcs -> BOOLEAN]
    /\ on \in SUBSET Crtcs
    /\ outputCrtc \in [Outputs -> Crtcs \cup {NULL}]
    /\ primaryOutput \in Outputs \cup {NULL}
    /\ \E s \in SUBSET SlaveBoxes : slaves = s
    /\ pc = "idle"
    /\ api = "xf86"
    /\ drawable = [x |-> 0, y |-> 0, width |-> 0, height |-> 0]
    /\ box = Empty
    /\ c = 1
    /\ best_crtc = NULL
    /\ best_coverage = 0
    /\ result = NULL

\* ms_dri2_crtc_covering_drawable or ms_randr_crtc_covering_drawable is called.
Begin(a, d) ==
    /\ pc = "idle"
    /\ pc' = "loop"
    /\ api' = a
    /\ drawable' = d
    /\ box' = DrawableBox(d)
    /\ UNCHANGED <<config, c, best_crtc, best_coverage, result>>

\* Mutant: a CRTC that is off counts too.
MutConsider ==
    IF Coverage(c) > best_coverage
      THEN best_crtc' = c /\ best_coverage' = Coverage(c)
      ELSE UNCHANGED <<best_crtc, best_coverage>>

\* The body of the loop: a CRTC that is off is skipped, a better one is kept.
Consider ==
    IF c \in on /\ Coverage(c) > best_coverage
      THEN best_crtc' = c /\ best_coverage' = Coverage(c)
      ELSE UNCHANGED <<best_crtc, best_coverage>>

Iterate ==
    /\ pc = "loop" /\ c <= NumCrtcs
    /\ c' = c + 1
    /\ Consider
    /\ UNCHANGED <<config, pc, api, drawable, box, result>>

\* After the loop: the best CRTC, or the primary one if it is on and the
\* drawable is on an output slave.
Finish ==
    LET crtc == ms_first_output
    IN  /\ pc = "loop" /\ c > NumCrtcs
        /\ pc' = "done"
        /\ result' = IF best_crtc # NULL THEN best_crtc
                     ELSE IF crtc \in on /\ SlaveCovers THEN crtc ELSE NULL
        /\ UNCHANGED <<config, api, drawable, box, c, best_crtc, best_coverage>>

Next ==
    \/ \E a \in {"xf86", "randr"}, d \in Drawables : Begin(a, d)
    \/ Iterate
    \/ Finish

Spec == Init /\ [][Next]_vars

-----------------------------------------------------------------------------
(* Properties *)

\* Types: the loop counter stays within config->crtc and one past it, and what is
\* returned is a CRTC of the screen.
TypeOK ==
    /\ mode \in [Crtcs -> Modes]
    /\ quarter \in [Crtcs -> BOOLEAN]
    /\ reflected \in [Crtcs -> BOOLEAN]
    /\ on \subseteq Crtcs
    /\ outputCrtc \in [Outputs -> Crtcs \cup {NULL}]
    /\ primaryOutput \in Outputs \cup {NULL}
    /\ slaves \subseteq [x1 : Int, x2 : Int, y1 : Int, y2 : Int]
    /\ pc \in {"idle", "loop", "done"}
    /\ api \in {"xf86", "randr"}
    /\ box \in [x1 : Int, x2 : Int, y1 : Int, y2 : Int]
    /\ c \in 1..(NumCrtcs + 1)
    /\ best_crtc \in Crtcs \cup {NULL}
    /\ best_coverage \in Nat
    /\ result \in Crtcs \cup {NULL}

\* What the loop has found when it ends: the first of the CRTCs that are on with
\* the greatest coverage, if any covers the box at all.
BestCovers ==
    pc = "loop" /\ c > NumCrtcs =>
        IF best_crtc = NULL
          THEN \A k \in on : Coverage(k) <= 0
          ELSE /\ best_crtc \in on /\ Coverage(best_crtc) > 0
               /\ \A k \in on : /\ Coverage(k) <= Coverage(best_crtc)
                                /\ Coverage(k) = Coverage(best_crtc) => best_crtc <= k

\* The reference: what a CRTC shows depends on the quarter turn and not on the
\* reflection, and coverage is the number of pixels it has in common with the
\* drawable.
Shows(k) ==
    LET m == mode[k]
        w == IF quarter[k] THEN m.height ELSE m.width
        h == IF quarter[k] THEN m.width ELSE m.height
    IN  BoxAt(m.x, m.y, w, h)
Pixels(b)   == (b.x1 .. (b.x2 - 1)) \X (b.y1 .. (b.y2 - 1))
DrawnPixels == Pixels(BoxAt(drawable.x, drawable.y, drawable.width, drawable.height))
Shared(b)   == Cardinality(Pixels(b) \cap DrawnPixels)

\* The far edges of the drawable fit into 16 bits.
Fits ==
    /\ Coordinate(drawable.x + drawable.width) = drawable.x + drawable.width
    /\ Coordinate(drawable.y + drawable.height) = drawable.y + drawable.height

\* The CRTC returned is on and shows the most of the drawable ("prefer the crtc
\* with greater coverage"); without one the primary CRTC serves drawables on
\* output slaves, if it is on.
CoveringCrtc ==
    pc = "done" /\ Fits =>
        LET S == {k \in on : Shared(Shows(k)) > 0}
        IN  IF S # {}
              THEN /\ result \in S
                   /\ \A k \in S : Shared(Shows(k)) <= Shared(Shows(result))
              ELSE result = IF /\ ms_first_output \in on
                               /\ \E s \in slaves : Shared(s) > 0
                              THEN ms_first_output ELSE NULL

\* The same where the boxes of the two searches agree: ms_covering_xf86_crtc is
\* always right, ms_covering_randr_crtc if no CRTC is both turned by a quarter and
\* reflected.
RightCrtc ==
    (api = "randr" => \A k \in on : ~(quarter[k] /\ reflected[k])) => CoveringCrtc
==============================================================================
