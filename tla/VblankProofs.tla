---------------------------- MODULE VblankProofs ----------------------------
(***************************************************************************)
(* Proofs about frames and the CRTCs that count them: the search for the   *)
(* CRTC a drawable belongs to (CrtcCover) and the frame numbers it counts  *)
(* (MscTrack), both of src/src/vblank.c, the frame at which a request of   *)
(* DRI2 is done (SwapTarget), and the handlers of shared pixmaps, which    *)
(* run at a vertical blank (SharedFlip).  The four share no variable and   *)
(* no operator, so all are extended; each theorem is about one of them.    *)
(*                                                                         *)
(* The search, for any number of CRTCs, any modes, rotations and           *)
(* drawables: BestCovers speaks of the end of the loop; the invariant is   *)
(* what the loop knows of the CRTCs before c (Scanned).  RightCrtc         *)
(* measures in pixels: the area of ms_box_intersect is the number of       *)
(* pixels that both boxes have (IntersectIsShared).                        *)
(*                                                                         *)
(* The extension of 32 bit frame numbers to 64 bits, for every width of    *)
(* the two halves and every bound on how far reports are apart, as long as *)
(* they are close (CloseReports): two reports that are k frames apart,     *)
(* with k at most Quarter either way, differ in their upper halves by the  *)
(* carry of lo + k, and the two comparisons of ms_kernel_msc_to_crtc_msc   *)
(* detect exactly this carry (NarrowCarry).  The invariant says where the  *)
(* last report lies.                                                       *)
(*                                                                         *)
(* Swaps and waits, for every frame, target, divisor and remainder: both   *)
(* loops of dri2.c, and the definition the properties use, find the one    *)
(* number among d consecutive ones whose remainder is r (Satisfying); so   *)
(* the frame that is asked for, as the kernel corrects it if it has        *)
(* passed, is the frame that is due (SwapAsks, WaitAsks).  OnTime and      *)
(* NeverEarly speak of the end of a request; the inductive invariant       *)
(* TimeInv follows the request to it: what the counter was when it was     *)
(* read, at which frame the event is due once it is queued, and when a     *)
(* flip that was submitted is seen.                                        *)
(*                                                                         *)
(* Shared pixmaps, for any number of CRTCs, pixmaps and failures:          *)
(* OneHandler and Alive need what relates them.  No two CRTCs have a       *)
(* pixmap in common (Separate); a number finds one entry of the queue,     *)
(* whose front is the pixmap that refers to it (Numbered), so that an      *)
(* abort takes a CRTC's own handler away and nobody else's; a handler      *)
(* displays the back pixmap next (One); flipping that is active has a      *)
(* handler or waits for damage (Awake), and it is active while the CRTC    *)
(* is on (Ready).  Every function of the driver is shown to keep this for  *)
(* the CRTC it is called for, and to leave the other CRTCs alone           *)
(* (Others).  A loop over the CRTCs may start where only some are ready:   *)
(* the least CRTC after which it has gone wrong leads to a contradiction   *)
(* (LoopKeeps).                                                            *)
(*                                                                         *)
(* NoTearing needs what the kernel displays and is about to (Visible): a   *)
(* CRTC displays nobody else's pixmaps (ShowsOwn), the flip in flight is   *)
(* the one its handler waits for (ShowsNext), and the back pixmap is       *)
(* displayed only between the flip and its handler, which exchanges the    *)
(* roles (ShowsFront).  It also needs that nothing an event is still to    *)
(* be read for has the number of a flip in flight (NumbersApart): no event *)
(* can be taken for the flip's before the flip is done.  Every function is *)
(* shown to keep this and to copy to nothing that its CRTC displays        *)
(* (Fine), and every step to tear nothing on any CRTC (NothingTorn).       *)
(***************************************************************************)
EXTENDS CrtcCover, MscTrack, SwapTarget, SharedFlip, FiniteSetTheorems,
        WellFoundedInduction, TLAPS

Boxes == [x1 : Int, x2 : Int, y1 : Int, y2 : Int]

\* What the loop knows when it is about to look at CRTC number i.
Scanned(i) ==
    /\ \A k \in on : k < i => Coverage(k) <= best_coverage
    /\ best_crtc = NULL => best_coverage = 0
    /\ best_crtc # NULL =>
         /\ best_crtc \in on /\ best_crtc < i
         /\ Coverage(best_crtc) = best_coverage /\ best_coverage > 0
         /\ \A k \in on : k < best_crtc => Coverage(k) < best_coverage

\* The inductive invariant: nothing before the search starts, and the best so
\* far while it runs.
SearchInv ==
    /\ pc = "idle" => c = 1 /\ best_crtc = NULL /\ best_coverage = 0
    /\ pc = "loop" => Scanned(c)

-----------------------------------------------------------------------------
(* Boxes *)

\* Intersections of boxes are boxes.
LEMMA IntersectType ==
    ASSUME NEW a \in Boxes, NEW b \in Boxes
    PROVE  ms_box_intersect(a, b) \in Boxes
  BY DEF Boxes, ms_box_intersect, Larger, Smaller, Empty

\* A CRTC has an integer coverage, whichever search runs.
LEMMA CoverageType ==
    ASSUME TypeOK, NEW k \in Crtcs
    PROVE  Coverage(k) \in Int
  <1>1. mode[k] \in [x : Int, y : Int, width : Nat, height : Nat]
    BY CrtcCoverAssumption DEF TypeOK
  <1>2. CrtcBox(k) \in Boxes
    BY <1>1 DEF CrtcBox, ms_crtc_box, ms_randr_crtc_box, BoxAt, Boxes
  <1>3. ms_box_intersect(CrtcBox(k), box) \in Boxes
    <2>1. box \in Boxes
      BY DEF TypeOK, Boxes
    <2> QED
      BY <1>2, <2>1, IntersectType
  <1> QED
    BY <1>3 DEF Coverage, ms_box_area, Boxes

\* A 16 bit coordinate is an integer.
LEMMA CoordinateType ==
    ASSUME NEW v \in Int
    PROVE  Coordinate(v) \in Int
  <1>1. Short \in Int /\ Short > 0
    BY CrtcCoverAssumption
  <1>2. Short \div 2 \in Int
    BY <1>1
  <1>3. (v + Short \div 2) % Short \in Int
    BY <1>1, <1>2
  <1> QED
    BY <1>2, <1>3 DEF Coordinate

-----------------------------------------------------------------------------
(* Steps *)

\* The box of a drawable is a box.
LEMMA DrawableBoxType ==
    ASSUME NEW d \in Drawables
    PROVE  DrawableBox(d) \in Boxes
  <1>1. d \in [x : Int, y : Int, width : Nat, height : Nat]
    BY CrtcCoverAssumption
  <1>2. /\ d.x \in Int /\ d.x + d.width \in Int
        /\ d.y \in Int /\ d.y + d.height \in Int
    BY <1>1
  <1> QED
    BY <1>2, CoordinateType DEF DrawableBox, Boxes

\* Every step keeps the types: the loop stays within config->crtc, and the
\* CRTC returned is one of the screen's.
LEMMA TypeStep ==
    ASSUME TypeOK, [Next]_vars
    PROVE  TypeOK'
  <1>1. ASSUME NEW a \in {"xf86", "randr"}, NEW d \in Drawables, Begin(a, d)
        PROVE  TypeOK'
    <2>1. box' \in Boxes
      BY <1>1, DrawableBoxType DEF Begin
    <2> QED
      BY <1>1, <2>1 DEF Begin, TypeOK, Boxes, config
  <1>2. CASE Iterate
    <2>1. c \in Crtcs /\ c + 1 \in 1..(NumCrtcs + 1)
      BY <1>2, CrtcCoverAssumption DEF Iterate, TypeOK, Crtcs
    <2>2. Coverage(c) \in Int
      BY <2>1, CoverageType
    <2>3. best_crtc' \in Crtcs \cup {NULL} /\ best_coverage' \in Nat
      BY <1>2, <2>1, <2>2 DEF Iterate, Consider, TypeOK
    <2> QED
      BY <1>2, <2>1, <2>3 DEF Iterate, TypeOK, config
  <1>3. CASE Finish
    <2>1. result' \in Crtcs \cup {NULL}
      BY <1>3 DEF Finish, TypeOK
    <2> QED
      BY <1>3, <2>1 DEF Finish, TypeOK, config
  <1>4. CASE UNCHANGED vars
    BY <1>4 DEF vars, config, search, TypeOK
  <1> QED
    BY <1>1, <1>2, <1>3, <1>4 DEF Next

\* What covers how much depends on the configuration and on what is searched
\* for, and neither changes while the loop runs.
LEMMA CoverageKept ==
    ASSUME UNCHANGED <<config, api, box>>, NEW k \in Crtcs
    PROVE  Coverage(k)' = Coverage(k)
  BY DEF config, Coverage, CrtcBox, ms_crtc_box, ms_randr_crtc_box

\* An iteration extends what is known from the CRTCs before c to those before
\* c + 1.
LEMMA ScanStep ==
    ASSUME TypeOK, Scanned(c), Iterate
    PROVE  Scanned(c)'
  <1>1. c \in Crtcs /\ c \in Int /\ c' = c + 1
    BY CrtcCoverAssumption DEF Iterate, TypeOK, Crtcs
  <1>2. on' = on /\ on \subseteq Crtcs /\ \A k \in Crtcs : k \in Int /\ k # NULL
    BY DEF Iterate, config, TypeOK, Crtcs, NULL
  <1>3. \A k \in Crtcs : Coverage(k)' = Coverage(k) /\ Coverage(k) \in Int
    BY CoverageKept, CoverageType DEF Iterate
  <1>4. best_coverage \in Nat /\ best_crtc \in Crtcs \cup {NULL}
    BY DEF TypeOK
  <1>5. CASE c \in on /\ Coverage(c) > best_coverage
    <2>1. best_crtc' = c /\ best_coverage' = Coverage(c)
      BY <1>5 DEF Iterate, Consider
    <2>2. \A k \in on : k < c' => Coverage(k)' <= best_coverage'
      BY <1>1, <1>2, <1>3, <1>4, <1>5, <2>1 DEF Scanned
    <2>3. \A k \in on : k < best_crtc' => Coverage(k)' < best_coverage'
      BY <1>1, <1>2, <1>3, <1>4, <1>5, <2>1 DEF Scanned
    <2>4. Coverage(best_crtc)' = best_coverage'
      <3>1. Coverage(best_crtc)' = Coverage(c)
        BY <1>1, <2>1, <1>5 DEF Iterate, config, Coverage, CrtcBox, ms_crtc_box,
                                ms_randr_crtc_box
      <3> QED
        BY <2>1, <3>1
    <2> QED
      BY <1>1, <1>2, <1>3, <1>4, <1>5, <2>1, <2>2, <2>3, <2>4 DEF Scanned
  <1>6. CASE ~(c \in on /\ Coverage(c) > best_coverage)
    <2>1. best_crtc' = best_crtc /\ best_coverage' = best_coverage
      BY <1>6 DEF Iterate, Consider
    <2>2. \A k \in on : k < c' => Coverage(k)' <= best_coverage'
      BY <1>1, <1>2, <1>3, <1>4, <1>6, <2>1 DEF Scanned
    <2>3. ASSUME best_crtc # NULL
          PROVE  Coverage(best_crtc)' = Coverage(best_crtc)
      BY <2>1 DEF Iterate, config, Coverage, CrtcBox, ms_crtc_box, ms_randr_crtc_box
    <2> QED
      BY <1>1, <1>2, <1>3, <1>4, <2>1, <2>2, <2>3 DEF Scanned
  <1> QED
    BY <1>5, <1>6

\* Every step keeps the invariant of the search.
LEMMA SearchStep ==
    ASSUME TypeOK, SearchInv, [Next]_vars
    PROVE  SearchInv'
  <1>1. ASSUME NEW a \in {"xf86", "randr"}, NEW d \in Drawables, Begin(a, d)
        PROVE  SearchInv'
    <2>1. pc' = "loop" /\ c' = 1 /\ best_crtc' = NULL /\ best_coverage' = 0
          /\ on' = on /\ on \subseteq Crtcs
      BY <1>1 DEF Begin, SearchInv, config, TypeOK
    <2>2. \A k \in on : ~(k < 1)
      BY <2>1 DEF Crtcs
    <2> QED
      BY <2>1, <2>2 DEF SearchInv, Scanned
  <1>2. CASE Iterate
    <2>1. Scanned(c)' /\ pc' = "loop"
      BY <1>2, ScanStep DEF Iterate, SearchInv
    <2> QED
      BY <2>1 DEF SearchInv
  <1>3. CASE Finish
    BY <1>3 DEF Finish, SearchInv
  <1>4. CASE UNCHANGED vars
    BY <1>4 DEF vars, config, search, SearchInv, Scanned, Coverage, CrtcBox,
                ms_crtc_box, ms_randr_crtc_box
  <1> QED
    BY <1>1, <1>2, <1>3, <1>4 DEF Next

-----------------------------------------------------------------------------
(* Theorems *)

\* The start of every behaviour meets both parts of the invariant.
LEMMA InitHolds ==
    ASSUME Init
    PROVE  TypeOK /\ SearchInv
  <1>1. Empty \in Boxes
    BY DEF Empty, Boxes
  <1>2. slaves \subseteq Boxes
    BY CrtcCoverAssumption DEF Init, Boxes
  <1>3. c \in 1..(NumCrtcs + 1)
    BY CrtcCoverAssumption DEF Init
  <1>4. TypeOK
    BY <1>1, <1>2, <1>3 DEF Init, TypeOK, Boxes
  <1> QED
    BY <1>4 DEF Init, SearchInv

\* The searches of ms_covering_xf86_crtc and ms_covering_randr_crtc keep to the
\* CRTCs of the screen, however many there are, and return one of them or NULL.
THEOREM TypeCorrect == Spec => []TypeOK
  <1>1. Init => TypeOK
    BY InitHolds
  <1>2. TypeOK /\ [Next]_vars => TypeOK'
    BY TypeStep
  <1> QED
    BY <1>1, <1>2, PTL DEF Spec

\* When the loop ends it has the first of the CRTCs that are on with the greatest
\* coverage, for every configuration and every drawable.
THEOREM LoopFindsBest == Spec => []BestCovers
  <1>1. Init => TypeOK /\ SearchInv
    BY InitHolds
  <1>2. (TypeOK /\ SearchInv) /\ [Next]_vars => (TypeOK /\ SearchInv)'
    BY TypeStep, SearchStep
  <1>3. TypeOK /\ SearchInv => BestCovers
    <2> SUFFICES ASSUME TypeOK, SearchInv, pc = "loop", c > NumCrtcs
                 PROVE  IF best_crtc = NULL
                          THEN \A k \in on : Coverage(k) <= 0
                          ELSE /\ best_crtc \in on /\ Coverage(best_crtc) > 0
                               /\ \A k \in on :
                                    /\ Coverage(k) <= Coverage(best_crtc)
                                    /\ Coverage(k) = Coverage(best_crtc) => best_crtc <= k
      BY DEF BestCovers
    <2>1. Scanned(c)
      BY DEF SearchInv
    <2>2. \A k \in on : k \in Int /\ k < c /\ Coverage(k) \in Int
      <3>1. on \subseteq Crtcs /\ c \in Int
        BY CrtcCoverAssumption DEF TypeOK
      <3>2. \A k \in on : k \in Int /\ k < c
        BY <3>1, CrtcCoverAssumption DEF Crtcs
      <3> QED
        BY <3>1, <3>2, CoverageType
    <2>3. best_coverage \in Nat
      BY DEF TypeOK
    <2> QED
      BY <2>1, <2>2, <2>3 DEF Scanned
  <1> QED
    BY <1>1, <1>2, <1>3, PTL DEF Spec

-----------------------------------------------------------------------------
(* Coverage is a number of pixels *)

\* A box that is not inside out has as many pixels as its area says.
LEMMA AreaIsPixels ==
    ASSUME NEW b \in Boxes, b.x1 <= b.x2, b.y1 <= b.y2
    PROVE  Cardinality(Pixels(b)) = ms_box_area(b)
  <1>1. b.x1 \in Int /\ b.x2 \in Int /\ b.y1 \in Int /\ b.y2 \in Int
    BY DEF Boxes
  <1>2. /\ IsFiniteSet(b.x1 .. (b.x2 - 1)) /\ Cardinality(b.x1 .. (b.x2 - 1)) = b.x2 - b.x1
        /\ IsFiniteSet(b.y1 .. (b.y2 - 1)) /\ Cardinality(b.y1 .. (b.y2 - 1)) = b.y2 - b.y1
    <2>1. b.x2 - 1 \in Int /\ b.y2 - 1 \in Int
      BY <1>1
    <2>2. /\ Cardinality(b.x1 .. (b.x2 - 1)) =
               IF b.x1 > b.x2 - 1 THEN 0 ELSE b.x2 - 1 - b.x1 + 1
          /\ Cardinality(b.y1 .. (b.y2 - 1)) =
               IF b.y1 > b.y2 - 1 THEN 0 ELSE b.y2 - 1 - b.y1 + 1
          /\ IsFiniteSet(b.x1 .. (b.x2 - 1)) /\ IsFiniteSet(b.y1 .. (b.y2 - 1))
      BY <1>1, <2>1, FS_Interval
    <2> QED
      BY <1>1, <2>2
  <1>3. Cardinality(Pixels(b)) =
          Cardinality(b.x1 .. (b.x2 - 1)) * Cardinality(b.y1 .. (b.y2 - 1))
    BY <1>2, FS_Product DEF Pixels
  <1> QED
    BY <1>2, <1>3 DEF ms_box_area

\* ms_box_intersect has the pixels that both boxes have, and is not inside out.
LEMMA IntersectIsShared ==
    ASSUME NEW a \in Boxes, NEW b \in Boxes
    PROVE  Cardinality(Pixels(a) \cap Pixels(b)) = ms_box_area(ms_box_intersect(a, b))
  <1> DEFINE i == ms_box_intersect(a, b)
             x == (a.x1 .. (a.x2 - 1)) \cap (b.x1 .. (b.x2 - 1))
             y == (a.y1 .. (a.y2 - 1)) \cap (b.y1 .. (b.y2 - 1))
  <1>1. /\ a.x1 \in Int /\ a.x2 \in Int /\ a.y1 \in Int /\ a.y2 \in Int
        /\ b.x1 \in Int /\ b.x2 \in Int /\ b.y1 \in Int /\ b.y2 \in Int
    BY DEF Boxes
  <1>2. i \in Boxes /\ i.x1 <= i.x2 /\ i.y1 <= i.y2
    BY <1>1, IntersectType DEF ms_box_intersect, Larger, Smaller, Empty
  <1>3. Pixels(a) \cap Pixels(b) = x \X y
    BY DEF Pixels
  <1>4. CASE Larger(a.x1, b.x1) >= Smaller(a.x2, b.x2) \/ Larger(a.y1,
             b.y1) >= Smaller(a.y2, b.y2)
    <2>1. x = {} \/ y = {}
      BY <1>1, <1>4 DEF Larger, Smaller
    <2>2. i = Empty /\ 0 .. (0 - 1) = {}
      BY <1>4 DEF ms_box_intersect
    <2>3. Pixels(i) = {}
      BY <2>2 DEF Pixels, Empty
    <2>4. Pixels(a) \cap Pixels(b) = Pixels(i)
      BY <1>3, <2>1, <2>3
    <2> QED
      BY <1>2, <2>4, AreaIsPixels
  <1>5. CASE ~(Larger(a.x1, b.x1) >= Smaller(a.x2, b.x2) \/ Larger(a.y1,
             b.y1) >= Smaller(a.y2, b.y2))
    <2>1. i = [x1 |-> Larger(a.x1, b.x1), x2 |-> Smaller(a.x2, b.x2),
               y1 |-> Larger(a.y1, b.y1), y2 |-> Smaller(a.y2, b.y2)]
      BY <1>5 DEF ms_box_intersect
    <2>2. x = i.x1 .. (i.x2 - 1) /\ y = i.y1 .. (i.y2 - 1)
      BY <1>1, <2>1 DEF Larger, Smaller
    <2>3. Pixels(a) \cap Pixels(b) = Pixels(i)
      BY <1>3, <2>2 DEF Pixels
    <2> QED
      BY <1>2, <2>3, AreaIsPixels
  <1> QED
    BY <1>4, <1>5

\* A coordinate that fits into 16 bits is kept.
LEMMA CoordinateKept ==
    ASSUME NEW v \in Int, -(Short \div 2) <= v, v < Short - Short \div 2
    PROVE  Coordinate(v) = v
  <1>1. Short \in Int /\ Short > 0 /\ Short \div 2 \in Int
    BY CrtcCoverAssumption
  <1>2. 0 <= v + Short \div 2 /\ v + Short \div 2 < Short /\ v + Short \div 2 \in Int
    BY <1>1
  <1>3. (v + Short \div 2) % Short = v + Short \div 2
    BY <1>1, <1>2
  <1> QED
    BY <1>1, <1>3 DEF Coordinate

-----------------------------------------------------------------------------
(* The CRTC that is returned *)

\* What the search is for, and what it returns when the loop has seen all CRTCs.
ResultInv ==
    /\ pc # "idle" => drawable \in Drawables /\ box = DrawableBox(drawable)
    /\ pc = "done" => /\ Scanned(NumCrtcs + 1)
                      /\ result = IF best_crtc # NULL THEN best_crtc
                                  ELSE IF ms_first_output \in on /\ SlaveCovers
                                    THEN ms_first_output ELSE NULL

\* Every step keeps it.
LEMMA ResultStep ==
    ASSUME TypeOK, SearchInv, ResultInv, [Next]_vars
    PROVE  ResultInv'
  <1>1. ASSUME NEW a \in {"xf86", "randr"}, NEW d \in Drawables, Begin(a, d)
        PROVE  ResultInv'
    BY <1>1 DEF Begin, ResultInv, DrawableBox, Coordinate
  <1>2. CASE Iterate
    BY <1>2 DEF Iterate, ResultInv, DrawableBox, Coordinate
  <1>3. CASE Finish
    <2>1. c = NumCrtcs + 1
      BY <1>3, CrtcCoverAssumption DEF Finish, TypeOK
    <2>2. Scanned(NumCrtcs + 1)
      BY <1>3, <2>1 DEF Finish, SearchInv
    <2>3. UNCHANGED <<config, api, box, drawable, best_crtc, best_coverage>>
      BY <1>3 DEF Finish
    <2>4. Scanned(NumCrtcs + 1)'
      BY <2>2, <2>3 DEF Scanned, config, Coverage, CrtcBox, ms_crtc_box, ms_randr_crtc_box
    <2>5. ms_first_output' = ms_first_output /\ SlaveCovers' = SlaveCovers /\ on' = on
      BY <2>3 DEF ms_first_output, SlaveCovers, config
    <2> QED
      BY <1>3, <2>3, <2>4, <2>5 DEF Finish, ResultInv, DrawableBox, Coordinate
  <1>4. CASE UNCHANGED vars
    <2>1. UNCHANGED <<config, search>>
      BY <1>4 DEF vars
    <2>2. Scanned(NumCrtcs + 1)' = Scanned(NumCrtcs + 1)
      BY <2>1 DEF Scanned, config, search, Coverage, CrtcBox, ms_crtc_box, ms_randr_crtc_box
    <2>3. ms_first_output' = ms_first_output /\ SlaveCovers' = SlaveCovers /\ on' = on
      BY <2>1 DEF ms_first_output, SlaveCovers, config, search
    <2> QED
      BY <2>1, <2>2, <2>3 DEF search, ResultInv, DrawableBox, Coordinate
  <1> QED
    BY <1>1, <1>2, <1>3, <1>4 DEF Next

\* The CRTC returned shows the most pixels of the drawable, for every configuration and
\* every drawable whose far edges fit into 16 bits, if the search takes reflection and
\* rotation apart or no CRTC has both.
THEOREM MostPixelsWin == Spec => []RightCrtc
  <1>1. Init => TypeOK /\ SearchInv /\ ResultInv
    <2>1. Init => ResultInv
      BY DEF Init, ResultInv
    <2> QED
      BY <2>1, InitHolds
  <1>2. (TypeOK /\ SearchInv /\ ResultInv) /\ [Next]_vars => (TypeOK /\ SearchInv /\ ResultInv)'
    BY TypeStep, SearchStep, ResultStep
  <1>3. TypeOK /\ SearchInv /\ ResultInv => RightCrtc
    <2> SUFFICES ASSUME TypeOK, ResultInv, pc = "done", Fits,
                        api = "randr" => \A k \in on : ~(quarter[k] /\ reflected[k])
                 PROVE  CoveringCrtc
      BY DEF RightCrtc, CoveringCrtc
    <2>1. drawable \in Drawables /\ box = DrawableBox(drawable) /\ box \in Boxes
      BY DrawableBoxType DEF ResultInv
    <2>2. DrawnPixels = Pixels(box)
      <3>1. /\ drawable.x \in Int /\ drawable.y \in Int
            /\ -(Short \div 2) <= drawable.x /\ drawable.x < Short - Short \div 2
            /\ -(Short \div 2) <= drawable.y /\ drawable.y < Short - Short \div 2
        BY <2>1, CrtcCoverAssumption
      <3>2. Coordinate(drawable.x) = drawable.x /\ Coordinate(drawable.y) = drawable.y
        BY <3>1, CoordinateKept
      <3> QED
        BY <2>1, <3>2 DEF Fits, DrawableBox, BoxAt, DrawnPixels
    <2>3. ASSUME NEW b \in Boxes PROVE Shared(b) = ms_box_area(ms_box_intersect(b, box))
      BY <2>1, <2>2, IntersectIsShared DEF Shared
    <2>4. on \subseteq Crtcs /\ Scanned(NumCrtcs + 1) /\ best_coverage \in Nat
      BY DEF TypeOK, ResultInv
    <2>5. ASSUME NEW k \in on PROVE Coverage(k) = Shared(Shows(k)) /\ Coverage(k) \in Int
      <3>1. CrtcBox(k) = Shows(k)
        BY DEF TypeOK, CrtcBox, ms_crtc_box, ms_randr_crtc_box, Shows
      <3>2. mode[k] \in [x : Int, y : Int, width : Nat, height : Nat]
        BY <2>4, CrtcCoverAssumption DEF TypeOK
      <3>3. Shows(k) \in Boxes
        BY <3>2 DEF Shows, BoxAt, Boxes
      <3> QED
        BY <2>3, <2>4, <3>1, <3>3, CoverageType DEF Coverage
    <2>6. \A k \in on : Coverage(k) <= best_coverage
      BY <2>4, CrtcCoverAssumption DEF Scanned, Crtcs
    <2> DEFINE S == {k \in on : Shared(Shows(k)) > 0}
    <2>7. CASE best_crtc # NULL
      <3>1. result = best_crtc /\ result \in on /\ Coverage(result) = best_coverage
            /\ best_coverage > 0
        BY <2>4, <2>7 DEF ResultInv, Scanned
      <3>2. result \in S /\ \A k \in S : Shared(Shows(k)) <= Shared(Shows(result))
        BY <2>5, <2>6, <3>1
      <3> QED
        BY <3>2 DEF CoveringCrtc
    <2>8. CASE best_crtc = NULL
      <3>1. best_coverage = 0
        BY <2>4, <2>8 DEF Scanned
      <3>2. S = {}
        BY <2>4, <2>5, <2>6, <3>1
      <3>3. SlaveCovers <=> \E s \in slaves : Shared(s) > 0
        BY <2>3 DEF SlaveCovers, TypeOK, Boxes
      <3>4. result = IF ms_first_output \in on /\ SlaveCovers THEN ms_first_output ELSE NULL
        BY <2>8 DEF ResultInv
      <3> QED
        BY <3>2, <3>3, <3>4 DEF CoveringCrtc
    <2> QED
      BY <2>7, <2>8
  <1> QED
    BY <1>1, <1>2, <1>3, PTL DEF Spec
-----------------------------------------------------------------------------
(* The frame numbers *)


\* The upper half is the one that was returned last, the lower half that of
\* the frame last reported, and the kernel is gap frames from there.
TrackInv ==
    /\ gap \in Int /\ -MaxAhead <= gap
    /\ gap <= MaxIdle \/ gap <= MaxLag
    /\ converted => /\ kernel_msc = Shift(last.frame, gap)
                    /\ msc_prev = last.frame.lo
                    /\ msc_high = last.msc.hi
    /\ exact => converted

\* The flags have their types, and the 64 bit interface is only believed in
\* where the kernel has it.
Flags ==
    /\ crtcOn \in BOOLEAN
    /\ has_queue_sequence \in BOOLEAN
    /\ tried_queue_sequence \in BOOLEAN
    /\ has_queue_sequence => Supports64

\* The inductive invariant.
MInv == MscTypeOK /\ Flags /\ TrackInv /\ MscExact

-----------------------------------------------------------------------------
(* Arithmetic of frames *)

\* From f to m, modulo the number of upper halves.
Distance(m, f) == IF m - f < 0 THEN m - f + Highs ELSE m - f

\* The low half of a frame nearby is in range, the high half at most one off.
LEMMA ShiftType ==
    ASSUME NEW f \in Msc, NEW d \in Int, -2 * Quarter <= d, d <= 2 * Quarter
    PROVE  /\ Shift(f, d).lo \in 0..(Lows - 1)
           /\ Shift(f, d).hi \in Int
           /\ d >= 0 => Shift(f, d).hi >= 0
           /\ d <= 0 => Shift(f, d).hi < Highs
           /\ 0 <= Shift(f, d).hi /\ Shift(f, d).hi < Highs => Shift(f, d) \in Msc
  BY MscTrackAssumption DEF Shift, Msc, Lows

\* Going d frames and then e frames is going d + e frames.
LEMMA ShiftShift ==
    ASSUME NEW f \in Msc, NEW d \in Int, NEW e \in Int,
           -2 * Quarter <= d, d <= 2 * Quarter,
           -2 * Quarter <= e, e <= 2 * Quarter,
           -Quarter <= d + e, d + e <= Quarter
    PROVE  Shift(Shift(f, d), e) = Shift(f, d + e)
  BY MscTrackAssumption DEF Shift, Msc, Lows

\* The way back.
LEMMA ShiftBack ==
    ASSUME NEW f \in Msc, NEW d \in Int, -2 * Quarter <= d, d <= 2 * Quarter
    PROVE  f = Shift(Shift(f, d), -d)
  BY MscTrackAssumption DEF Shift, Msc, Lows

\* The comparisons find the carry: the upper half moves with the frame's.
LEMMA NarrowCarry ==
    ASSUME NEW f \in Msc, NEW k \in Int, -Quarter <= k, k <= Quarter,
           msc_prev = f.lo, msc_high \in 0..(Highs - 1),
           Shift(f, k) \in Msc
    PROVE  LET g == Shift(f, k)
               h == HighForNarrow(g.lo)
           IN  \/ g.hi = f.hi /\ h = msc_high
               \/ g.hi = f.hi + 1 /\ h = Up(msc_high)
               \/ g.hi = f.hi - 1 /\ h = Down(msc_high)
  BY MscTrackAssumption DEF Shift, Msc, Lows, HighForNarrow

\* Whatever is reported, the tracking variables keep their widths.
LEMMA ConvertType ==
    ASSUME MscTypeOK, NEW f \in Msc, NEW reported \in Msc, NEW is64bit \in BOOLEAN,
           Convert(f, reported, is64bit)
    PROVE  /\ msc_prev' \in 0..(Lows - 1)
           /\ msc_high' \in 0..(Highs - 1)
           /\ converted' \in BOOLEAN /\ exact' \in BOOLEAN
           /\ last' \in [frame : Msc, msc : Msc, wide : BOOLEAN]
<1>1. msc_prev' \in 0..(Lows - 1)
  BY DEF Convert, Msc
<1>2. msc_high' \in 0..(Highs - 1)
  BY MscTrackAssumption DEF Convert, HighForWide, HighForNarrow, Up, Down, MscTypeOK, Msc
<1>3. [hi |-> msc_high', lo |-> reported.lo] \in Msc
  BY <1>2 DEF Msc
<1>4. last' \in [frame : Msc, msc : Msc, wide : BOOLEAN]
  BY <1>3 DEF Convert
<1>5. converted' \in BOOLEAN /\ exact' \in BOOLEAN
  BY DEF Convert, MscTypeOK
<1> QED BY <1>1, <1>2, <1>4, <1>5

-----------------------------------------------------------------------------
(* Steps *)

\* A report for the frame d frames from now is converted.
Report(d, wide) ==
    LET f == Shift(kernel_msc, d)
    IN  /\ f \in Msc
        /\ Convert(f, IF wide THEN f ELSE Truncated(f), wide)
        /\ kernel_msc' = kernel_msc
        /\ gap' = 0 - d

Reports == \E d \in (-MaxLag)..MaxAhead, wide \in BOOLEAN : Report(d, wide)

\* Nothing is converted and no frame passes.
Quiet == UNCHANGED <<kernel_msc, msc_prev, msc_high, history>>

\* Every step converts one report, counts one frame, or is quiet.
LEMMA StepKinds ==
    ASSUME MscTypeOK, Flags, [MscNext]_mscVars
    PROVE  Flags' /\ (Reports \/ CountFrame \/ Quiet)
<1>0. /\ Flags /\ kernel_msc \in Msc
      /\ MaxLag \in Nat /\ MaxAhead \in Nat
      /\ MaxLag <= Quarter /\ MaxAhead <= 2 * Quarter /\ Quarter \in Nat
  BY MscTrackAssumption DEF MscTypeOK
<1>1. Shift(kernel_msc, 0) = kernel_msc
  BY <1>0, MscTrackAssumption DEF Shift, Msc, Lows
<1>2. CASE ms_get_crtc_ust_msc
  <2>1. crtcOn /\ (Tries64 => "unsupported" \in Answer64) => ~has_queue_sequence
    BY <1>0 DEF Tries64, Answer64, Flags
  <2>2. ASSUME NEW wide \in BOOLEAN, kernel_msc' = kernel_msc, gap' = 0,
               Convert(kernel_msc, IF wide THEN kernel_msc ELSE Truncated(kernel_msc), wide)
        PROVE  Reports
    <3>0. 0 - 0 = 0
      OBVIOUS
    <3>1. Report(0, wide)
      BY <1>0, <1>1, <2>2, <3>0, Zenon DEF Report
    <3>2. 0 \in (-MaxLag)..MaxAhead
      BY <1>0
    <3> QED BY <3>1, <3>2 DEF Reports
  <2>3. CASE \E answer \in Answer64 \ {"unsupported"} :
            /\ Tries64
            /\ has_queue_sequence' = TRUE
            /\ IF answer = "ok"
                 THEN Convert(kernel_msc, kernel_msc, TRUE) /\ gap' = 0
                 ELSE UNCHANGED <<msc_prev, msc_high, history>>
    <3>1. Flags'
      BY <1>0, <1>2, <2>3 DEF ms_get_crtc_ust_msc, Flags, Answer64
    <3>2. Reports \/ Quiet
      BY <1>2, <2>2, <2>3 DEF ms_get_crtc_ust_msc, Quiet
    <3> QED BY <3>1, <3>2
  <2>4. CASE /\ Tries64 => "unsupported" \in Answer64
             /\ UNCHANGED has_queue_sequence
             /\ IF crtcOn
                  THEN /\ Convert(kernel_msc, Truncated(kernel_msc), has_queue_sequence)
                       /\ gap' = 0
                  ELSE UNCHANGED <<msc_prev, msc_high, history>>
    <3>1. Flags'
      BY <1>0, <1>2, <2>4 DEF ms_get_crtc_ust_msc, Flags
    <3>2. CASE ~crtcOn
      BY <1>2, <2>4, <3>1, <3>2 DEF ms_get_crtc_ust_msc, Quiet
    <3>3. CASE crtcOn
      <4>1. has_queue_sequence = FALSE
        BY <1>0, <2>1, <2>4, <3>3 DEF Flags
      <4> QED BY <1>2, <2>2, <2>4, <3>1, <3>3, <4>1 DEF ms_get_crtc_ust_msc
    <3> QED BY <3>2, <3>3
  <2> QED BY <1>2, <2>3, <2>4 DEF ms_get_crtc_ust_msc
<1>3. ASSUME NEW a \in 0..MaxAhead, NEW asked \in BOOLEAN, ms_queue_vblank(a, asked)
      PROVE  Flags' /\ (Reports \/ Quiet)
  <2> DEFINE f == Shift(kernel_msc, a)
  <2>1. f \in Msc
    BY <1>0, <1>3, ShiftType DEF ms_queue_vblank
  <2>2. a \in (-MaxLag)..MaxAhead
    BY <1>0
  <2>3. Flags'
    <3>1. crtcOn' = crtcOn /\ tried_queue_sequence' = TRUE
      BY <1>3 DEF ms_queue_vblank
    <3>2. has_queue_sequence' = has_queue_sequence \/ (has_queue_sequence' = TRUE /\ Supports64)
      BY <1>3 DEF ms_queue_vblank, Answer64
    <3>3. CASE has_queue_sequence' = has_queue_sequence
      BY <1>0, <3>1, <3>3 DEF Flags
    <3>4. CASE has_queue_sequence' = TRUE /\ Supports64
      BY <1>0, <3>1, <3>4 DEF Flags
    <3> QED BY <3>2, <3>3, <3>4
  <2>4. ASSUME NEW wide \in BOOLEAN, kernel_msc' = kernel_msc, gap' = 0 - a,
               Convert(f, IF wide THEN f ELSE Truncated(f), wide)
        PROVE  Reports
    BY <2>1, <2>2, <2>4 DEF Reports, Report
  <2>5. \/ Convert(f, f, TRUE) /\ gap' = 0 - a
        \/ Convert(f, Truncated(f), FALSE) /\ gap' = 0 - a
        \/ UNCHANGED <<msc_prev, msc_high, history>>
    <3>1. -a = 0 - a
      BY <2>2
    <3> QED BY <1>3, <3>1 DEF ms_queue_vblank
  <2>6. kernel_msc' = kernel_msc
    BY <1>3 DEF ms_queue_vblank
  <2>7. CASE Convert(f, f, TRUE) /\ gap' = 0 - a
    BY <2>3, <2>4, <2>6, <2>7
  <2>8. CASE Convert(f, Truncated(f), FALSE) /\ gap' = 0 - a
    BY <2>3, <2>4, <2>6, <2>8
  <2> QED BY <2>3, <2>5, <2>6, <2>7, <2>8 DEF Quiet
<1>4. ASSUME NEW lag \in 0..MaxLag,
             ms_drm_handler(lag) \/ ms_drm_sequence_handler_64bit(lag)
      PROVE  Flags' /\ Reports
  <2> DEFINE f == Shift(kernel_msc, -lag)
  <2>1. /\ -lag \in Int /\ -2 * Quarter <= -lag /\ -lag <= 2 * Quarter /\ -lag <= 0
        /\ -lag \in (-MaxLag)..MaxAhead
        /\ 0 - (-lag) = lag
    BY <1>0
  <2>2. f.hi >= 0 /\ kernel_msc' = kernel_msc /\ gap' = lag
    BY <1>4 DEF ms_drm_handler, ms_drm_sequence_handler_64bit
  <2>3. f \in Msc
    BY <1>0, <2>1, <2>2, ShiftType
  <2>4. Flags'
    <3>1. UNCHANGED <<crtcOn, has_queue_sequence, tried_queue_sequence>>
      BY <1>4 DEF ms_drm_handler, ms_drm_sequence_handler_64bit
    <3> QED BY <1>0, <3>1 DEF Flags
  <2>5. Convert(f, f, TRUE) \/ Convert(f, Truncated(f), FALSE)
    BY <1>4 DEF ms_drm_handler, ms_drm_sequence_handler_64bit
  <2>6. CASE Convert(f, f, TRUE)
    BY <2>1, <2>2, <2>3, <2>4, <2>6 DEF Reports, Report
  <2>7. CASE Convert(f, Truncated(f), FALSE)
    BY <2>1, <2>2, <2>3, <2>4, <2>7 DEF Reports, Report
  <2> QED BY <2>5, <2>6, <2>7
<1>5. CASE CountFrame
  BY <1>0, <1>5 DEF CountFrame, Flags, driverVars
<1>6. CASE Switch
  BY <1>0, <1>6 DEF Switch, Flags, Quiet, driverVars
<1>7. CASE UNCHANGED mscVars
  BY <1>0, <1>7 DEF mscVars, Flags, Quiet, driverVars
<1> QED BY <1>2, <1>3, <1>4, <1>5, <1>6, <1>7 DEF MscNext

\* Every step keeps the types.
LEMMA CounterTypeStep ==
    ASSUME MscTypeOK, Flags, [MscNext]_mscVars
    PROVE  MscTypeOK' /\ Flags'
<1>0. Flags' /\ (Reports \/ CountFrame \/ Quiet)
  BY StepKinds
<1>1. CASE Reports
  <2>1. PICK d \in (-MaxLag)..MaxAhead, wide \in BOOLEAN : Report(d, wide)
    BY <1>1 DEF Reports
  <2> DEFINE f == Shift(kernel_msc, d)
             reported == IF wide THEN f ELSE Truncated(f)
  <2>2. f \in Msc /\ Convert(f, reported, wide) /\ kernel_msc' = kernel_msc /\ gap' = 0 - d
    BY <2>1 DEF Report
  <2>3. reported \in Msc
    BY <2>2, MscTrackAssumption DEF Truncated, Msc
  <2>4. gap' \in Int
    BY <2>2, MscTrackAssumption
  <2>5. kernel_msc' \in Msc
    BY <2>2 DEF MscTypeOK
  <2>6. /\ msc_prev' \in 0..(Lows - 1) /\ msc_high' \in 0..(Highs - 1)
        /\ converted' \in BOOLEAN /\ exact' \in BOOLEAN
        /\ last' \in [frame : Msc, msc : Msc, wide : BOOLEAN]
    BY <2>2, <2>3, ConvertType
  <2> QED BY <1>0, <2>4, <2>5, <2>6 DEF MscTypeOK, Flags
<1>2. CASE CountFrame
  <2>1. kernel_msc' \in Msc
    BY <1>2, ShiftType, MscTrackAssumption DEF CountFrame, MscTypeOK
  <2>2. last' \in [frame : Msc, msc : Msc, wide : BOOLEAN]
    BY <1>2, <2>1 DEF CountFrame, MscTypeOK
  <2>3. gap' \in Int
    BY <1>2 DEF CountFrame, MscTypeOK
  <2> QED BY <1>0, <1>2, <2>1, <2>2, <2>3 DEF CountFrame, MscTypeOK, Flags, driverVars
<1>3. CASE Quiet
  BY <1>0, <1>3 DEF Quiet, history, MscTypeOK, Flags
<1> QED BY <1>0, <1>1, <1>2, <1>3

\* A report close to the last one: its frame is k frames from the last one.
LEMMA CloseBy ==
    ASSUME CloseReports, MscTypeOK, TrackInv, converted, NEW d \in (-MaxLag)..MaxAhead
    PROVE  /\ gap + d \in Int /\ -Quarter <= gap + d /\ gap + d <= Quarter
           /\ Shift(kernel_msc, d) = Shift(last.frame, gap + d)
<1>1. /\ gap \in Int /\ -Quarter <= gap /\ gap <= Quarter
      /\ d \in Int /\ -Quarter <= d /\ d <= Quarter
      /\ -Quarter <= gap + d /\ gap + d <= Quarter
  BY MscTrackAssumption DEF CloseReports, TrackInv
<1>2. last.frame \in Msc
  BY DEF MscTypeOK
<1> QED BY <1>1, <1>2, ShiftShift, MscTrackAssumption DEF TrackInv

\* The lower half of a converted report is that of its frame, and the upper
\* half of a 32 bit report moves as its frame's does.
LEMMA Follows ==
    ASSUME CloseReports, MscTypeOK, TrackInv, converted,
           NEW d \in (-MaxLag)..MaxAhead, Report(d, FALSE)
    PROVE  /\ last'.msc.lo = last'.frame.lo /\ ~last'.wide
           /\ \/ last'.frame.hi = last.frame.hi /\ last'.msc.hi = last.msc.hi
              \/ last'.frame.hi = last.frame.hi + 1 /\ last'.msc.hi = Up(last.msc.hi)
              \/ last'.frame.hi = last.frame.hi - 1 /\ last'.msc.hi = Down(last.msc.hi)
<1> DEFINE f == Shift(kernel_msc, d)
           k == gap + d
<1>1. f \in Msc /\ Convert(f, Truncated(f), FALSE)
  BY DEF Report
<1>2. /\ last'.frame = f /\ ~last'.wide
      /\ last'.msc = [hi |-> HighForNarrow(f.lo), lo |-> f.lo]
  BY <1>1 DEF Convert, Truncated
<1>3. k \in Int /\ -Quarter <= k /\ k <= Quarter /\ f = Shift(last.frame, k)
  BY CloseBy
<1>4. last.frame \in Msc /\ msc_prev = last.frame.lo
      /\ msc_high = last.msc.hi /\ msc_high \in 0..(Highs - 1)
  BY DEF MscTypeOK, TrackInv
<1>5. \/ f.hi = last.frame.hi /\ HighForNarrow(f.lo) = msc_high
      \/ f.hi = last.frame.hi + 1 /\ HighForNarrow(f.lo) = Up(msc_high)
      \/ f.hi = last.frame.hi - 1 /\ HighForNarrow(f.lo) = Down(msc_high)
  BY <1>1, <1>3, <1>4, NarrowCarry
<1> QED BY <1>2, <1>4, <1>5

\* Every step keeps track of where the last report lies.
LEMMA TrackStep ==
    ASSUME CloseReports, MInv, [MscNext]_mscVars
    PROVE  TrackInv' /\ MscExact'
<1> USE DEF MInv
<1>0. Reports \/ CountFrame \/ Quiet
  BY StepKinds
<1>1. CASE Reports
  <2>1. PICK d \in (-MaxLag)..MaxAhead, wide \in BOOLEAN : Report(d, wide)
    BY <1>1 DEF Reports
  <2> DEFINE f == Shift(kernel_msc, d)
  <2>2. /\ f \in Msc /\ Convert(f, IF wide THEN f ELSE Truncated(f), wide)
        /\ kernel_msc' = kernel_msc /\ gap' = 0 - d
    BY <2>1 DEF Report
  <2>3. last'.frame = f /\ msc_prev' = f.lo /\ converted'
    BY <2>2 DEF Convert, Truncated
  <2>4. msc_high' = last'.msc.hi
    BY <2>2 DEF Convert, HighForWide
  <2>5. kernel_msc = Shift(f, -d) /\ -d = 0 - d
    BY ShiftBack, MscTrackAssumption DEF MscTypeOK
  <2>6. TrackInv'
    BY <2>2, <2>3, <2>4, <2>5, MscTrackAssumption DEF TrackInv
  <2>7. MscExact'
    <3>1. CASE wide
      BY <2>2, <3>1 DEF Convert, MscExact
    <3>2. CASE ~wide /\ exact
      <4>1. Report(d, FALSE) /\ converted /\ last.msc = last.frame
        BY <2>1, <3>2, Zenon DEF TrackInv, MscExact
      <4>2. last.msc.hi \in 0..(Highs - 1) /\ last'.frame \in Msc /\ last'.msc \in Msc
        BY CounterTypeStep DEF MscTypeOK, Msc
      <4>3. /\ last'.msc.lo = last'.frame.lo
            /\ \/ last'.frame.hi = last.frame.hi /\ last'.msc.hi = last.msc.hi
               \/ last'.frame.hi = last.frame.hi + 1 /\ last'.msc.hi = Up(last.msc.hi)
               \/ last'.frame.hi = last.frame.hi - 1 /\ last'.msc.hi = Down(last.msc.hi)
        BY <4>1, Follows
      <4>4. last.msc.hi = last.frame.hi /\ last'.frame.hi \in 0..(Highs - 1)
        BY <4>1, <4>2 DEF Msc
      <4>5. last'.msc.hi = last'.frame.hi
        BY <4>2, <4>3, <4>4, MscTrackAssumption DEF Up, Down
      <4> QED BY <4>2, <4>3, <4>5 DEF MscExact, Msc
    <3>3. CASE ~wide /\ ~exact
      BY <2>2, <3>3 DEF Convert, MscExact
    <3> QED BY <3>1, <3>2, <3>3
  <2> QED BY <2>6, <2>7
<1>2. CASE CountFrame
  <2>1. CASE ~converted
    BY <1>2, <2>1, MscTrackAssumption DEF CountFrame, TrackInv, MscExact
  <2>2. CASE converted
    <3>1. /\ gap \in Int /\ -Quarter <= gap /\ gap < MaxIdle /\ -MaxAhead <= gap
          /\ kernel_msc' = Shift(kernel_msc, 1) /\ kernel_msc = Shift(last.frame, gap)
          /\ gap' = gap + 1 /\ last' = last /\ UNCHANGED <<msc_prev, msc_high, converted,
              exact>>
      BY <1>2, <2>2, MscTrackAssumption DEF CountFrame, TrackInv, CloseReports, driverVars
    <3>2. kernel_msc' = Shift(last.frame, gap + 1)
      BY <3>1, ShiftShift, MscTrackAssumption DEF MscTypeOK
    <3> QED BY <2>2, <3>1, <3>2, MscTrackAssumption DEF TrackInv, MscExact
  <2> QED BY <2>1, <2>2
<1>3. CASE Quiet
  BY <1>3 DEF Quiet, history, TrackInv, MscExact
<1> QED BY <1>0, <1>1, <1>2, <1>3

-----------------------------------------------------------------------------
(* Theorems *)

\* The types hold when the server starts.
LEMMA CounterInit == MscInit => MscTypeOK /\ Flags
<1> SUFFICES ASSUME MscInit PROVE MscTypeOK /\ Flags
  OBVIOUS
<1>1. /\ [hi |-> 0, lo |-> 0] \in Msc
      /\ 0 \in 0..(Lows - 1) /\ 0 \in 0..(Highs - 1)
  BY MscTrackAssumption DEF Msc, Lows
<1>2. last \in [frame : Msc, msc : Msc, wide : BOOLEAN]
  BY <1>1 DEF MscInit
<1>3. Flags
  BY DEF MscInit, Flags
<1>4. converted \in BOOLEAN /\ exact \in BOOLEAN
  BY DEF MscInit
<1>5. kernel_msc \in Msc /\ msc_prev \in 0..(Lows - 1) /\ msc_high \in 0..(Highs - 1)
      /\ gap \in Int
  BY <1>1 DEF MscInit
<1> QED BY <1>2, <1>3, <1>4, <1>5 DEF MscTypeOK, Flags

\* msc_prev and msc_high keep their widths, however far reports are apart.
THEOREM CounterTypes == MscSpec => []MscTypeOK
<1>1. MscInit => MscTypeOK /\ Flags
  BY CounterInit
<1>2. MscTypeOK /\ Flags /\ [MscNext]_mscVars => MscTypeOK' /\ Flags'
  BY CounterTypeStep
<1> QED BY <1>1, <1>2, PTL DEF MscSpec

\* Where reports are close, MInv is an invariant.
LEMMA TrackInvariant ==
    ASSUME CloseReports
    PROVE  MscSpec => []MInv
<1>1. MscInit => MInv
  <2> SUFFICES ASSUME MscInit PROVE MInv
    OBVIOUS
  <2>1. MscTypeOK /\ Flags
    BY CounterInit
  <2>2. TrackInv /\ MscExact
    BY MscTrackAssumption DEF MscInit, TrackInv, MscExact
  <2> QED BY <2>1, <2>2 DEF MInv
<1>2. MInv /\ [MscNext]_mscVars => MInv'
  BY CounterTypeStep, TrackStep DEF MInv
<1> QED BY <1>1, <1>2, PTL DEF MscSpec

\* Where reports are close, every msc is the kernel's own number as soon as one
\* 64 bit report has been converted.
THEOREM ExactWhenClose ==
    ASSUME CloseReports
    PROVE  MscSpec => []MscExact
<1>1. MInv => MscExact
  BY DEF MInv
<1> QED BY <1>1, TrackInvariant, PTL

\* Where reports are close, the msc of 32 bit reports advances as the frames do.
THEOREM AdvancesWhenClose ==
    ASSUME CloseReports
    PROVE  MscSpec => MscAdvances
<1>1. ASSUME MInv, [MscNext]_mscVars, converted, ~last'.wide, last' # last
      PROVE  last'.msc.lo = last'.frame.lo /\ Offset(last') = Offset(last)
  <2>1. Reports
    BY <1>1, StepKinds DEF MInv, CountFrame, Quiet, history
  <2>2. PICK d \in (-MaxLag)..MaxAhead, wide \in BOOLEAN : Report(d, wide)
    BY <2>1 DEF Reports
  <2>3. wide = FALSE
    BY <1>1, <2>2 DEF Report, Convert
  <2>4. Report(d, FALSE)
    BY <2>2, <2>3
  <2>5. MscTypeOK /\ MscTypeOK'
    BY <1>1, CounterTypeStep DEF MInv
  <2>6. /\ last.msc.hi \in 0..(Highs - 1) /\ last.frame.hi \in 0..(Highs - 1)
        /\ last'.msc.hi \in 0..(Highs - 1) /\ last'.frame.hi \in 0..(Highs - 1)
    BY <2>5 DEF MscTypeOK, Msc
  <2>7. /\ last'.msc.lo = last'.frame.lo
        /\ \/ last'.frame.hi = last.frame.hi /\ last'.msc.hi = last.msc.hi
           \/ last'.frame.hi = last.frame.hi + 1 /\ last'.msc.hi = Up(last.msc.hi)
           \/ last'.frame.hi = last.frame.hi - 1 /\ last'.msc.hi = Down(last.msc.hi)
    BY <1>1, <2>4, Follows DEF MInv
  <2>8. \A m, f \in 0..(Highs - 1) :
          /\ f + 1 < Highs => Distance(Up(m), f + 1) = Distance(m, f)
          /\ f - 1 >= 0 => Distance(Down(m), f - 1) = Distance(m, f)
    BY MscTrackAssumption DEF Distance, Up, Down
  <2>9. Distance(last'.msc.hi, last'.frame.hi) = Distance(last.msc.hi, last.frame.hi)
    BY <2>6, <2>7, <2>8, MscTrackAssumption
  <2> QED BY <2>7, <2>9 DEF Offset, Distance
<1>2. MInv /\ [MscNext]_mscVars =>
        [converted /\ ~last'.wide =>
           /\ last'.msc.lo = last'.frame.lo
           /\ Offset(last') = Offset(last)]_last
  BY <1>1
<1> QED BY <1>2, TrackInvariant, PTL DEF MscSpec, MscAdvances
-----------------------------------------------------------------------------
(* The frames of DRI2 requests *)

-----------------------------------------------------------------------------
(* Division *)

\* Quotient and remainder.
LEMMA Division ==
    ASSUME NEW x \in Int, NEW d \in Nat \ {0}
    PROVE  /\ x \div d \in Int /\ x % d \in Int
           /\ x = (x \div d) * d + (x % d)
           /\ 0 <= x % d /\ x % d < d
<1>1. d \in Int /\ d > 0
  OBVIOUS
<1>2. x \div d \in Int
  BY <1>1
<1>3. x % d \in Int /\ 0 <= x % d /\ x % d < d
  BY <1>1
<1>4. x = (x \div d) * d + (x % d)
  BY <1>1, Z3
<1>5. QED
  BY <1>2, <1>3, <1>4

\* A multiple of d that is closer to 0 than d is 0.
LEMMA SmallMultiple ==
    ASSUME NEW d \in Nat \ {0}, NEW q \in Int, NEW x \in Int, x = q * d, x < d, -x < d
    PROVE  x = 0
<1>1. d \in Int /\ d > 0
  OBVIOUS
<1>2. CASE q >= 1
  <2>1. q * d >= d
    BY <1>1, <1>2
  <2>2. QED
    BY <2>1
<1>3. CASE q <= -1
  <2>1. q * d <= -d
    BY <1>1, <1>3
  <2>2. QED
    BY <1>1, <2>1
<1>4. CASE q = 0
  BY <1>1, <1>4
<1>5. QED
  BY <1>2, <1>3, <1>4

\* A multiple of d plus r has the remainder r.
LEMMA Remainder ==
    ASSUME NEW d \in Nat \ {0}, NEW a \in Int, NEW r \in Int, 0 <= r, r < d
    PROVE  (a * d + r) % d = r
<1>1. PICK x \in Int : x = a * d + r
  OBVIOUS
<1>2. PICK b \in Int, s \in Int : b = x \div d /\ s = x % d /\ x = b * d + s /\ 0 <= s /\ s < d
  BY Division
<1>3. PICK q \in Int : q = b - a
  OBVIOUS
<1>4. r - s = q * d
  BY <1>1, <1>2, <1>3
<1>5. PICK y \in Int : y = r - s /\ y < d /\ -y < d
  <2>1. 0 <= s /\ s < d /\ d \in Int
    BY <1>2
  <2>2. r - s \in Int /\ r - s < d /\ -(r - s) < d
    BY <2>1
  <2>3. QED
    BY <2>2
<1>6. y = 0
  BY <1>4, <1>5, SmallMultiple
<1>7. QED
  BY <1>1, <1>2, <1>5, <1>6

\* Among d consecutive frames one satisfies the equation.
LEMMA OnlyOne ==
    ASSUME NEW d \in Nat \ {0}, NEW m \in Int, NEW n \in Int,
           m % d = n % d, m - n < d, n - m < d
    PROVE  m = n
<1>1. /\ m \div d \in Int /\ m % d \in Int /\ m = (m \div d) * d + (m % d)
      /\ n \div d \in Int /\ n = (n \div d) * d + (n % d)
  BY Division
<1>2. PICK q \in Int : q = (m \div d) - (n \div d)
  BY <1>1
<1>3. m - n = q * d
  BY <1>1, <1>2
<1>4. PICK y \in Int : y = m - n /\ y < d /\ -y < d
  OBVIOUS
<1>5. y = 0
  BY <1>3, <1>4, SmallMultiple
<1>6. QED
  BY <1>4, <1>5

-----------------------------------------------------------------------------
(* The arithmetic of dri2.c *)

\* The frames asked for are the first ones after cur that satisfy the equation.
LEMMA Satisfying ==
    ASSUME NEW cur \in Nat, NEW d \in Nat \ {0}, NEW r \in Nat, r < d
    PROVE  /\ FirstSatisfying(cur, d, r) \in Nat /\ FirstSatisfying(cur, d, r) > cur
           /\ SwapSatisfying(cur, d, r) = FirstSatisfying(cur, d, r)
           /\ WaitSatisfying(cur, d, r) = FirstSatisfying(cur, d, r)
<1> DEFINE q == cur \div d
           rem == cur % d
           m == cur - rem + r
           n == IF m <= cur THEN m + d ELSE m
<1>1. q \in Int /\ rem \in Int /\ cur = q * d + rem /\ 0 <= rem /\ rem < d
  BY Division
<1>2. m = q * d + r /\ m + d = (q + 1) * d + r /\ m \in Int
  BY <1>1
<1>3. m % d = r /\ (m + d) % d = r
  <2>1. (q * d + r) % d = r
    BY <1>1, Remainder
  <2>2. \A p \in Int : (p * d + r) % d = r
    BY Remainder
  <2>3. ((q + 1) * d + r) % d = r
    <3>1. q + 1 \in Int
      BY <1>1
    <3> HIDE DEF q
    <3>2. QED
      BY <2>2, <3>1
  <2>4. QED
    BY <1>2, <2>1, <2>3
<1>4. n \in (cur + 1)..(cur + d) /\ n % d = r
  BY <1>1, <1>2, <1>3
<1>5. SwapSatisfying(cur, d, r) = n
  BY DEF SwapSatisfying
<1>6. WaitSatisfying(cur, d, r) = n
  BY <1>1 DEF WaitSatisfying
<1> HIDE DEF n
<1>7. \A x \in (cur + 1)..(cur + d) : x % d = r => x = n
  <2> SUFFICES ASSUME NEW x \in (cur + 1)..(cur + d), x % d = r
               PROVE  x = n
    OBVIOUS
  <2>1. x \in Int /\ n \in Int /\ x - n < d /\ n - x < d /\ x % d = n % d
    BY <1>4
  <2>2. QED
    BY <2>1, OnlyOne
<1>8. FirstSatisfying(cur, d, r) = n
  BY <1>4, <1>7 DEF FirstSatisfying
<1>9. QED
  BY <1>4, <1>5, <1>6, <1>8

\* The frame at which a swap is to be seen, and a wait to end, if the client asks at
\* frame cur and nothing is late; a flip is submitted one frame before.
SwapDue(cur, t, d, r, f) ==
    IF d = 0 \/ cur + f < t THEN Later(t, cur + 1) ELSE FirstSatisfying(cur, d, r)
SwapEvent(cur, t, d, r, f) == SwapDue(cur, t, d, r, f) - f
WaitDue(cur, t, d, r) ==
    IF cur < t THEN t ELSE IF d = 0 THEN cur ELSE FirstSatisfying(cur, d, r)

\* The frame the kernel sends the event at if it is asked for frame m during frame cur;
\* only a blit (f = 0) is queued with MS_QUEUE_NEXT_ON_MISS.
SentAt(m, cur, f) == IF m > cur THEN m ELSE IF f = 0 THEN cur + 1 ELSE cur

\* An event at frame m is neither before frame cur nor too early for target t.
NotBefore(m, cur, t, f) == m \in Int /\ m >= cur /\ m + f >= t

\* The frame the kernel is asked for by a swap.
LEMMA SwapAsks ==
    ASSUME NEW cur \in Nat, NEW t \in Nat, NEW d \in Nat, NEW r \in Nat,
           (d = 0 => r = 0) /\ (d > 0 => r < d), NEW f \in {0, 1}
    PROVE  /\ SentAt(SwapRequest(cur, t, d, r, f), cur, f) = SwapEvent(cur, t, d, r, f)
           /\ NotBefore(SwapRequest(cur, t, d, r, f), cur, t, f)
<1> DEFINE early == IF t > 0 THEN t - f ELSE t
           F == FirstSatisfying(cur, d, r)
<1>1. early \in Nat /\ early + f >= t
  OBVIOUS
<1>2. CASE d = 0 \/ cur < early
  <2>1. SwapRequest(cur, t, d, r, f) = Later(early, cur)
    BY <1>2 DEF SwapRequest
  <2>2. SwapDue(cur, t, d, r, f) = Later(t, cur + 1)
    BY <1>2 DEF SwapDue, Later
  <2>3. /\ Later(early, cur) \in Int
        /\ Later(early, cur) >= cur /\ Later(early, cur) + f >= t
        /\ SentAt(Later(early, cur), cur, f) = Later(t, cur + 1) - f
    BY <1>1, <1>2 DEF Later, SentAt
  <2>4. QED
    BY <2>1, <2>2, <2>3 DEF SwapEvent, NotBefore
<1>3. CASE ~(d = 0 \/ cur < early)
  <2>1. F \in Nat /\ F > cur /\ SwapSatisfying(cur, d, r) = F
    BY <1>3, Satisfying
  <2>2. SwapRequest(cur, t, d, r, f) = F - f
    BY <1>3, <2>1 DEF SwapRequest
  <2>3. SwapDue(cur, t, d, r, f) = F
    BY <1>3 DEF SwapDue
  <2> HIDE DEF F
  <2>4. /\ F - f \in Int /\ F - f >= cur /\ F - f + f >= t
        /\ SentAt(F - f, cur, f) = F - f
    BY <1>1, <1>3, <2>1 DEF SentAt
  <2>5. QED
    BY <2>2, <2>3, <2>4 DEF SwapEvent, NotBefore
<1>4. QED
  BY <1>2, <1>3

\* The frame the kernel is asked for by a wait.
LEMMA WaitAsks ==
    ASSUME NEW cur \in Nat, NEW t \in Nat, NEW d \in Nat, NEW r \in Nat,
           (d = 0 => r = 0) /\ (d > 0 => r < d)
    PROVE  /\ WaitRequest(cur, t, d, r) \in Nat
           /\ SentAt(WaitRequest(cur, t, d, r), cur, 1) = WaitDue(cur, t, d, r)
<1>1. CASE d = 0 \/ cur < t
  <2>1. WaitRequest(cur, t, d, r) = Later(t, cur) /\ Later(t, cur) \in Nat
    BY <1>1 DEF WaitRequest, Later
  <2>2. SentAt(Later(t, cur), cur, 1) = WaitDue(cur, t, d, r)
    BY <1>1 DEF WaitDue, Later, SentAt
  <2>3. QED
    BY <2>1, <2>2
<1>2. CASE ~(d = 0 \/ cur < t)
  <2>1. /\ FirstSatisfying(cur, d, r) \in Nat /\ FirstSatisfying(cur, d, r) > cur
        /\ WaitSatisfying(cur, d, r) = FirstSatisfying(cur, d, r)
    BY <1>2, Satisfying
  <2>2. WaitRequest(cur, t, d, r) = FirstSatisfying(cur, d, r)
    BY <1>2, <2>1 DEF WaitRequest
  <2>3. WaitDue(cur, t, d, r) = FirstSatisfying(cur, d, r)
    BY <1>2 DEF WaitDue
  <2>4. QED
    BY <1>2, <2>1, <2>2, <2>3 DEF SentAt
<1>3. QED
  BY <1>1, <1>2

-----------------------------------------------------------------------------
(* The invariant *)

\* The same for the request that is followed.
SwapFrame == SwapDue(asked_msc, target_msc, divisor, remainder, flip)
WaitFrame == WaitDue(asked_msc, target_msc, divisor, remainder)

\* The values the variables can have.
TimeTypes ==
    /\ now \in Nat /\ asked_msc \in Nat /\ asked_msc <= now
    /\ target_msc \in Nat /\ divisor \in Nat /\ remainder \in Nat /\ current_msc \in Nat
    /\ divisor = 0 => remainder = 0
    /\ divisor > 0 => remainder < divisor
    /\ kind \in {"swap", "wait"} /\ flip \in {0, 1}
    /\ queued_msc \in Int /\ shown \in Int
    /\ late \in BOOLEAN /\ changed \in BOOLEAN /\ misread \in BOOLEAN
    /\ stage \in {"idle", "read", "queued", "flipping", "done"}

\* What holds when the counter was read: it is the frame in which the client asked, as long
\* as no frame passed.
ReadInv ==
    /\ stage = "idle" => ~late
    /\ stage \in {"idle", "read"} => flip = 0 /\ ~changed
        /\ (~late => stage = "idle" \/ now = asked_msc)
    /\ stage = "read" => /\ ~misread => current_msc = asked_msc
                         /\ kind = "swap" => ~misread

\* When the request is queued: its event comes late enough, and at the right frame if no
\* frame passed before it was queued.
QueuedInv ==
    /\ stage \in {"queued", "flipping"} => ~changed
    /\ stage = "queued" /\ ~late => now <= queued_msc
    /\ stage = "queued" /\ kind = "swap" =>
         /\ queued_msc + flip >= target_msc /\ queued_msc + flip > asked_msc
         /\ ~late => queued_msc = SwapFrame - flip
    /\ stage = "queued" /\ kind = "wait" =>
         /\ flip = 0
         /\ ~late /\ ~misread => queued_msc = WaitFrame

\* A flip that was submitted is seen at the next frame.
FlippingInv ==
    stage = "flipping" =>
      /\ kind = "swap" /\ flip = 1
      /\ now + 1 >= target_msc /\ now + 1 > asked_msc
      /\ ~late => now + 1 = SwapFrame

\* They are frames.
LEMMA FrameTypes == TimeTypes => SwapFrame \in Nat /\ WaitFrame \in Nat
<1> SUFFICES ASSUME TimeTypes PROVE SwapFrame \in Nat /\ WaitFrame \in Nat
  OBVIOUS
<1>1. asked_msc \in Nat /\ target_msc \in Nat
  BY DEF TimeTypes
<1>2. divisor # 0 => FirstSatisfying(asked_msc, divisor, remainder) \in Nat
  <2>1. SUFFICES ASSUME divisor # 0 PROVE FirstSatisfying(asked_msc, divisor, remainder) \in Nat
    OBVIOUS
  <2>2. divisor \in Nat \ {0} /\ remainder \in Nat /\ remainder < divisor
    BY <2>1 DEF TimeTypes
  <2>3. QED
    BY <1>1, <2>2, Satisfying
<1>3. QED
  BY <1>1, <1>2 DEF SwapFrame, WaitFrame, SwapDue, WaitDue, Later

\* All of it.
TimeInv == TimeTypes /\ ReadInv /\ QueuedInv /\ FlippingInv /\ OnTime /\ NeverEarly

\* At start there is no request.
LEMMA TimeInit == SwapInit => TimeInv
<1> SUFFICES ASSUME SwapInit PROVE TimeInv
  OBVIOUS
<1>1. now \in Nat
  BY SwapTargetAssumption DEF SwapInit, Frames
<1>2. TimeTypes
  <2>1. /\ asked_msc = 0 /\ target_msc = 0 /\ divisor = 0 /\ remainder = 0 /\ current_msc = 0
        /\ kind = "swap" /\ flip = 0 /\ queued_msc = -1 /\ shown = -1 /\ stage = "idle"
        /\ late = FALSE /\ changed = FALSE /\ misread = FALSE
    BY DEF SwapInit, Nowhere
  <2>2. queued_msc \in Int /\ shown \in Int
    BY <2>1
  <2>3. asked_msc <= now /\ asked_msc \in Nat /\ ~(divisor > 0)
    BY <1>1, <2>1
  <2>4. QED
    BY <1>1, <2>1, <2>2, <2>3 DEF TimeTypes
<1>3. ReadInv /\ QueuedInv /\ FlippingInv
  BY DEF SwapInit, ReadInv, QueuedInv, FlippingInv
<1>4. OnTime /\ NeverEarly
  BY DEF SwapInit, OnTime, NeverEarly, Finished
<1>5. QED
  BY <1>2, <1>3, <1>4 DEF TimeInv

\* A request arrives.
LEMMA TimeRead ==
    ASSUME TimeInv, NEW k \in {"swap", "wait"}, NEW t \in Frames, NEW d \in 0..MaxDivisor,
           NEW r \in 0..MaxDivisor, Read(k, t, d, r)
    PROVE  TimeInv'
<1>1. t \in Nat /\ d \in Nat /\ r \in Nat /\ Frames \subseteq Nat /\ now \in Nat
  BY SwapTargetAssumption DEF Frames, TimeInv, TimeTypes
<1>2. /\ current_msc' \in Nat /\ misread' \in BOOLEAN
      /\ ~misread' => current_msc' = now
      /\ k = "swap" => ~misread'
  BY <1>1 DEF Read
<1>3. /\ stage = "idle" /\ stage' = "read" /\ kind' = k /\ target_msc' = t /\ divisor' = d
      /\ remainder' = r /\ asked_msc' = now /\ (d = 0 => r = 0) /\ (d > 0 => r < d)
      /\ UNCHANGED <<now, flip, queued_msc, shown, late, changed>>
  BY DEF Read
<1>4. TimeTypes'
  BY <1>1, <1>2, <1>3 DEF TimeTypes, TimeInv
<1>5. ReadInv'
  BY <1>2, <1>3 DEF ReadInv, TimeInv
<1>6. QueuedInv' /\ FlippingInv' /\ OnTime' /\ NeverEarly'
  BY <1>3 DEF QueuedInv, FlippingInv, OnTime, NeverEarly, Finished
<1>7. QED
  BY <1>4, <1>5, <1>6 DEF TimeInv

\* A swap is queued.
LEMMA TimeQueueSwap ==
    ASSUME TimeInv, NEW f \in {0, 1}, QueueSwap(f)
    PROVE  TimeInv'
<1>1. /\ now \in Nat /\ asked_msc \in Nat /\ asked_msc <= now
      /\ target_msc \in Nat /\ divisor \in Nat /\ remainder \in Nat
      /\ (divisor = 0 => remainder = 0) /\ (divisor > 0 => remainder < divisor)
  BY DEF TimeInv, TimeTypes
<1> DEFINE M == SwapRequest(asked_msc, target_msc, divisor, remainder, f)
<1>2. /\ NotBefore(M, asked_msc, target_msc, f)
      /\ SentAt(M, asked_msc, f) = SwapEvent(asked_msc, target_msc, divisor, remainder, f)
  BY <1>1, SwapAsks
<1>3. /\ stage = "read" /\ kind = "swap" /\ stage' = "queued" /\ flip' = f
      /\ current_msc = asked_msc /\ ~changed /\ (~late => now = asked_msc)
      /\ queued_msc' = KernelQueues(M, f = 0)
      /\ UNCHANGED <<now, request, current_msc, shown, late, changed, misread>>
  BY <1>2 DEF QueueSwap, TimeInv, ReadInv
<1> HIDE DEF M
<1>4. SwapFrame' = SwapDue(asked_msc, target_msc, divisor, remainder, f)
  BY <1>3 DEF SwapFrame, request
<1>5. queued_msc' = SentAt(M, now, f)
  BY <1>3 DEF KernelQueues, SentAt
<1>6. /\ queued_msc' \in Int
      /\ queued_msc' + f >= target_msc /\ queued_msc' + f > asked_msc
      /\ now <= queued_msc'
      /\ ~late => queued_msc' = SwapFrame' - f
  BY <1>1, <1>2, <1>3, <1>4, <1>5 DEF SentAt, SwapEvent, NotBefore
<1>7. TimeTypes'
  BY <1>3, <1>6 DEF TimeTypes, TimeInv, request
<1>8. QueuedInv'
  <2>1. UNCHANGED <<target_msc, asked_msc, kind, now, late, changed>>
    BY <1>3 DEF request
  <2>2. QED
    BY <1>3, <1>6, <2>1 DEF QueuedInv
<1>9. ReadInv' /\ FlippingInv' /\ OnTime' /\ NeverEarly'
  BY <1>3 DEF ReadInv, FlippingInv, OnTime, NeverEarly, Finished
<1>10. QED
  BY <1>7, <1>8, <1>9 DEF TimeInv

\* A wait is queued.
LEMMA TimeQueueWait ==
    ASSUME TimeInv, QueueWait
    PROVE  TimeInv'
<1>1. /\ now \in Nat /\ asked_msc \in Nat /\ asked_msc <= now /\ current_msc \in Nat
      /\ target_msc \in Nat /\ divisor \in Nat /\ remainder \in Nat
      /\ (divisor = 0 => remainder = 0) /\ (divisor > 0 => remainder < divisor)
  BY DEF TimeInv, TimeTypes
<1> DEFINE M == WaitRequest(current_msc, target_msc, divisor, remainder)
<1>2. /\ M \in Nat
      /\ SentAt(M, current_msc, 1) = WaitDue(current_msc, target_msc, divisor, remainder)
  BY <1>1, WaitAsks
<1>3. /\ stage = "read" /\ kind = "wait" /\ stage' = "queued" /\ flip = 0 /\ ~changed
      /\ (~misread => current_msc = asked_msc) /\ (~late => now = asked_msc)
      /\ queued_msc' = KernelQueues(M, FALSE)
      /\ UNCHANGED <<now, flip, request, current_msc, shown, late, changed, misread>>
  BY <1>2 DEF QueueWait, TimeInv, ReadInv
<1> HIDE DEF M
<1>4. WaitFrame' = WaitFrame
  BY <1>3 DEF WaitFrame, request
<1>5. queued_msc' = SentAt(M, now, 1)
  BY <1>3 DEF KernelQueues, SentAt
<1>6. queued_msc' \in Int /\ now <= queued_msc'
  BY <1>1, <1>2, <1>5 DEF SentAt
<1>7. ~late /\ ~misread => queued_msc' = WaitFrame'
  BY <1>2, <1>3, <1>4, <1>5 DEF WaitFrame
<1>8. TimeTypes'
  BY <1>3, <1>6 DEF TimeTypes, TimeInv, request
<1>9. QueuedInv'
  <2>1. stage' = "queued" /\ kind' = "wait" /\ ~changed' /\ flip' = 0
    BY <1>3 DEF request
  <2>2. now' <= queued_msc' /\ (~late' /\ ~misread' => queued_msc' = WaitFrame')
    BY <1>3, <1>6, <1>7
  <2>3. QED
    BY <2>1, <2>2 DEF QueuedInv
<1>10. ReadInv' /\ FlippingInv' /\ OnTime' /\ NeverEarly'
  BY <1>3 DEF ReadInv, FlippingInv, OnTime, NeverEarly, Finished
<1>11. QED
  BY <1>8, <1>9, <1>10 DEF TimeInv

\* The event is handled.
LEMMA TimeHandle ==
    ASSUME TimeInv, NEW flips \in BOOLEAN, Handle(flips)
    PROVE  TimeInv'
<1>1. /\ now \in Nat /\ asked_msc \in Nat /\ target_msc \in Nat /\ flip \in {0, 1}
      /\ queued_msc \in Int /\ kind \in {"swap", "wait"}
      /\ SwapFrame \in Nat /\ WaitFrame \in Nat
  BY FrameTypes DEF TimeInv, TimeTypes
<1>2. /\ stage = "queued" /\ now >= queued_msc /\ (flips => flip = 1)
      /\ changed' = (flip = 1 /\ ~flips)
      /\ UNCHANGED <<now, flip, request, current_msc, queued_msc, late, misread>>
  BY DEF Handle
<1>3. SwapFrame' = SwapFrame /\ WaitFrame' = WaitFrame
      /\ UNCHANGED <<kind, target_msc, divisor, remainder, asked_msc>>
  BY <1>2 DEF SwapFrame, WaitFrame, request
<1>4. ~late => now = queued_msc
  BY <1>1, <1>2 DEF TimeInv, QueuedInv
<1>5. ASSUME kind = "swap"
      PROVE  /\ now + flip >= target_msc /\ now + flip > asked_msc
             /\ ~late => now + flip = SwapFrame
  <2>1. /\ queued_msc + flip >= target_msc /\ queued_msc + flip > asked_msc
        /\ ~late => queued_msc = SwapFrame - flip
    BY <1>2, <1>5 DEF TimeInv, QueuedInv
  <2>2. QED
    BY <1>1, <1>2, <1>4, <2>1
<1>6. kind = "wait" => flip = 0 /\ (~late /\ ~misread => now = WaitFrame)
  BY <1>2, <1>4 DEF TimeInv, QueuedInv
<1>7. CASE flips
  <2>1. stage' = "flipping" /\ shown' = shown
    BY <1>7 DEF Handle
  <2>2. flip = 1 /\ ~changed'
    BY <1>2, <1>7
  <2>3. kind = "swap"
    BY <1>1, <1>6, <2>2
  <2>4. TimeTypes'
    BY <1>2, <1>3, <2>1, <2>2 DEF TimeTypes, TimeInv
  <2>5. FlippingInv'
    BY <1>2, <1>3, <1>5, <2>1, <2>2, <2>3 DEF FlippingInv
  <2>6. ReadInv' /\ QueuedInv' /\ OnTime' /\ NeverEarly'
    BY <2>1, <2>2 DEF ReadInv, QueuedInv, OnTime, NeverEarly, Finished
  <2>7. QED
    BY <2>4, <2>5, <2>6 DEF TimeInv
<1>8. CASE ~flips
  <2>1. stage' = "done" /\ shown' = now /\ changed' \in BOOLEAN /\ (changed' <=> flip = 1)
    <3>1. stage' = "done" /\ shown' = now
      BY <1>8 DEF Handle
    <3>2. changed' = (flip = 1)
      BY <1>2, <1>8
    <3>3. QED
      BY <3>1, <3>2
  <2>2. TimeTypes'
    BY <1>1, <1>2, <1>3, <2>1 DEF TimeTypes, TimeInv
  <2>3. ReadInv' /\ QueuedInv' /\ FlippingInv'
    BY <2>1 DEF ReadInv, QueuedInv, FlippingInv
  <2>4. (kind = "wait" /\ ~late /\ ~misread => shown' = WaitFrame)
    BY <1>6, <2>1
  <2>5. (kind = "swap" /\ ~late /\ ~changed' => shown' = SwapFrame)
    BY <1>1, <1>5, <2>1
  <2>6. OnTime'
    BY <1>2, <1>3, <2>4, <2>5 DEF OnTime, Finished, SwapFrame, WaitFrame, SwapDue, WaitDue
  <2>7. NeverEarly'
    BY <1>1, <1>3, <1>5, <2>1 DEF NeverEarly, Finished
  <2>8. QED
    BY <2>2, <2>3, <2>6, <2>7 DEF TimeInv
<1>9. QED
  BY <1>7, <1>8

\* The display goes on to the next frame.
LEMMA TimeFrame ==
    ASSUME TimeInv, NextFrame
    PROVE  TimeInv'
<1>1. /\ now \in Nat /\ asked_msc \in Nat /\ asked_msc <= now /\ target_msc \in Nat
      /\ queued_msc \in Int /\ late \in BOOLEAN
  BY DEF TimeInv, TimeTypes
<1>2. /\ stage \in {"read", "queued", "flipping"} /\ now' = now + 1
      /\ UNCHANGED <<flip, request, current_msc, queued_msc, changed, misread>>
  BY DEF NextFrame, TimeInv, TimeTypes
<1>3. late' = (late \/ ~((stage = "queued" /\ now < queued_msc) \/ stage = "flipping"))
  BY DEF NextFrame
<1>4. SwapFrame' = SwapFrame /\ WaitFrame' = WaitFrame
      /\ UNCHANGED <<kind, target_msc, divisor, remainder, asked_msc>>
  BY <1>2 DEF SwapFrame, WaitFrame, request
<1>5. CASE stage = "flipping"
  <2>1. stage' = "done" /\ shown' = now + 1 /\ late' = late
    BY <1>1, <1>3, <1>5 DEF NextFrame
  <2>2. TimeTypes'
    BY <1>1, <1>2, <1>4, <2>1 DEF TimeTypes, TimeInv
  <2>3. ReadInv' /\ QueuedInv' /\ FlippingInv'
    BY <2>1 DEF ReadInv, QueuedInv, FlippingInv
  <2>4. /\ kind = "swap" /\ ~changed /\ now + 1 >= target_msc /\ now + 1 > asked_msc
        /\ ~late => now + 1 = SwapFrame
    BY <1>5 DEF TimeInv, QueuedInv, FlippingInv
  <2>5. OnTime'
    BY <1>2, <1>4, <2>1, <2>4 DEF OnTime, Finished, SwapFrame, SwapDue
  <2>6. NeverEarly'
    BY <1>2, <1>4, <2>1, <2>4 DEF NeverEarly, Finished
  <2>7. QED
    BY <2>2, <2>3, <2>5, <2>6 DEF TimeInv
<1>6. CASE stage # "flipping"
  <2>1. stage' = stage /\ shown' = shown
    BY <1>6 DEF NextFrame
  <2>2. late' \in BOOLEAN /\ (~late' => ~late /\ stage = "queued" /\ now < queued_msc)
    BY <1>1, <1>3, <1>6
  <2>3. TimeTypes'
    BY <1>1, <1>2, <1>4, <2>1, <2>2 DEF TimeTypes, TimeInv
  <2>4. ReadInv'
    BY <1>2, <1>4, <2>1, <2>2 DEF ReadInv, TimeInv
  <2>5. QueuedInv'
    <3>1. ~late' => now' <= queued_msc'
      BY <1>1, <1>2, <2>2
    <3>2. QED
      BY <1>2, <1>4, <2>1, <2>2, <3>1 DEF QueuedInv, TimeInv
  <2>6. FlippingInv' /\ OnTime' /\ NeverEarly'
    BY <1>2, <1>6, <2>1 DEF FlippingInv, OnTime, NeverEarly, Finished
  <2>7. QED
    BY <2>3, <2>4, <2>5, <2>6 DEF TimeInv
<1>7. QED
  BY <1>5, <1>6

-----------------------------------------------------------------------------
(* The theorems *)

\* The inductive invariant: how far the request has come, and at which frame.
THEOREM TimeCorrect == SwapSpec => []TimeInv
<1>1. SwapInit => TimeInv
  BY TimeInit
<1>2. TimeInv /\ [SwapNext]_swapVars => TimeInv'
  <2> SUFFICES ASSUME TimeInv, [SwapNext]_swapVars PROVE TimeInv'
    OBVIOUS
  <2>1. CASE UNCHANGED swapVars
    BY <2>1 DEF swapVars, TimeInv, TimeTypes, ReadInv, QueuedInv, FlippingInv, SwapFrame,
        WaitFrame,
                OnTime, NeverEarly, Finished
  <2>2. CASE SwapNext
    BY <2>2, TimeRead, TimeQueueSwap, TimeQueueWait, TimeHandle, TimeFrame DEF SwapNext
  <2>3. QED
    BY <2>1, <2>2
<1>3. QED
  BY <1>1, <1>2, PTL DEF SwapSpec

\* If nothing is late, a swap is seen and a wait ends exactly at the frame the client asked
\* for, whatever target, divisor and remainder are (ms_dri2_schedule_swap,
\* ms_dri2_schedule_wait_msc): unless the counter could not be read or can_flip changed its
\* answer.
THEOREM RequestsAreOnTime == SwapSpec => []OnTime
<1>1. TimeInv => OnTime
  BY DEF TimeInv
<1>2. QED
  BY <1>1, TimeCorrect, PTL

\* Whatever is late, a swap is seen neither before its target nor in the frame it was asked
\* for in; a flip that becomes a blit in ms_dri2_frame_event_handler is at most one frame
\* early.
THEOREM SwapsAreNeverEarly == SwapSpec => []NeverEarly
<1>1. TimeInv => NeverEarly
  BY DEF TimeInv
<1>2. QED
  BY <1>1, TimeCorrect, PTL

-----------------------------------------------------------------------------
\* A set of numbers that is not empty has a least one.
LEMMA LeastOne ==
    ASSUME NEW S \in SUBSET Nat, S # {}
    PROVE  \E k \in S : \A j \in S : k <= j
<1> DEFINE R == {p \in Nat \X Nat : p[1] < p[2]}
<1>1. IsWellFoundedOn(R, Nat)
  BY NatLessThanWellFounded DEF OpToRel
<1>2. PICK k \in S : \A j \in S : ~(<<j, k>> \in R)
  <2> HIDE DEF R
  <2>1. QED
    BY <1>1, WFMin
<1>3. ASSUME NEW j \in S PROVE k <= j
  <2>1. k \in Nat /\ j \in Nat
    OBVIOUS
  <2>2. <<j, k>> \in R <=> j < k
    BY <2>1
  <2>3. QED
    BY <1>2, <2>1, <2>2
<1> QED BY <1>3

-----------------------------------------------------------------------------
(* Shared pixmap flipping: the invariant *)

Fields == {"vtSema", "enable_flipping", "flipping_active", "prime_pixmap",
           "prime_pixmap_back", "fb_id", "flip_seq", "wait_for_damage", "slave_damage",
           "damage", "notify_on_damage", "defer", "ms_drm_queue", "on", "shown", "flip",
           "vblanks", "fd", "odd", "ok", "quiet", "full", "faults"}

Oddities == {"failed", "overlap", "stopped", "refused", "aborted", "mode set",
             "no framebuffer"}

Entry == [seq : Nat, crtc : SinkCrtcs, front : Pixmaps, back : Pixmaps \cup {NoPixmap},
          flip : BOOLEAN]

\* The values the parts of the record can have that the argument is about.
SharedTypes(S) ==
    /\ DOMAIN S = Fields
    /\ S.vtSema \in BOOLEAN /\ S.full \in BOOLEAN
    /\ S.enable_flipping \in [SinkCrtcs -> BOOLEAN]
    /\ S.flipping_active \in [SinkCrtcs -> BOOLEAN]
    /\ S.prime_pixmap \in [SinkCrtcs -> Pixmaps \cup {NoPixmap}]
    /\ S.prime_pixmap_back \in [SinkCrtcs -> Pixmaps \cup {NoPixmap}]
    /\ S.flip_seq \in [Pixmaps -> Nat]
    /\ S.wait_for_damage \in [Pixmaps -> BOOLEAN]
    /\ S.notify_on_damage \in [Pixmaps -> BOOLEAN]
    /\ S.damage \in [Pixmaps -> BOOLEAN]
    /\ S.ms_drm_queue \in SUBSET Entry
    /\ S.on \in [SinkCrtcs -> BOOLEAN]
    /\ S.odd \in [SinkCrtcs -> SUBSET Oddities]

\* Nothing changes in what the pixmaps of the CRTCs are, ...
SamePixmaps(S, T) ==
    /\ T.vtSema = S.vtSema
    /\ T.enable_flipping = S.enable_flipping
    /\ T.prime_pixmap = S.prime_pixmap /\ T.prime_pixmap_back = S.prime_pixmap_back

\* ... in the handlers, ...
SameQueue(S, T) ==
    /\ T.flip_seq = S.flip_seq /\ T.ms_drm_queue = S.ms_drm_queue /\ T.full = S.full

\* ... in the damage.
SameDamage(S, T) ==
    /\ T.wait_for_damage = S.wait_for_damage /\ T.notify_on_damage = S.notify_on_damage
    /\ T.damage = S.damage

Same(S, T) ==
    /\ DOMAIN T = Fields
    /\ SamePixmaps(S, T) /\ SameQueue(S, T) /\ SameDamage(S, T)
    /\ T.flipping_active = S.flipping_active

-----------------------------------------------------------------------------
(* What the functions change *)

LEMMA CompletedIs ==
    ASSUME NEW S, SharedTypes(S), NEW k \in SinkCrtcs, NEW T, T = Completed(S, k)
    PROVE  Same(S, T) /\ T.on = S.on /\ T.odd = S.odd
BY DEF Completed, SharedTypes, Fields, Same, SamePixmaps, SameQueue, SameDamage

LEMMA BlankedIs ==
    ASSUME NEW S, SharedTypes(S), NEW k \in SinkCrtcs, NEW T, T = Blanked(S, k)
    PROVE  Same(S, T) /\ T.on = S.on /\ T.odd = S.odd
BY DEF Blanked, SharedTypes, Fields, Same, SamePixmaps, SameQueue, SameDamage

LEMMA SameTypes ==
    ASSUME NEW S, SharedTypes(S), NEW T, Same(S, T),
           T.on \in [SinkCrtcs -> BOOLEAN], T.odd \in [SinkCrtcs -> SUBSET Oddities]
    PROVE  SharedTypes(T)
BY DEF SharedTypes, Same, SamePixmaps, SameQueue, SameDamage

LEMMA TurnedOffIs ==
    ASSUME NEW S, SharedTypes(S), NEW k \in SinkCrtcs, NEW T, T = TurnedOff(S, k)
    PROVE  Same(S, T) /\ T.on = [S.on EXCEPT ![k] = FALSE] /\ T.odd = S.odd
<1> DEFINE U == Completed(S, k)
           V == Blanked(U, k)
<1>1. Same(S, U) /\ U.on = S.on /\ U.odd = S.odd
  BY CompletedIs
<1>2. SharedTypes(U)
  <2> HIDE DEF U
  <2> QED BY <1>1, SameTypes DEF SharedTypes
<1>3. Same(U, V) /\ V.on = U.on /\ V.odd = U.odd
  BY <1>2, BlankedIs
<1>4. T = [V EXCEPT !.on[k] = FALSE]
  BY DEF TurnedOff
<1> HIDE DEF U, V
<1> QED BY <1>1, <1>3, <1>4 DEF SharedTypes, Fields, Same, SamePixmaps, SameQueue, SameDamage

LEMMA QueuedIs ==
    ASSUME NEW S, SharedTypes(S), NEW k \in SinkCrtcs, NEW x \in Pixmaps, NEW b \in BOOLEAN,
           NEW n, n = NewSeq(S), NEW T, T = Queued(S, k, x, b)
    PROVE  /\ DOMAIN T = Fields
           /\ SamePixmaps(S, T) /\ SameDamage(S, T) /\ T.flipping_active = S.flipping_active
           /\ T.on = S.on /\ T.odd = S.odd /\ T.full = (S.full \/ n = 0)
           /\ T.flip_seq = [S.flip_seq EXCEPT ![x] = n]
           /\ T.ms_drm_queue = S.ms_drm_queue \cup
                {[seq |-> n, crtc |-> k, front |-> x, back |-> S.prime_pixmap[k], flip |-> b]}
BY DEF Queued, SharedTypes, Fields, SamePixmaps, SameDamage

\* A new number is none that an entry or a pixmap has.
LEMMA NewSeqIs ==
    ASSUME NEW S, NEW n, n = NewSeq(S)
    PROVE  /\ n \in Nat
           /\ n # 0 => /\ \A e \in S.ms_drm_queue : e.seq # n
                       /\ \A x \in Pixmaps : S.flip_seq[x] # n
<1>0. MaxSeq \in Nat
  BY SharedFlipAssumption
<1>1. CASE Seqs \subseteq InUse(S)
  BY <1>1 DEF NewSeq
<1>2. CASE ~(Seqs \subseteq InUse(S))
  <2> DEFINE R == Seqs \ InUse(S)
  <2>1. R \in SUBSET Nat /\ R # {}
    BY <1>0, <1>2 DEF Seqs
  <2>2. PICK u \in R : \A t \in R : u <= t
    <3> HIDE DEF R
    <3> QED BY <2>1, LeastOne
  <2>3. n = CHOOSE s \in Seqs : s \notin InUse(S) /\ \A t \in Seqs \ InUse(S) : s <= t
    BY <1>2 DEF NewSeq
  <2>4. n \in Seqs /\ n \notin InUse(S)
    BY <2>2, <2>3
  <2>5. (\A e \in S.ms_drm_queue : e.seq \in InUse(S))
        /\ \A x \in Pixmaps : S.flip_seq[x] \in InUse(S)
    BY DEF InUse
  <2> QED BY <1>0, <2>4, <2>5 DEF Seqs
<1> QED BY <1>1, <1>2

\* An entry for CRTC k is filed with the number n.
FiledAs(S, T, k, x, n) ==
    /\ n \in Nat /\ T.full = (S.full \/ n = 0)
    /\ n # 0 => /\ \A e \in S.ms_drm_queue : e.seq # n
                /\ \A y \in Pixmaps \ {x} : S.flip_seq[y] # n
    /\ T.flip_seq = [S.flip_seq EXCEPT ![x] = n]
    /\ \E b \in BOOLEAN : T.ms_drm_queue = S.ms_drm_queue \cup
         {[seq |-> n, crtc |-> k, front |-> x, back |-> S.prime_pixmap[k], flip |-> b]}

Filed(S, T, k, x) == \E n : FiledAs(S, T, k, x, n)

LEMMA OddIs ==
    ASSUME NEW S, SharedTypes(S), NEW k \in SinkCrtcs, NEW w \in Oddities, NEW b \in BOOLEAN,
           NEW T, T = Odd(S, k, w, b)
    PROVE  /\ Same(S, T) /\ T.on = S.on
           /\ T.odd = [S.odd EXCEPT ![k] = IF b THEN @ \cup {w} ELSE @]
           /\ T.odd \in [SinkCrtcs -> SUBSET Oddities] /\ T.ok = S.ok
BY DEF Odd, SharedTypes, Fields, Same, SamePixmaps, SameQueue, SameDamage

LEMMA LitIs ==
    ASSUME NEW S, SharedTypes(S), NEW k \in SinkCrtcs, NEW T, T = Lit(S, k)
    PROVE  /\ Same(S, T) /\ SharedTypes(T) /\ T.on[k]
           /\ \A j \in SinkCrtcs \ {k} : T.on[j] = S.on[j] /\ T.odd[j] = S.odd[j]
           /\ "overlap" \in T.odd[k] <=> "overlap" \in S.odd[k]
           /\ "stopped" \in T.odd[k] <=> "stopped" \in S.odd[k]
<1> DEFINE U == Completed(S, k)
           b == \E e \in Entries(S, k) : e.flip
           V == Odd(U, k, "mode set", b)
           p == S.prime_pixmap[k]
<1>1. Same(S, U) /\ U.on = S.on /\ U.odd = S.odd
  BY CompletedIs
<1>2. SharedTypes(U)
  <2> HIDE DEF U
  <2> QED BY <1>1, SameTypes DEF SharedTypes
<1> HIDE DEF U, b
<1>3. /\ Same(U, V) /\ V.on = U.on
      /\ V.odd = [U.odd EXCEPT ![k] = IF b THEN @ \cup {"mode set"} ELSE @]
  BY <1>2 DEF Odd, SharedTypes, Fields, Same, SamePixmaps, SameQueue, SameDamage
<1>4. T = [V EXCEPT !.on[k] = TRUE, !.odd[k] = @ \ {"refused"},
                    !.shown[k] = IF p # NoPixmap /\ S.fb_id[p] THEN p ELSE Other]
  BY DEF Lit, U, b
<1> HIDE DEF V, p
<1>a. /\ DOMAIN V = Fields /\ V.on \in [SinkCrtcs -> BOOLEAN]
      /\ V.odd \in [SinkCrtcs -> SUBSET Oddities]
  <2>1. DOMAIN V = Fields /\ V.on \in [SinkCrtcs -> BOOLEAN]
    BY <1>2, <1>3 DEF SharedTypes, Same
  <2>2. V.odd \in [SinkCrtcs -> SUBSET Oddities]
    <3>1. U.odd \in [SinkCrtcs -> SUBSET Oddities]
      BY <1>2 DEF SharedTypes
    <3>2. "mode set" \in Oddities
      BY DEF Oddities
    <3>3. CASE b
      BY <1>3, <3>1, <3>2, <3>3
    <3>4. CASE ~b
      BY <1>3, <3>1, <3>4
    <3> QED BY <3>3, <3>4
  <2> QED BY <2>1, <2>2
<1>5. Same(V, T)
  BY <1>a, <1>4 DEF Fields, Same, SamePixmaps, SameQueue, SameDamage
<1>b. T.on = [V.on EXCEPT ![k] = TRUE]
  BY <1>a, <1>4 DEF Fields
<1>c. T.odd = [V.odd EXCEPT ![k] = @ \ {"refused"}]
  BY <1>a, <1>4 DEF Fields
<1>6. Same(S, T)
  BY <1>1, <1>3, <1>5 DEF Same, SamePixmaps, SameQueue, SameDamage
<1>7. T.on = [S.on EXCEPT ![k] = TRUE] /\ T.on \in [SinkCrtcs -> BOOLEAN]
  BY <1>1, <1>3, <1>a, <1>b
<1>8. T.odd \in [SinkCrtcs -> SUBSET Oddities]
  BY <1>a, <1>c
<1>9. \A d \in SinkCrtcs \ {k} : T.odd[d] = S.odd[d]
  BY <1>1, <1>3, <1>c DEF SharedTypes
<1>10. T.odd[k] = V.odd[k] \ {"refused"}
  BY <1>a, <1>c
<1>11. V.odd[k] = S.odd[k] \/ V.odd[k] = S.odd[k] \cup {"mode set"}
  BY <1>1, <1>3 DEF SharedTypes
<1>12. /\ "overlap" \in T.odd[k] <=> "overlap" \in S.odd[k]
       /\ "stopped" \in T.odd[k] <=> "stopped" \in S.odd[k]
  BY <1>10, <1>11
<1>13. SharedTypes(T)
  BY <1>6, <1>7, <1>8, SameTypes
<1>14. T.on[k] /\ \A d \in SinkCrtcs \ {k} : T.on[d] = S.on[d]
  BY <1>7 DEF SharedTypes
<1> QED BY <1>6, <1>9, <1>12, <1>13, <1>14

-----------------------------------------------------------------------------
(* The inductive invariant *)

Telling == {"overlap", "stopped", "refused"}

\* No two CRTCs have a pixmap in common, and flipping is between two pixmaps.
Separate(S) ==
    \A k \in SinkCrtcs :
        /\ \A j \in SinkCrtcs : j # k => Targets(S, j) \cap Targets(S, k) = {}
        /\ S.prime_pixmap[k] # NoPixmap => S.prime_pixmap[k] # S.prime_pixmap_back[k]
        /\ S.enable_flipping[k] <=> S.prime_pixmap_back[k] # NoPixmap
        /\ S.prime_pixmap_back[k] # NoPixmap => S.prime_pixmap[k] # NoPixmap
        /\ S.flipping_active[k] => S.enable_flipping[k]

\* A number finds one entry, and what a pixmap refers to is an entry that displays it.
Numbered(S) ==
    /\ \A e, w \in S.ms_drm_queue : e.seq = w.seq => e = w
    /\ \A e \in S.ms_drm_queue : e.seq # 0
    /\ \A e \in S.ms_drm_queue, x \in Pixmaps : S.flip_seq[x] = e.seq => x = e.front
    /\ \A e \in S.ms_drm_queue, k \in SinkCrtcs : k # e.crtc => e.front \notin Targets(S, k)

\* A CRTC has one handler at most, which displays the back pixmap next.
One(S, k) ==
    "overlap" \notin S.odd[k] =>
        /\ \A e, w \in Entries(S, k) : e = w
        /\ Entries(S, k) # {} => S.flipping_active[k]
        /\ \A e \in Entries(S, k) :
              /\ e.front = S.prime_pixmap_back[k] /\ e.back = S.prime_pixmap[k]
              /\ S.flip_seq[e.front] = e.seq

\* Flipping that is active has a handler, or waits for damage.
Awake(S, k) ==
    S.flipping_active[k] /\ "overlap" \notin S.odd[k] /\ "stopped" \notin S.odd[k] =>
        \/ Entries(S, k) # {}
        \/ /\ S.notify_on_damage[S.prime_pixmap_back[k]]
           /\ S.wait_for_damage[S.prime_pixmap_back[k]]

\* Flipping is active while the CRTC is on.
Ready(S, k) ==
    /\ S.vtSema /\ S.on[k] /\ S.enable_flipping[k]
    /\ S.odd[k] \cap Telling = {}
    => S.flipping_active[k]

Sound(S) ==
    /\ Separate(S) /\ Numbered(S)
    /\ \A k \in SinkCrtcs : One(S, k) /\ Awake(S, k)

\* The CRTCs in C are ready; a state in which there was no number is not looked at.
Good(S, C) ==
    /\ SharedTypes(S) /\ Separate(S)
    /\ ~S.full => Sound(S) /\ \A k \in C : Ready(S, k)

\* Nothing of a CRTC other than k changes.
Others(S, T, k) ==
    /\ T.vtSema = S.vtSema
    /\ \A j \in SinkCrtcs \ {k} :
          /\ T.enable_flipping[j] = S.enable_flipping[j]
          /\ T.flipping_active[j] = S.flipping_active[j]
          /\ T.prime_pixmap[j] = S.prime_pixmap[j]
          /\ T.prime_pixmap_back[j] = S.prime_pixmap_back[j]
          /\ T.on[j] = S.on[j] /\ T.odd[j] = S.odd[j]
          /\ Entries(T, j) = Entries(S, j)
          /\ \A x \in Targets(S, j) : /\ T.flip_seq[x] = S.flip_seq[x]
                                      /\ T.notify_on_damage[x] = S.notify_on_damage[x]
                                      /\ T.wait_for_damage[x] = S.wait_for_damage[x]

LEMMA OthersKept ==
    ASSUME NEW S, SharedTypes(S), Sound(S), NEW T, NEW k \in SinkCrtcs, Others(S, T, k),
           NEW j \in SinkCrtcs, j # k
    PROVE  One(T, j) /\ Awake(T, j) /\ (Ready(S, j) => Ready(T, j))
<1>1. One(S, j) /\ Awake(S, j) /\ Separate(S)
  BY DEF Sound
<1>2. S.prime_pixmap_back[j] # NoPixmap => S.prime_pixmap_back[j] \in Targets(S, j)
  BY DEF Targets
<1>3. S.flipping_active[j] => S.prime_pixmap_back[j] # NoPixmap
  BY <1>1 DEF Separate
<1>4. One(T, j)
  <2>1. SUFFICES ASSUME "overlap" \notin T.odd[j]
                 PROVE  One(T, j)
    BY DEF One
  <2>2. /\ Entries(T, j) = Entries(S, j) /\ T.flipping_active[j] = S.flipping_active[j]
        /\ T.prime_pixmap_back[j] = S.prime_pixmap_back[j]
        /\ T.prime_pixmap[j] = S.prime_pixmap[j] /\ "overlap" \notin S.odd[j]
    BY <2>1 DEF Others
  <2>3. \A e \in Entries(S, j) : T.flip_seq[e.front] = S.flip_seq[e.front]
    BY <1>1, <1>2, <1>3, <2>2 DEF One, Others
  <2> QED BY <1>1, <2>2, <2>3 DEF One
<1>5. Awake(T, j)
  BY <1>1, <1>2, <1>3 DEF Awake, Others
<1>6. Ready(S, j) => Ready(T, j)
  BY DEF Ready, Others
<1> QED BY <1>4, <1>5, <1>6

\* It is enough to look at the CRTC that changes.
LEMMA GoodIf ==
    ASSUME NEW C \in SUBSET SinkCrtcs, NEW D \in SUBSET SinkCrtcs, NEW k \in SinkCrtcs,
           NEW S, Good(S, C), NEW T, SharedTypes(T), S.full => T.full, D \ {k} \subseteq C,
           Separate(T),
           ~T.full => /\ Others(S, T, k) /\ Numbered(T)
                      /\ One(T, k) /\ Awake(T, k)
                      /\ k \in D => Ready(T, k)
    PROVE  Good(T, D)
<1>1. SUFFICES ASSUME ~T.full
               PROVE  Sound(T) /\ \A j \in D : Ready(T, j)
  BY DEF Good
<1>2. SharedTypes(S) /\ Sound(S) /\ \A j \in C : Ready(S, j)
  BY <1>1 DEF Good
<1>3. \A j \in SinkCrtcs \ {k} : One(T, j) /\ Awake(T, j) /\ (Ready(S, j) => Ready(T, j))
  BY <1>1, <1>2, OthersKept
<1> QED BY <1>1, <1>2, <1>3 DEF Sound

\* Nothing of interest changes.
LEMMA GoodStays ==
    ASSUME NEW C, C \subseteq SinkCrtcs, NEW S, Good(S, C), NEW T, SharedTypes(T),
           SamePixmaps(S, T), T.full = S.full, T.ms_drm_queue = S.ms_drm_queue,
           \A e \in S.ms_drm_queue, x \in Pixmaps : T.flip_seq[x] = e.seq <=> S.flip_seq[x] = e.seq,
           T.wait_for_damage = S.wait_for_damage, T.notify_on_damage = S.notify_on_damage,
           T.flipping_active = S.flipping_active, T.on = S.on,
           \A k \in SinkCrtcs, w \in Telling : w \in T.odd[k] <=> w \in S.odd[k]
    PROVE  Good(T, C)
<1>3. \A k \in SinkCrtcs : Targets(T, k) = Targets(S, k) /\ Entries(T, k) = Entries(S, k)
  BY DEF Targets, Entries, SamePixmaps
<1>4. Separate(T)
  BY <1>3 DEF Good, Separate, SamePixmaps
<1>1. SUFFICES ASSUME ~T.full
               PROVE  Sound(T) /\ \A j \in C : Ready(T, j)
  BY <1>4 DEF Good
<1>2. SharedTypes(S) /\ Sound(S) /\ \A j \in C : Ready(S, j)
  BY <1>1 DEF Good
<1>5. Numbered(T)
  BY <1>2, <1>3 DEF Sound, Numbered
<1>6. ASSUME NEW k \in SinkCrtcs
      PROVE  One(T, k) /\ Awake(T, k) /\ (Ready(S, k) => Ready(T, k))
  <2>1. One(S, k) /\ Awake(S, k)
    BY <1>2 DEF Sound
  <2>2. \A w \in Telling : w \in T.odd[k] <=> w \in S.odd[k]
    OBVIOUS
  <2>3. "overlap" \in Telling /\ "stopped" \in Telling
    BY DEF Telling
  <2>4. \A e \in Entries(S, k) : e \in S.ms_drm_queue /\ e.front \in Pixmaps
    BY <1>2 DEF Entries, SharedTypes, Entry
  <2>5. One(T, k)
    BY <1>3, <2>1, <2>2, <2>3, <2>4 DEF One, SamePixmaps
  <2>6. Awake(T, k)
    BY <1>3, <2>1, <2>2, <2>3 DEF Awake, SamePixmaps
  <2>7. Ready(S, k) => Ready(T, k)
    BY <2>2 DEF Ready, SamePixmaps
  <2> QED BY <2>5, <2>6, <2>7
<1> QED BY <1>2, <1>4, <1>5, <1>6 DEF Sound

-----------------------------------------------------------------------------
(* Presenting a pixmap *)

\* Everything but the handlers, the damage, and what is odd of CRTC k.
Kept(S, T, k) ==
    /\ SharedTypes(T) /\ SamePixmaps(S, T)
    /\ T.flipping_active = S.flipping_active /\ T.on = S.on
    /\ \A j \in SinkCrtcs \ {k} : T.odd[j] = S.odd[j]

\* The oddities the invariant tells apart are those CRTC k had.
Tells(S, T, k) == \A w \in Telling : w \in T.odd[k] <=> w \in S.odd[k]

\* Nothing is filed, and flip_seq of x is cleared.
Unfiled(S, T, x) ==
    /\ T.ms_drm_queue = S.ms_drm_queue /\ T.full = S.full
    /\ T.flip_seq = [S.flip_seq EXCEPT ![x] = 0]

LEMMA QueuedTypes ==
    ASSUME NEW S, SharedTypes(S), NEW k \in SinkCrtcs, NEW x \in Pixmaps, NEW b \in BOOLEAN,
           NEW T, T = Queued(S, k, x, b)
    PROVE  Kept(S, T, k) /\ Tells(S, T, k) /\ SameDamage(S, T) /\ Filed(S, T, k, x)
<1> DEFINE n == NewSeq(S)
           w == [seq |-> n, crtc |-> k, front |-> x, back |-> S.prime_pixmap[k], flip |-> b]
<1>1. /\ n \in Nat
      /\ n # 0 => /\ \A e \in S.ms_drm_queue : e.seq # n
                  /\ \A y \in Pixmaps : S.flip_seq[y] # n
  BY NewSeqIs
<1> HIDE DEF n
<1>2. /\ DOMAIN T = Fields
      /\ SamePixmaps(S, T) /\ SameDamage(S, T) /\ T.flipping_active = S.flipping_active
      /\ T.on = S.on /\ T.odd = S.odd /\ T.full = (S.full \/ n = 0)
      /\ T.flip_seq = [S.flip_seq EXCEPT ![x] = n]
      /\ T.ms_drm_queue = S.ms_drm_queue \cup {w}
  BY QueuedIs DEF n
<1>3. w \in Entry
  BY <1>1 DEF Entry, SharedTypes
<1>4. T.ms_drm_queue \in SUBSET Entry /\ T.flip_seq \in [Pixmaps -> Nat] /\ T.full \in BOOLEAN
  BY <1>1, <1>2, <1>3 DEF SharedTypes
<1>5. SharedTypes(T)
  BY <1>2, <1>4 DEF SharedTypes, SamePixmaps, SameDamage
<1>6. FiledAs(S, T, k, x, n)
  BY <1>1, <1>2 DEF FiledAs
<1> QED BY <1>2, <1>5, <1>6 DEF Kept, Tells, Filed

LEMMA FlipIs ==
    ASSUME NEW S, SharedTypes(S), NEW k \in SinkCrtcs, NEW x \in Pixmaps,
           NEW T, T = drmmode_SharedPixmapFlip(S, k, x)
    PROVE  /\ Kept(S, T, k) /\ Tells(S, T, k) /\ SameDamage(S, T) /\ T.ok \in BOOLEAN
           /\ T.ok => Filed(S, T, k, x)
           /\ ~T.ok => Unfiled(S, T, x)
<1> DEFINE able == S.vtSema /\ S.on[k] /\ S.flip[k] = NoFlip /\ S.fb_id[x]
<1>1. CASE able
  <2> DEFINE U == Queued(S, k, x, TRUE)
  <2>1. Kept(S, U, k) /\ Tells(S, U, k) /\ SameDamage(S, U) /\ Filed(S, U, k, x)
    BY QueuedTypes
  <2>2. T = [[U EXCEPT !.flip[k] = [seq |-> NewSeq(S), pixmap |-> x]] EXCEPT !.ok = TRUE]
    BY <1>1 DEF drmmode_SharedPixmapFlip, Done
  <2> HIDE DEF U
  <2>3. DOMAIN U = Fields
    BY <2>1 DEF Kept, SharedTypes
  <2>4. Same(U, T) /\ T.on = U.on /\ T.odd = U.odd /\ T.ok
    BY <2>2, <2>3 DEF Fields, Same, SamePixmaps, SameQueue, SameDamage
  <2>5. SharedTypes(T)
    BY <2>1, <2>4, SameTypes DEF Kept, SharedTypes
  <2>6. Kept(S, T, k) /\ Tells(S, T, k) /\ SameDamage(S, T)
    BY <2>1, <2>4, <2>5 DEF Kept, Tells, Same, SamePixmaps, SameDamage
  <2>7. Filed(S, T, k, x)
    BY <2>1, <2>4 DEF Filed, FiledAs, Same, SameQueue
  <2> QED BY <2>2, <2>3, <2>4, <2>6, <2>7 DEF Fields
<1>2. CASE ~able
  <2>1. T = [[[S EXCEPT !.flip_seq[x] = 0] EXCEPT !.odd[k] = @ \cup {"failed"}] EXCEPT !.ok = FALSE]
    BY <1>2 DEF drmmode_SharedPixmapFlip, Failed, Odd
  <2>2. /\ DOMAIN T = Fields
        /\ SamePixmaps(S, T) /\ SameDamage(S, T) /\ T.flipping_active = S.flipping_active
        /\ T.on = S.on /\ T.ok = FALSE /\ T.ms_drm_queue = S.ms_drm_queue /\ T.full = S.full
        /\ T.flip_seq = [S.flip_seq EXCEPT ![x] = 0]
        /\ T.odd = [S.odd EXCEPT ![k] = @ \cup {"failed"}]
    BY <2>1 DEF SharedTypes, Fields, SamePixmaps, SameDamage
  <2>3. T.flip_seq \in [Pixmaps -> Nat] /\ T.odd \in [SinkCrtcs -> SUBSET Oddities]
    <3>1. "failed" \in Oddities
      BY DEF Oddities
    <3>2. T.flip_seq \in [Pixmaps -> Nat]
      BY <2>2 DEF SharedTypes
    <3> QED BY <2>2, <3>1, <3>2 DEF SharedTypes
  <2>4. SharedTypes(T)
    BY <2>2, <2>3 DEF SharedTypes, SamePixmaps, SameDamage
  <2>5. Kept(S, T, k)
    BY <2>2, <2>4 DEF Kept, SharedTypes
  <2>6. Tells(S, T, k)
    <3>1. T.odd[k] = S.odd[k] \cup {"failed"}
      BY <2>2 DEF SharedTypes
    <3> QED BY <3>1 DEF Tells, Telling
  <2> QED BY <2>2, <2>5, <2>6 DEF Unfiled
<1> QED BY <1>1, <1>2

\* The sink waits for a blank of a CRTC that is on; two handlers are an oddity.
LEMMA PresentOnVBlankIs ==
    ASSUME NEW S, SharedTypes(S), NEW k \in SinkCrtcs, NEW x \in Pixmaps,
           S.prime_pixmap[k] # x, S.prime_pixmap_back[k] = x,
           NEW T, T = drmmode_SharedPixmapPresentOnVBlank(S, k, x)
    PROVE  /\ Kept(S, T, k) /\ SameDamage(S, T) /\ T.ok = S.on[k]
           /\ \A w \in {"stopped", "refused"} : w \in T.odd[k] <=> w \in S.odd[k]
           /\ "overlap" \in T.odd[k] <=> ("overlap" \in S.odd[k] \/ Entries(S, k) # {})
           /\ T.ok => Filed(S, T, k, x)
           /\ ~T.ok => Unfiled(S, T, x)
<1> DEFINE U == Odd(S, k, "overlap", Entries(S, k) # {})
<1>1. /\ Same(S, U) /\ U.on = S.on /\ U.odd \in [SinkCrtcs -> SUBSET Oddities]
      /\ U.odd = [S.odd EXCEPT ![k] = IF Entries(S, k) # {} THEN @ \cup {"overlap"} ELSE @]
  <2>1. "overlap" \in Oddities
    BY DEF Oddities
  <2>2. CASE Entries(S, k) # {}
    BY <2>1, <2>2 DEF Odd, SharedTypes, Fields, Same, SamePixmaps, SameQueue, SameDamage
  <2>3. CASE Entries(S, k) = {}
    BY <2>3 DEF Odd, SharedTypes, Fields, Same, SamePixmaps, SameQueue, SameDamage
  <2> QED BY <2>2, <2>3
<1>2. SharedTypes(U)
  <2> HIDE DEF U
  <2> QED BY <1>1, SameTypes DEF SharedTypes
<1>3. T = IF S.on[k]
          THEN Done([Queued(U, k, x, FALSE) EXCEPT !.vblanks[k] = Append(@, NewSeq(S))])
          ELSE Failed([U EXCEPT !.flip_seq[x] = 0])
  BY DEF drmmode_SharedPixmapPresentOnVBlank
<1> HIDE DEF U
<1>4. /\ \A j \in SinkCrtcs \ {k} : U.odd[j] = S.odd[j]
      /\ \A w \in {"stopped", "refused"} : w \in U.odd[k] <=> w \in S.odd[k]
      /\ "overlap" \in U.odd[k] <=> ("overlap" \in S.odd[k] \/ Entries(S, k) # {})
  BY <1>1 DEF SharedTypes
<1>5. CASE S.on[k]
  <2> DEFINE V == Queued(U, k, x, FALSE)
  <2>1. Kept(U, V, k) /\ Tells(U, V, k) /\ SameDamage(U, V) /\ Filed(U, V, k, x)
    BY <1>2, QueuedTypes
  <2>2. T = [[V EXCEPT !.vblanks[k] = Append(@, NewSeq(S))] EXCEPT !.ok = TRUE]
    BY <1>3, <1>5 DEF Done
  <2> HIDE DEF V
  <2>3. DOMAIN V = Fields
    BY <2>1 DEF Kept, SharedTypes
  <2>4. Same(V, T) /\ T.on = V.on /\ T.odd = V.odd /\ T.ok = TRUE
    BY <2>2, <2>3 DEF Fields, Same, SamePixmaps, SameQueue, SameDamage
  <2>5. SharedTypes(T)
    BY <2>1, <2>4, SameTypes DEF Kept, SharedTypes
  <2>6. Kept(S, T, k) /\ SameDamage(S, T)
    BY <1>1, <1>4, <2>1, <2>4, <2>5 DEF Kept, Same, SamePixmaps, SameDamage
  <2>7. Filed(S, T, k, x)
    BY <1>1, <2>1, <2>4 DEF Filed, FiledAs, Same, SameQueue, SamePixmaps
  <2>8. \A w \in Telling : w \in T.odd[k] <=> w \in U.odd[k]
    BY <2>1, <2>4 DEF Tells
  <2> QED BY <1>4, <1>5, <2>4, <2>6, <2>7, <2>8 DEF Telling
<1>6. CASE ~S.on[k]
  <2>1. T = [[U EXCEPT !.flip_seq[x] = 0] EXCEPT !.ok = FALSE]
    BY <1>3, <1>6 DEF Failed
  <2>2. /\ DOMAIN T = Fields
        /\ SamePixmaps(U, T) /\ SameDamage(U, T) /\ T.flipping_active = U.flipping_active
        /\ T.on = U.on /\ T.ok = FALSE /\ T.ms_drm_queue = U.ms_drm_queue /\ T.full = U.full
        /\ T.flip_seq = [U.flip_seq EXCEPT ![x] = 0] /\ T.odd = U.odd
    BY <1>2, <2>1 DEF SharedTypes, Fields, SamePixmaps, SameDamage
  <2>3. T.flip_seq \in [Pixmaps -> Nat]
    BY <1>2, <2>2 DEF SharedTypes
  <2>4. SharedTypes(T)
    BY <1>2, <2>2, <2>3 DEF SharedTypes, SamePixmaps, SameDamage
  <2>5. Kept(S, T, k) /\ SameDamage(S, T)
    BY <1>1, <1>4, <2>2, <2>4 DEF Kept, Same, SamePixmaps, SameDamage
  <2>6. Unfiled(S, T, x)
    BY <1>1, <2>2 DEF Unfiled, Same, SameQueue
  <2>7. S.on[k] \in BOOLEAN
    BY DEF SharedTypes
  <2> QED BY <1>4, <1>6, <2>2, <2>5, <2>6, <2>7
<1> QED BY <1>5, <1>6

\* The sink asks for damage.
Waits(S, T, x) ==
    /\ SameQueue(S, T) /\ T.damage = S.damage
    /\ T.wait_for_damage = [S.wait_for_damage EXCEPT ![x] = TRUE]
    /\ T.notify_on_damage = [S.notify_on_damage EXCEPT ![x] = TRUE]

SameWaits(S, T) ==
    T.wait_for_damage = S.wait_for_damage /\ T.notify_on_damage = S.notify_on_damage

\* What was drawn is copied and a handler is filed, or there was nothing to copy and the
\* sink asks for damage; on a CRTC that is off the copy may be all.
LEMMA PresentIs ==
    ASSUME NEW S, SharedTypes(S), NEW k \in SinkCrtcs, NEW x \in Pixmaps,
           S.prime_pixmap[k] # x, S.prime_pixmap_back[k] = x,
           NEW T, T = drmmode_SharedPixmapPresent(S, k, x)
    PROVE  /\ Kept(S, T, k) /\ T.ok \in BOOLEAN
           /\ Entries(S, k) = {} \/ "overlap" \in S.odd[k] => Tells(S, T, k)
           /\ ~T.damage[x]
           /\ \/ T.ok /\ Waits(S, T, x)
              \/ T.ok /\ Filed(S, T, k, x) /\ SameWaits(S, T)
              \/ ~T.ok /\ ~S.on[k] /\ S.damage[x] /\ Unfiled(S, T, x) /\ SameWaits(S, T)
<1>1. CASE ~S.damage[x]
  <2>1. T = [[S EXCEPT !.wait_for_damage[x] = TRUE, !.notify_on_damage[x] = TRUE]
               EXCEPT !.ok = TRUE]
    BY <1>1 DEF drmmode_SharedPixmapPresent, Done
  <2>2. /\ DOMAIN T = Fields /\ SamePixmaps(S, T)
        /\ T.flipping_active = S.flipping_active /\ T.on = S.on /\ T.odd = S.odd
        /\ T.ok = TRUE
    BY <2>1 DEF SharedTypes, Fields, SamePixmaps
  <2>3. Waits(S, T, x)
    BY <2>1 DEF SharedTypes, Fields, Waits, SameQueue
  <2>4. SharedTypes(T)
    BY <2>2, <2>3 DEF SharedTypes, SamePixmaps, Waits, SameQueue
  <2> QED BY <1>1, <2>2, <2>3, <2>4 DEF Kept, Tells, Waits
<1>2. CASE S.damage[x]
  <2> DEFINE U == [S EXCEPT !.damage[x] = FALSE, !.slave_damage[x] = TRUE]
             F == drmmode_SharedPixmapFlip(U, k, x)
             V == drmmode_SharedPixmapPresentOnVBlank(F, k, x)
  <2>1. T = IF F.ok THEN F ELSE V
    BY <1>2 DEF drmmode_SharedPixmapPresent
  <2>2. /\ DOMAIN U = Fields /\ SamePixmaps(S, U) /\ SameQueue(S, U) /\ SameWaits(S, U)
        /\ U.flipping_active = S.flipping_active /\ U.on = S.on /\ U.odd = S.odd
        /\ U.damage = [S.damage EXCEPT ![x] = FALSE]
    BY DEF SharedTypes, Fields, SamePixmaps, SameQueue, SameWaits
  <2> HIDE DEF U
  <2>3. SharedTypes(U) /\ ~U.damage[x]
    BY <2>2 DEF SharedTypes, SamePixmaps, SameQueue, SameWaits
  <2>4. /\ Kept(U, F, k) /\ Tells(U, F, k) /\ SameDamage(U, F) /\ F.ok \in BOOLEAN
        /\ F.ok => Filed(U, F, k, x)
        /\ ~F.ok => Unfiled(U, F, x)
    BY <2>3, FlipIs
  <2> HIDE DEF F
  <2>5. Kept(S, F, k) /\ Tells(S, F, k) /\ SameWaits(S, F) /\ ~F.damage[x]
    BY <2>2, <2>3, <2>4 DEF Kept, Tells, SameWaits, SamePixmaps, SameDamage
  <2>6. CASE F.ok
    <3>1. PICK n : FiledAs(U, F, k, x, n)
      BY <2>4, <2>6 DEF Filed
    <3>2. /\ U.full = S.full /\ U.ms_drm_queue = S.ms_drm_queue /\ U.flip_seq = S.flip_seq
          /\ U.prime_pixmap = S.prime_pixmap
      BY <2>2 DEF SameQueue, SamePixmaps
    <3>3. FiledAs(S, F, k, x, n)
      BY <3>1, <3>2 DEF FiledAs
    <3> QED BY <2>1, <2>5, <2>6, <3>3 DEF Filed
  <2>7. CASE ~F.ok
    <3>1. Unfiled(S, F, x)
      BY <2>2, <2>4, <2>7 DEF Unfiled, SameQueue
    <3>2. /\ SharedTypes(F) /\ F.prime_pixmap[k] # x /\ F.prime_pixmap_back[k] = x
          /\ F.on[k] = S.on[k] /\ S.on[k] \in BOOLEAN
          /\ S.prime_pixmap[k] = F.prime_pixmap[k]
      BY <2>5 DEF Kept, SamePixmaps, SharedTypes
    <3>3. /\ Kept(F, V, k) /\ SameDamage(F, V) /\ V.ok = F.on[k]
          /\ \A w \in {"stopped", "refused"} : w \in V.odd[k] <=> w \in F.odd[k]
          /\ "overlap" \in V.odd[k] <=> ("overlap" \in F.odd[k] \/ Entries(F, k) # {})
          /\ V.ok => Filed(F, V, k, x)
          /\ ~V.ok => Unfiled(F, V, x)
      BY <3>2, PresentOnVBlankIs
    <3> HIDE DEF V
    <3>4. Entries(F, k) = Entries(S, k)
      BY <3>1 DEF Entries, Unfiled
    <3>5. Entries(S, k) = {} \/ "overlap" \in S.odd[k] => Tells(S, V, k)
      BY <2>5, <3>3, <3>4 DEF Tells, Telling
    <3>6. Kept(S, V, k) /\ SameWaits(S, V) /\ ~V.damage[x]
      BY <2>5, <3>3 DEF Kept, SamePixmaps, SameDamage, SameWaits
    <3>7. ASSUME V.ok PROVE Filed(S, V, k, x)
      <4>1. PICK n : FiledAs(F, V, k, x, n)
        BY <3>3, <3>7 DEF Filed
      <4>2. V.flip_seq = [S.flip_seq EXCEPT ![x] = n]
        BY <3>1, <4>1 DEF FiledAs, Unfiled, SharedTypes
      <4>3. \A y \in Pixmaps \ {x} : F.flip_seq[y] = S.flip_seq[y]
        BY <3>1 DEF Unfiled, SharedTypes
      <4>4. FiledAs(S, V, k, x, n)
        BY <3>1, <3>2, <4>1, <4>2, <4>3 DEF FiledAs, Unfiled
      <4> QED BY <4>4 DEF Filed
    <3>8. ~V.ok => Unfiled(S, V, x)
      BY <3>1, <3>3 DEF Unfiled, SharedTypes
    <3>9. T = V /\ V.ok \in BOOLEAN
      BY <2>1, <2>7, <3>2, <3>3
    <3> QED BY <1>2, <3>2, <3>3, <3>5, <3>6, <3>7, <3>8, <3>9
  <2> QED BY <2>4, <2>6, <2>7
<1>3. S.damage[x] \in BOOLEAN
  BY DEF SharedTypes
<1> QED BY <1>1, <1>2

-----------------------------------------------------------------------------
(* Handlers that are filed and removed *)

LEMMA TargetsArePixmaps ==
    ASSUME NEW S, SharedTypes(S), NEW k \in SinkCrtcs, NEW x \in Targets(S, k)
    PROVE  x \in Pixmaps
BY DEF Targets, SharedTypes

\* A filed handler keeps the numbers apart, and is its CRTC's.
LEMMA FiledKeeps ==
    ASSUME NEW S, SharedTypes(S), Separate(S), Numbered(S),
           NEW k \in SinkCrtcs, NEW x \in Targets(S, k), x \in Pixmaps,
           NEW T, Kept(S, T, k), SameWaits(S, T) , Filed(S, T, k, x), ~T.full
    PROVE  /\ ~S.full /\ Numbered(T) /\ Others(S, T, k)
           /\ \E w \in Entry :
                 /\ Entries(T, k) = Entries(S, k) \cup {w}
                 /\ w.front = x /\ w.back = S.prime_pixmap[k]
                 /\ T.flip_seq[x] = w.seq
<1>1. PICK n : FiledAs(S, T, k, x, n)
  BY DEF Filed
<1>2. PICK b \in BOOLEAN : T.ms_drm_queue = S.ms_drm_queue \cup
         {[seq |-> n, crtc |-> k, front |-> x, back |-> S.prime_pixmap[k], flip |-> b]}
  BY <1>1 DEF FiledAs
<1> DEFINE w == [seq |-> n, crtc |-> k, front |-> x, back |-> S.prime_pixmap[k], flip |-> b]
<1>3. /\ T.ms_drm_queue = S.ms_drm_queue \cup {w}
      /\ w.seq = n /\ w.crtc = k /\ w.front = x /\ w.back = S.prime_pixmap[k]
  BY <1>2
<1> HIDE DEF w
<1>4. /\ n # 0 /\ ~S.full
      /\ \A e \in S.ms_drm_queue : e.seq # n
      /\ \A y \in Pixmaps \ {x} : S.flip_seq[y] # n
      /\ T.flip_seq = [S.flip_seq EXCEPT ![x] = n]
  BY <1>1 DEF FiledAs, SharedTypes
<1>5. T.flip_seq[x] = n /\ \A y \in Pixmaps \ {x} : T.flip_seq[y] = S.flip_seq[y]
  BY <1>4 DEF SharedTypes
<1>6. \A j \in SinkCrtcs : Targets(T, j) = Targets(S, j)
  BY DEF Targets, Kept, SamePixmaps
<1>7. Entries(T, k) = Entries(S, k) \cup {w}
      /\ \A j \in SinkCrtcs \ {k} : Entries(T, j) = Entries(S, j)
  BY <1>3 DEF Entries
<1>8. w \in Entry
  BY <1>3 DEF Kept, SharedTypes
<1>9. \A j \in SinkCrtcs \ {k} : Targets(S, j) \cap Targets(S, k) = {}
  BY DEF Separate
<1>10. Numbered(T)
  <2>1. \A e, v \in T.ms_drm_queue : e.seq = v.seq => e = v
    BY <1>3, <1>4 DEF Numbered
  <2>2. \A e \in T.ms_drm_queue : e.seq # 0
    BY <1>3, <1>4 DEF Numbered
  <2>3. \A e \in T.ms_drm_queue, y \in Pixmaps : T.flip_seq[y] = e.seq => y = e.front
    BY <1>3, <1>4, <1>5 DEF Numbered
  <2>4. \A e \in T.ms_drm_queue, j \in SinkCrtcs : j # e.crtc => e.front \notin Targets(T, j)
    BY <1>3, <1>6, <1>9 DEF Numbered
  <2> QED BY <2>1, <2>2, <2>3, <2>4 DEF Numbered
<1>11. ASSUME NEW j \in SinkCrtcs \ {k}, NEW y \in Targets(S, j)
       PROVE  T.flip_seq[y] = S.flip_seq[y]
  <2>1. y # x /\ y \in Pixmaps
    BY <1>9, TargetsArePixmaps
  <2> QED BY <1>5, <2>1
<1>12. Others(S, T, k)
  BY <1>7, <1>11 DEF Others, Kept, SamePixmaps, SameWaits
<1> QED BY <1>3, <1>4, <1>5, <1>7, <1>8, <1>10, <1>12

\* So does a refused one.
LEMMA UnfiledKeeps ==
    ASSUME NEW S, SharedTypes(S), Separate(S), Numbered(S),
           NEW k \in SinkCrtcs, NEW x \in Targets(S, k), x \in Pixmaps,
           NEW T, Kept(S, T, k), SameWaits(S, T), Unfiled(S, T, x)
    PROVE  Numbered(T) /\ Others(S, T, k) /\ Entries(T, k) = Entries(S, k)
<1>1. T.flip_seq[x] = 0 /\ \A y \in Pixmaps \ {x} : T.flip_seq[y] = S.flip_seq[y]
  BY DEF SharedTypes, Unfiled
<1>2. \A j \in SinkCrtcs : Targets(T, j) = Targets(S, j) /\ Entries(T, j) = Entries(S, j)
  BY DEF Targets, Entries, Kept, SamePixmaps, Unfiled
<1>3. \A j \in SinkCrtcs \ {k} : Targets(S, j) \cap Targets(S, k) = {}
  BY DEF Separate
<1>4. Numbered(T)
  <2>1. T.ms_drm_queue = S.ms_drm_queue
    BY DEF Unfiled
  <2>2. \A e \in T.ms_drm_queue, y \in Pixmaps : T.flip_seq[y] = e.seq => y = e.front
    BY <1>1, <2>1 DEF Numbered
  <2> QED BY <1>2, <2>1, <2>2 DEF Numbered
<1>5. ASSUME NEW j \in SinkCrtcs \ {k}, NEW y \in Targets(S, j)
      PROVE  T.flip_seq[y] = S.flip_seq[y]
  <2>1. y # x /\ y \in Pixmaps
    BY <1>3, TargetsArePixmaps
  <2> QED BY <1>1, <2>1
<1>6. Others(S, T, k)
  BY <1>2, <1>5 DEF Others, Kept, SamePixmaps, SameWaits
<1> QED BY <1>2, <1>4, <1>6

LEMMA PresentFull ==
    ASSUME NEW S, SharedTypes(S), NEW T, NEW k, NEW x,
           Waits(S, T, x) \/ Filed(S, T, k, x) \/ Unfiled(S, T, x), S.full
    PROVE  T.full
BY DEF Waits, SameQueue, Filed, FiledAs, Unfiled

\* What a CRTC whose flipping is (or becomes) active needs to be presented a pixmap.
LEMMA PresentKeeps ==
    ASSUME NEW S, SharedTypes(S), Separate(S), Numbered(S), NEW k \in SinkCrtcs,
           NEW x \in Pixmaps, S.prime_pixmap_back[k] = x,
           Entries(S, k) = {} \/ "overlap" \in S.odd[k],
           NEW T, T = drmmode_SharedPixmapPresent(S, k, x), ~T.full
    PROVE  /\ Numbered(T) /\ Others(S, T, k) /\ Tells(S, T, k)
           /\ "overlap" \notin T.odd[k] =>
                 /\ \A e, w \in Entries(T, k) : e = w
                 /\ \A e \in Entries(T, k) :
                       /\ e.front = T.prime_pixmap_back[k] /\ e.back = T.prime_pixmap[k]
                       /\ T.flip_seq[e.front] = e.seq
           /\ T.ok => \/ Entries(T, k) # {}
                      \/ T.notify_on_damage[x] /\ T.wait_for_damage[x]
           /\ ~T.ok /\ "overlap" \notin T.odd[k] => Entries(T, k) = {}
<1>1. S.prime_pixmap[k] # x /\ x \in Targets(S, k)
  BY DEF Separate, Targets, NoPixmap, Pixmaps
<1>2. /\ Kept(S, T, k) /\ T.ok \in BOOLEAN /\ Tells(S, T, k)
      /\ \/ T.ok /\ Waits(S, T, x)
         \/ T.ok /\ Filed(S, T, k, x) /\ SameWaits(S, T)
         \/ ~T.ok /\ Unfiled(S, T, x) /\ SameWaits(S, T)
  BY <1>1, PresentIs
<1>3. "overlap" \in Telling
  BY DEF Telling
<1>4. "overlap" \notin T.odd[k] => Entries(S, k) = {}
  BY <1>2, <1>3 DEF Tells
<1>5. T.prime_pixmap[k] = S.prime_pixmap[k] /\ T.prime_pixmap_back[k] = x
  BY <1>2 DEF Kept, SamePixmaps
<1>6. CASE T.ok /\ Waits(S, T, x)
  <2>1. \A j \in SinkCrtcs : Targets(T, j) = Targets(S, j) /\ Entries(T, j) = Entries(S, j)
    BY <1>2, <1>6 DEF Targets, Entries, Kept, SamePixmaps, Waits, SameQueue
  <2>2. Numbered(T)
    BY <1>6, <2>1 DEF Numbered, Waits, SameQueue
  <2>3. ASSUME NEW j \in SinkCrtcs \ {k}, NEW y \in Targets(S, j)
        PROVE  /\ T.flip_seq[y] = S.flip_seq[y]
               /\ T.notify_on_damage[y] = S.notify_on_damage[y]
               /\ T.wait_for_damage[y] = S.wait_for_damage[y]
    <3>1. y # x /\ y \in Pixmaps
      BY <1>1, TargetsArePixmaps DEF Separate
    <3> QED BY <1>6, <3>1 DEF Waits, SameQueue, SharedTypes
  <2>4. Others(S, T, k)
    BY <1>2, <2>1, <2>3 DEF Others, Kept, SamePixmaps
  <2>5. T.notify_on_damage[x] /\ T.wait_for_damage[x]
    BY <1>6 DEF Waits, SharedTypes
  <2> QED BY <1>2, <1>4, <1>6, <2>1, <2>2, <2>4, <2>5
<1>7. CASE T.ok /\ Filed(S, T, k, x) /\ SameWaits(S, T)
  <2>1. /\ Numbered(T) /\ Others(S, T, k)
        /\ \E w \in Entry :
              /\ Entries(T, k) = Entries(S, k) \cup {w}
              /\ w.front = x /\ w.back = S.prime_pixmap[k]
              /\ T.flip_seq[x] = w.seq
    BY <1>1, <1>2, <1>7, FiledKeeps
  <2> QED BY <1>2, <1>4, <1>5, <1>7, <2>1
<1>8. CASE ~T.ok /\ Unfiled(S, T, x) /\ SameWaits(S, T)
  <2>1. Numbered(T) /\ Others(S, T, k) /\ Entries(T, k) = Entries(S, k)
    BY <1>1, <1>2, <1>8, UnfiledKeeps
  <2> QED BY <1>2, <1>4, <1>8, <2>1
<1> QED BY <1>2, <1>6, <1>7, <1>8

-----------------------------------------------------------------------------
(* Flipping starts *)

LEMMA InitKeeps ==
    ASSUME NEW C \in SUBSET SinkCrtcs, NEW k \in SinkCrtcs, NEW S, Good(S, C),
           NEW T, T = drmmode_InitSharedPixmapFlipping(S, k)
    PROVE  /\ Good(T, C) /\ SamePixmaps(S, T) /\ T.on = S.on
           /\ S.enable_flipping[k] =>
                 /\ T.flipping_active[k] \/ ~T.damage[S.prime_pixmap_back[k]]
                 /\ \/ S.on[k] \/ S.flipping_active[k] \/ ~S.damage[S.prime_pixmap_back[k]]
                    => T.flipping_active[k]
<1>0. SharedTypes(S) /\ Separate(S)
  BY DEF Good
<1>1. CASE ~S.enable_flipping[k] \/ S.flipping_active[k]
  <2>1. T = S
    BY <1>1 DEF drmmode_InitSharedPixmapFlipping
  <2> QED BY <1>1, <2>1 DEF SamePixmaps
<1>2. CASE S.enable_flipping[k] /\ ~S.flipping_active[k]
  <2> DEFINE x == S.prime_pixmap_back[k]
             P == drmmode_SharedPixmapPresent(S, k, x)
  <2>1. T = [P EXCEPT !.flipping_active[k] = P.ok]
    BY <1>2 DEF drmmode_InitSharedPixmapFlipping
  <2>2. x \in Pixmaps /\ S.prime_pixmap[k] # x
    BY <1>0, <1>2 DEF Separate, SharedTypes
  <2>3. /\ Kept(S, P, k) /\ P.ok \in BOOLEAN /\ ~P.damage[x]
        /\ \/ P.ok /\ Waits(S, P, x)
           \/ P.ok /\ Filed(S, P, k, x) /\ SameWaits(S, P)
           \/ ~P.ok /\ ~S.on[k] /\ S.damage[x] /\ Unfiled(S, P, x) /\ SameWaits(S, P)
    BY <1>0, <2>2, PresentIs
  <2>4. S.full => P.full
    BY <1>0, <2>3, PresentFull
  <2> HIDE DEF P
  <2>5. DOMAIN P = Fields /\ P.flipping_active \in [SinkCrtcs -> BOOLEAN]
    BY <2>3 DEF Kept, SharedTypes
  <2>6. /\ DOMAIN T = Fields /\ SamePixmaps(P, T) /\ SameQueue(P, T) /\ SameDamage(P, T)
        /\ T.on = P.on /\ T.odd = P.odd
        /\ T.flipping_active = [P.flipping_active EXCEPT ![k] = P.ok]
    BY <2>1, <2>5 DEF Fields, SamePixmaps, SameQueue, SameDamage
  <2>7. /\ T.flipping_active \in [SinkCrtcs -> BOOLEAN] /\ T.flipping_active[k] = P.ok
        /\ \A j \in SinkCrtcs \ {k} : T.flipping_active[j] = S.flipping_active[j]
    BY <2>3, <2>5, <2>6 DEF Kept
  <2>8. SharedTypes(T)
    BY <2>3, <2>6, <2>7 DEF Kept, SharedTypes, SamePixmaps, SameQueue, SameDamage
  <2>9. SamePixmaps(S, T) /\ T.on = S.on /\ ~T.damage[x]
    BY <2>3, <2>6 DEF Kept, SamePixmaps, SameDamage
  <2>10. \A j \in SinkCrtcs : Targets(T, j) = Targets(S, j) /\ Targets(T, j) = Targets(P, j)
                           /\ Entries(T, j) = Entries(P, j)
    BY <2>6, <2>9 DEF Targets, Entries, SamePixmaps, SameQueue
  <2>11. Separate(T)
    BY <1>0, <1>2, <2>7, <2>9, <2>10 DEF Separate, SamePixmaps
  <2>12. ASSUME ~T.full
         PROVE  /\ Others(S, T, k) /\ Numbered(T)
                /\ One(T, k) /\ Awake(T, k) /\ (Ready(S, k) => Ready(T, k))
    <3>1. ~P.full /\ ~S.full
      BY <2>4, <2>6, <2>12 DEF SameQueue
    <3>2. Sound(S)
      BY <3>1 DEF Good
    <3>3. Numbered(S) /\ (Entries(S, k) = {} \/ "overlap" \in S.odd[k])
      BY <1>2, <3>2 DEF Sound, One
    <3>4. /\ Numbered(P) /\ Others(S, P, k) /\ Tells(S, P, k)
          /\ "overlap" \notin P.odd[k] =>
                /\ \A e, w \in Entries(P, k) : e = w
                /\ \A e \in Entries(P, k) :
                      /\ e.front = P.prime_pixmap_back[k] /\ e.back = P.prime_pixmap[k]
                      /\ P.flip_seq[e.front] = e.seq
          /\ P.ok => \/ Entries(P, k) # {}
                     \/ P.notify_on_damage[x] /\ P.wait_for_damage[x]
          /\ ~P.ok /\ "overlap" \notin P.odd[k] => Entries(P, k) = {}
      BY <1>0, <2>2, <3>1, <3>3, PresentKeeps DEF P
    <3>5. Numbered(T)
      BY <2>6, <2>10, <3>4 DEF Numbered, SameQueue
    <3>6. Others(S, T, k)
      BY <2>6, <2>7, <2>10, <3>4 DEF Others, SamePixmaps, SameQueue, SameDamage
    <3>7. One(T, k)
      BY <2>3, <2>6, <2>7, <2>10, <3>4 DEF One, SamePixmaps, SameQueue
    <3>8. Awake(T, k)
      BY <2>6, <2>7, <2>9, <2>10, <3>4 DEF Awake, SamePixmaps, SameDamage
    <3>9. Ready(S, k) => Ready(T, k)
      BY <1>2, <2>6, <2>9, <3>4 DEF Ready, Tells, SamePixmaps
    <3> QED BY <3>5, <3>6, <3>7, <3>8, <3>9
  <2>13. \A j \in C : S.full \/ Ready(S, j)
    BY DEF Good
  <2>14. Good(T, C)
    <3>1. S.full => T.full
      BY <2>4, <2>6 DEF SameQueue
    <3>2. ~T.full => (k \in C => Ready(T, k))
      BY <2>12, <2>13, <3>1
    <3> QED BY <2>8, <2>11, <2>12, <3>1, <3>2, GoodIf
  <2>15. P.ok \/ (~S.on[k] /\ S.damage[x])
    BY <2>3
  <2> QED BY <1>2, <2>7, <2>9, <2>14, <2>15
<1> QED BY <1>1, <1>2

-----------------------------------------------------------------------------
(* A mode is set *)

LEMMA GoodLess ==
    ASSUME NEW C, NEW D, D \subseteq C, NEW S, Good(S, C)
    PROVE  Good(S, D)
BY DEF Good

LEMMA GoodReady ==
    ASSUME NEW C, NEW S, NEW k \in SinkCrtcs, Good(S, C \ {k}), ~S.full => Ready(S, k)
    PROVE  Good(S, C \cup {k})
BY DEF Good

\* Only what the kernel does to CRTC k changes.
LEMMA SwitchKeeps ==
    ASSUME NEW C \in SUBSET SinkCrtcs, NEW k \in SinkCrtcs, NEW S, Good(S, C),
           NEW T, SharedTypes(T), Same(S, T),
           \A j \in SinkCrtcs \ {k} : T.on[j] = S.on[j] /\ T.odd[j] = S.odd[j],
           "overlap" \in T.odd[k] <=> "overlap" \in S.odd[k],
           "stopped" \in T.odd[k] <=> "stopped" \in S.odd[k]
    PROVE  Good(T, C \ {k})
<1>0. SharedTypes(S) /\ Separate(S)
  BY DEF Good
<1>1. \A j \in SinkCrtcs : Targets(T, j) = Targets(S, j) /\ Entries(T, j) = Entries(S, j)
  BY DEF Targets, Entries, Same, SamePixmaps, SameQueue
<1>2. Separate(T)
  BY <1>0, <1>1 DEF Separate, Same, SamePixmaps
<1>3. ASSUME ~T.full
      PROVE  Others(S, T, k) /\ Numbered(T) /\ One(T, k) /\ Awake(T, k)
  <2>1. Sound(S)
    BY <1>3 DEF Good, Same, SameQueue
  <2>2. Others(S, T, k)
    BY <1>1 DEF Others, Same, SamePixmaps, SameQueue, SameDamage
  <2>3. Numbered(T)
    BY <1>1, <2>1 DEF Sound, Numbered, Same, SameQueue
  <2>4. One(T, k)
    BY <1>1, <2>1 DEF Sound, One, Same, SamePixmaps, SameQueue
  <2>5. Awake(T, k)
    BY <1>1, <2>1 DEF Sound, Awake, Same, SamePixmaps, SameDamage
  <2> QED BY <2>2, <2>3, <2>4, <2>5
<1>4. S.full => T.full
  BY DEF Same, SameQueue
<1>5. C \ {k} \in SUBSET SinkCrtcs /\ (C \ {k}) \ {k} \subseteq C /\ k \notin C \ {k}
  OBVIOUS
<1> QED BY <1>2, <1>3, <1>4, <1>5, GoodIf

LEMMA LitKeeps ==
    ASSUME NEW C \in SUBSET SinkCrtcs, NEW k \in SinkCrtcs, NEW S, Good(S, C),
           NEW T, T = Lit(S, k)
    PROVE  /\ Good(T, C \ {k}) /\ Same(S, T) /\ T.on[k]
<1>1. SharedTypes(S)
  BY DEF Good
<1>2. /\ Same(S, T) /\ SharedTypes(T) /\ T.on[k]
      /\ \A j \in SinkCrtcs \ {k} : T.on[j] = S.on[j] /\ T.odd[j] = S.odd[j]
      /\ "overlap" \in T.odd[k] <=> "overlap" \in S.odd[k]
      /\ "stopped" \in T.odd[k] <=> "stopped" \in S.odd[k]
  BY <1>1, LitIs
<1> QED BY <1>2, SwitchKeeps

\* Flipping is active after it was started twice: what was not copied at first is not out
\* of date the second time.
LEMMA TwiceKeeps ==
    ASSUME NEW C \in SUBSET SinkCrtcs, NEW k \in SinkCrtcs, NEW S, Good(S, C),
           NEW T, T = drmmode_InitSharedPixmapFlipping(drmmode_InitSharedPixmapFlipping(S, k), k)
    PROVE  Good(T, C) /\ SamePixmaps(S, T) /\ (S.enable_flipping[k] => T.flipping_active[k])
<1> DEFINE U == drmmode_InitSharedPixmapFlipping(S, k)
<1>1. /\ Good(U, C) /\ SamePixmaps(S, U)
      /\ S.enable_flipping[k] => U.flipping_active[k] \/ ~U.damage[S.prime_pixmap_back[k]]
  BY InitKeeps
<1>2. T = drmmode_InitSharedPixmapFlipping(U, k)
  OBVIOUS
<1> HIDE DEF U
<1>3. /\ Good(T, C) /\ SamePixmaps(U, T)
      /\ U.enable_flipping[k] /\ (U.flipping_active[k] \/ ~U.damage[U.prime_pixmap_back[k]])
         => T.flipping_active[k]
  BY <1>1, <1>2, InitKeeps
<1> QED BY <1>1, <1>3 DEF SamePixmaps

LEMMA SetModeKeeps ==
    ASSUME NEW C \in SUBSET SinkCrtcs, NEW k \in SinkCrtcs, NEW S, Good(S, C \ {k}),
           NEW T, T = drmmode_set_mode_major(S, k)
    PROVE  Good(T, C \cup {k})
<1> DEFINE Twice(V) == drmmode_InitSharedPixmapFlipping(drmmode_InitSharedPixmapFlipping(V, k), k)
<1>0. C \ {k} \in SUBSET SinkCrtcs /\ (C \ {k}) \ {k} = C \ {k}
  OBVIOUS
<1>1. CASE atomic_modeset
  <2> DEFINE V == Twice(S)
  <2>1. Good(V, C \ {k}) /\ SamePixmaps(S, V) /\ (S.enable_flipping[k] => V.flipping_active[k])
    BY <1>0, TwiceKeeps
  <2>2. T = Lit(V, k)
    BY <1>1 DEF drmmode_set_mode_major
  <2> HIDE DEF V
  <2>3. Good(T, (C \ {k}) \ {k}) /\ Same(V, T)
    BY <1>0, <2>1, <2>2, LitKeeps
  <2>4. T.enable_flipping[k] => T.flipping_active[k]
    BY <2>1, <2>3 DEF Same, SamePixmaps
  <2> QED BY <1>0, <2>3, <2>4, GoodReady DEF Ready
<1>2. CASE ~atomic_modeset
  <2> DEFINE V == Lit(S, k)
  <2>1. Good(V, C \ {k})
    BY <1>0, LitKeeps
  <2>2. T = Twice(V)
    BY <1>2 DEF drmmode_set_mode_major
  <2> HIDE DEF V
  <2>3. Good(T, C \ {k}) /\ SamePixmaps(V, T) /\ (V.enable_flipping[k] => T.flipping_active[k])
    BY <1>0, <2>1, <2>2, TwiceKeeps
  <2>4. T.enable_flipping[k] => T.flipping_active[k]
    BY <2>3 DEF SamePixmaps
  <2> QED BY <2>3, <2>4, GoodReady DEF Ready
<1> QED BY <1>1, <1>2

\* DPMS on.
LEMMA SwitchedOnKeeps ==
    ASSUME NEW C \in SUBSET SinkCrtcs, NEW k \in SinkCrtcs, NEW S, Good(S, C),
           NEW T, T = SwitchedOn(S, k)
    PROVE  Good(T, C \cup {k})
<1>0. SharedTypes(S) /\ Separate(S)
  BY DEF Good
<1>1. CASE S.prime_pixmap[k] = NoPixmap \/ (S.shown[k] = NoPixmap /\ ~S.on[k])
  <2>1. T = S
    BY <1>1 DEF SwitchedOn
  <2>2. Ready(S, k)
    BY <1>0, <1>1 DEF Ready, Separate
  <2> QED BY <2>1, <2>2, GoodReady, GoodLess
<1>2. CASE ~(S.prime_pixmap[k] = NoPixmap \/ (S.shown[k] = NoPixmap /\ ~S.on[k]))
  <2> DEFINE U == [S EXCEPT !.on[k] = TRUE]
  <2>1. T = drmmode_InitSharedPixmapFlipping(U, k)
    BY <1>2 DEF SwitchedOn
  <2>2. Same(S, U) /\ U.odd = S.odd /\ U.on = [S.on EXCEPT ![k] = TRUE]
    BY <1>0 DEF SharedTypes, Fields, Same, SamePixmaps, SameQueue, SameDamage
  <2> HIDE DEF U
  <2>3. U.on \in [SinkCrtcs -> BOOLEAN] /\ U.on[k]
        /\ \A j \in SinkCrtcs \ {k} : U.on[j] = S.on[j]
    BY <1>0, <2>2 DEF SharedTypes
  <2>4. SharedTypes(U)
    BY <1>0, <2>2, <2>3, SameTypes DEF SharedTypes
  <2>9. C \ {k} \in SUBSET SinkCrtcs
    OBVIOUS
  <2>10. Good(U, C \ {k})
    BY <2>2, <2>3, <2>4, SwitchKeeps
  <2>11. /\ Good(T, C \ {k}) /\ SamePixmaps(U, T)
         /\ U.enable_flipping[k] => T.flipping_active[k]
    BY <2>1, <2>3, <2>9, <2>10, InitKeeps
  <2>12. Ready(T, k)
    BY <2>11 DEF Ready, SamePixmaps
  <2> QED BY <2>11, <2>12, GoodReady
<1> QED BY <1>1, <1>2

-----------------------------------------------------------------------------
(* CRTCs that are turned off or taken over *)

LEMMA OffReady ==
    ASSUME NEW C, NEW S, NEW k \in SinkCrtcs, Good(S, C \ {k}), ~S.on[k] \/ ~S.vtSema
    PROVE  Good(S, C \cup {k})
BY GoodReady DEF Ready

LEMMA TurnedOffKeeps ==
    ASSUME NEW C \in SUBSET SinkCrtcs, NEW k \in SinkCrtcs, NEW S, Good(S, C),
           NEW T, T = TurnedOff(S, k)
    PROVE  Good(T, C \cup {k})
<1>1. SharedTypes(S)
  BY DEF Good
<1>2. Same(S, T) /\ T.on = [S.on EXCEPT ![k] = FALSE] /\ T.odd = S.odd
  BY <1>1, TurnedOffIs
<1>3. /\ T.on \in [SinkCrtcs -> BOOLEAN] /\ ~T.on[k]
      /\ \A j \in SinkCrtcs \ {k} : T.on[j] = S.on[j]
  BY <1>1, <1>2 DEF SharedTypes
<1>4. SharedTypes(T)
  BY <1>1, <1>2, <1>3, SameTypes DEF SharedTypes
<1>5. Good(T, C \ {k})
  BY <1>2, <1>3, <1>4, SwitchKeeps
<1> QED BY <1>3, <1>5, OffReady

\* Nothing of interest changes, with oddities as they are.
LEMMA SameGood ==
    ASSUME NEW C \in SUBSET SinkCrtcs, NEW S, Good(S, C), NEW T, Same(S, T),
           T.on = S.on, T.odd = S.odd
    PROVE  Good(T, C)
<1>1. SharedTypes(T)
  BY SameTypes DEF Good, SharedTypes
<1> QED BY <1>1, GoodStays DEF Same, SameQueue, SameDamage

LEMMA DarkKeeps ==
    ASSUME NEW C \in SUBSET SinkCrtcs, NEW k \in SinkCrtcs, NEW S, Good(S, C),
           NEW T, T = Dark(S, k)
    PROVE  Good(T, C \cup {k})
<1> DEFINE U == TurnedOff(S, k)
<1>1. Good(U, C \cup {k})
  BY TurnedOffKeeps
<1>2. T = [U EXCEPT !.shown[k] = NoPixmap]
  BY DEF Dark
<1> HIDE DEF U
<1>3. DOMAIN U = Fields
  BY <1>1 DEF Good, SharedTypes
<1>4. Same(U, T) /\ T.on = U.on /\ T.odd = U.odd
  BY <1>2, <1>3 DEF Fields, Same, SamePixmaps, SameQueue, SameDamage
<1>5. C \cup {k} \in SUBSET SinkCrtcs
  OBVIOUS
<1> QED BY <1>1, <1>4, <1>5, SameGood

\* LeaveVT: the server does not own the VT.
LEMMA TakenOverKeeps ==
    ASSUME NEW C \in SUBSET SinkCrtcs, NEW k \in SinkCrtcs, NEW S, Good(S, C), ~S.vtSema,
           NEW b \in BOOLEAN, NEW T, T = TakenOver(S, k, b)
    PROVE  Good(T, C \cup {k}) /\ ~T.vtSema
<1>1. SharedTypes(S)
  BY DEF Good
<1>2. CASE b
  <2> DEFINE U == Completed(S, k)
  <2>1. Same(S, U) /\ U.on = S.on /\ U.odd = S.odd
    BY <1>1, CompletedIs
  <2>2. T = [[U EXCEPT !.on[k] = TRUE] EXCEPT !.shown[k] = Other]
    BY <1>2 DEF TakenOver
  <2> HIDE DEF U
  <2>3. DOMAIN U = Fields /\ U.on \in [SinkCrtcs -> BOOLEAN]
    BY <1>1, <2>1 DEF Same, SharedTypes
  <2>4. Same(U, T) /\ T.on = [U.on EXCEPT ![k] = TRUE] /\ T.odd = U.odd
    BY <2>2, <2>3 DEF Fields, Same, SamePixmaps, SameQueue, SameDamage
  <2>5. Same(S, T) /\ T.odd = S.odd
    BY <2>1, <2>4 DEF Same, SamePixmaps, SameQueue, SameDamage
  <2>6. /\ T.on \in [SinkCrtcs -> BOOLEAN]
        /\ \A j \in SinkCrtcs \ {k} : T.on[j] = S.on[j]
    BY <2>1, <2>3, <2>4
  <2>7. SharedTypes(T)
    BY <1>1, <2>5, <2>6, SameTypes DEF SharedTypes
  <2>8. Good(T, C \ {k})
    BY <2>5, <2>6, <2>7, SwitchKeeps
  <2>9. ~T.vtSema
    BY <2>5 DEF Same, SamePixmaps
  <2> QED BY <2>8, <2>9, OffReady
<1>3. CASE ~b
  <2> DEFINE U == TurnedOff(S, k)
  <2>1. Good(U, C \cup {k}) /\ Same(S, U)
    BY <1>1, TurnedOffKeeps, TurnedOffIs
  <2>2. T = [U EXCEPT !.shown[k] = Other]
    BY <1>3 DEF TakenOver
  <2> HIDE DEF U
  <2>3. DOMAIN U = Fields
    BY <2>1 DEF Same
  <2>4. Same(U, T) /\ T.on = U.on /\ T.odd = U.odd
    BY <2>2, <2>3 DEF Fields, Same, SamePixmaps, SameQueue, SameDamage
  <2>5. C \cup {k} \in SUBSET SinkCrtcs
    OBVIOUS
  <2>6. Good(T, C \cup {k})
    BY <2>1, <2>4, <2>5, SameGood
  <2> QED BY <2>1, <2>4, <2>6 DEF Same, SamePixmaps
<1> QED BY <1>2, <1>3

\* EnterVT, for one CRTC.
LEMMA DesiredModeKeeps ==
    ASSUME NEW C \in SUBSET SinkCrtcs, NEW k \in SinkCrtcs, NEW S, Good(S, C),
           NEW T, T = DesiredMode(S, k)
    PROVE  Good(T, C \cup {k})
<1>1. Good(S, C \ {k})
  BY GoodLess
<1> QED BY <1>1, DarkKeeps, SetModeKeeps DEF DesiredMode

-----------------------------------------------------------------------------
(* Flipping stops *)

LEMMA AbortIs ==
    ASSUME NEW S, SharedTypes(S), NEW k \in SinkCrtcs, NEW n, NEW T, T = Abort(S, n)
    PROVE  /\ Kept(S, T, k) /\ SameDamage(S, T) /\ T.full = S.full /\ T.odd = S.odd
           /\ T.ms_drm_queue = {e \in S.ms_drm_queue : e.seq # n}
           /\ \A x \in Pixmaps : T.flip_seq[x] = IF \E e \in S.ms_drm_queue : e.seq = n
               /\ e.front = x
                                                 THEN 0 ELSE S.flip_seq[x]
<1> DEFINE gone == {e \in S.ms_drm_queue : e.seq = n}
           f == [x \in Pixmaps |-> IF \E e \in gone : e.front = x THEN 0 ELSE S.flip_seq[x]]
<1>1. T = [S EXCEPT !.ms_drm_queue = S.ms_drm_queue \ gone, !.flip_seq = f]
  BY DEF Abort
<1>2. f \in [Pixmaps -> Nat]
  BY DEF SharedTypes
<1>3. S.ms_drm_queue \ gone = {e \in S.ms_drm_queue : e.seq # n}
  OBVIOUS
<1>4. \A x \in Pixmaps : f[x] = IF \E e \in S.ms_drm_queue : e.seq = n /\ e.front = x
                                THEN 0 ELSE S.flip_seq[x]
  OBVIOUS
<1> HIDE DEF gone, f
<1>5. /\ DOMAIN T = Fields /\ SamePixmaps(S, T) /\ SameDamage(S, T) /\ T.full = S.full
      /\ T.odd = S.odd /\ T.on = S.on /\ T.flipping_active = S.flipping_active
      /\ T.ms_drm_queue = S.ms_drm_queue \ gone /\ T.flip_seq = f
  BY <1>1 DEF SharedTypes, Fields, SamePixmaps, SameDamage
<1>6. SharedTypes(T)
  BY <1>2, <1>5 DEF SharedTypes, SamePixmaps, SameDamage
<1> QED BY <1>3, <1>4, <1>5, <1>6 DEF Kept

\* Only handlers of CRTC k are aborted.
LEMMA AbortKeeps ==
    ASSUME NEW S, SharedTypes(S), Separate(S), Numbered(S), NEW k \in SinkCrtcs, NEW n,
           \A e \in S.ms_drm_queue : e.seq = n => e.front \in Targets(S, k),
           NEW T, T = Abort(S, n)
    PROVE  /\ Others(S, T, k) /\ Numbered(T)
           /\ Entries(T, k) = {e \in Entries(S, k) : e.seq # n}
<1>1. /\ Kept(S, T, k) /\ SameDamage(S, T) /\ T.full = S.full /\ T.odd = S.odd
      /\ T.ms_drm_queue = {e \in S.ms_drm_queue : e.seq # n}
      /\ \A x \in Pixmaps : T.flip_seq[x] = IF \E e \in S.ms_drm_queue : e.seq = n
          /\ e.front = x
                                            THEN 0 ELSE S.flip_seq[x]
  BY AbortIs
<1>2. \A j \in SinkCrtcs : Targets(T, j) = Targets(S, j)
  BY <1>1 DEF Targets, Kept, SamePixmaps
<1>3. \A e \in S.ms_drm_queue : e.seq = n => e.crtc = k
  BY DEF Numbered
<1>4. Entries(T, k) = {e \in Entries(S, k) : e.seq # n}
  BY <1>1 DEF Entries
<1>5. \A j \in SinkCrtcs \ {k} : Entries(T, j) = Entries(S, j)
  BY <1>1, <1>3 DEF Entries
<1>6. Numbered(T)
  <2>1. \A e \in T.ms_drm_queue : e \in S.ms_drm_queue
    BY <1>1
  <2>2. \A x \in Pixmaps : T.flip_seq[x] = 0 \/ T.flip_seq[x] = S.flip_seq[x]
    BY <1>1
  <2> QED BY <1>2, <2>1, <2>2 DEF Numbered
<1>7. ASSUME NEW j \in SinkCrtcs \ {k}, NEW x \in Targets(S, j)
      PROVE  T.flip_seq[x] = S.flip_seq[x]
  <2>1. x \in Pixmaps /\ x \notin Targets(S, k)
    BY TargetsArePixmaps DEF Separate
  <2> QED BY <1>1, <2>1
<1>8. Others(S, T, k)
  BY <1>1, <1>5, <1>7 DEF Others, Kept, SamePixmaps, SameDamage
<1> QED BY <1>4, <1>6, <1>8

LEMMA OthersTransitive ==
    ASSUME NEW S, NEW T, NEW U, NEW k \in SinkCrtcs, Others(S, T, k), Others(T, U, k)
    PROVE  Others(S, U, k)
<1>1. \A j \in SinkCrtcs \ {k} : Targets(T, j) = Targets(S, j)
  BY DEF Others, Targets
<1> QED BY <1>1 DEF Others

\* Whatever the numbers, aborting twice changes the handlers only.
LEMMA AbortTwiceIs ==
    ASSUME NEW S, SharedTypes(S), NEW k \in SinkCrtcs, NEW n, NEW m,
           NEW T, T = Abort(Abort(S, n), m)
    PROVE  Kept(S, T, k) /\ SameDamage(S, T) /\ T.full = S.full /\ T.odd = S.odd
<1> DEFINE U == Abort(S, n)
<1>1. Kept(S, U, k) /\ SameDamage(S, U) /\ U.full = S.full /\ U.odd = S.odd
  BY AbortIs
<1>2. SharedTypes(U) /\ T = Abort(U, m)
  BY <1>1 DEF Kept
<1> HIDE DEF U
<1>3. Kept(U, T, k) /\ SameDamage(U, T) /\ T.full = U.full /\ T.odd = U.odd
  BY <1>2, AbortIs
<1> QED BY <1>1, <1>3 DEF Kept, SamePixmaps, SameDamage

\* The handler that is queued, if any, is found through the pixmaps.
LEMMA AbortTwiceKeeps ==
    ASSUME NEW S, SharedTypes(S), Sound(S), NEW k \in SinkCrtcs, S.flipping_active[k],
           NEW T, T = Abort(Abort(S, S.flip_seq[S.prime_pixmap[k]]),
                            S.flip_seq[S.prime_pixmap_back[k]])
    PROVE  /\ Others(S, T, k) /\ Numbered(T)
           /\ "overlap" \notin S.odd[k] => Entries(T, k) = {}
<1> DEFINE n == S.flip_seq[S.prime_pixmap[k]]
           m == S.flip_seq[S.prime_pixmap_back[k]]
           U == Abort(S, n)
<1>1. Separate(S) /\ Numbered(S) /\ One(S, k)
  BY DEF Sound
<1>2. /\ S.prime_pixmap[k] \in Targets(S, k) /\ S.prime_pixmap_back[k] \in Targets(S, k)
      /\ S.prime_pixmap[k] \in Pixmaps /\ S.prime_pixmap_back[k] \in Pixmaps
  BY <1>1 DEF Separate, Targets, SharedTypes
<1>3. \A e \in S.ms_drm_queue : e.seq = n \/ e.seq = m => e.front \in Targets(S, k)
  BY <1>1, <1>2 DEF Numbered
<1>4. T = Abort(U, m)
  OBVIOUS
<1>m. m = S.flip_seq[S.prime_pixmap_back[k]]
  OBVIOUS
<1> HIDE DEF n, m
<1>5. /\ Others(S, U, k) /\ Numbered(U)
      /\ Entries(U, k) = {e \in Entries(S, k) : e.seq # n}
  BY <1>1, <1>3, AbortKeeps
<1>6. Kept(S, U, k) /\ U.ms_drm_queue = {e \in S.ms_drm_queue : e.seq # n}
  BY AbortIs
<1> HIDE DEF U
<1>7. /\ SharedTypes(U) /\ Targets(U, k) = Targets(S, k)
      /\ \A j \in SinkCrtcs : Targets(U, j) = Targets(S, j)
  BY <1>6 DEF Kept, SamePixmaps, Targets
<1>8. Separate(U)
  BY <1>1, <1>6, <1>7 DEF Separate, Kept, SamePixmaps
<1>9. \A e \in U.ms_drm_queue : e.seq = m => e.front \in Targets(U, k)
  BY <1>3, <1>6, <1>7
<1>10. /\ Others(U, T, k) /\ Numbered(T)
       /\ Entries(T, k) = {e \in Entries(U, k) : e.seq # m}
  BY <1>4, <1>5, <1>7, <1>8, <1>9, AbortKeeps
<1>11. Others(S, T, k)
  BY <1>5, <1>10, OthersTransitive
<1>12. ASSUME "overlap" \notin S.odd[k] PROVE Entries(T, k) = {}
  <2>1. \A e \in Entries(S, k) : e.seq = m
    BY <1>1, <1>12, <1>m DEF One
  <2> QED BY <1>5, <1>10, <2>1
<1> QED BY <1>10, <1>11, <1>12

LEMMA FiniKeeps ==
    ASSUME NEW C \in SUBSET SinkCrtcs, NEW k \in SinkCrtcs, NEW S, Good(S, C),
           NEW T, T = drmmode_FiniSharedPixmapFlipping(S, k)
    PROVE  Good(T, C \ {k}) /\ SamePixmaps(S, T) /\ ~T.flipping_active[k]
<1>0. SharedTypes(S) /\ Separate(S)
  BY DEF Good
<1>1. CASE ~S.flipping_active[k]
  <2>1. T = S
    BY <1>1 DEF drmmode_FiniSharedPixmapFlipping
  <2> QED BY <1>1, <2>1, GoodLess DEF SamePixmaps
<1>2. CASE S.flipping_active[k]
  <2> DEFINE U == Abort(Abort(S, S.flip_seq[S.prime_pixmap[k]]), S.flip_seq[S.prime_pixmap_back[k]])
             V == [U EXCEPT !.flipping_active[k] = FALSE, !.odd[k] = @ \ {"stopped"}]
             b == \E e \in Entries(S, k) \ Entries(U, k) : e.flip
  <2>1. Kept(S, U, k) /\ SameDamage(S, U) /\ U.full = S.full /\ U.odd = S.odd
    BY <1>0, AbortTwiceIs
  <2>2. ~S.full => /\ Others(S, U, k) /\ Numbered(U)
                   /\ "overlap" \notin S.odd[k] => Entries(U, k) = {}
    BY <1>0, <1>2, AbortTwiceKeeps DEF Good
  <2>3. T = IF b THEN [V EXCEPT !.odd[k] = @ \cup {"aborted"}] ELSE V
    BY <1>2 DEF drmmode_FiniSharedPixmapFlipping, Odd
  <2> HIDE DEF U, b
  <2>4. /\ DOMAIN U = Fields /\ U.flipping_active \in [SinkCrtcs -> BOOLEAN]
        /\ U.odd \in [SinkCrtcs -> SUBSET Oddities]
    BY <2>1 DEF Kept, SharedTypes
  <2>5. /\ DOMAIN V = Fields /\ SamePixmaps(U, V) /\ SameQueue(U, V) /\ SameDamage(U, V)
        /\ V.on = U.on /\ V.flipping_active = [U.flipping_active EXCEPT ![k] = FALSE]
        /\ V.odd = [U.odd EXCEPT ![k] = @ \ {"stopped"}]
    BY <2>4 DEF Fields, SamePixmaps, SameQueue, SameDamage
  <2> HIDE DEF V
  <2>6. /\ V.flipping_active \in [SinkCrtcs -> BOOLEAN] /\ ~V.flipping_active[k]
        /\ \A j \in SinkCrtcs \ {k} : V.flipping_active[j] = U.flipping_active[j]
            /\ V.odd[j] = U.odd[j]
        /\ V.odd \in [SinkCrtcs -> SUBSET Oddities]
        /\ "overlap" \in V.odd[k] <=> "overlap" \in U.odd[k]
    BY <2>4, <2>5
  <2>7. /\ DOMAIN T = Fields /\ SamePixmaps(V, T) /\ SameQueue(V, T) /\ SameDamage(V, T)
        /\ T.on = V.on /\ T.flipping_active = V.flipping_active
        /\ T.odd = V.odd \/ T.odd = [V.odd EXCEPT ![k] = @ \cup {"aborted"}]
    <3>1. CASE b
      BY <2>3, <2>5, <3>1 DEF Fields, SamePixmaps, SameQueue, SameDamage
    <3>2. CASE ~b
      BY <2>3, <2>5, <3>2 DEF SamePixmaps, SameQueue, SameDamage
    <3> QED BY <3>1, <3>2
  <2>8. "aborted" \in Oddities
    BY DEF Oddities
  <2>9. /\ T.odd \in [SinkCrtcs -> SUBSET Oddities]
        /\ \A j \in SinkCrtcs \ {k} : T.odd[j] = V.odd[j]
        /\ "overlap" \in T.odd[k] <=> "overlap" \in V.odd[k]
    BY <2>6, <2>7, <2>8
  <2>10. SharedTypes(T)
    BY <2>1, <2>5, <2>6, <2>7, <2>9 DEF Kept, SharedTypes, SamePixmaps, SameQueue, SameDamage
  <2>11. /\ SamePixmaps(S, T) /\ ~T.flipping_active[k] /\ T.on = S.on /\ SameDamage(S, T)
         /\ \A j \in SinkCrtcs \ {k} : T.odd[j] = S.odd[j]
         /\ "overlap" \in T.odd[k] <=> "overlap" \in S.odd[k]
    BY <2>1, <2>5, <2>6, <2>7, <2>9 DEF Kept, SamePixmaps, SameDamage
  <2>12. /\ \A j \in SinkCrtcs : Targets(T, j) = Targets(S, j) /\ Entries(T, j) = Entries(U, j)
                              /\ Targets(U, j) = Targets(S, j)
         /\ T.flip_seq = U.flip_seq /\ T.ms_drm_queue = U.ms_drm_queue /\ T.full = S.full
    BY <2>1, <2>5, <2>7, <2>11 DEF Targets, Entries, Kept, SamePixmaps, SameQueue
  <2>13. \A j \in SinkCrtcs \ {k} : T.flipping_active[j] = S.flipping_active[j]
    BY <2>1, <2>6, <2>7 DEF Kept
  <2>14. Separate(T)
    BY <1>0, <2>11, <2>12, <2>13 DEF Separate, SamePixmaps
  <2>15. ASSUME ~T.full
         PROVE  Others(S, T, k) /\ Numbered(T) /\ One(T, k) /\ Awake(T, k)
    <3>1. /\ Others(S, U, k) /\ Numbered(U)
          /\ "overlap" \notin S.odd[k] => Entries(U, k) = {}
      BY <2>2, <2>12, <2>15
    <3>2. Others(S, T, k)
      BY <2>11, <2>12, <2>13, <3>1 DEF Others, SamePixmaps, SameDamage
    <3>3. Numbered(T)
      BY <2>12, <3>1 DEF Numbered
    <3>4. One(T, k)
      BY <2>11, <2>12, <3>1 DEF One
    <3>5. Awake(T, k)
      BY <2>11 DEF Awake
    <3> QED BY <3>2, <3>3, <3>4, <3>5
  <2>16. C \ {k} \in SUBSET SinkCrtcs /\ (C \ {k}) \ {k} \subseteq C /\ k \notin C \ {k}
    OBVIOUS
  <2>17. Good(T, C \ {k})
    BY <2>10, <2>12, <2>14, <2>15, <2>16, GoodIf
  <2> QED BY <2>11, <2>17
<1> QED BY <1>1, <1>2

\* DPMS off.
LEMMA SwitchedOffKeeps ==
    ASSUME NEW C \in SUBSET SinkCrtcs, NEW k \in SinkCrtcs, NEW S, Good(S, C),
           NEW T, T = SwitchedOff(S, k)
    PROVE  Good(T, C \cup {k})
<1> DEFINE U == IF S.enable_flipping[k] THEN drmmode_FiniSharedPixmapFlipping(S, k) ELSE S
<1>1. C \ {k} \in SUBSET SinkCrtcs
  OBVIOUS
<1>2. Good(U, C \ {k})
  BY FiniKeeps, GoodLess
<1>3. T = TurnedOff(U, k)
  BY DEF SwitchedOff
<1> HIDE DEF U
<1>4. Good(T, (C \ {k}) \cup {k})
  BY <1>1, <1>2, <1>3, TurnedOffKeeps
<1>5. (C \ {k}) \cup {k} = C \cup {k}
  OBVIOUS
<1> QED BY <1>4, <1>5

-----------------------------------------------------------------------------
(* Scanout pixmaps come and go *)

LEMMA RemovedIs ==
    ASSUME NEW S, SharedTypes(S), NEW k \in SinkCrtcs, NEW x, NEW T, T = Removed(S, k, x)
    PROVE  /\ Same(S, T) /\ SharedTypes(T) /\ T.odd = S.odd
           /\ \A j \in SinkCrtcs \ {k} : T.on[j] = S.on[j]
<1> DEFINE b == S.shown[k] = x \/ S.flip[k].pixmap = x
           U == IF b THEN TurnedOff(S, k) ELSE S
<1>1. Same(S, U) /\ U.odd = S.odd /\ U.on \in [SinkCrtcs -> BOOLEAN]
      /\ \A j \in SinkCrtcs \ {k} : U.on[j] = S.on[j]
  <2>1. CASE b
    <3> DEFINE V == TurnedOff(S, k)
    <3>1. Same(S, V) /\ V.on = [S.on EXCEPT ![k] = FALSE] /\ V.odd = S.odd
      BY TurnedOffIs
    <3>2. U = V
      BY <2>1
    <3> HIDE DEF U, V
    <3> QED BY <3>1, <3>2 DEF SharedTypes
  <2>2. CASE ~b
    BY <2>2 DEF SharedTypes, Same, SamePixmaps, SameQueue, SameDamage
  <2> QED BY <2>1, <2>2
<1>2. T = [U EXCEPT !.fb_id[x] = FALSE, !.shown[k] = IF @ = x THEN NoPixmap ELSE @]
  BY DEF Removed
<1> HIDE DEF U
<1>3. DOMAIN U = Fields
  BY <1>1 DEF Same
<1>4. Same(U, T) /\ T.on = U.on /\ T.odd = U.odd
  BY <1>2, <1>3 DEF Fields, Same, SamePixmaps, SameQueue, SameDamage
<1>5. Same(S, T) /\ T.odd = S.odd
  BY <1>1, <1>4 DEF Same, SamePixmaps, SameQueue, SameDamage
<1>6. SharedTypes(T)
  BY <1>1, <1>4, <1>5, SameTypes DEF SharedTypes
<1> QED BY <1>1, <1>4, <1>5, <1>6

LEMMA ReleasedIs ==
    ASSUME NEW S, SharedTypes(S), NEW k \in SinkCrtcs, NEW x, NEW T, T = Released(S, k, x)
    PROVE  /\ Same(S, T) /\ SharedTypes(T) /\ T.odd = S.odd
           /\ \A j \in SinkCrtcs \ {k} : T.on[j] = S.on[j]
<1>1. CASE x = NoPixmap
  <2>1. T = S
    BY <1>1 DEF Released
  <2> QED BY <2>1 DEF SharedTypes, Same, SamePixmaps, SameQueue, SameDamage
<1>2. CASE x # NoPixmap
  <2> DEFINE U == Removed(S, k, x)
  <2>1. /\ Same(S, U) /\ SharedTypes(U) /\ U.odd = S.odd
        /\ \A j \in SinkCrtcs \ {k} : U.on[j] = S.on[j]
    BY RemovedIs
  <2>2. T = [U EXCEPT !.slave_damage[x] = FALSE]
    BY <1>2 DEF Released
  <2> HIDE DEF U
  <2>3. Same(U, T) /\ T.on = U.on /\ T.odd = U.odd
    BY <2>1, <2>2 DEF SharedTypes, Fields, Same, SamePixmaps, SameQueue, SameDamage
  <2>4. Same(S, T) /\ T.odd = S.odd
    BY <2>1, <2>3 DEF Same, SamePixmaps, SameQueue, SameDamage
  <2>5. SharedTypes(T)
    BY <2>1, <2>3, SameTypes DEF SharedTypes
  <2> QED BY <2>1, <2>3, <2>4, <2>5
<1> QED BY <1>1, <1>2

LEMMA DetachedKeeps ==
    ASSUME NEW C \in SUBSET SinkCrtcs, NEW k \in SinkCrtcs, NEW S, Good(S, C),
           NEW T, T = Detached(S, k)
    PROVE  /\ Good(T, C \cup {k}) /\ T.vtSema = S.vtSema
           /\ T.prime_pixmap[k] = NoPixmap /\ T.prime_pixmap_back[k] = NoPixmap
           /\ ~T.flipping_active[k] /\ ~T.enable_flipping[k]
<1> DEFINE F == IF S.enable_flipping[k] THEN drmmode_FiniSharedPixmapFlipping(S, k) ELSE S
           V == Released(F, k, S.prime_pixmap[k])
           U == Released(V, k, S.prime_pixmap_back[k])
           Gone(f) == [p \in Pixmaps |-> f[p] /\ p \notin Targets(S, k)]
           q == [p \in Pixmaps |-> IF p \in Targets(S, k) THEN 0 ELSE U.flip_seq[p]]
<1>0. C \ {k} \in SUBSET SinkCrtcs
  OBVIOUS
<1>1. Good(F, C \ {k}) /\ SamePixmaps(S, F) /\ ~F.flipping_active[k]
  <2>1. CASE S.enable_flipping[k]
    BY <2>1, FiniKeeps
  <2>2. CASE ~S.enable_flipping[k]
    BY <2>2, GoodLess DEF Good, Separate, SamePixmaps
  <2> QED BY <2>1, <2>2
<1>2. T = [U EXCEPT !.enable_flipping[k] = FALSE,
                    !.prime_pixmap[k] = NoPixmap, !.prime_pixmap_back[k] = NoPixmap,
                    !.flip_seq = q,
                    !.wait_for_damage = Gone(@), !.notify_on_damage = Gone(@),
                    !.damage = Gone(@), !.defer = Gone(@),
                    !.odd[k] = @ \cap {"overlap"}]
  BY DEF Detached
<1> HIDE DEF F
<1>3. SharedTypes(F)
  BY <1>1 DEF Good
<1>4. /\ Same(F, V) /\ SharedTypes(V) /\ V.odd = F.odd
      /\ \A j \in SinkCrtcs \ {k} : V.on[j] = F.on[j]
  BY <1>3, ReleasedIs
<1> HIDE DEF V
<1>5. /\ Same(V, U) /\ SharedTypes(U) /\ U.odd = V.odd
      /\ \A j \in SinkCrtcs \ {k} : U.on[j] = V.on[j]
  BY <1>4, ReleasedIs
<1> HIDE DEF U
<1>6. Same(F, U)
  BY <1>4, <1>5 DEF Same, SamePixmaps, SameQueue, SameDamage
<1>7. Good(U, C \ {k})
  <2>1. (C \ {k}) \ {k} = C \ {k}
    OBVIOUS
  <2>2. Good(U, (C \ {k}) \ {k})
    BY <1>0, <1>1, <1>4, <1>5, <1>6, SwitchKeeps
  <2> QED BY <2>1, <2>2
<1>8. /\ SamePixmaps(S, U) /\ ~U.flipping_active[k]
      /\ \A j \in SinkCrtcs : Targets(U, j) = Targets(S, j)
  BY <1>1, <1>6 DEF Same, SamePixmaps, Targets
<1>9. /\ q \in [Pixmaps -> Nat]
      /\ \A x \in Pixmaps : q[x] = 0 \/ q[x] = U.flip_seq[x]
      /\ \A x \in Pixmaps \ Targets(S, k) : q[x] = U.flip_seq[x]
  BY <1>5 DEF SharedTypes
<1>10. ASSUME NEW f \in [Pixmaps -> BOOLEAN]
       PROVE  /\ Gone(f) \in [Pixmaps -> BOOLEAN]
              /\ \A x \in Pixmaps \ Targets(S, k) : Gone(f)[x] = f[x]
  OBVIOUS
<1> HIDE DEF q, Gone
<1>11. /\ DOMAIN T = Fields /\ T.vtSema = U.vtSema /\ T.full = U.full
       /\ T.flipping_active = U.flipping_active /\ T.on = U.on
       /\ T.enable_flipping = [U.enable_flipping EXCEPT ![k] = FALSE]
       /\ T.prime_pixmap = [U.prime_pixmap EXCEPT ![k] = NoPixmap]
       /\ T.prime_pixmap_back = [U.prime_pixmap_back EXCEPT ![k] = NoPixmap]
       /\ T.flip_seq = q /\ T.ms_drm_queue = U.ms_drm_queue
       /\ T.wait_for_damage = Gone(U.wait_for_damage)
       /\ T.notify_on_damage = Gone(U.notify_on_damage)
       /\ T.damage = Gone(U.damage)
       /\ T.odd = [U.odd EXCEPT ![k] = @ \cap {"overlap"}]
  <2>1. DOMAIN U = Fields
    BY <1>5 DEF SharedTypes
  <2>2. /\ DOMAIN T = Fields /\ T.vtSema = U.vtSema /\ T.full = U.full
        /\ T.flipping_active = U.flipping_active /\ T.on = U.on
    BY <1>2, <2>1 DEF Fields
  <2>3. T.enable_flipping = [U.enable_flipping EXCEPT ![k] = FALSE]
    BY <1>2, <2>1 DEF Fields
  <2>4. T.prime_pixmap = [U.prime_pixmap EXCEPT ![k] = NoPixmap]
    BY <1>2, <2>1 DEF Fields
  <2>5. T.prime_pixmap_back = [U.prime_pixmap_back EXCEPT ![k] = NoPixmap]
    BY <1>2, <2>1 DEF Fields
  <2>6. T.flip_seq = q /\ T.ms_drm_queue = U.ms_drm_queue
    BY <1>2, <2>1 DEF Fields
  <2>7. T.wait_for_damage = Gone(U.wait_for_damage)
    BY <1>2, <2>1 DEF Fields
  <2>8. T.notify_on_damage = Gone(U.notify_on_damage)
    BY <1>2, <2>1 DEF Fields
  <2>9. T.damage = Gone(U.damage)
    BY <1>2, <2>1 DEF Fields
  <2>10. T.odd = [U.odd EXCEPT ![k] = @ \cap {"overlap"}]
    BY <1>2, <2>1 DEF Fields
  <2> QED BY <2>2, <2>3, <2>4, <2>5, <2>6, <2>7, <2>8, <2>9, <2>10
<1>12. /\ \A j \in SinkCrtcs \ {k} :
            /\ T.enable_flipping[j] = U.enable_flipping[j]
            /\ T.prime_pixmap[j] = U.prime_pixmap[j]
            /\ T.prime_pixmap_back[j] = U.prime_pixmap_back[j]
            /\ T.odd[j] = U.odd[j]
       /\ ~T.enable_flipping[k] /\ ~T.flipping_active[k]
       /\ T.prime_pixmap[k] = NoPixmap /\ T.prime_pixmap_back[k] = NoPixmap
       /\ T.odd[k] = U.odd[k] \cap {"overlap"}
  BY <1>5, <1>8, <1>11 DEF SharedTypes
<1>13. /\ T.odd \in [SinkCrtcs -> SUBSET Oddities]
       /\ T.enable_flipping \in [SinkCrtcs -> BOOLEAN]
       /\ T.prime_pixmap \in [SinkCrtcs -> Pixmaps \cup {NoPixmap}]
       /\ T.prime_pixmap_back \in [SinkCrtcs -> Pixmaps \cup {NoPixmap}]
  BY <1>5, <1>11 DEF SharedTypes
<1>14. /\ T.wait_for_damage \in [Pixmaps -> BOOLEAN]
          /\ T.notify_on_damage \in [Pixmaps -> BOOLEAN]
       /\ T.damage \in [Pixmaps -> BOOLEAN]
       /\ \A x \in Pixmaps \ Targets(S, k) : /\ T.wait_for_damage[x] = U.wait_for_damage[x]
                                             /\ T.notify_on_damage[x] = U.notify_on_damage[x]
  BY <1>5, <1>10, <1>11 DEF SharedTypes
<1>15. SharedTypes(T)
  BY <1>5, <1>9, <1>11, <1>13, <1>14 DEF SharedTypes
<1>16. /\ Targets(T, k) = {}
       /\ \A j \in SinkCrtcs \ {k} : Targets(T, j) = Targets(U, j)
       /\ \A j \in SinkCrtcs : Entries(T, j) = Entries(U, j)
  BY <1>11, <1>12 DEF Targets, Entries
<1>17. Separate(T)
  <2>1. Separate(U)
    BY <1>7 DEF Good
  <2> QED BY <1>11, <1>12, <1>16, <2>1 DEF Separate
<1>18. ASSUME ~T.full
       PROVE  Others(U, T, k) /\ Numbered(T) /\ One(T, k) /\ Awake(T, k)
  <2>1. Sound(U)
    BY <1>7, <1>11, <1>18 DEF Good
  <2>2. ASSUME NEW j \in SinkCrtcs \ {k}, NEW x \in Targets(U, j)
        PROVE  x \in Pixmaps \ Targets(S, k)
    BY <1>5, <1>7, <1>8, TargetsArePixmaps DEF Good, Separate
  <2>3. Others(U, T, k)
    BY <1>9, <1>11, <1>12, <1>14, <1>16, <2>2 DEF Others
  <2>4. Numbered(T)
    BY <1>9, <1>11, <1>16, <2>1 DEF Sound, Numbered
  <2>5. One(T, k)
    BY <1>8, <1>12, <1>16, <2>1 DEF Sound, One
  <2>6. Awake(T, k)
    BY <1>12 DEF Awake
  <2> QED BY <2>3, <2>4, <2>5, <2>6
<1>19. Good(T, C \ {k})
  <2>1. (C \ {k}) \ {k} \subseteq C \ {k} /\ k \notin C \ {k}
    OBVIOUS
  <2> QED BY <1>0, <1>7, <1>11, <1>15, <1>17, <1>18, <2>1, GoodIf
<1>20. Ready(T, k)
  BY <1>12 DEF Ready
<1>21. T.vtSema = S.vtSema
  BY <1>8, <1>11 DEF SamePixmaps
<1> QED BY <1>12, <1>19, <1>20, <1>21, GoodReady

Added(S, k, w) == [S EXCEPT !.odd[k] = @ \cup {w}]

LEMMA AddedIs ==
    ASSUME NEW S, SharedTypes(S), NEW k \in SinkCrtcs, NEW w \in Oddities,
           NEW T, T = Added(S, k, w)
    PROVE  /\ Same(S, T) /\ SharedTypes(T) /\ T.on = S.on
           /\ \A j \in SinkCrtcs \ {k} : T.odd[j] = S.odd[j]
           /\ T.odd[k] = S.odd[k] \cup {w}
<1>1. DOMAIN S = Fields
  BY DEF SharedTypes
<1>2. Same(S, T) /\ T.on = S.on /\ T.odd = [S.odd EXCEPT ![k] = @ \cup {w}]
  BY <1>1 DEF Added, Fields, Same, SamePixmaps, SameQueue, SameDamage
<1>3. S.odd \in [SinkCrtcs -> SUBSET Oddities] /\ S.on \in [SinkCrtcs -> BOOLEAN]
  BY DEF SharedTypes
<1>4. T.odd \in [SinkCrtcs -> SUBSET Oddities]
  BY <1>2, <1>3
<1>5. SharedTypes(T)
  BY <1>2, <1>3, <1>4, SameTypes
<1> QED BY <1>2, <1>3, <1>5

\* New pixmaps are nobody's.
LEMMA AttachedKeeps ==
    ASSUME NEW C \in SUBSET SinkCrtcs, NEW k \in SinkCrtcs, NEW S, Good(S, C),
           S.prime_pixmap[k] = NoPixmap, S.prime_pixmap_back[k] = NoPixmap,
           ~S.flipping_active[k], NEW b \in BOOLEAN,
           NEW x \in FreePixmaps(S), NEW y \in (FreePixmaps(S) \ {x}) \cup {NoPixmap},
           NEW T, T = Attached(S, k, x, y, b)
    PROVE  Good(T, C \ {k}) /\ T.vtSema = S.vtSema
<1> DEFINE u == [p \in Pixmaps |-> S.damage[p] \/ p \in {x, y} \ {NoPixmap}]
           f == [p \in Pixmaps |-> IF p \in {x, y} \ {NoPixmap} THEN b ELSE S.fb_id[p]]
           v == [p \in Pixmaps |-> S.defer[p] \/ (p \in {x, y} \ {NoPixmap} /\ y # NoPixmap)]
           w == IF b THEN S.odd[k] ELSE S.odd[k] \cup {"no framebuffer"}
           d == y # NoPixmap
<1>0. SharedTypes(S) /\ Separate(S) /\ DOMAIN S = Fields
  BY DEF Good, SharedTypes
<1>1. x \in Pixmaps /\ x # NoPixmap /\ y \in Pixmaps \cup {NoPixmap} /\ x # y
  BY DEF FreePixmaps, Pixmaps, NoPixmap
<1>2. /\ \A j \in SinkCrtcs : x \notin Targets(S, j) /\ (y # NoPixmap => y \notin Targets(S, j))
      /\ \A e \in S.ms_drm_queue : e.front # x /\ (y # NoPixmap => e.front # y)
  BY DEF FreePixmaps, Live
<1>3. T = [S EXCEPT !.enable_flipping[k] = d, !.prime_pixmap[k] = x, !.prime_pixmap_back[k] = y,
                    !.fb_id = f, !.damage = u, !.defer = v, !.odd[k] = w]
  BY DEF Attached
<1>4. /\ u \in [Pixmaps -> BOOLEAN] /\ w \in SUBSET Oddities /\ d \in BOOLEAN
         /\ (d <=> y # NoPixmap)
      /\ "overlap" \in w <=> "overlap" \in S.odd[k]
  <2>1. "no framebuffer" \in Oddities /\ S.odd[k] \in SUBSET Oddities
    BY <1>0 DEF Oddities, SharedTypes
  <2>2. u \in [Pixmaps -> BOOLEAN]
    BY <1>0 DEF SharedTypes
  <2> QED BY <2>1, <2>2
<1> HIDE DEF u, f, v, w, d
<1>5. /\ DOMAIN T = Fields /\ SameQueue(S, T) /\ SameWaits(S, T) /\ T.vtSema = S.vtSema
      /\ T.flipping_active = S.flipping_active /\ T.on = S.on
      /\ T.damage = u
  BY <1>0, <1>3 DEF Fields, SameQueue, SameWaits
<1>6. T.enable_flipping = [S.enable_flipping EXCEPT ![k] = d]
  BY <1>0, <1>3 DEF Fields
<1>7. T.prime_pixmap = [S.prime_pixmap EXCEPT ![k] = x]
  BY <1>0, <1>3 DEF Fields
<1>8. T.prime_pixmap_back = [S.prime_pixmap_back EXCEPT ![k] = y]
  BY <1>0, <1>3 DEF Fields
<1>9. T.odd = [S.odd EXCEPT ![k] = w]
  BY <1>0, <1>3 DEF Fields
<1>10. /\ T.odd \in [SinkCrtcs -> SUBSET Oddities]
       /\ T.enable_flipping \in [SinkCrtcs -> BOOLEAN]
       /\ T.prime_pixmap \in [SinkCrtcs -> Pixmaps \cup {NoPixmap}]
       /\ T.prime_pixmap_back \in [SinkCrtcs -> Pixmaps \cup {NoPixmap}]
  BY <1>0, <1>1, <1>4, <1>6, <1>7, <1>8, <1>9 DEF SharedTypes
<1>11. SharedTypes(T)
  BY <1>0, <1>4, <1>5, <1>10 DEF SharedTypes, SameQueue, SameWaits
<1>12. /\ \A j \in SinkCrtcs \ {k} :
            /\ T.enable_flipping[j] = S.enable_flipping[j]
            /\ T.prime_pixmap[j] = S.prime_pixmap[j]
            /\ T.prime_pixmap_back[j] = S.prime_pixmap_back[j]
            /\ T.odd[j] = S.odd[j]
       /\ T.enable_flipping[k] = d /\ T.prime_pixmap[k] = x /\ T.prime_pixmap_back[k] = y
       /\ T.odd[k] = w
  BY <1>0, <1>6, <1>7, <1>8, <1>9 DEF SharedTypes
<1>13. /\ Targets(T, k) = {x, y} \ {NoPixmap}
       /\ \A j \in SinkCrtcs \ {k} : Targets(T, j) = Targets(S, j)
       /\ \A j \in SinkCrtcs : Entries(T, j) = Entries(S, j)
  BY <1>5, <1>12 DEF Targets, Entries, SameQueue
<1>14. Separate(T)
  <2>1. ~T.flipping_active[k]
        /\ \A j \in SinkCrtcs \ {k} : T.flipping_active[j] = S.flipping_active[j]
    BY <1>5
  <2>2. ASSUME NEW j \in SinkCrtcs
        PROVE  /\ \A m \in SinkCrtcs : m # j => Targets(T, m) \cap Targets(T, j) = {}
               /\ T.prime_pixmap[j] # NoPixmap => T.prime_pixmap[j] # T.prime_pixmap_back[j]
               /\ T.enable_flipping[j] <=> T.prime_pixmap_back[j] # NoPixmap
               /\ T.prime_pixmap_back[j] # NoPixmap => T.prime_pixmap[j] # NoPixmap
               /\ T.flipping_active[j] => T.enable_flipping[j]
    <3>1. CASE j = k
      BY <1>1, <1>2, <1>4, <1>12, <1>13, <2>1, <3>1
    <3>2. CASE j # k
      <4>1. \A m \in SinkCrtcs : m # j => Targets(T, m) \cap Targets(T, j) = {}
        BY <1>0, <1>2, <1>13, <3>2 DEF Separate
      <4> QED BY <1>0, <1>12, <2>1, <3>2, <4>1 DEF Separate
    <3> QED BY <3>1, <3>2
  <2> QED BY <2>2 DEF Separate
<1>15. ASSUME ~T.full
       PROVE  Others(S, T, k) /\ Numbered(T) /\ One(T, k) /\ Awake(T, k)
  <2>1. Sound(S)
    BY <1>5, <1>15 DEF Good, SameQueue
  <2>2. Others(S, T, k)
    BY <1>5, <1>12, <1>13 DEF Others, SameQueue, SameWaits
  <2>3. \A e \in T.ms_drm_queue, j \in SinkCrtcs : j # e.crtc => e.front \notin Targets(T, j)
    <3>1. \A e \in S.ms_drm_queue, j \in SinkCrtcs \ {k} : j # e.crtc
          => e.front \notin Targets(T, j)
      BY <1>13, <2>1 DEF Sound, Numbered
    <3>2. \A e \in S.ms_drm_queue : e.front \notin Targets(T, k)
      BY <1>2, <1>13
    <3> QED BY <1>5, <3>1, <3>2 DEF SameQueue
  <2>4. Numbered(T)
    BY <1>5, <2>1, <2>3 DEF Sound, Numbered, SameQueue
  <2>5. One(T, k)
    BY <1>4, <1>12, <1>13, <2>1 DEF Sound, One
  <2>6. Awake(T, k)
    BY <1>5 DEF Awake
  <2> QED BY <2>2, <2>4, <2>5, <2>6
<1>16. S.full => T.full
  BY <1>5 DEF SameQueue
<1>17. C \ {k} \in SUBSET SinkCrtcs /\ (C \ {k}) \ {k} \subseteq C /\ k \notin C \ {k}
  OBVIOUS
<1> QED BY <1>5, <1>11, <1>14, <1>15, <1>16, <1>17, GoodIf

LEMMA RefusedKeeps ==
    ASSUME NEW k \in SinkCrtcs, NEW S, Good(S, SinkCrtcs \ {k}),
           NEW T, T = Added(S, k, "refused")
    PROVE  Good(T, SinkCrtcs)
<1>2. /\ "refused" \in Oddities /\ "refused" \in Telling
      /\ "refused" # "overlap" /\ "refused" # "stopped"
  BY DEF Oddities, Telling
<1>3. /\ Same(S, T) /\ SharedTypes(T) /\ T.on = S.on
      /\ \A j \in SinkCrtcs \ {k} : T.odd[j] = S.odd[j]
      /\ T.odd[k] = S.odd[k] \cup {"refused"}
  <2>1. SharedTypes(S)
    BY DEF Good
  <2> QED BY <1>2, <2>1, AddedIs
<1>4. Good(T, (SinkCrtcs \ {k}) \ {k})
  BY <1>2, <1>3, SwitchKeeps
<1>5. (SinkCrtcs \ {k}) \ {k} = SinkCrtcs \ {k} /\ SinkCrtcs \cup {k} = SinkCrtcs
  OBVIOUS
<1>6. Ready(T, k)
  BY <1>2, <1>3 DEF Ready
<1>7. Good(T, SinkCrtcs \cup {k})
  BY <1>4, <1>5, <1>6, GoodReady
<1> QED BY <1>5, <1>7

LEMMA CountedKeeps ==
    ASSUME NEW S, Good(S, SinkCrtcs), NEW n, NEW T, T = [S EXCEPT !.faults = n]
    PROVE  Good(T, SinkCrtcs)
<1>1. DOMAIN S = Fields
  BY DEF Good, SharedTypes
<1>2. Same(S, T) /\ T.on = S.on /\ T.odd = S.odd
  BY <1>1 DEF Fields, Same, SamePixmaps, SameQueue, SameDamage
<1>3. SinkCrtcs \in SUBSET SinkCrtcs
  OBVIOUS
<1> QED BY <1>2, <1>3, SameGood

-----------------------------------------------------------------------------
(* Damage *)

\* Only what is odd of CRTC k changes.
LEMMA MarkedKeeps ==
    ASSUME NEW S, SharedTypes(S), Separate(S), NEW k \in SinkCrtcs,
           NEW T, Same(S, T), T.on = S.on, \A j \in SinkCrtcs \ {k} : T.odd[j] = S.odd[j]
    PROVE  /\ Separate(T) /\ Others(S, T, k)
           /\ Numbered(S) => Numbered(T)
           /\ Entries(T, k) = Entries(S, k) /\ T.full = S.full
<1>1. \A j \in SinkCrtcs : Targets(T, j) = Targets(S, j) /\ Entries(T, j) = Entries(S, j)
  BY DEF Targets, Entries, Same, SamePixmaps, SameQueue
<1>2. T.ms_drm_queue = S.ms_drm_queue /\ T.flip_seq = S.flip_seq /\ T.full = S.full
  BY DEF Same, SameQueue
<1>3. Separate(T)
  BY <1>1 DEF Separate, Same, SamePixmaps
<1>4. ASSUME Numbered(S) PROVE Numbered(T)
  BY <1>1, <1>2, <1>4 DEF Numbered
<1>5. Others(S, T, k)
  BY <1>1 DEF Others, Same, SamePixmaps, SameQueue, SameDamage
<1> QED BY <1>1, <1>2, <1>3, <1>4, <1>5

\* The sink is told of damage to x.
LEMMA NotifyKeeps ==
    ASSUME NEW C \in SUBSET SinkCrtcs, NEW k \in SinkCrtcs, NEW S, Good(S, C),
           NEW x \in Targets(S, k), NEW T, T = NotifyDamage(S, k, x)
    PROVE  Good(T, C) /\ SamePixmaps(S, T)
<1> DEFINE U == [S EXCEPT !.notify_on_damage[x] = FALSE, !.wait_for_damage[x] = FALSE]
           Q == drmmode_SharedPixmapPresentOnVBlank(U, k, x)
           Sole(V) == /\ \A e, w \in Entries(V, k) : e = w
                      /\ \A e \in Entries(V, k) :
                            /\ e.front = S.prime_pixmap_back[k] /\ e.back = S.prime_pixmap[k]
                            /\ V.flip_seq[e.front] = e.seq
                      /\ V.ok => Entries(V, k) # {}
                      /\ Entries(V, k) # {} => S.flipping_active[k] \/ V.ok
<1>0. SharedTypes(S) /\ Separate(S) /\ x \in Pixmaps
  BY TargetsArePixmaps DEF Good
<1>1. /\ DOMAIN U = Fields /\ SamePixmaps(S, U) /\ SameQueue(S, U)
      /\ U.damage = S.damage /\ U.flipping_active = S.flipping_active
      /\ U.on = S.on /\ U.odd = S.odd
      /\ U.notify_on_damage = [S.notify_on_damage EXCEPT ![x] = FALSE]
      /\ U.wait_for_damage = [S.wait_for_damage EXCEPT ![x] = FALSE]
  BY <1>0 DEF SharedTypes, Fields, SamePixmaps, SameQueue
<1>2. T = IF ~S.notify_on_damage[x] THEN S
          ELSE IF ~S.wait_for_damage[x] \/ S.prime_pixmap_back[k] = NoPixmap THEN U
          ELSE Odd(Odd(Q, k, "stopped", S.flipping_active[k] /\ ~Q.ok),
                   k, "overlap", ~S.flipping_active[k] /\ Q.ok)
  BY DEF NotifyDamage
<1> HIDE DEF U
<1>3. /\ U.wait_for_damage \in [Pixmaps -> BOOLEAN]
         /\ U.notify_on_damage \in [Pixmaps -> BOOLEAN]
      /\ \A y \in Pixmaps \ {x} : /\ U.wait_for_damage[y] = S.wait_for_damage[y]
                                  /\ U.notify_on_damage[y] = S.notify_on_damage[y]
  BY <1>0, <1>1 DEF SharedTypes
<1>4. SharedTypes(U)
  BY <1>0, <1>1, <1>3 DEF SharedTypes, SamePixmaps, SameQueue
<1>5. \A j \in SinkCrtcs : Targets(U, j) = Targets(S, j) /\ Entries(U, j) = Entries(S, j)
  BY <1>1 DEF Targets, Entries, SamePixmaps, SameQueue
<1>6. Separate(U)
  BY <1>0, <1>1, <1>5 DEF Separate, SamePixmaps
<1>7. Others(S, U, k)
  <2>1. ASSUME NEW j \in SinkCrtcs \ {k}, NEW y \in Targets(S, j)
        PROVE  y \in Pixmaps \ {x}
    BY <1>0, TargetsArePixmaps DEF Separate
  <2> QED BY <1>1, <1>3, <1>5, <2>1 DEF Others, SamePixmaps, SameQueue
<1>8. ASSUME ~S.full PROVE Numbered(U) /\ One(U, k)
  BY <1>1, <1>5, <1>8 DEF Good, Sound, Numbered, One, SamePixmaps, SameQueue
<1>9. CASE ~S.notify_on_damage[x]
  BY <1>2, <1>9 DEF SamePixmaps
<1>10. CASE S.notify_on_damage[x]
            /\ (~S.wait_for_damage[x] \/ S.prime_pixmap_back[k] = NoPixmap)
  <2>1. T = U
    BY <1>2, <1>10
  <2>2. ASSUME ~S.full PROVE Awake(U, k) /\ (Ready(S, k) => Ready(U, k))
    <3>1. Awake(S, k)
      BY <2>2 DEF Good, Sound
    <3>2. S.flipping_active[k] => S.prime_pixmap_back[k] # NoPixmap
          /\ S.prime_pixmap_back[k] \in Pixmaps
      BY <1>0 DEF Separate, SharedTypes
    <3>3. Awake(U, k)
      BY <1>1, <1>3, <1>5, <1>10, <3>1, <3>2 DEF Awake, SamePixmaps
    <3>4. Ready(S, k) => Ready(U, k)
      BY <1>1 DEF Ready, SamePixmaps
    <3> QED BY <3>3, <3>4
  <2>3. S.full => U.full
    BY <1>1 DEF SameQueue
  <2>4. ~U.full => ~S.full /\ \A j \in C : Ready(S, j)
    BY <2>3 DEF Good
  <2>5. Good(U, C)
    BY <1>4, <1>6, <1>7, <1>8, <2>2, <2>3, <2>4, GoodIf
  <2> QED BY <1>1, <2>1, <2>5
<1>11. CASE S.notify_on_damage[x] /\ S.wait_for_damage[x] /\ S.prime_pixmap_back[k] # NoPixmap
  <2>1. /\ S.flipping_active[k] /\ ~Q.ok => T = Added(Q, k, "stopped")
        /\ ~S.flipping_active[k] /\ Q.ok => T = Added(Q, k, "overlap")
        /\ ~(S.flipping_active[k] /\ ~Q.ok) /\ ~(~S.flipping_active[k] /\ Q.ok) => T = Q
    BY <1>2, <1>11 DEF Odd, Added
  <2>2. /\ Kept(U, Q, k) /\ Q.full \in BOOLEAN /\ (U.full => Q.full)
        /\ Q.ok \in BOOLEAN
        /\ "stopped" \in Q.odd[k] <=> "stopped" \in U.odd[k]
        /\ "refused" \in Q.odd[k] <=> "refused" \in U.odd[k]
        /\ "overlap" \in U.odd[k] => "overlap" \in Q.odd[k]
        /\ ~Q.full => /\ Others(U, Q, k) /\ Numbered(Q)
                      /\ "overlap" \notin Q.odd[k] => Sole(Q)
    <3>1. CASE x # S.prime_pixmap_back[k]
      <4>1. Q = [U EXCEPT !.ok = FALSE]
        BY <1>1, <3>1 DEF drmmode_SharedPixmapPresentOnVBlank, Failed, SamePixmaps
      <4> HIDE DEF Q
      <4>2. Same(U, Q) /\ Q.on = U.on /\ Q.odd = U.odd /\ Q.ok = FALSE
        BY <1>1, <4>1 DEF Fields, Same, SamePixmaps, SameQueue, SameDamage
      <4>3. SharedTypes(Q)
        BY <1>4, <4>2, SameTypes DEF SharedTypes
      <4>4. Kept(U, Q, k)
        BY <4>2, <4>3 DEF Kept, Same
      <4>5. \A j \in SinkCrtcs : Targets(Q, j) = Targets(U, j) /\ Entries(Q, j) = Entries(U, j)
        BY <4>2 DEF Targets, Entries, Same, SamePixmaps, SameQueue
      <4>6. Others(U, Q, k)
        BY <4>2, <4>5 DEF Others, Same, SamePixmaps, SameQueue, SameDamage
      <4>7. ASSUME ~Q.full PROVE Numbered(U) /\ One(U, k)
        BY <1>1, <1>8, <4>2, <4>7 DEF Same, SameQueue
      <4>8. ~Q.full => Numbered(Q)
        BY <4>2, <4>5, <4>7 DEF Numbered, Same, SameQueue
      <4>9. Q.full = U.full /\ Q.full \in BOOLEAN /\ Q.flip_seq = U.flip_seq
        BY <4>2, <4>3 DEF SharedTypes, Same, SameQueue
      <4>10. ASSUME ~Q.full, "overlap" \notin Q.odd[k] PROVE Sole(Q)
        <5>1. One(U, k) /\ "overlap" \notin U.odd[k] /\ ~Q.ok
          BY <4>2, <4>7, <4>10
        <5>2. /\ \A e, w \in Entries(U, k) : e = w
              /\ Entries(U, k) # {} => U.flipping_active[k]
              /\ \A e \in Entries(U, k) :
                    /\ e.front = U.prime_pixmap_back[k] /\ e.back = U.prime_pixmap[k]
                    /\ U.flip_seq[e.front] = e.seq
          BY <5>1 DEF One
        <5> QED BY <1>1, <4>5, <4>9, <5>1, <5>2 DEF SamePixmaps
      <4> HIDE DEF Sole
      <4> QED BY <4>2, <4>4, <4>6, <4>8, <4>9, <4>10
    <3>2. CASE x = S.prime_pixmap_back[k]
      <4>1. U.prime_pixmap[k] # x /\ U.prime_pixmap_back[k] = x
            /\ U.prime_pixmap[k] = S.prime_pixmap[k]
        BY <1>0, <1>1, <1>11, <3>2 DEF Separate, SamePixmaps
      <4>2. /\ Kept(U, Q, k) /\ SameDamage(U, Q) /\ Q.ok = U.on[k]
            /\ \A w \in {"stopped", "refused"} : w \in Q.odd[k] <=> w \in U.odd[k]
            /\ "overlap" \in Q.odd[k] <=> ("overlap" \in U.odd[k] \/ Entries(U, k) # {})
            /\ Q.ok => Filed(U, Q, k, x)
            /\ ~Q.ok => Unfiled(U, Q, x)
        BY <1>0, <1>4, <4>1, PresentOnVBlankIs
      <4> HIDE DEF Q
      <4>3. /\ SharedTypes(Q) /\ Q.full \in BOOLEAN /\ Q.ok \in BOOLEAN /\ SameWaits(U, Q)
            /\ Q.prime_pixmap_back[k] = x
        <5>1. U.on[k] \in BOOLEAN
          BY <1>4 DEF SharedTypes
        <5> QED BY <4>1, <4>2, <5>1 DEF Kept, SharedTypes, SameDamage, SameWaits, SamePixmaps
      <4>4. U.full => Q.full
        BY <4>2, <4>3 DEF Filed, FiledAs, Unfiled
      <4>5. x \in Targets(U, k)
        BY <1>5
      <4>6. ASSUME ~Q.full PROVE Numbered(U) /\ One(U, k)
        BY <1>1, <1>8, <4>4, <4>6 DEF SameQueue
      <4>7. ASSUME Q.ok, ~Q.full
            PROVE  /\ Others(U, Q, k) /\ Numbered(Q)
                   /\ "overlap" \notin Q.odd[k] => Sole(Q)
        <5>1. /\ Numbered(Q) /\ Others(U, Q, k)
              /\ \E w \in Entry :
                    /\ Entries(Q, k) = Entries(U, k) \cup {w}
                    /\ w.front = x /\ w.back = U.prime_pixmap[k]
                    /\ Q.flip_seq[x] = w.seq
          BY <1>0, <1>4, <1>6, <4>2, <4>3, <4>5, <4>6, <4>7, FiledKeeps
        <5>2. "overlap" \notin Q.odd[k] => Entries(U, k) = {}
          BY <4>2
        <5> QED BY <3>2, <4>1, <4>7, <5>1, <5>2
      <4>8. ASSUME ~Q.ok, ~Q.full
            PROVE  /\ Others(U, Q, k) /\ Numbered(Q)
                   /\ "overlap" \notin Q.odd[k] => Sole(Q)
        <5>1. Numbered(Q) /\ Others(U, Q, k) /\ Entries(Q, k) = Entries(U, k)
          BY <1>0, <1>4, <1>6, <4>2, <4>3, <4>5, <4>6, <4>8, UnfiledKeeps
        <5>2. "overlap" \notin Q.odd[k] => Entries(Q, k) = {}
          BY <4>2, <5>1
        <5> QED BY <4>8, <5>1, <5>2
      <4> HIDE DEF Sole
      <4> QED BY <4>2, <4>3, <4>4, <4>7, <4>8
    <3> QED BY <3>1, <3>2
  <2> HIDE DEF Q
  <2>3. /\ SharedTypes(Q) /\ SamePixmaps(S, Q) /\ Q.flipping_active = S.flipping_active
        /\ Q.on = S.on /\ (S.full => Q.full)
    BY <1>1, <2>2 DEF Kept, SamePixmaps, SameQueue
  <2>4. Separate(Q)
    <3>1. \A j \in SinkCrtcs : Targets(Q, j) = Targets(S, j)
      BY <2>3 DEF Targets, SamePixmaps
    <3> QED BY <1>0, <2>3, <3>1 DEF Separate, SamePixmaps
  <2>5. ~Q.full => Others(S, Q, k)
    BY <1>7, <2>2, OthersTransitive
  <2>6. ~Q.full /\ k \in C => Ready(S, k)
    BY <2>3 DEF Good
  <2>7. CASE S.flipping_active[k] /\ ~Q.ok
    <3>1. T = Added(Q, k, "stopped")
      BY <2>1, <2>7
    <3>a. "stopped" \in Oddities
      BY DEF Oddities
    <3>b. /\ Same(Q, T) /\ SharedTypes(T) /\ T.on = Q.on
          /\ \A j \in SinkCrtcs \ {k} : T.odd[j] = Q.odd[j]
          /\ T.odd[k] = Q.odd[k] \cup {"stopped"}
      BY <2>3, <3>1, <3>a, AddedIs
    <3>2. /\ Separate(T) /\ Others(Q, T, k) /\ (Numbered(Q) => Numbered(T))
          /\ Entries(T, k) = Entries(Q, k) /\ T.full = Q.full
      BY <2>3, <2>4, <3>b, MarkedKeeps
    <3>c. ~T.full => Others(S, T, k)
      BY <2>5, <3>2, OthersTransitive
    <3>3. SamePixmaps(S, T)
      BY <2>3, <3>b DEF Same, SamePixmaps
    <3>4. ASSUME ~T.full PROVE One(T, k) /\ Awake(T, k) /\ Ready(T, k)
      <4>1. "stopped" \in Telling
        BY DEF Telling
      <4>2. One(T, k)
        BY <2>2, <2>3, <2>7, <3>b, <3>2, <3>4 DEF One, Same, SamePixmaps, SameQueue
      <4>3. Awake(T, k)
        BY <3>b DEF Awake
      <4>4. Ready(T, k)
        BY <3>b, <4>1 DEF Ready
      <4> QED BY <4>2, <4>3, <4>4
    <3>5. Good(T, C)
      BY <2>2, <2>3, <3>b, <3>2, <3>c, <3>4, GoodIf
    <3> QED BY <3>3, <3>5
  <2>8. CASE ~S.flipping_active[k] /\ Q.ok
    <3>1. T = Added(Q, k, "overlap")
      BY <2>1, <2>8
    <3>a. "overlap" \in Oddities
      BY DEF Oddities
    <3>b. /\ Same(Q, T) /\ SharedTypes(T) /\ T.on = Q.on
          /\ \A j \in SinkCrtcs \ {k} : T.odd[j] = Q.odd[j]
          /\ T.odd[k] = Q.odd[k] \cup {"overlap"}
      BY <2>3, <3>1, <3>a, AddedIs
    <3>2. /\ Separate(T) /\ Others(Q, T, k) /\ (Numbered(Q) => Numbered(T))
          /\ T.full = Q.full
      BY <2>3, <2>4, <3>b, MarkedKeeps
    <3>c. ~T.full => Others(S, T, k)
      BY <2>5, <3>2, OthersTransitive
    <3>3. SamePixmaps(S, T)
      BY <2>3, <3>b DEF Same, SamePixmaps
    <3>4. One(T, k) /\ Awake(T, k) /\ Ready(T, k)
      BY <3>b DEF One, Awake, Ready, Telling
    <3>5. Good(T, C)
      BY <2>2, <2>3, <3>b, <3>2, <3>c, <3>4, GoodIf
    <3> QED BY <3>3, <3>5
  <2>9. CASE ~(S.flipping_active[k] /\ ~Q.ok) /\ ~(~S.flipping_active[k] /\ Q.ok)
    <3>1. T = Q /\ S.flipping_active[k] = Q.ok
      <4>1. S.flipping_active[k] \in BOOLEAN
        BY <1>0 DEF SharedTypes
      <4> QED BY <2>1, <2>2, <2>9, <4>1
    <3>2. ASSUME ~Q.full PROVE One(Q, k) /\ Awake(Q, k) /\ (Ready(S, k) => Ready(Q, k))
      <4>1. One(Q, k)
        BY <2>2, <2>3, <3>1, <3>2 DEF One, SamePixmaps
      <4>2. Awake(Q, k)
        BY <2>2, <2>3, <3>1, <3>2 DEF Awake
      <4>3. Ready(S, k) => Ready(Q, k)
        <5>1. Q.odd[k] \cap Telling = {} => S.odd[k] \cap Telling = {}
          BY <1>1, <2>2 DEF Telling
        <5> QED BY <2>3, <5>1 DEF Ready, SamePixmaps
      <4> QED BY <4>1, <4>2, <4>3
    <3>3. Good(Q, C)
      BY <2>2, <2>3, <2>4, <2>5, <2>6, <3>2, GoodIf
    <3> QED BY <2>3, <3>1, <3>3
  <2> QED BY <2>7, <2>8, <2>9
<1>12. S.notify_on_damage[x] \in BOOLEAN /\ S.wait_for_damage[x] \in BOOLEAN
  BY <1>0 DEF SharedTypes
<1> QED BY <1>9, <1>10, <1>11, <1>12

\* A pixmap that is out of date is copied, or the sink is told.
LEMMA RedisplayedKeeps ==
    ASSUME NEW C \in SUBSET SinkCrtcs, NEW k \in SinkCrtcs, NEW S, Good(S, C),
           NEW x \in Targets(S, k) \cup {NoPixmap}, NEW T, T = Redisplayed(S, k, x)
    PROVE  Good(T, C) /\ SamePixmaps(S, T)
<1>1. CASE x = NoPixmap \/ ~S.damage[x]
  BY <1>1 DEF Redisplayed, SamePixmaps
<1>2. CASE x # NoPixmap /\ S.damage[x] /\ S.defer[x]
  <2>1. T = NotifyDamage(S, k, x)
    BY <1>2 DEF Redisplayed
  <2> QED BY <1>2, <2>1, NotifyKeeps
<1>3. CASE x # NoPixmap /\ S.damage[x] /\ ~S.defer[x]
  <2> DEFINE U == NotifyDamage(S, k, x)
  <2>1. Good(U, C) /\ SamePixmaps(S, U)
    BY <1>3, NotifyKeeps
  <2>2. T = [U EXCEPT !.damage[x] = FALSE, !.slave_damage[x] = TRUE]
    BY <1>3 DEF Redisplayed
  <2> HIDE DEF U
  <2>3. SharedTypes(U) /\ DOMAIN U = Fields
    BY <2>1 DEF Good, SharedTypes
  <2>4. /\ DOMAIN T = Fields /\ SamePixmaps(U, T) /\ SameQueue(U, T)
        /\ T.wait_for_damage = U.wait_for_damage /\ T.notify_on_damage = U.notify_on_damage
        /\ T.flipping_active = U.flipping_active /\ T.on = U.on /\ T.odd = U.odd
        /\ T.damage = [U.damage EXCEPT ![x] = FALSE]
    BY <2>2, <2>3 DEF Fields, SamePixmaps, SameQueue
  <2>5. T.damage \in [Pixmaps -> BOOLEAN]
    BY <2>3, <2>4 DEF SharedTypes
  <2>6. SharedTypes(T)
    BY <2>3, <2>4, <2>5 DEF SharedTypes, SamePixmaps, SameQueue
  <2>7. Good(T, C)
    BY <2>1, <2>4, <2>6, GoodStays DEF SameQueue
  <2> QED BY <2>1, <2>4, <2>7 DEF SamePixmaps
<1> QED BY <1>1, <1>2, <1>3

LEMMA UpdatedKeeps ==
    ASSUME NEW C \in SUBSET SinkCrtcs, NEW k \in SinkCrtcs, NEW S, Good(S, C),
           NEW T, T = Updated(S, k)
    PROVE  Good(T, C)
<1> DEFINE U == Redisplayed(S, k, S.prime_pixmap[k])
<1>1. /\ S.prime_pixmap[k] \in Targets(S, k) \cup {NoPixmap}
      /\ S.prime_pixmap_back[k] \in Targets(S, k) \cup {NoPixmap}
  BY DEF Targets
<1>2. Good(U, C) /\ SamePixmaps(S, U)
  BY <1>1, RedisplayedKeeps
<1>3. T = Redisplayed(U, k, S.prime_pixmap_back[k])
  BY DEF Updated
<1> HIDE DEF U
<1>4. S.prime_pixmap_back[k] \in Targets(U, k) \cup {NoPixmap}
  BY <1>1, <1>2 DEF Targets, SamePixmaps
<1> QED BY <1>2, <1>3, <1>4, RedisplayedKeeps

-----------------------------------------------------------------------------
(* The event handler *)

\* The event of the entry e is read: e is not queued any more, and the pixmaps change
\* roles if its flip took place.
Taken(S, e)   == [S EXCEPT !.fd = Tail(@), !.ms_drm_queue = @ \ {e}]
Begun(S, e)   == IF e.flip THEN Flipped(Taken(S, e), e) ELSE Taken(S, e)
Presents(e)   == IF e.flip THEN e.back ELSE e.front

\* The handler of CRTC k waits for a flip.
Turning(S, k) == \E e \in Entries(S, k) : e.flip

LEMMA BegunIs ==
    ASSUME NEW S, Good(S, SinkCrtcs), ~S.full, NEW e \in S.ms_drm_queue,
           "overlap" \notin S.odd[e.crtc], NEW k, k = e.crtc, NEW x, x = Presents(e),
           NEW U, U = Begun(S, e)
    PROVE  /\ k \in SinkCrtcs /\ e.flip \in BOOLEAN /\ e \in Entries(S, k)
           /\ S.flipping_active[k] /\ S.enable_flipping[k]
           /\ e.front = S.prime_pixmap_back[k] /\ e.back = S.prime_pixmap[k]
           /\ e.front # e.back
           /\ \A w \in Entries(S, k) : w = e
           /\ SharedTypes(U) /\ Separate(U) /\ Numbered(U) /\ Others(S, U, k)
           /\ U.vtSema = S.vtSema /\ U.enable_flipping = S.enable_flipping
           /\ U.flipping_active = S.flipping_active /\ U.damage = S.damage
           /\ U.full = S.full /\ x \in Pixmaps
           /\ U.prime_pixmap_back[k] = x /\ U.prime_pixmap[k] # x
           /\ \A j \in SinkCrtcs : Targets(U, j) = Targets(S, j)
           /\ Entries(U, k) = {}
           /\ U.odd[k] # S.odd[k] => Turning(S, k) /\ S.shown[k] = e.front
           /\ U.flip = S.flip /\ U.shown = S.shown /\ U.vblanks = S.vblanks
           /\ U.defer = S.defer /\ U.fd = Tail(S.fd)
<1> DEFINE V == Taken(S, e)
           o == IF V.shown[k] = e.front THEN V.odd[k] \ Passing ELSE V.odd[k]
<1>0. DOMAIN S = Fields /\ V = [S EXCEPT !.fd = Tail(@), !.ms_drm_queue = @ \ {e}]
  BY DEF Good, SharedTypes, Taken
<1>1. /\ SharedTypes(S) /\ Separate(S) /\ Numbered(S)
      /\ \A j \in SinkCrtcs : One(S, j) /\ Awake(S, j) /\ Ready(S, j)
  BY DEF Good, Sound
<1>2. k \in SinkCrtcs /\ e.flip \in BOOLEAN /\ e \in Entries(S, k)
  BY <1>1 DEF SharedTypes, Entry, Entries
<1>3. /\ S.flipping_active[k] /\ S.enable_flipping[k]
      /\ e.front = S.prime_pixmap_back[k] /\ e.back = S.prime_pixmap[k]
      /\ \A w \in Entries(S, k) : w = e
      /\ e.front \in Pixmaps /\ e.back \in Pixmaps /\ e.front # e.back
  <2>1. /\ S.flipping_active[k]
        /\ e.front = S.prime_pixmap_back[k] /\ e.back = S.prime_pixmap[k]
        /\ \A w \in Entries(S, k) : w = e
    BY <1>1, <1>2 DEF One
  <2> QED BY <1>1, <1>2, <2>1 DEF Separate, SharedTypes
<1>4. /\ DOMAIN V = Fields /\ SamePixmaps(S, V) /\ SameDamage(S, V)
      /\ V.flipping_active = S.flipping_active /\ V.on = S.on /\ V.odd = S.odd
      /\ V.flip_seq = S.flip_seq /\ V.full = S.full /\ V.ms_drm_queue = S.ms_drm_queue \ {e}
  BY <1>0 DEF Fields, SamePixmaps, SameDamage
<1>5. /\ V.flip = S.flip /\ V.shown = S.shown /\ V.vblanks = S.vblanks
      /\ V.defer = S.defer /\ V.fd = Tail(S.fd)
  BY <1>0 DEF Fields
<1>o. o = IF S.shown[k] = e.front THEN S.odd[k] \ Passing ELSE S.odd[k]
  BY <1>4, <1>5
<1>v. /\ e.flip => U = [V EXCEPT !.prime_pixmap[k] = e.front, !.prime_pixmap_back[k] = e.back,
                               !.odd[k] = o]
      /\ ~e.flip => U = V
      /\ x = IF e.flip THEN e.back ELSE e.front
  BY DEF Begun, Flipped, Presents
<1> HIDE DEF V
<1>6. /\ o \in SUBSET Oddities
      /\ \A w \in Telling : w \in o <=> w \in S.odd[k]
  BY <1>1, <1>2, <1>4 DEF SharedTypes, Passing, Telling
<1> HIDE DEF o
<1>7. /\ DOMAIN U = Fields /\ U.vtSema = S.vtSema /\ U.enable_flipping = S.enable_flipping
      /\ SameDamage(S, U)
      /\ U.flipping_active = S.flipping_active /\ U.on = S.on
      /\ U.flip_seq = S.flip_seq /\ U.full = S.full /\ U.ms_drm_queue = S.ms_drm_queue \ {e}
      /\ U.prime_pixmap_back[k] = x /\ U.prime_pixmap[k] # x
      /\ {U.prime_pixmap[k], U.prime_pixmap_back[k]} = {e.front, e.back}
      /\ U.prime_pixmap \in [SinkCrtcs -> Pixmaps \cup {NoPixmap}]
      /\ U.prime_pixmap_back \in [SinkCrtcs -> Pixmaps \cup {NoPixmap}]
      /\ U.odd \in [SinkCrtcs -> SUBSET Oddities]
      /\ \A j \in SinkCrtcs \ {k} : /\ U.prime_pixmap[j] = S.prime_pixmap[j]
                                    /\ U.prime_pixmap_back[j] = S.prime_pixmap_back[j]
                                    /\ U.odd[j] = S.odd[j]
      /\ \A w \in Telling : w \in U.odd[k] <=> w \in S.odd[k]
  <2>1. CASE e.flip
    <3>1. U = [V EXCEPT !.prime_pixmap[k] = e.front, !.prime_pixmap_back[k] = e.back, !.odd[k] = o]
      BY <1>v, <2>1
    <3>2. x = e.back
      BY <1>v, <2>1
    <3>3. /\ DOMAIN U = Fields /\ U.vtSema = V.vtSema /\ U.enable_flipping = V.enable_flipping
          /\ SameDamage(V, U)
          /\ U.flipping_active = V.flipping_active /\ U.on = V.on
          /\ U.flip_seq = V.flip_seq /\ U.full = V.full /\ U.ms_drm_queue = V.ms_drm_queue
      BY <1>4, <3>1 DEF Fields, SameDamage
    <3>4. U.prime_pixmap = [V.prime_pixmap EXCEPT ![k] = e.front]
      BY <1>4, <3>1 DEF Fields
    <3>5. U.prime_pixmap_back = [V.prime_pixmap_back EXCEPT ![k] = e.back]
      BY <1>4, <3>1 DEF Fields
    <3>6. U.odd = [V.odd EXCEPT ![k] = o]
      BY <1>4, <3>1 DEF Fields
    <3>7. /\ V.prime_pixmap \in [SinkCrtcs -> Pixmaps \cup {NoPixmap}]
          /\ V.prime_pixmap_back \in [SinkCrtcs -> Pixmaps \cup {NoPixmap}]
          /\ V.odd \in [SinkCrtcs -> SUBSET Oddities]
      BY <1>1, <1>4 DEF SharedTypes, SamePixmaps
    <3>8. /\ U.prime_pixmap[k] = e.front /\ U.prime_pixmap_back[k] = e.back
          /\ U.prime_pixmap \in [SinkCrtcs -> Pixmaps \cup {NoPixmap}]
          /\ U.prime_pixmap_back \in [SinkCrtcs -> Pixmaps \cup {NoPixmap}]
          /\ \A j \in SinkCrtcs \ {k} : /\ U.prime_pixmap[j] = V.prime_pixmap[j]
                                        /\ U.prime_pixmap_back[j] = V.prime_pixmap_back[j]
      BY <1>2, <1>3, <3>4, <3>5, <3>7
    <3>9. /\ U.odd \in [SinkCrtcs -> SUBSET Oddities]
          /\ \A j \in SinkCrtcs \ {k} : U.odd[j] = V.odd[j]
          /\ U.odd[k] = o
      BY <1>2, <1>6, <3>6, <3>7
    <3> QED BY <1>3, <1>4, <1>6, <3>2, <3>3, <3>8, <3>9 DEF SameDamage, SamePixmaps
  <2>2. CASE ~e.flip
    <3>1. U = V /\ x = e.front
      BY <1>v, <2>2
    <3> QED BY <1>1, <1>2, <1>3, <1>4, <3>1 DEF SharedTypes, SamePixmaps
  <2> QED BY <1>2, <2>1, <2>2
<1>8. x \in Pixmaps
  BY <1>3, <1>v
<1>9. SharedTypes(U)
  <2>1. U.ms_drm_queue \in SUBSET Entry
    BY <1>1, <1>7 DEF SharedTypes
  <2> QED BY <1>1, <1>7, <2>1 DEF SharedTypes, SameDamage
<1>10. /\ \A j \in SinkCrtcs : Targets(U, j) = Targets(S, j)
       /\ \A j \in SinkCrtcs \ {k} : Entries(U, j) = Entries(S, j)
       /\ Entries(U, k) = {}
  <2>1. Targets(U, k) = Targets(S, k)
    BY <1>3, <1>7 DEF Targets
  <2>2. \A j \in SinkCrtcs \ {k} : Targets(U, j) = Targets(S, j)
    BY <1>7 DEF Targets
  <2>3. \A j \in SinkCrtcs \ {k} : Entries(U, j) = Entries(S, j)
    BY <1>7 DEF Entries
  <2>4. Entries(U, k) = {}
    BY <1>3, <1>7 DEF Entries
  <2> QED BY <2>1, <2>2, <2>3, <2>4
<1>11. Separate(U)
  <2>1. ASSUME NEW j \in SinkCrtcs
        PROVE  /\ U.prime_pixmap[j] # NoPixmap => U.prime_pixmap[j] # U.prime_pixmap_back[j]
               /\ U.enable_flipping[j] <=> U.prime_pixmap_back[j] # NoPixmap
               /\ U.prime_pixmap_back[j] # NoPixmap => U.prime_pixmap[j] # NoPixmap
               /\ U.flipping_active[j] => U.enable_flipping[j]
    <3>1. CASE j = k
      <4>1. U.prime_pixmap[k] # NoPixmap /\ U.prime_pixmap_back[k] # NoPixmap
        BY <1>3, <1>7 DEF NoPixmap, Pixmaps
      <4> QED BY <1>3, <1>7, <3>1, <4>1
    <3>2. CASE j # k
      BY <1>1, <1>7, <3>2 DEF Separate
    <3> QED BY <3>1, <3>2
  <2> QED BY <1>1, <1>10, <2>1 DEF Separate
<1>12. Numbered(U)
  <2>1. \A w \in U.ms_drm_queue : w \in S.ms_drm_queue
    BY <1>7
  <2> QED BY <1>1, <1>7, <1>10, <2>1 DEF Numbered
<1>13. Others(S, U, k)
  BY <1>7, <1>10 DEF Others, SameDamage
<1>14. /\ e.flip /\ S.shown[k] = e.front => U.odd[k] = S.odd[k] \ Passing
       /\ ~e.flip \/ S.shown[k] # e.front => U.odd[k] = S.odd[k]
  <2>1. CASE e.flip
    <3>1. U.odd = [V.odd EXCEPT ![k] = o] /\ V.odd \in [SinkCrtcs -> SUBSET Oddities]
      BY <1>1, <1>4, <1>v, <2>1 DEF Fields, SharedTypes
    <3> QED BY <1>2, <1>o, <2>1, <3>1
  <2>2. CASE ~e.flip
    BY <1>4, <1>v, <2>2
  <2> QED BY <1>2, <2>1, <2>2
<1>15. /\ U.flip = S.flip /\ U.shown = S.shown /\ U.vblanks = S.vblanks
       /\ U.defer = S.defer /\ U.fd = Tail(S.fd)
  <2>1. CASE e.flip
    BY <1>4, <1>5, <1>v, <2>1 DEF Fields
  <2>2. CASE ~e.flip
    BY <1>5, <1>v, <2>2
  <2> QED BY <1>2, <2>1, <2>2
<1>16. U.odd[k] # S.odd[k] => Turning(S, k) /\ S.shown[k] = e.front
  BY <1>2, <1>14 DEF Turning
<1> QED BY <1>2, <1>3, <1>7, <1>8, <1>9, <1>10, <1>11, <1>12, <1>13, <1>15, <1>16
        DEF SameDamage

LEMMA HandlerIs ==
    ASSUME NEW S, NEW e, e.flip \in BOOLEAN, NEW U, U = Begun(S, e),
           NEW P, P = drmmode_SharedPixmapPresent(U, e.crtc, Presents(e)),
           NEW T, T = drmmode_SharedPixmapVBlankEventHandler(Taken(S, e), e)
    PROVE  T = IF P.ok THEN P ELSE Added(P, e.crtc, "stopped")
<1>1. CASE e.flip
  BY <1>1 DEF drmmode_SharedPixmapVBlankEventHandler, Odd, Added, Begun, Presents
<1>2. CASE ~e.flip
  BY <1>2 DEF drmmode_SharedPixmapVBlankEventHandler, Odd, Added, Begun, Presents
<1> QED BY <1>1, <1>2

\* The handler of e is run: e is not queued any more.
LEMMA HandlerKeeps ==
    ASSUME NEW S, Good(S, SinkCrtcs), ~S.full, NEW e \in S.ms_drm_queue,
           "overlap" \notin S.odd[e.crtc],
           NEW T, T = drmmode_SharedPixmapVBlankEventHandler(Taken(S, e), e)
    PROVE  Good(T, SinkCrtcs)
<1> DEFINE k == e.crtc
           U == Begun(S, e)
           x == Presents(e)
           P == drmmode_SharedPixmapPresent(U, k, x)
<1>u. U = Begun(S, e) /\ x = Presents(e) /\ k = e.crtc
  OBVIOUS
<1>p. P = drmmode_SharedPixmapPresent(U, k, x)
  OBVIOUS
<1> HIDE DEF U, x, P, k
<1>1. /\ k \in SinkCrtcs /\ e.flip \in BOOLEAN
      /\ S.flipping_active[k]
      /\ SharedTypes(U) /\ Separate(U) /\ Numbered(U) /\ Others(S, U, k)
      /\ U.flipping_active = S.flipping_active /\ U.full = S.full /\ x \in Pixmaps
      /\ U.prime_pixmap_back[k] = x /\ U.prime_pixmap[k] # x
      /\ Entries(U, k) = {}
  BY <1>u, BegunIs
<1>5. T = IF P.ok THEN P ELSE Added(P, k, "stopped")
  BY <1>1, <1>p, <1>u, HandlerIs
<1>14. /\ Kept(U, P, k) /\ P.ok \in BOOLEAN
  BY <1>1, <1>p, PresentIs
<1>15. ASSUME ~P.full
       PROVE  /\ Numbered(P) /\ Others(U, P, k) /\ Tells(U, P, k)
              /\ "overlap" \notin P.odd[k] =>
                    /\ \A v, w \in Entries(P, k) : v = w
                    /\ \A w \in Entries(P, k) :
                          /\ w.front = P.prime_pixmap_back[k] /\ w.back = P.prime_pixmap[k]
                          /\ P.flip_seq[w.front] = w.seq
              /\ P.ok => \/ Entries(P, k) # {}
                         \/ P.notify_on_damage[x] /\ P.wait_for_damage[x]
  <2>1. /\ SharedTypes(U) /\ Separate(U) /\ Numbered(U) /\ k \in SinkCrtcs
        /\ x \in Pixmaps /\ U.prime_pixmap_back[k] = x /\ Entries(U, k) = {}
    BY <1>1
  <2>2. /\ Numbered(P) /\ Others(U, P, k) /\ Tells(U, P, k)
        /\ "overlap" \notin P.odd[k] =>
              /\ \A v, w \in Entries(P, k) : v = w
              /\ \A w \in Entries(P, k) :
                    /\ w.front = P.prime_pixmap_back[k] /\ w.back = P.prime_pixmap[k]
                    /\ P.flip_seq[w.front] = w.seq
        /\ P.ok => \/ Entries(P, k) # {}
                   \/ P.notify_on_damage[x] /\ P.wait_for_damage[x]
        /\ ~P.ok /\ "overlap" \notin P.odd[k] => Entries(P, k) = {}
    BY <2>1, <1>15, <1>p, PresentKeeps
  <2> QED BY <2>2
<1>16. /\ SharedTypes(P) /\ SamePixmaps(U, P) /\ P.flipping_active = U.flipping_active
       /\ P.on = U.on
  BY <1>14 DEF Kept
<1>17. Separate(P)
  <2>1. \A j \in SinkCrtcs : Targets(P, j) = Targets(U, j)
    BY <1>16 DEF Targets, SamePixmaps
  <2> QED BY <1>1, <1>16, <2>1 DEF Separate, SamePixmaps
<1>18. ASSUME ~P.full PROVE Others(S, P, k)
  BY <1>1, <1>15, <1>18, OthersTransitive
<1>19. SinkCrtcs \in SUBSET SinkCrtcs /\ SinkCrtcs \ {k} \subseteq SinkCrtcs
  OBVIOUS
<1>20. P.flipping_active[k] /\ P.prime_pixmap_back[k] = x
  BY <1>1, <1>16 DEF SamePixmaps
<1>21. CASE P.ok
  <2>1. T = P
    BY <1>5, <1>21
  <2>2. ASSUME ~P.full PROVE One(P, k) /\ Awake(P, k) /\ Ready(P, k)
    BY <1>15, <1>20, <1>21, <2>2 DEF One, Awake, Ready
  <2> QED BY <1>1, <1>15, <1>16, <1>17, <1>18, <1>19, <2>1, <2>2, GoodIf
<1>22. CASE ~P.ok
  <2>1. T = Added(P, k, "stopped") /\ "stopped" \in Oddities
    BY <1>5, <1>22 DEF Oddities
  <2>2. /\ Same(P, T) /\ SharedTypes(T) /\ T.on = P.on
        /\ \A j \in SinkCrtcs \ {k} : T.odd[j] = P.odd[j]
        /\ T.odd[k] = P.odd[k] \cup {"stopped"}
    BY <1>1, <1>16, <2>1, AddedIs
  <2>3. /\ Separate(T) /\ Others(P, T, k) /\ (Numbered(P) => Numbered(T))
        /\ Entries(T, k) = Entries(P, k) /\ T.full = P.full
    BY <1>1, <1>16, <1>17, <2>2, MarkedKeeps
  <2>4. ASSUME ~T.full
        PROVE  Others(S, T, k) /\ Numbered(T) /\ One(T, k) /\ Awake(T, k) /\ Ready(T, k)
    <3>1. Others(S, T, k)
      BY <1>1, <1>18, <2>3, <2>4, OthersTransitive
    <3>2. One(T, k)
      BY <1>15, <1>20, <2>2, <2>3, <2>4 DEF One, Same, SamePixmaps, SameQueue
    <3>3. Awake(T, k)
      BY <2>2 DEF Awake
    <3>4. Ready(T, k)
      BY <1>20, <2>2 DEF Ready, Same
    <3> QED BY <1>15, <2>3, <2>4, <3>1, <3>2, <3>3, <3>4
  <2> QED BY <1>1, <1>19, <2>2, <2>3, <2>4, GoodIf
<1> QED BY <1>14, <1>21, <1>22

-----------------------------------------------------------------------------
(* The loops *)

Loops == {"update", "off", "on", "leave", "enter"}

\* What the loop w does to CRTC k; g is what the next owner of the VT turns on.
Step(w, g, S, k) ==
    CASE w = "update" -> Updated(S, k)
      [] w = "off"    -> SwitchedOff(S, k)
      [] w = "on"     -> SwitchedOn(S, k)
      [] w = "leave"  -> TakenOver(S, k, g[k])
      [] w = "enter"  -> DesiredMode(S, k)

Looped(f, w, g, S, n) ==
    f = [m \in 0..n |-> IF m = 0 THEN S ELSE Step(w, g, f[m - 1], m)]

LoopGood(S, C, w) == Good(S, C) /\ (w = "leave" => ~S.vtSema)

LEMMA StepKeeps ==
    ASSUME NEW w \in Loops, NEW g \in [SinkCrtcs -> BOOLEAN], NEW C \in SUBSET SinkCrtcs,
           NEW k \in SinkCrtcs, w = "update" => k \in C, NEW S, LoopGood(S, C, w),
           NEW T, T = Step(w, g, S, k)
    PROVE  LoopGood(T, C \cup {k}, w)
<1>1. Good(S, C) /\ (w = "leave" => ~S.vtSema)
  BY DEF LoopGood
<1>2. CASE w = "update"
  <2>1. T = Updated(S, k) /\ C \cup {k} = C
    BY <1>2 DEF Step
  <2> QED BY <1>1, <1>2, <2>1, UpdatedKeeps DEF LoopGood
<1>3. CASE w = "off"
  <2>1. T = SwitchedOff(S, k)
    BY <1>3 DEF Step
  <2> QED BY <1>1, <1>3, <2>1, SwitchedOffKeeps DEF LoopGood
<1>4. CASE w = "on"
  <2>1. T = SwitchedOn(S, k)
    BY <1>4 DEF Step
  <2> QED BY <1>1, <1>4, <2>1, SwitchedOnKeeps DEF LoopGood
<1>5. CASE w = "leave"
  <2>1. T = TakenOver(S, k, g[k]) /\ g[k] \in BOOLEAN
    BY <1>5 DEF Step
  <2> QED BY <1>1, <1>5, <2>1, TakenOverKeeps DEF LoopGood
<1>6. CASE w = "enter"
  <2>1. T = DesiredMode(S, k)
    BY <1>6 DEF Step
  <2> QED BY <1>1, <1>6, <2>1, DesiredModeKeeps DEF LoopGood
<1> QED BY <1>2, <1>3, <1>4, <1>5, <1>6 DEF Loops

\* The recursion has a solution.
LEMMA LoopExists ==
    ASSUME NEW w, NEW g, NEW S, NEW n \in Nat
    PROVE  \E f : Looped(f, w, g, S, n)
<1> DEFINE Bad == {k \in Nat : ~\E f : Looped(f, w, g, S, k)}
<1>1. SUFFICES ASSUME Bad # {} PROVE FALSE
  OBVIOUS
<1>2. PICK k \in Bad : \A j \in Bad : k <= j
  <2>1. Bad \in SUBSET Nat
    OBVIOUS
  <2> HIDE DEF Bad
  <2> QED BY <1>1, <2>1, LeastOne
<1>3. CASE k = 0
  <2> DEFINE f == [m \in 0..0 |-> S]
  <2>1. f = [m \in 0..0 |-> IF m = 0 THEN S ELSE Step(w, g, f[m - 1], m)]
    OBVIOUS
  <2> HIDE DEF f
  <2> QED BY <1>2, <1>3, <2>1 DEF Looped
<1>4. CASE k # 0
  <2>1. k \in Nat /\ k - 1 \in Nat /\ k - 1 \notin Bad
    BY <1>2, <1>4
  <2>2. PICK f : Looped(f, w, g, S, k - 1)
    BY <2>1
  <2> DEFINE h == [m \in 0..k |-> IF m = k THEN Step(w, g, f[k - 1], k) ELSE f[m]]
  <2>3. ASSUME NEW m \in 0..k
        PROVE  h[m] = IF m = 0 THEN S ELSE Step(w, g, h[m - 1], m)
    <3>1. CASE m = k
      <4>1. k - 1 \in 0..k /\ k - 1 # k
        BY <2>1
      <4>2. h[k - 1] = f[k - 1]
        BY <4>1
      <4> QED BY <1>4, <3>1, <4>2
    <3>2. CASE m # k
      <4>1. m \in 0..(k - 1)
        BY <2>1, <3>2
      <4>2. h[m] = f[m]
        BY <3>2
      <4>3. f[m] = IF m = 0 THEN S ELSE Step(w, g, f[m - 1], m)
        BY <2>2, <4>1 DEF Looped
      <4>4. m # 0 => h[m - 1] = f[m - 1]
        BY <2>1, <3>2
      <4> QED BY <4>2, <4>3, <4>4
    <3> QED BY <3>1, <3>2
  <2>4. h = [m \in 0..k |-> h[m]]
    OBVIOUS
  <2> HIDE DEF h
  <2>5. Looped(h, w, g, S, k)
    BY <2>3, <2>4 DEF Looped
  <2> QED BY <1>2, <2>5
<1> QED BY <1>3, <1>4

\* The loop keeps the invariant at each CRTC.
LEMMA LoopEach ==
    ASSUME NEW w \in Loops, NEW g \in [SinkCrtcs -> BOOLEAN], NEW C \in SUBSET SinkCrtcs,
           w = "update" => C = SinkCrtcs, NEW S, LoopGood(S, C, w),
           NEW f, Looped(f, w, g, S, NumSinkCrtcs), NEW n \in 0..NumSinkCrtcs
    PROVE  LoopGood(f[n], C \cup 1..n, w)
<1>0. NumSinkCrtcs \in Nat
  BY SharedFlipAssumption
<1> DEFINE Bad == {k \in 0..NumSinkCrtcs : ~LoopGood(f[k], C \cup 1..k, w)}
<1>1. ASSUME Bad # {} PROVE FALSE
  <2>1. PICK k \in Bad : \A j \in Bad : k <= j
    <3>1. Bad \in SUBSET Nat
      BY <1>0
    <3> HIDE DEF Bad
    <3> QED BY <1>1, <3>1, LeastOne
  <2>2. CASE k = 0
    <3>1. f[0] = S /\ C \cup 1..0 = C
      BY <1>0 DEF Looped
    <3> QED BY <2>1, <2>2, <3>1
  <2>3. CASE k # 0
    <3>a. k \in 0..NumSinkCrtcs
      BY <2>1
    <3>b. k \in SinkCrtcs /\ k - 1 \in 0..NumSinkCrtcs /\ ~(k <= k - 1)
      BY <1>0, <2>3, <3>a DEF SinkCrtcs
    <3>c. k - 1 \notin Bad
      <4> HIDE DEF Bad
      <4> QED BY <2>1, <3>b
    <3>1. k \in SinkCrtcs /\ k - 1 \in 0..NumSinkCrtcs /\ k - 1 \notin Bad
      <4> HIDE DEF Bad
      <4> QED BY <3>b, <3>c
    <3> DEFINE B == C \cup 1..(k - 1)
    <3>2. LoopGood(f[k - 1], B, w)
      BY <3>1
    <3>3. f[k] = Step(w, g, f[k - 1], k)
      BY <2>1, <2>3 DEF Looped
    <3>4. B \in SUBSET SinkCrtcs /\ (w = "update" => k \in B) /\ B \cup {k} = C \cup 1..k
      BY <1>0, <3>1 DEF SinkCrtcs
    <3> HIDE DEF B
    <3>5. LoopGood(f[k], B \cup {k}, w)
      BY <3>1, <3>2, <3>3, <3>4, StepKeeps
    <3> QED BY <2>1, <3>4, <3>5
  <2> QED BY <2>2, <2>3
<1> QED BY <1>1

LEMMA LoopKeeps ==
    ASSUME NEW w \in Loops, NEW g \in [SinkCrtcs -> BOOLEAN], NEW C \in SUBSET SinkCrtcs,
           w = "update" => C = SinkCrtcs, NEW S, LoopGood(S, C, w),
           NEW f, Looped(f, w, g, S, NumSinkCrtcs)
    PROVE  Good(f[NumSinkCrtcs], SinkCrtcs)
<1>1. NumSinkCrtcs \in 0..NumSinkCrtcs
  BY SharedFlipAssumption
<1>2. LoopGood(f[NumSinkCrtcs], C \cup 1..NumSinkCrtcs, w)
  BY <1>1, LoopEach
<1>3. C \cup 1..NumSinkCrtcs = SinkCrtcs
  BY DEF SinkCrtcs
<1> QED BY <1>2, <1>3 DEF LoopGood

\* Each loop of the driver is one of these.
LEMMA UpdateLoop ==
    ASSUME NEW S, NEW T, T = ForEachCrtc(S, Updated), NEW g
    PROVE  \E f : Looped(f, "update", g, S, NumSinkCrtcs) /\ T = f[NumSinkCrtcs]
<1> DEFINE Body(d) == [m \in 0..NumSinkCrtcs |-> IF m = 0 THEN S ELSE Updated(d[m - 1], m)]
           done == CHOOSE d : d = Body(d)
<1>1. \A d : Looped(d, "update", g, S, NumSinkCrtcs) <=> d = Body(d)
  BY DEF Looped, Step
<1>2. T = done[NumSinkCrtcs]
  BY DEF ForEachCrtc
<1> HIDE DEF Body
<1>3. done = Body(done)
  BY <1>1, LoopExists, SharedFlipAssumption
<1> HIDE DEF done
<1> QED BY <1>1, <1>2, <1>3

LEMMA OffLoop ==
    ASSUME NEW S, NEW T, T = ForEachCrtc(S, SwitchedOff), NEW g
    PROVE  \E f : Looped(f, "off", g, S, NumSinkCrtcs) /\ T = f[NumSinkCrtcs]
<1> DEFINE Body(d) == [m \in 0..NumSinkCrtcs |-> IF m = 0 THEN S ELSE SwitchedOff(d[m - 1], m)]
           done == CHOOSE d : d = Body(d)
<1>1. \A d : Looped(d, "off", g, S, NumSinkCrtcs) <=> d = Body(d)
  BY DEF Looped, Step
<1>2. T = done[NumSinkCrtcs]
  BY DEF ForEachCrtc
<1> HIDE DEF Body
<1>3. done = Body(done)
  BY <1>1, LoopExists, SharedFlipAssumption
<1> HIDE DEF done
<1> QED BY <1>1, <1>2, <1>3

LEMMA OnLoop ==
    ASSUME NEW S, NEW T, T = ForEachCrtc(S, SwitchedOn), NEW g
    PROVE  \E f : Looped(f, "on", g, S, NumSinkCrtcs) /\ T = f[NumSinkCrtcs]
<1> DEFINE Body(d) == [m \in 0..NumSinkCrtcs |-> IF m = 0 THEN S ELSE SwitchedOn(d[m - 1], m)]
           done == CHOOSE d : d = Body(d)
<1>1. \A d : Looped(d, "on", g, S, NumSinkCrtcs) <=> d = Body(d)
  BY DEF Looped, Step
<1>2. T = done[NumSinkCrtcs]
  BY DEF ForEachCrtc
<1> HIDE DEF Body
<1>3. done = Body(done)
  BY <1>1, LoopExists, SharedFlipAssumption
<1> HIDE DEF done
<1> QED BY <1>1, <1>2, <1>3

LEMMA EnterLoop ==
    ASSUME NEW S, NEW T, T = ForEachCrtc(S, DesiredMode), NEW g
    PROVE  \E f : Looped(f, "enter", g, S, NumSinkCrtcs) /\ T = f[NumSinkCrtcs]
<1> DEFINE Body(d) == [m \in 0..NumSinkCrtcs |-> IF m = 0 THEN S ELSE DesiredMode(d[m - 1], m)]
           done == CHOOSE d : d = Body(d)
<1>1. \A d : Looped(d, "enter", g, S, NumSinkCrtcs) <=> d = Body(d)
  BY DEF Looped, Step
<1>2. T = done[NumSinkCrtcs]
  BY DEF ForEachCrtc
<1> HIDE DEF Body
<1>3. done = Body(done)
  BY <1>1, LoopExists, SharedFlipAssumption
<1> HIDE DEF done
<1> QED BY <1>1, <1>2, <1>3

-----------------------------------------------------------------------------
(* The invariant *)

SharedInv == Good(st, SinkCrtcs) /\ ~st.full

LEMMA CanonicalKeeps ==
    ASSUME NEW S, Good(S, SinkCrtcs), ~S.full, NEW T, T = Canonical(S)
    PROVE  Good(T, SinkCrtcs) /\ ~T.full
<1> DEFINE used == {e.seq : e \in S.ms_drm_queue}
           q == [p \in Pixmaps |-> IF S.flip_seq[p] \in used THEN S.flip_seq[p] ELSE 0]
<1>1. SharedTypes(S) /\ Numbered(S) /\ DOMAIN S = Fields
  BY DEF Good, Sound, SharedTypes
<1>2. T = [S EXCEPT !.ok = FALSE,
                    !.fd = Known(@, used),
                    !.vblanks = [m \in SinkCrtcs |-> Known(@[m], used)],
                    !.flip_seq = q]
  BY DEF Canonical
<1>3. /\ q \in [Pixmaps -> Nat]
      /\ \A e \in S.ms_drm_queue, x \in Pixmaps : q[x] = e.seq <=> S.flip_seq[x] = e.seq
  <2>1. \A e \in S.ms_drm_queue : e.seq \in used /\ e.seq # 0
    BY <1>1 DEF Numbered
  <2>2. \A x \in Pixmaps : q[x] = IF S.flip_seq[x] \in used THEN S.flip_seq[x] ELSE 0
    OBVIOUS
  <2>3. q \in [Pixmaps -> Nat]
    BY <1>1 DEF SharedTypes
  <2> QED BY <2>1, <2>2, <2>3
<1> HIDE DEF q, used
<1>4. /\ DOMAIN T = Fields /\ SamePixmaps(S, T) /\ SameDamage(S, T)
      /\ T.full = S.full /\ T.ms_drm_queue = S.ms_drm_queue
      /\ T.flipping_active = S.flipping_active /\ T.on = S.on /\ T.odd = S.odd
      /\ T.flip_seq = q
  BY <1>1, <1>2 DEF Fields, SamePixmaps, SameDamage
<1>5. SharedTypes(T)
  BY <1>1, <1>3, <1>4 DEF SharedTypes, SamePixmaps, SameDamage
<1> QED BY <1>3, <1>4, <1>5, GoodStays DEF SameDamage

LEMMA BecomesKeeps ==
    ASSUME NEW S, Good(S, SinkCrtcs), Becomes(S)
    PROVE  SharedInv'
<1>1. ~S.full /\ st' = Canonical(S)
  BY DEF Becomes
<1>2. Good(st', SinkCrtcs) /\ ~(st').full
  BY <1>1, CanonicalKeeps
<1> QED BY <1>2 DEF SharedInv

LEMMA SharedInitInv == SharedInit => SharedInv
<1> SUFFICES ASSUME SharedInit PROVE SharedInv
  OBVIOUS
<1>1. /\ DOMAIN st = Fields /\ st.vtSema = TRUE /\ st.full = FALSE
      /\ st.enable_flipping = [k \in SinkCrtcs |-> FALSE]
      /\ st.flipping_active = [k \in SinkCrtcs |-> FALSE]
      /\ st.prime_pixmap = [k \in SinkCrtcs |-> NoPixmap]
      /\ st.prime_pixmap_back = [k \in SinkCrtcs |-> NoPixmap]
      /\ st.flip_seq = [x \in Pixmaps |-> 0]
      /\ st.wait_for_damage = [x \in Pixmaps |-> FALSE]
      /\ st.notify_on_damage = [x \in Pixmaps |-> FALSE]
      /\ st.damage = [x \in Pixmaps |-> FALSE]
      /\ st.ms_drm_queue = {} /\ st.on = [k \in SinkCrtcs |-> FALSE]
      /\ st.odd = [k \in SinkCrtcs |-> {}]
  BY DEF SharedInit, Fields
<1>2. SharedTypes(st)
  <2>1. /\ st.enable_flipping \in [SinkCrtcs -> BOOLEAN]
        /\ st.flipping_active \in [SinkCrtcs -> BOOLEAN] /\ st.on \in [SinkCrtcs -> BOOLEAN]
    BY <1>1
  <2>2. /\ st.prime_pixmap \in [SinkCrtcs -> Pixmaps \cup {NoPixmap}]
        /\ st.prime_pixmap_back \in [SinkCrtcs -> Pixmaps \cup {NoPixmap}]
    BY <1>1
  <2>3. /\ st.wait_for_damage \in [Pixmaps -> BOOLEAN]
        /\ st.notify_on_damage \in [Pixmaps -> BOOLEAN]
        /\ st.damage \in [Pixmaps -> BOOLEAN] /\ st.flip_seq \in [Pixmaps -> Nat]
    BY <1>1
  <2>4. st.ms_drm_queue \in SUBSET Entry /\ st.odd \in [SinkCrtcs -> SUBSET Oddities]
    BY <1>1
  <2>5. DOMAIN st = Fields /\ st.vtSema \in BOOLEAN /\ st.full \in BOOLEAN
    BY <1>1
  <2> QED BY <2>1, <2>2, <2>3, <2>4, <2>5 DEF SharedTypes
<1>3. \A k \in SinkCrtcs : Targets(st, k) = {} /\ Entries(st, k) = {}
  BY <1>1 DEF Targets, Entries
<1>4. Separate(st) /\ Numbered(st)
  BY <1>1, <1>3 DEF Separate, Numbered
<1>5. \A k \in SinkCrtcs : One(st, k) /\ Awake(st, k) /\ Ready(st, k)
  BY <1>1, <1>3 DEF One, Awake, Ready
<1> QED BY <1>1, <1>2, <1>4, <1>5 DEF SharedInv, Good, Sound

\* Only what the invariant does not look at changes.
LEMMA UnseenKeeps ==
    ASSUME NEW S, Good(S, SinkCrtcs), NEW T, Same(S, T), T.on = S.on, T.odd = S.odd
    PROVE  Good(T, SinkCrtcs)
<1>1. SinkCrtcs \in SUBSET SinkCrtcs
  OBVIOUS
<1> QED BY <1>1, SameGood

LEMMA QuietKeeps == SharedInv /\ FallQuiet => SharedInv'
<1> SUFFICES ASSUME SharedInv, FallQuiet PROVE SharedInv'
  OBVIOUS
<1> DEFINE T == [st EXCEPT !.quiet = TRUE]
<1>1. Becomes(T) /\ Good(st, SinkCrtcs) /\ DOMAIN st = Fields
  BY DEF FallQuiet, SharedInv, Good, SharedTypes
<1>2. Same(st, T) /\ T.on = st.on /\ T.odd = st.odd
  BY <1>1 DEF Fields, Same, SamePixmaps, SameQueue, SameDamage
<1> HIDE DEF T
<1> QED BY <1>1, <1>2, UnseenKeeps, BecomesKeeps

LEMMA DrawKeeps == SharedInv /\ Draw => SharedInv'
<1> SUFFICES ASSUME SharedInv, Draw PROVE SharedInv'
  OBVIOUS
<1> DEFINE u == [p \in Pixmaps |-> st.damage[p] \/ p \in Live(st)]
           o == [m \in SinkCrtcs |-> st.odd[m] \ {"failed"}]
           T == [st EXCEPT !.damage = u, !.odd = o]
<1>1. Good(st, SinkCrtcs) /\ SharedTypes(st) /\ DOMAIN st = Fields
  BY DEF SharedInv, Good, SharedTypes
<1>2. Becomes(T)
  BY DEF Draw
<1>3. u \in [Pixmaps -> BOOLEAN]
  BY <1>1 DEF SharedTypes
<1>4. /\ o \in [SinkCrtcs -> SUBSET Oddities]
      /\ \A k \in SinkCrtcs, w \in Telling : w \in o[k] <=> w \in st.odd[k]
  <2>1. st.odd \in [SinkCrtcs -> SUBSET Oddities]
    BY <1>1 DEF SharedTypes
  <2> QED BY <2>1 DEF Telling
<1> HIDE DEF u, o
<1>5. /\ DOMAIN T = Fields /\ SamePixmaps(st, T) /\ SameQueue(st, T) /\ SameWaits(st, T)
      /\ T.flipping_active = st.flipping_active /\ T.on = st.on
      /\ T.damage = u /\ T.odd = o
  BY <1>1 DEF Fields, SamePixmaps, SameQueue, SameWaits
<1> HIDE DEF T
<1>6. SharedTypes(T)
  BY <1>1, <1>3, <1>4, <1>5 DEF SharedTypes, SamePixmaps, SameQueue, SameWaits
<1>7. /\ T.full = st.full /\ T.ms_drm_queue = st.ms_drm_queue /\ T.flip_seq = st.flip_seq
      /\ T.wait_for_damage = st.wait_for_damage /\ T.notify_on_damage = st.notify_on_damage
      /\ \A k \in SinkCrtcs, w \in Telling : w \in T.odd[k] <=> w \in st.odd[k]
      /\ SinkCrtcs \subseteq SinkCrtcs
  BY <1>4, <1>5 DEF SameQueue, SameWaits
<1>8. Good(T, SinkCrtcs)
  BY <1>1, <1>5, <1>6, <1>7, GoodStays
<1> QED BY <1>2, <1>8, BecomesKeeps

LEMMA LoopDone ==
    ASSUME NEW w \in Loops, NEW g \in [SinkCrtcs -> BOOLEAN], NEW C \in SUBSET SinkCrtcs,
           w = "update" => C = SinkCrtcs, NEW S, Good(S, C), w = "leave" => ~S.vtSema,
           NEW T, \E f : Looped(f, w, g, S, NumSinkCrtcs) /\ T = f[NumSinkCrtcs]
    PROVE  Good(T, SinkCrtcs)
<1>1. LoopGood(S, C, w)
  BY DEF LoopGood
<1>2. PICK f : Looped(f, w, g, S, NumSinkCrtcs) /\ T = f[NumSinkCrtcs]
  OBVIOUS
<1> QED BY <1>1, <1>2, LoopKeeps

LEMMA BlockHandlerKeeps == SharedInv /\ msBlockHandler => SharedInv'
<1> SUFFICES ASSUME SharedInv, msBlockHandler PROVE SharedInv'
  OBVIOUS
<1> DEFINE U == ForEachCrtc(st, Updated)
           T == dispatch_slave_dirty(U)
           g == [k \in SinkCrtcs |-> TRUE]
<1>1. Becomes(T)
  BY DEF msBlockHandler, ms_dirty_update
<1>2. \E f : Looped(f, "update", g, st, NumSinkCrtcs) /\ U = f[NumSinkCrtcs]
  BY UpdateLoop
<1>3. g \in [SinkCrtcs -> BOOLEAN] /\ "update" \in Loops /\ "update" # "leave"
      /\ SinkCrtcs \in SUBSET SinkCrtcs
  BY DEF Loops
<1>4. T = [U EXCEPT !.slave_damage = [p \in Pixmaps |-> @[p] /\ p \notin Live(U)]]
  BY DEF dispatch_slave_dirty
<1> HIDE DEF U, T, g
<1>5. Good(U, SinkCrtcs)
  BY <1>2, <1>3, LoopDone DEF SharedInv
<1>6. DOMAIN U = Fields
  BY <1>5 DEF Good, SharedTypes
<1>7. Same(U, T) /\ T.on = U.on /\ T.odd = U.odd
  BY <1>4, <1>6 DEF Fields, Same, SamePixmaps, SameQueue, SameDamage
<1>8. Good(T, SinkCrtcs)
  BY <1>5, <1>7, UnseenKeeps
<1> QED BY <1>1, <1>8, BecomesKeeps

LEMMA SetKeeps ==
    ASSUME SharedInv, NEW k \in SinkCrtcs, NEW flips \in BOOLEAN, NEW b \in BOOLEAN,
           NEW sets \in BOOLEAN, RandRSet(k, flips, b, sets)
    PROVE  SharedInv'
<1> DEFINE V == Detached(st, k)
           x == CHOOSE p \in FreePixmaps(V) : TRUE
           y == IF flips THEN CHOOSE p \in FreePixmaps(V) \ {x} : TRUE ELSE NoPixmap
           U == Attached(V, k, x, y, b)
           W == IF sets THEN drmmode_set_mode_major(U, k) ELSE Added(U, k, "refused")
           n == W.faults + (IF b /\ sets THEN 0 ELSE 1)
           T == [W EXCEPT !.faults = n]
<1>1. Becomes(T) /\ \E p, q \in FreePixmaps(V) : p # q
  BY DEF RandRSet, Odd, Added
<1>2. Good(st, SinkCrtcs) /\ SinkCrtcs \cup {k} = SinkCrtcs /\ SinkCrtcs \in SUBSET SinkCrtcs
  BY DEF SharedInv
<1> HIDE DEF n
<1>3. T = [W EXCEPT !.faults = n]
  OBVIOUS
<1> HIDE DEF T
<1>4. /\ sets => W = drmmode_set_mode_major(U, k)
      /\ ~sets => W = Added(U, k, "refused")
  OBVIOUS
<1> HIDE DEF W
<1>5. U = Attached(V, k, x, y, b)
  OBVIOUS
<1> HIDE DEF U
<1>6. x \in FreePixmaps(V) /\ y \in (FreePixmaps(V) \ {x}) \cup {NoPixmap}
  <2> HIDE DEF V
  <2>1. x \in FreePixmaps(V)
    BY <1>1
  <2> HIDE DEF x
  <2>2. PICK p \in FreePixmaps(V), q \in FreePixmaps(V) : p # q
    BY <1>1
  <2>3. p \in FreePixmaps(V) \ {x} \/ q \in FreePixmaps(V) \ {x}
    BY <2>2
  <2> QED BY <2>1, <2>3
<1> HIDE DEF x, y
<1>7. V = Detached(st, k)
  OBVIOUS
<1> HIDE DEF V
<1>8. /\ Good(V, SinkCrtcs)
      /\ V.prime_pixmap[k] = NoPixmap /\ V.prime_pixmap_back[k] = NoPixmap
      /\ ~V.flipping_active[k]
  <2>1. /\ Good(V, SinkCrtcs \cup {k})
        /\ V.prime_pixmap[k] = NoPixmap /\ V.prime_pixmap_back[k] = NoPixmap
        /\ ~V.flipping_active[k]
    BY <1>2, <1>7, DetachedKeeps
  <2> QED BY <1>2, <2>1
<1>9. Good(U, SinkCrtcs \ {k})
  BY <1>2, <1>5, <1>6, <1>8, AttachedKeeps
<1>10. ASSUME sets PROVE Good(W, SinkCrtcs)
  <2>1. W = drmmode_set_mode_major(U, k)
    BY <1>4, <1>10
  <2>2. Good(W, SinkCrtcs \cup {k})
    BY <1>2, <1>9, <2>1, SetModeKeeps
  <2> QED BY <1>2, <2>2
<1>11. ASSUME ~sets PROVE Good(W, SinkCrtcs)
  <2>1. W = Added(U, k, "refused")
    BY <1>4, <1>11
  <2> QED BY <1>9, <2>1, RefusedKeeps
<1>12. Good(T, SinkCrtcs)
  <2>1. Good(W, SinkCrtcs)
    BY <1>10, <1>11
  <2> QED BY <1>3, <2>1, CountedKeeps
<1> QED BY <1>1, <1>12, BecomesKeeps

LEMMA DisableKeeps ==
    ASSUME SharedInv, NEW k \in SinkCrtcs, RandRDisable(k)
    PROVE  SharedInv'
<1> DEFINE V == Detached(st, k)
           T == Dark(V, k)
<1>1. Becomes(T) /\ Good(st, SinkCrtcs)
  BY DEF RandRDisable, SharedInv
<1>2. SinkCrtcs \cup {k} = SinkCrtcs
  OBVIOUS
<1>3. Good(V, SinkCrtcs)
  BY <1>1, <1>2, DetachedKeeps
<1> HIDE DEF V
<1>4. Good(T, SinkCrtcs)
  BY <1>2, <1>3, DarkKeeps
<1> HIDE DEF T
<1> QED BY <1>1, <1>4, BecomesKeeps

LEMMA DpmsOffKeeps == SharedInv /\ DpmsOff => SharedInv'
<1> SUFFICES ASSUME SharedInv, DpmsOff PROVE SharedInv'
  OBVIOUS
<1> DEFINE T == ForEachCrtc(st, SwitchedOff)
           g == [k \in SinkCrtcs |-> TRUE]
<1>1. Becomes(T)
  BY DEF DpmsOff
<1>2. \E f : Looped(f, "off", g, st, NumSinkCrtcs) /\ T = f[NumSinkCrtcs]
  BY OffLoop
<1>3. g \in [SinkCrtcs -> BOOLEAN] /\ "off" \in Loops /\ "off" # "leave" /\ "off" # "update"
      /\ SinkCrtcs \in SUBSET SinkCrtcs
  BY DEF Loops
<1> HIDE DEF T, g
<1>4. Good(T, SinkCrtcs)
  BY <1>2, <1>3, LoopDone DEF SharedInv
<1> QED BY <1>1, <1>4, BecomesKeeps

LEMMA DpmsOnKeeps == SharedInv /\ DpmsOn => SharedInv'
<1> SUFFICES ASSUME SharedInv, DpmsOn PROVE SharedInv'
  OBVIOUS
<1> DEFINE T == ForEachCrtc(st, SwitchedOn)
           g == [k \in SinkCrtcs |-> TRUE]
<1>1. Becomes(T)
  BY DEF DpmsOn
<1>2. \E f : Looped(f, "on", g, st, NumSinkCrtcs) /\ T = f[NumSinkCrtcs]
  BY OnLoop
<1>3. g \in [SinkCrtcs -> BOOLEAN] /\ "on" \in Loops /\ "on" # "leave" /\ "on" # "update"
      /\ SinkCrtcs \in SUBSET SinkCrtcs
  BY DEF Loops
<1> HIDE DEF T, g
<1>4. Good(T, SinkCrtcs)
  BY <1>2, <1>3, LoopDone DEF SharedInv
<1> QED BY <1>1, <1>4, BecomesKeeps

\* The VT is lost, or comes back: which CRTCs are ready is another matter.
LEMMA VTKeeps ==
    ASSUME NEW S, Good(S, SinkCrtcs), NEW b \in BOOLEAN, NEW T, T = [S EXCEPT !.vtSema = b]
    PROVE  /\ Good(T, {}) /\ T.vtSema = b
           /\ ~b => Good(T, SinkCrtcs)
<1>1. DOMAIN S = Fields /\ SharedTypes(S)
  BY DEF Good, SharedTypes
<1>2. /\ DOMAIN T = Fields /\ T.vtSema = b
      /\ T.enable_flipping = S.enable_flipping
      /\ T.prime_pixmap = S.prime_pixmap /\ T.prime_pixmap_back = S.prime_pixmap_back
  BY <1>1 DEF Fields
<1>3. SameQueue(S, T) /\ SameDamage(S, T)
  BY <1>1 DEF Fields, SameQueue, SameDamage
<1>4. T.flipping_active = S.flipping_active /\ T.on = S.on /\ T.odd = S.odd
  BY <1>1 DEF Fields
<1>5. SharedTypes(T)
  BY <1>1, <1>2, <1>3, <1>4 DEF SharedTypes, SameQueue, SameDamage
<1>6. \A k \in SinkCrtcs : Targets(T, k) = Targets(S, k) /\ Entries(T, k) = Entries(S, k)
  BY <1>2, <1>3 DEF Targets, Entries, SameQueue
<1>7. Separate(T)
  BY <1>2, <1>4, <1>6 DEF Good, Separate
<1>8. ASSUME ~S.full PROVE Sound(T)
  <2>1. Numbered(S) /\ \A k \in SinkCrtcs : One(S, k) /\ Awake(S, k)
    BY <1>8 DEF Good, Sound
  <2>2. Numbered(T)
    BY <1>3, <1>6, <2>1 DEF Numbered, SameQueue
  <2>3. ASSUME NEW k \in SinkCrtcs PROVE One(T, k)
    BY <1>2, <1>3, <1>4, <1>6, <2>1 DEF One, SameQueue
  <2>4. ASSUME NEW k \in SinkCrtcs PROVE Awake(T, k)
    BY <1>2, <1>3, <1>4, <1>6, <2>1 DEF Awake, SameDamage
  <2> QED BY <1>7, <2>2, <2>3, <2>4 DEF Sound
<1>9. T.full = S.full
  BY <1>3 DEF SameQueue
<1>10. ~b => \A k \in SinkCrtcs : Ready(T, k)
  BY <1>2 DEF Ready
<1> QED BY <1>2, <1>5, <1>7, <1>8, <1>9, <1>10 DEF Good

LEMMA LeaveKeeps == SharedInv /\ LeaveVT => SharedInv'
<1> SUFFICES ASSUME SharedInv, LeaveVT PROVE SharedInv'
  OBVIOUS
<1> DEFINE S == [st EXCEPT !.vtSema = FALSE]
<1>1. PICK g \in [SinkCrtcs -> BOOLEAN] :
          Becomes(ForEachCrtc(S, LAMBDA U, k : TakenOver(U, k, g[k])))
  BY DEF LeaveVT
<1>2. Good(S, SinkCrtcs) /\ S.vtSema = FALSE
  BY VTKeeps DEF SharedInv
<1> HIDE DEF S
<1> DEFINE Body(d) == [m \in 0..NumSinkCrtcs |->
                           IF m = 0 THEN S ELSE TakenOver(d[m - 1], m, g[m])]
           done == CHOOSE d : d = Body(d)
           T == done[NumSinkCrtcs]
<1>3. Becomes(T)
  BY <1>1 DEF ForEachCrtc
<1>4. \A d : Looped(d, "leave", g, S, NumSinkCrtcs) <=> d = Body(d)
  BY DEF Looped, Step
<1> HIDE DEF Body
<1>5. \E f : Looped(f, "leave", g, S, NumSinkCrtcs) /\ T = f[NumSinkCrtcs]
  <2>1. done = Body(done)
    BY <1>4, LoopExists, SharedFlipAssumption
  <2> HIDE DEF done
  <2> QED BY <1>4, <2>1
<1>a. "leave" \in Loops /\ "leave" # "update" /\ SinkCrtcs \in SUBSET SinkCrtcs
  BY DEF Loops
<1> HIDE DEF T
<1>6. Good(T, SinkCrtcs)
  BY <1>2, <1>5, <1>a, LoopDone
<1> QED BY <1>3, <1>6, BecomesKeeps

LEMMA EnterKeeps == SharedInv /\ EnterVT => SharedInv'
<1> SUFFICES ASSUME SharedInv, EnterVT PROVE SharedInv'
  OBVIOUS
<1> DEFINE S == [st EXCEPT !.vtSema = TRUE]
           T == ForEachCrtc(S, DesiredMode)
           g == [k \in SinkCrtcs |-> TRUE]
<1>1. Becomes(T)
  BY DEF EnterVT
<1>2. Good(S, {})
  BY VTKeeps DEF SharedInv
<1> HIDE DEF S
<1>3. \E f : Looped(f, "enter", g, S, NumSinkCrtcs) /\ T = f[NumSinkCrtcs]
  BY EnterLoop
<1>4. g \in [SinkCrtcs -> BOOLEAN] /\ "enter" \in Loops /\ "enter" # "leave"
      /\ "enter" # "update" /\ {} \in SUBSET SinkCrtcs
  BY DEF Loops
<1> HIDE DEF T, g
<1>5. Good(T, SinkCrtcs)
  BY <1>2, <1>3, <1>4, LoopDone
<1> QED BY <1>1, <1>5, BecomesKeeps

LEMMA FlipDoneKeeps ==
    ASSUME SharedInv, NEW k \in SinkCrtcs, FlipDone(k)
    PROVE  SharedInv'
<1> DEFINE T == Completed(st, k)
<1>1. Becomes(T) /\ Good(st, SinkCrtcs) /\ SharedTypes(st)
  BY DEF FlipDone, SharedInv, Good
<1>2. Same(st, T) /\ T.on = st.on /\ T.odd = st.odd
  BY <1>1, CompletedIs
<1> HIDE DEF T
<1> QED BY <1>1, <1>2, UnseenKeeps, BecomesKeeps

LEMMA VBlankKeeps ==
    ASSUME SharedInv, NEW k \in SinkCrtcs, VBlank(k)
    PROVE  SharedInv'
<1> DEFINE T == Blanked(st, k)
<1>1. Becomes(T) /\ Good(st, SinkCrtcs) /\ SharedTypes(st)
  BY DEF VBlank, SharedInv, Good
<1>2. Same(st, T) /\ T.on = st.on /\ T.odd = st.odd
  BY <1>1, BlankedIs
<1> HIDE DEF T
<1> QED BY <1>1, <1>2, UnseenKeeps, BecomesKeeps

LEMMA EventKeeps == SharedInv /\ HandleEvent => SharedInv'
<1> SUFFICES ASSUME SharedInv, HandleEvent PROVE SharedInv'
  OBVIOUS
<1>1. PICK e \in st.ms_drm_queue :
          Becomes(drmmode_SharedPixmapVBlankEventHandler(Taken(st, e), e))
  BY DEF HandleEvent, Taken
<1> DEFINE T == drmmode_SharedPixmapVBlankEventHandler(Taken(st, e), e)
<1>2. Good(st, SinkCrtcs) /\ ~st.full /\ SharedTypes(st)
  BY DEF SharedInv, Good
<1>3. "overlap" \notin st.odd[e.crtc]
  <2>1. e.crtc \in SinkCrtcs
    BY <1>2 DEF SharedTypes, Entry
  <2> QED BY <1>1, <2>1 DEF Becomes, Going
<1>4. Good(T, SinkCrtcs)
  BY <1>2, <1>3, HandlerKeeps
<1>5. Becomes(T)
  BY <1>1
<1> HIDE DEF T
<1> QED BY <1>4, <1>5, BecomesKeeps

LEMMA SharedNextInv == SharedInv /\ [SharedNext]_sharedVars => SharedInv'
<1> SUFFICES ASSUME SharedInv, [SharedNext]_sharedVars PROVE SharedInv'
  OBVIOUS
<1>1. CASE UNCHANGED sharedVars
  BY <1>1 DEF sharedVars, SharedInv
<1>2. CASE FallQuiet
  BY <1>2, QuietKeeps
<1>3. CASE Draw
  BY <1>3, DrawKeeps
<1>4. CASE msBlockHandler
  BY <1>4, BlockHandlerKeeps
<1>5. CASE \E k \in SinkCrtcs, flips, b, sets \in BOOLEAN : RandRSet(k, flips, b, sets)
  BY <1>5, SetKeeps
<1>6. CASE \E k \in SinkCrtcs : RandRDisable(k)
  BY <1>6, DisableKeeps
<1>7. CASE DpmsOff
  BY <1>7, DpmsOffKeeps
<1>8. CASE DpmsOn
  BY <1>8, DpmsOnKeeps
<1>9. CASE LeaveVT
  BY <1>9, LeaveKeeps
<1>10. CASE EnterVT
  BY <1>10, EnterKeeps
<1>11. CASE \E k \in SinkCrtcs : FlipDone(k) \/ VBlank(k)
  BY <1>11, FlipDoneKeeps, VBlankKeeps
<1>12. CASE HandleEvent
  BY <1>12, EventKeeps
<1> QED BY <1>1, <1>2, <1>3, <1>4, <1>5, <1>6, <1>7, <1>8, <1>9, <1>10, <1>11, <1>12
        DEF SharedNext

LEMMA InvOneHandler == SharedInv => OneHandler
<1> SUFFICES ASSUME SharedInv, NEW k \in SinkCrtcs, "overlap" \notin st.odd[k]
             PROVE  /\ Cardinality(Entries(st, k)) <= (IF st.flipping_active[k] THEN 1 ELSE 0)
                    /\ \A e \in Entries(st, k) : ~Stale(st, e) /\ st.flip_seq[e.front] = e.seq
  BY DEF OneHandler
<1>1. SharedTypes(st) /\ Separate(st) /\ One(st, k)
  BY DEF SharedInv, Good, Sound
<1>2. /\ \A e, w \in Entries(st, k) : e = w
      /\ Entries(st, k) # {} => st.flipping_active[k]
      /\ \A e \in Entries(st, k) :
            /\ e.front = st.prime_pixmap_back[k] /\ e.back = st.prime_pixmap[k]
            /\ st.flip_seq[e.front] = e.seq
  BY <1>1 DEF One
<1>3. Cardinality(Entries(st, k)) <= (IF st.flipping_active[k] THEN 1 ELSE 0)
  <2>1. CASE Entries(st, k) = {}
    <3>1. Cardinality(Entries(st, k)) = 0
      BY <2>1, FS_EmptySet
    <3> QED BY <3>1
  <2>2. CASE Entries(st, k) # {}
    <3>1. PICK e : e \in Entries(st, k)
      BY <2>2
    <3>2. Entries(st, k) = {e}
      BY <1>2, <3>1
    <3>3. Cardinality(Entries(st, k)) = 1
      BY <3>2, FS_Singleton
    <3> QED BY <1>2, <2>2, <3>3
  <2> QED BY <2>1, <2>2
<1>4. ASSUME NEW e \in Entries(st, k) PROVE ~Stale(st, e)
  <2>1. e.crtc = k
    BY DEF Entries
  <2>2. st.prime_pixmap_back[k] # NoPixmap /\ st.prime_pixmap[k] # NoPixmap
    BY <1>1, <1>2 DEF Separate
  <2>3. Targets(st, k) = {e.front, e.back}
    BY <1>2, <2>2 DEF Targets
  <2> QED BY <2>1, <2>3 DEF Stale
<1> QED BY <1>2, <1>3, <1>4

LEMMA InvAlive == SharedInv => Alive
<1> SUFFICES ASSUME SharedInv, NEW k \in SinkCrtcs,
                    st.vtSema /\ st.on[k] /\ st.enable_flipping[k],
                    st.odd[k] \cap {"overlap", "stopped", "refused"} = {}
             PROVE  /\ st.flipping_active[k]
                    /\ \/ Entries(st, k) # {}
                       \/ /\ st.notify_on_damage[st.prime_pixmap_back[k]]
                          /\ st.wait_for_damage[st.prime_pixmap_back[k]]
  BY DEF Alive
<1>1. Ready(st, k) /\ Awake(st, k)
  BY DEF SharedInv, Good, Sound
<1>2. st.flipping_active[k]
  BY <1>1 DEF Ready, Telling
<1> QED BY <1>1, <1>2 DEF Awake

\* Each CRTC has one event handler at most (drmmode_SharedPixmapPresentOnVBlank,
\* drmmode_SharedPixmapFlip, drmmode_FiniSharedPixmapFlipping), with any number of CRTCs,
\* pixmaps and failures.
THEOREM SharedOneHandler == SharedSpec => []OneHandler
<1>1. SharedInit => SharedInv
  BY SharedInitInv
<1>2. SharedInv /\ [SharedNext]_sharedVars => SharedInv'
  BY SharedNextInv
<1>3. SharedInv => OneHandler
  BY InvOneHandler
<1> QED BY <1>1, <1>2, <1>3, PTL DEF SharedSpec

\* Flipping never goes to sleep: a handler is queued, or damage is notified and waited
\* for (drmmode_InitSharedPixmapFlipping, drmmode_SharedPixmapVBlankEventHandler,
\* msSharedPixmapNotifyDamage).
THEOREM SharedAlive == SharedSpec => []Alive
<1>1. SharedInit => SharedInv
  BY SharedInitInv
<1>2. SharedInv /\ [SharedNext]_sharedVars => SharedInv'
  BY SharedNextInv
<1>3. SharedInv => Alive
  BY InvAlive
<1> QED BY <1>1, <1>2, <1>3, PTL DEF SharedSpec

-----------------------------------------------------------------------------
(* What is displayed *)

\* The values of the parts of the record that the kernel has, and of defer.
FlipTypes(S) ==
    /\ S.flip \in [SinkCrtcs -> [seq : Nat, pixmap : Pixmaps \cup {NoPixmap}]]
    /\ S.shown \in [SinkCrtcs -> Pixmaps \cup {NoPixmap, Other}]
    /\ S.fd \in Seq(Nat)
    /\ S.vblanks \in [SinkCrtcs -> Seq(Nat)]
    /\ S.defer \in [Pixmaps -> BOOLEAN]

\* The numbers of the events that are on their way.
Pending(S) == Numbers(S.fd) \cup UNION {Numbers(S.vblanks[k]) : k \in SinkCrtcs}

\* The number of a flip in flight is nobody else's.
NumbersApart(S) ==
    \A k \in SinkCrtcs : S.flip[k] # NoFlip =>
        /\ S.flip[k].seq # 0 /\ S.flip[k].seq \notin Pending(S)
        /\ \A j \in SinkCrtcs \ {k} : S.flip[j].seq # S.flip[k].seq

\* Nothing went wrong that lets a copy be seen.
Clean(S, k) == S.odd[k] \cap {"overlap", "aborted", "mode set"} = {}

\* Only the CRTC's own pixmaps are displayed; those of flipping are updated by the sink.
ShowsOwn(S, k) ==
    /\ S.flip[k] # NoFlip => S.flip[k].pixmap \in Targets(S, k)
    /\ S.shown[k] \in Pixmaps => S.shown[k] \in Targets(S, k)
    /\ S.enable_flipping[k] => \A x \in Targets(S, k) : S.defer[x]

\* The flip in flight is the handler's.
ShowsNext(S, k) ==
    "overlap" \notin S.odd[k] =>
        \A e \in Entries(S, k) :
            e.flip /\ S.flip[k] # NoFlip => S.flip[k].seq = e.seq /\ S.flip[k].pixmap = e.front

\* The back pixmap is displayed only when the flip to it is done whose handler will
\* exchange the roles, and then the front one is not.
ShowsFront(S, k) ==
    Clean(S, k) /\ S.enable_flipping[k] =>
        /\ S.flip[k] # NoFlip => Turning(S, k)
        /\ S.shown[k] = S.prime_pixmap_back[k] => Turning(S, k) /\ S.flip[k] = NoFlip
        /\ Turning(S, k) /\ S.flip[k] = NoFlip => S.shown[k] # S.prime_pixmap[k]

Displays(S, k) == ShowsOwn(S, k) /\ ShowsNext(S, k) /\ ShowsFront(S, k)

Visible(S) == NumbersApart(S) /\ \A k \in SinkCrtcs : Displays(S, k)

Seen(S) == FlipTypes(S) /\ (~S.full => Visible(S))

\* What CRTC j displays and is about to is the same in S and T.
Alike(S, T, j) ==
    /\ T.flip[j] = S.flip[j] /\ T.shown[j] = S.shown[j] /\ T.odd[j] = S.odd[j]
    /\ T.enable_flipping[j] = S.enable_flipping[j]
    /\ T.prime_pixmap[j] = S.prime_pixmap[j]
    /\ T.prime_pixmap_back[j] = S.prime_pixmap_back[j]
    /\ Entries(T, j) = Entries(S, j)
    /\ \A x \in Targets(S, j) : T.defer[x] = S.defer[x] /\ T.damage[x] = S.damage[x]

View(S, T, k) == \A j \in SinkCrtcs \ {k} : Alike(S, T, j)

\* From S to T nothing was copied to the pixmap that CRTC j displays in T.
Untorn(S, T, j) ==
    Clean(T, j) /\ S.enable_flipping[j] =>
        \A x \in Targets(S, j) \cap Targets(T, j) :
            S.damage[x] /\ ~T.damage[x] => T.shown[j] # x

\* What a function called for CRTC k may do.
Fine(S, T, k) ==
    /\ FlipTypes(T)
    /\ ~T.full => ~S.full /\ Visible(T) /\ Untorn(S, T, k) /\ View(S, T, k)

LEMMA AlikeShows ==
    ASSUME NEW S, NEW T, NEW j \in SinkCrtcs, Alike(S, T, j), Displays(S, j)
    PROVE  Displays(T, j)
<1>1. Targets(T, j) = Targets(S, j)
  BY DEF Targets, Alike
<1>2. ShowsOwn(T, j)
  BY <1>1 DEF Alike, Displays, ShowsOwn
<1>3. ShowsNext(T, j)
  BY DEF Alike, Displays, ShowsNext
<1>4. Clean(T, j) = Clean(S, j) /\ Turning(T, j) = Turning(S, j)
  BY DEF Alike, Clean, Turning
<1>5. ShowsFront(T, j)
  BY <1>4 DEF Alike, Displays, ShowsFront
<1> QED BY <1>2, <1>3, <1>5 DEF Displays

LEMMA AlikeTransitive ==
    ASSUME NEW S, NEW T, NEW U, NEW j \in SinkCrtcs, Alike(S, T, j), Alike(T, U, j)
    PROVE  Alike(S, U, j)
<1>1. Targets(T, j) = Targets(S, j)
  BY DEF Targets, Alike
<1> QED BY <1>1 DEF Alike

LEMMA UntornThenAlike ==
    ASSUME NEW S, NEW T, NEW U, NEW j \in SinkCrtcs, Untorn(S, T, j), Alike(T, U, j)
    PROVE  Untorn(S, U, j)
<1>1. Targets(T, j) = Targets(U, j)
  BY DEF Targets, Alike
<1> QED BY <1>1 DEF Alike, Untorn, Clean

LEMMA AlikeThenUntorn ==
    ASSUME NEW S, NEW T, NEW U, NEW j \in SinkCrtcs, Alike(S, T, j), Untorn(T, U, j)
    PROVE  Untorn(S, U, j)
<1>1. Targets(T, j) = Targets(S, j)
  BY DEF Targets, Alike
<1> QED BY <1>1 DEF Alike, Untorn, Clean

\* When nothing is copied nothing is seen.
LEMMA UncopiedUntorn ==
    ASSUME NEW S, NEW T, NEW j \in SinkCrtcs,
           \A x \in Targets(S, j) : T.damage[x] = S.damage[x]
    PROVE  Untorn(S, T, j)
BY DEF Untorn

\* It is enough to look at the CRTC that changes.
LEMMA FineIf ==
    ASSUME NEW S, Seen(S), NEW T, FlipTypes(T), NEW k \in SinkCrtcs, S.full => T.full,
           ~T.full => NumbersApart(T) /\ Displays(T, k) /\ Untorn(S, T, k) /\ View(S, T, k)
    PROVE  Fine(S, T, k)
<1>1. SUFFICES ASSUME ~T.full
               PROVE  ~S.full /\ Visible(T) /\ Untorn(S, T, k) /\ View(S, T, k)
  BY DEF Fine
<1>2. Visible(S)
  BY <1>1 DEF Seen
<1>3. ASSUME NEW j \in SinkCrtcs PROVE Displays(T, j)
  <2>1. CASE j = k
    BY <1>1, <2>1
  <2>2. CASE j # k
    BY <1>1, <1>2, <2>2, AlikeShows DEF View, Visible
  <2> QED BY <2>1, <2>2
<1> QED BY <1>1, <1>3 DEF Visible

LEMMA FineSeen ==
    ASSUME NEW S, NEW T, NEW k, Fine(S, T, k)
    PROVE  Seen(T)
BY DEF Fine, Seen

-----------------------------------------------------------------------------
(* The numbers that are on their way *)

LEMMA NumbersAppend ==
    ASSUME NEW q \in Seq(Nat), NEW n \in Nat
    PROVE  Append(q, n) \in Seq(Nat) /\ Numbers(Append(q, n)) = Numbers(q) \cup {n}
<1>1. /\ Append(q, n) \in Seq(Nat) /\ DOMAIN Append(q, n) = 1..(Len(q) + 1)
      /\ \A i \in 1..Len(q) : Append(q, n)[i] = q[i]
      /\ Append(q, n)[Len(q) + 1] = n
  OBVIOUS
<1>2. DOMAIN q = 1..Len(q) /\ Len(q) \in Nat
  OBVIOUS
<1>3. ASSUME NEW v \in Numbers(Append(q, n)) PROVE v \in Numbers(q) \cup {n}
  BY <1>1, <1>2 DEF Numbers
<1>4. ASSUME NEW v \in Numbers(q) PROVE v \in Numbers(Append(q, n))
  <2>1. PICK i \in 1..Len(q) : v = q[i]
    BY <1>2 DEF Numbers
  <2>2. i \in 1..(Len(q) + 1) /\ Append(q, n)[i] = v
    BY <1>1, <1>2, <2>1
  <2> QED BY <1>1, <2>2 DEF Numbers
<1>5. n \in Numbers(Append(q, n))
  <2>1. Len(q) + 1 \in 1..(Len(q) + 1)
    BY <1>2
  <2> QED BY <1>1, <2>1 DEF Numbers
<1> QED BY <1>1, <1>3, <1>4, <1>5

LEMMA NumbersConcat ==
    ASSUME NEW q \in Seq(Nat), NEW h \in Seq(Nat)
    PROVE  q \o h \in Seq(Nat) /\ Numbers(q \o h) = Numbers(q) \cup Numbers(h)
<1>1. /\ q \o h \in Seq(Nat) /\ DOMAIN (q \o h) = 1..(Len(q) + Len(h))
      /\ \A i \in 1..Len(q) : (q \o h)[i] = q[i]
      /\ \A i \in 1..(Len(q) + Len(h)) : i > Len(q) => (q \o h)[i] = h[i - Len(q)]
  OBVIOUS
<1>2. DOMAIN q = 1..Len(q) /\ Len(q) \in Nat /\ DOMAIN h = 1..Len(h) /\ Len(h) \in Nat
  OBVIOUS
<1>3. ASSUME NEW v \in Numbers(q \o h) PROVE v \in Numbers(q) \cup Numbers(h)
  <2>1. PICK i \in 1..(Len(q) + Len(h)) : v = (q \o h)[i]
    BY <1>1 DEF Numbers
  <2>2. CASE i <= Len(q)
    <3>1. i \in 1..Len(q)
      BY <1>2, <2>2
    <3> QED BY <1>1, <1>2, <2>1, <3>1 DEF Numbers
  <2>3. CASE i > Len(q)
    <3>1. i - Len(q) \in 1..Len(h)
      BY <1>2, <2>3
    <3> QED BY <1>1, <1>2, <2>1, <2>3, <3>1 DEF Numbers
  <2> QED BY <1>2, <2>2, <2>3
<1>4. ASSUME NEW v \in Numbers(q) PROVE v \in Numbers(q \o h)
  <2>1. PICK i \in 1..Len(q) : v = q[i]
    BY <1>2 DEF Numbers
  <2>2. i \in 1..(Len(q) + Len(h)) /\ (q \o h)[i] = v
    BY <1>1, <1>2, <2>1
  <2> QED BY <1>1, <2>2 DEF Numbers
<1>5. ASSUME NEW v \in Numbers(h) PROVE v \in Numbers(q \o h)
  <2>1. PICK i \in 1..Len(h) : v = h[i]
    BY <1>2 DEF Numbers
  <2>2. i + Len(q) \in 1..(Len(q) + Len(h)) /\ i + Len(q) > Len(q)
    BY <1>2
  <2>3. (q \o h)[i + Len(q)] = v
    BY <1>1, <1>2, <2>1, <2>2
  <2> QED BY <1>1, <2>2, <2>3 DEF Numbers
<1> QED BY <1>1, <1>3, <1>4, <1>5

LEMMA NumbersTail ==
    ASSUME NEW q \in Seq(Nat), q # <<>>
    PROVE  /\ Tail(q) \in Seq(Nat) /\ Numbers(Tail(q)) \subseteq Numbers(q)
           /\ Head(q) \in Numbers(q)
<1>1. /\ Tail(q) \in Seq(Nat) /\ DOMAIN Tail(q) = 1..(Len(q) - 1)
      /\ \A i \in 1..(Len(q) - 1) : Tail(q)[i] = q[i + 1]
      /\ Head(q) = q[1]
  OBVIOUS
<1>2. DOMAIN q = 1..Len(q) /\ Len(q) \in Nat \ {0}
  OBVIOUS
<1>3. ASSUME NEW v \in Numbers(Tail(q)) PROVE v \in Numbers(q)
  <2>1. PICK i \in 1..(Len(q) - 1) : v = Tail(q)[i]
    BY <1>1 DEF Numbers
  <2>2. i + 1 \in DOMAIN q
    BY <1>2
  <2> QED BY <1>1, <2>1, <2>2 DEF Numbers
<1>4. 1 \in DOMAIN q
  BY <1>2
<1> QED BY <1>1, <1>3, <1>4 DEF Numbers

\* What Known leaves out changes nothing else.
LEMMA KnownIs ==
    ASSUME NEW q \in Seq(Nat), NEW used
    PROVE  Known(q, used) \in Seq(Nat) /\ Numbers(Known(q, used)) \subseteq Numbers(q)
<1> DEFINE Body(d) == [i \in 0..Len(q) |->
                           IF i = 0 THEN <<>>
                           ELSE IF q[i] \in used THEN Append(d[i - 1], q[i]) ELSE d[i - 1]]
           known == CHOOSE d : d = Body(d)
           Upto(d, n) == d = [i \in 0..n |->
                           IF i = 0 THEN <<>>
                           ELSE IF q[i] \in used THEN Append(d[i - 1], q[i]) ELSE d[i - 1]]
           Known1 == {n \in Nat : ~\E d : Upto(d, n)}
<1>0. Len(q) \in Nat /\ DOMAIN q = 1..Len(q) /\ \A i \in 1..Len(q) : q[i] \in Nat
  OBVIOUS
<1>1. Known(q, used) = known[Len(q)]
  BY DEF Known
<1>2. ASSUME Known1 # {} PROVE FALSE
  <2>1. PICK n \in Known1 : \A m \in Known1 : n <= m
    <3>1. Known1 \in SUBSET Nat
      OBVIOUS
    <3> HIDE DEF Known1
    <3> QED BY <1>2, <3>1, LeastOne
  <2>2. CASE n = 0
    <3> DEFINE d == [i \in 0..0 |-> <<>>]
    <3>1. d = [i \in 0..0 |->
                IF i = 0 THEN <<>>
                ELSE IF q[i] \in used THEN Append(d[i - 1], q[i]) ELSE d[i - 1]]
      OBVIOUS
    <3> HIDE DEF d
    <3> QED BY <2>1, <2>2, <3>1
  <2>3. CASE n # 0
    <3>a. n \in Nat
      BY <2>1
    <3>b. n - 1 \in Nat /\ n - 1 < n
      BY <2>3, <3>a
    <3>c. n - 1 \in Known1 => n <= n - 1
      <4> HIDE DEF Known1
      <4> QED BY <2>1
    <3>d. n - 1 \notin Known1
      <4> HIDE DEF Known1
      <4> QED BY <3>a, <3>b, <3>c
    <3>1. n \in Nat /\ n - 1 \in Nat /\ n - 1 \notin Known1
      <4> HIDE DEF Known1
      <4> QED BY <3>a, <3>b, <3>d
    <3>2. PICK d : Upto(d, n - 1)
      BY <3>1
    <3> DEFINE h == [i \in 0..n |-> IF i = n
                                    THEN IF q[n] \in used THEN Append(d[n - 1], q[n]) ELSE d[n - 1]
                                    ELSE d[i]]
    <3>3. ASSUME NEW i \in 0..n
          PROVE  h[i] = IF i = 0 THEN <<>>
                        ELSE IF q[i] \in used THEN Append(h[i - 1], q[i]) ELSE h[i - 1]
      <4>1. CASE i = n
        <5>1. n - 1 \in 0..n /\ n - 1 # n
          BY <3>1
        <5>2. h[n - 1] = d[n - 1]
          BY <5>1
        <5> QED BY <2>3, <4>1, <5>2
      <4>2. CASE i # n
        <5>1. i \in 0..(n - 1)
          BY <3>1, <4>2
        <5>2. h[i] = d[i]
          BY <4>2
        <5>3. d[i] = IF i = 0 THEN <<>>
                     ELSE IF q[i] \in used THEN Append(d[i - 1], q[i]) ELSE d[i - 1]
          BY <3>2, <5>1
        <5>4. i # 0 => h[i - 1] = d[i - 1]
          BY <3>1, <4>2
        <5> QED BY <5>2, <5>3, <5>4
      <4> QED BY <4>1, <4>2
    <3>4. h = [i \in 0..n |-> h[i]]
      OBVIOUS
    <3> HIDE DEF h
    <3>5. Upto(h, n)
      BY <3>3, <3>4
    <3> QED BY <2>1, <3>5
  <2> QED BY <2>2, <2>3
<1>3. known = Body(known)
  <2>1. \E d : Upto(d, Len(q))
    BY <1>0, <1>2
  <2>2. \A d : Upto(d, Len(q)) <=> d = Body(d)
    OBVIOUS
  <2> HIDE DEF Body, Upto
  <2> QED BY <2>1, <2>2
<1>4. known[0] = <<>> /\ \A i \in 1..Len(q) :
         known[i] = IF q[i] \in used THEN Append(known[i - 1], q[i]) ELSE known[i - 1]
  <2> HIDE DEF known
  <2>1. \A i \in 0..Len(q) : Body(known)[i] = IF i = 0 THEN <<>>
           ELSE IF q[i] \in used THEN Append(known[i - 1], q[i]) ELSE known[i - 1]
    OBVIOUS
  <2>2. \A i \in 0..Len(q) : known[i] = IF i = 0 THEN <<>>
           ELSE IF q[i] \in used THEN Append(known[i - 1], q[i]) ELSE known[i - 1]
    <3> HIDE DEF Body
    <3> QED BY <1>3, <2>1
  <2>3. 0 \in 0..Len(q) /\ \A i \in 1..Len(q) : i \in 0..Len(q) /\ i # 0
    BY <1>0
  <2> HIDE DEF Body
  <2>4. known[0] = <<>>
    BY <2>2, <2>3
  <2> QED BY <2>2, <2>3, <2>4
<1> HIDE DEF known, Known1, Body, Upto
<1> DEFINE Bad == {n \in 0..Len(q) :
                     ~(known[n] \in Seq(Nat) /\ Numbers(known[n]) \subseteq Numbers(q))}
<1>5. ASSUME Bad # {} PROVE FALSE
  <2>1. PICK n \in Bad : \A m \in Bad : n <= m
    <3>1. Bad \in SUBSET Nat
      BY <1>0
    <3> HIDE DEF Bad
    <3> QED BY <1>5, <3>1, LeastOne
  <2>2. CASE n = 0
    <3>1. known[0] \in Seq(Nat) /\ Numbers(known[0]) = {}
      <4>1. <<>> \in Seq(Nat) /\ DOMAIN <<>> = {}
        OBVIOUS
      <4>2. Numbers(<<>>) = {}
        BY <4>1 DEF Numbers
      <4> QED BY <1>4, <4>1, <4>2
    <3> QED BY <2>1, <2>2, <3>1
  <2>3. CASE n # 0
    <3>1. n \in 1..Len(q) /\ n - 1 \in 0..Len(q) /\ n - 1 \notin Bad
      BY <1>0, <2>1, <2>3
    <3>2. known[n - 1] \in Seq(Nat) /\ Numbers(known[n - 1]) \subseteq Numbers(q)
      BY <3>1
    <3>3. q[n] \in Nat /\ q[n] \in Numbers(q)
      BY <1>0, <3>1 DEF Numbers
    <3>4. known[n] = known[n - 1] \/ known[n] = Append(known[n - 1], q[n])
      BY <1>4, <3>1
    <3>5. known[n] \in Seq(Nat) /\ Numbers(known[n]) \subseteq Numbers(q)
      <4>1. Append(known[n - 1], q[n]) \in Seq(Nat)
            /\ Numbers(Append(known[n - 1], q[n])) = Numbers(known[n - 1]) \cup {q[n]}
        BY <3>2, <3>3, NumbersAppend
      <4> QED BY <3>2, <3>3, <3>4, <4>1
    <3> QED BY <2>1, <3>5
  <2> QED BY <2>2, <2>3
<1>6. Len(q) \in 0..Len(q)
  BY <1>0
<1> QED BY <1>1, <1>5, <1>6

-----------------------------------------------------------------------------
(* What the kernel does *)

\* The flip in flight of CRTC k is completed, if anything.
Settled(S, T, k) ==
    /\ FlipTypes(T) /\ T.defer = S.defer
    /\ \A j \in SinkCrtcs \ {k} : T.flip[j] = S.flip[j] /\ T.shown[j] = S.shown[j]
    /\ T.flip[k] # NoFlip => T.flip[k] = S.flip[k] /\ Pending(T) \subseteq Pending(S) \cup {0}
    /\ Pending(T) \subseteq Pending(S) \cup {0, S.flip[k].seq}

\* What is displayed when the flip is completed.
NextShown(S, k) == IF S.flip[k] = NoFlip THEN S.shown[k] ELSE S.flip[k].pixmap

LEMMA SettledApart ==
    ASSUME NEW S, NumbersApart(S), NEW T, NEW k \in SinkCrtcs, Settled(S, T, k)
    PROVE  NumbersApart(T)
<1>1. ASSUME NEW j \in SinkCrtcs, T.flip[j] # NoFlip
      PROVE  /\ T.flip[j].seq # 0 /\ T.flip[j].seq \notin Pending(T)
             /\ \A i \in SinkCrtcs \ {j} : T.flip[i].seq # T.flip[j].seq
  <2>1. T.flip[j] = S.flip[j]
    BY <1>1 DEF Settled
  <2>2. /\ S.flip[j].seq # 0 /\ S.flip[j].seq \notin Pending(S)
        /\ \A i \in SinkCrtcs \ {j} : S.flip[i].seq # S.flip[j].seq
    BY <1>1, <2>1 DEF NumbersApart
  <2>3. NoFlip.seq = 0
    BY DEF NoFlip
  <2>4. S.flip[j].seq \notin Pending(T)
    BY <1>1, <2>1, <2>2 DEF Settled
  <2>5. \A i \in SinkCrtcs : T.flip[i] = S.flip[i] \/ T.flip[i] = NoFlip
    BY DEF Settled
  <2> QED BY <2>1, <2>2, <2>3, <2>4, <2>5
<1> QED BY <1>1 DEF NumbersApart

LEMMA SettledTransitive ==
    ASSUME NEW S, NEW T, NEW U, NEW k \in SinkCrtcs, Settled(S, T, k), Settled(T, U, k)
    PROVE  Settled(S, U, k)
<1>1. NoFlip.seq = 0
  BY DEF NoFlip
<1>2. U.flip[k] # NoFlip => U.flip[k] = T.flip[k] /\ T.flip[k] = S.flip[k]
                            /\ Pending(U) \subseteq Pending(S) \cup {0}
  BY DEF Settled
<1>3. Pending(U) \subseteq Pending(S) \cup {0, S.flip[k].seq}
  <2>1. CASE T.flip[k] = NoFlip
    BY <1>1, <2>1 DEF Settled
  <2>2. CASE T.flip[k] # NoFlip
    BY <2>2 DEF Settled
  <2> QED BY <2>1, <2>2
<1> QED BY <1>2, <1>3 DEF Settled

LEMMA SettledView ==
    ASSUME NEW S, NEW T, NEW k \in SinkCrtcs, Settled(S, T, k),
           SamePixmaps(S, T), T.damage = S.damage, T.ms_drm_queue = S.ms_drm_queue,
           \A j \in SinkCrtcs \ {k} : T.odd[j] = S.odd[j]
    PROVE  View(S, T, k) /\ Targets(T, k) = Targets(S, k) /\ Entries(T, k) = Entries(S, k)
<1>1. \A j \in SinkCrtcs : Targets(T, j) = Targets(S, j) /\ Entries(T, j) = Entries(S, j)
  BY DEF Targets, Entries, SamePixmaps
<1>2. ASSUME NEW j \in SinkCrtcs \ {k} PROVE Alike(S, T, j)
  BY <1>1 DEF Alike, Settled, SamePixmaps
<1> QED BY <1>1, <1>2 DEF View

LEMMA PendingIs ==
    ASSUME NEW S, NEW T, NEW k \in SinkCrtcs, NEW A, Numbers(T.fd) \subseteq Pending(S) \cup A,
           \A j \in SinkCrtcs : Numbers(T.vblanks[j]) \subseteq Pending(S) \cup A
    PROVE  Pending(T) \subseteq Pending(S) \cup A
BY DEF Pending

LEMMA PendingHas ==
    ASSUME NEW S
    PROVE  /\ Numbers(S.fd) \subseteq Pending(S)
           /\ \A j \in SinkCrtcs : Numbers(S.vblanks[j]) \subseteq Pending(S)
BY DEF Pending

LEMMA CompletedSettles ==
    ASSUME NEW S, DOMAIN S = Fields, FlipTypes(S), NEW k \in SinkCrtcs,
           NEW T, T = Completed(S, k)
    PROVE  Settled(S, T, k) /\ T.flip[k] = NoFlip /\ T.shown[k] = NextShown(S, k)
<1>1. CASE S.flip[k] = NoFlip
  BY <1>1 DEF Completed, Settled, NextShown
<1>2. CASE S.flip[k] # NoFlip
  <2>1. T = [S EXCEPT !.shown[k] = S.flip[k].pixmap, !.fd = Append(@, S.flip[k].seq),
                      !.flip[k] = NoFlip]
    BY <1>2 DEF Completed
  <2>2. /\ T.shown = [S.shown EXCEPT ![k] = S.flip[k].pixmap]
        /\ T.fd = Append(S.fd, S.flip[k].seq)
        /\ T.flip = [S.flip EXCEPT ![k] = NoFlip]
        /\ T.vblanks = S.vblanks /\ T.defer = S.defer
    BY <2>1 DEF Fields
  <2>3. /\ S.flip[k].seq \in Nat /\ S.flip[k].pixmap \in Pixmaps \cup {NoPixmap}
        /\ NoFlip \in [seq : Nat, pixmap : Pixmaps \cup {NoPixmap}]
    BY DEF FlipTypes, NoFlip
  <2>4. T.fd \in Seq(Nat) /\ Numbers(T.fd) = Numbers(S.fd) \cup {S.flip[k].seq}
    BY <2>2, <2>3, NumbersAppend DEF FlipTypes
  <2>5. T.flip \in [SinkCrtcs -> [seq : Nat, pixmap : Pixmaps \cup {NoPixmap}]]
        /\ T.shown \in [SinkCrtcs -> Pixmaps \cup {NoPixmap, Other}]
    BY <2>2, <2>3 DEF FlipTypes
  <2>6. FlipTypes(T)
    BY <2>2, <2>4, <2>5 DEF FlipTypes
  <2>7. /\ T.flip[k] = NoFlip /\ T.shown[k] = S.flip[k].pixmap
        /\ \A j \in SinkCrtcs \ {k} : T.flip[j] = S.flip[j] /\ T.shown[j] = S.shown[j]
    BY <2>2 DEF FlipTypes
  <2>8. Pending(T) \subseteq Pending(S) \cup {0, S.flip[k].seq}
    BY <2>2, <2>4 DEF Pending
  <2> QED BY <1>2, <2>2, <2>6, <2>7, <2>8 DEF Settled, NextShown
<1> QED BY <1>1, <1>2

LEMMA BlankedSettles ==
    ASSUME NEW S, DOMAIN S = Fields, FlipTypes(S), NEW k \in SinkCrtcs,
           NEW T, T = Blanked(S, k)
    PROVE  Settled(S, T, k) /\ T.flip = S.flip /\ T.shown = S.shown
<1>1. /\ T.fd = S.fd \o S.vblanks[k] /\ T.vblanks = [S.vblanks EXCEPT ![k] = <<>>]
      /\ T.flip = S.flip /\ T.shown = S.shown /\ T.defer = S.defer
  BY DEF Blanked, Fields
<1>2. S.fd \in Seq(Nat) /\ S.vblanks[k] \in Seq(Nat)
  BY DEF FlipTypes
<1>3. T.fd \in Seq(Nat) /\ Numbers(T.fd) = Numbers(S.fd) \cup Numbers(S.vblanks[k])
  BY <1>1, <1>2, NumbersConcat
<1>4. <<>> \in Seq(Nat) /\ Numbers(<<>>) = {}
  <2>1. <<>> \in Seq(Nat) /\ DOMAIN <<>> = {}
    OBVIOUS
  <2> QED BY <2>1 DEF Numbers
<1>5. /\ T.vblanks[k] = <<>> /\ \A j \in SinkCrtcs \ {k} : T.vblanks[j] = S.vblanks[j]
      /\ T.vblanks \in [SinkCrtcs -> Seq(Nat)]
  BY <1>1, <1>4 DEF FlipTypes
<1>6. FlipTypes(T)
  BY <1>1, <1>3, <1>5 DEF FlipTypes
<1>7. Pending(T) \subseteq Pending(S)
  <2>1. Numbers(T.fd) \subseteq Pending(S)
    BY <1>3, PendingHas
  <2>2. \A j \in SinkCrtcs : Numbers(T.vblanks[j]) \subseteq Pending(S)
    BY <1>4, <1>5, PendingHas
  <2> QED BY <2>1, <2>2 DEF Pending
<1> QED BY <1>1, <1>6, <1>7 DEF Settled

LEMMA TurnedOffSettles ==
    ASSUME NEW S, SharedTypes(S), FlipTypes(S), NEW k \in SinkCrtcs,
           NEW T, T = TurnedOff(S, k)
    PROVE  Settled(S, T, k) /\ T.flip[k] = NoFlip /\ T.shown[k] = NextShown(S, k)
<1> DEFINE C == Completed(S, k)
           B == Blanked(C, k)
<1>1. Settled(S, C, k) /\ C.flip[k] = NoFlip /\ C.shown[k] = NextShown(S, k)
  BY CompletedSettles DEF SharedTypes
<1>2. SharedTypes(C)
  <2>1. Same(S, C) /\ C.on = S.on /\ C.odd = S.odd
    BY CompletedIs
  <2> HIDE DEF C
  <2> QED BY <2>1, SameTypes DEF SharedTypes
<1>3. T = [B EXCEPT !.on[k] = FALSE]
  BY DEF TurnedOff
<1> HIDE DEF C
<1>4. Settled(C, B, k) /\ B.flip = C.flip /\ B.shown = C.shown
  BY <1>1, <1>2, BlankedSettles DEF SharedTypes, Settled
<1>5. DOMAIN B = Fields
  BY <1>2, BlankedIs DEF Same
<1> HIDE DEF B
<1>6. /\ T.flip = B.flip /\ T.shown = B.shown /\ T.fd = B.fd /\ T.vblanks = B.vblanks
      /\ T.defer = B.defer
  BY <1>3, <1>5 DEF Fields
<1>7. Settled(C, T, k)
  BY <1>4, <1>6 DEF Settled, FlipTypes, Pending
<1> QED BY <1>1, <1>4, <1>6, <1>7, SettledTransitive

LEMMA ShowsSettled ==
    ASSUME NEW S, SharedTypes(S), Separate(S), NEW k \in SinkCrtcs, One(S, k), Displays(S, k),
           NEW T, Settled(S, T, k), T.flip[k] = NoFlip,
           T.shown[k] = NextShown(S, k) \/ T.shown[k] \notin Pixmaps,
           SamePixmaps(S, T), Entries(T, k) = Entries(S, k), T.odd[k] = S.odd[k]
    PROVE  Displays(T, k)
<1>1. /\ Targets(T, k) = Targets(S, k) /\ Clean(T, k) = Clean(S, k)
      /\ Turning(T, k) = Turning(S, k)
  BY DEF Targets, SamePixmaps, Clean, Turning
<1>2. ShowsOwn(T, k)
  BY <1>1 DEF Displays, ShowsOwn, SamePixmaps, Settled, NextShown
<1>3. ShowsNext(T, k)
  BY DEF ShowsNext
<1>4. ASSUME Clean(T, k), T.enable_flipping[k] PROVE ShowsFront(T, k)
  <2>1. /\ S.prime_pixmap[k] \in Pixmaps /\ S.prime_pixmap_back[k] \in Pixmaps
        /\ S.prime_pixmap[k] # S.prime_pixmap_back[k]
    BY <1>4 DEF Separate, SharedTypes, SamePixmaps
  <2>2. /\ S.flip[k] # NoFlip => Turning(S, k)
        /\ S.shown[k] = S.prime_pixmap_back[k] => Turning(S, k) /\ S.flip[k] = NoFlip
        /\ Turning(S, k) /\ S.flip[k] = NoFlip => S.shown[k] # S.prime_pixmap[k]
    BY <1>1, <1>4 DEF Displays, ShowsFront, SamePixmaps
  <2>3. "overlap" \notin S.odd[k]
    BY <1>1, <1>4 DEF Clean
  <2>4. ASSUME S.flip[k] # NoFlip PROVE S.flip[k].pixmap = S.prime_pixmap_back[k]
    <3>1. PICK e \in Entries(S, k) : e.flip
      BY <2>2, <2>4 DEF Turning
    <3>2. S.flip[k].pixmap = e.front
      BY <2>3, <2>4, <3>1 DEF Displays, ShowsNext
    <3> QED BY <2>3, <3>1, <3>2 DEF One
  <2>5. CASE T.shown[k] \notin Pixmaps
    BY <1>1, <2>1, <2>5 DEF ShowsFront, SamePixmaps
  <2>6. CASE T.shown[k] = NextShown(S, k)
    <3>1. CASE S.flip[k] = NoFlip
      BY <1>1, <2>1, <2>2, <2>6, <3>1 DEF ShowsFront, SamePixmaps, NextShown
    <3>2. CASE S.flip[k] # NoFlip
      BY <1>1, <2>1, <2>2, <2>4, <2>6, <3>2 DEF ShowsFront, SamePixmaps, NextShown
    <3> QED BY <3>1, <3>2
  <2> QED BY <2>5, <2>6
<1>5. ShowsFront(T, k)
  BY <1>4 DEF ShowsFront
<1> QED BY <1>2, <1>3, <1>5 DEF Displays

\* A flip that is completed can be seen to be the handler's.
LEMMA SettledFine ==
    ASSUME NEW C, NEW S, Good(S, C), Seen(S), NEW k \in SinkCrtcs,
           NEW T, Settled(S, T, k), T.flip[k] = NoFlip,
           T.shown[k] = NextShown(S, k) \/ T.shown[k] \notin Pixmaps,
           Same(S, T), T.odd = S.odd
    PROVE  Fine(S, T, k)
<1>1. /\ SamePixmaps(S, T) /\ T.damage = S.damage /\ T.ms_drm_queue = S.ms_drm_queue
      /\ T.full = S.full
  BY DEF Same, SameQueue, SameDamage
<1>2. View(S, T, k) /\ Targets(T, k) = Targets(S, k) /\ Entries(T, k) = Entries(S, k)
  BY <1>1, SettledView
<1>3. FlipTypes(T)
  BY DEF Settled
<1>4. ASSUME ~T.full PROVE NumbersApart(T) /\ Displays(T, k) /\ Untorn(S, T, k)
  <2>1. ~S.full
    BY <1>1, <1>4
  <2>2. NumbersApart(S) /\ Displays(S, k)
    BY <2>1 DEF Seen, Visible
  <2>3. SharedTypes(S) /\ Separate(S) /\ One(S, k)
    BY <2>1 DEF Good, Sound
  <2>4. NumbersApart(T)
    BY <2>2, SettledApart
  <2>5. Displays(T, k)
    BY <1>1, <1>2, <2>2, <2>3, ShowsSettled
  <2>6. Untorn(S, T, k)
    BY <1>1, UncopiedUntorn
  <2> QED BY <2>4, <2>5, <2>6
<1> QED BY <1>1, <1>2, <1>3, <1>4, FineIf

LEMMA CompletedFine ==
    ASSUME NEW C, NEW S, Good(S, C), Seen(S), NEW k \in SinkCrtcs,
           NEW T, T = Completed(S, k)
    PROVE  Fine(S, T, k)
<1>1. SharedTypes(S) /\ FlipTypes(S) /\ DOMAIN S = Fields
  BY DEF Good, Seen, SharedTypes
<1>2. Settled(S, T, k) /\ T.flip[k] = NoFlip /\ T.shown[k] = NextShown(S, k)
  BY <1>1, CompletedSettles
<1>3. Same(S, T) /\ T.odd = S.odd
  BY <1>1, CompletedIs
<1> QED BY <1>2, <1>3, SettledFine

LEMMA TurnedOffFine ==
    ASSUME NEW C, NEW S, Good(S, C), Seen(S), NEW k \in SinkCrtcs,
           NEW T, T = TurnedOff(S, k)
    PROVE  Fine(S, T, k)
<1>1. SharedTypes(S) /\ FlipTypes(S)
  BY DEF Good, Seen
<1>2. Settled(S, T, k) /\ T.flip[k] = NoFlip /\ T.shown[k] = NextShown(S, k)
  BY <1>1, TurnedOffSettles
<1>3. Same(S, T) /\ T.odd = S.odd
  BY <1>1, TurnedOffIs
<1> QED BY <1>2, <1>3, SettledFine

\* The CRTC displays something else.
Showing(T, k, p) == [T EXCEPT !.shown[k] = p]

LEMMA ShownSettles ==
    ASSUME NEW S, NEW k \in SinkCrtcs, NEW T, SharedTypes(T), Settled(S, T, k),
           NEW p \in Pixmaps \cup {NoPixmap, Other}, NEW U, U = Showing(T, k, p)
    PROVE  /\ Settled(S, U, k) /\ U.flip = T.flip /\ U.shown[k] = p
           /\ Same(T, U) /\ U.on = T.on /\ U.odd = T.odd
<1>1. /\ U.flip = T.flip /\ U.fd = T.fd /\ U.vblanks = T.vblanks /\ U.defer = T.defer
      /\ U.shown = [T.shown EXCEPT ![k] = p]
  BY DEF SharedTypes, Fields, Showing
<1>2. Same(T, U) /\ U.on = T.on /\ U.odd = T.odd
  BY DEF SharedTypes, Fields, Same, SamePixmaps, SameQueue, SameDamage, Showing
<1>3. FlipTypes(T)
  BY DEF Settled
<1>4. /\ U.shown \in [SinkCrtcs -> Pixmaps \cup {NoPixmap, Other}] /\ U.shown[k] = p
      /\ \A j \in SinkCrtcs \ {k} : U.shown[j] = T.shown[j]
  BY <1>1, <1>3 DEF FlipTypes
<1>5. FlipTypes(U) /\ Pending(U) = Pending(T)
  BY <1>1, <1>3, <1>4 DEF FlipTypes, Pending
<1> QED BY <1>1, <1>2, <1>4, <1>5 DEF Settled

LEMMA NotPixmaps == NoPixmap \notin Pixmaps /\ Other \notin Pixmaps
BY SharedFlipAssumption DEF NoPixmap, Other, Pixmaps

LEMMA SameSame ==
    ASSUME NEW S, NEW T, NEW U, Same(S, T), Same(T, U)
    PROVE  Same(S, U)
BY DEF Same, SamePixmaps, SameQueue, SameDamage

LEMMA DarkFine ==
    ASSUME NEW C, NEW S, Good(S, C), Seen(S), NEW k \in SinkCrtcs,
           NEW T, T = Dark(S, k)
    PROVE  Fine(S, T, k) /\ SamePixmaps(S, T)
<1> DEFINE V == TurnedOff(S, k)
<1>1. SharedTypes(S) /\ FlipTypes(S)
  BY DEF Good, Seen
<1>2. Settled(S, V, k) /\ V.flip[k] = NoFlip
  BY <1>1, TurnedOffSettles
<1>3. Same(S, V) /\ V.on = [S.on EXCEPT ![k] = FALSE] /\ V.odd = S.odd
  BY <1>1, TurnedOffIs
<1>4. T = Showing(V, k, NoPixmap)
  BY DEF Dark, Showing
<1> HIDE DEF V
<1>5. SharedTypes(V)
  <2>1. V.on \in [SinkCrtcs -> BOOLEAN] /\ V.odd \in [SinkCrtcs -> SUBSET Oddities]
    BY <1>1, <1>3 DEF SharedTypes
  <2> QED BY <1>1, <1>3, <2>1, SameTypes
<1>6. /\ Settled(S, T, k) /\ T.flip = V.flip /\ T.shown[k] = NoPixmap
      /\ Same(V, T) /\ T.odd = V.odd
  <2>1. NoPixmap \in Pixmaps \cup {NoPixmap, Other} /\ Other \in Pixmaps \cup {NoPixmap, Other}
    OBVIOUS
  <2> QED BY <1>2, <1>4, <1>5, <2>1, ShownSettles
<1>7. Same(S, T)
  BY <1>3, <1>6, SameSame
<1>8. Fine(S, T, k)
  BY <1>2, <1>3, <1>6, <1>7, NotPixmaps, SettledFine
<1> QED BY <1>7, <1>8 DEF Same

LEMMA TakenOverFine ==
    ASSUME NEW C, NEW S, Good(S, C), Seen(S), NEW k \in SinkCrtcs, NEW b \in BOOLEAN,
           NEW T, T = TakenOver(S, k, b)
    PROVE  Fine(S, T, k)
<1> DEFINE V == IF b THEN [Completed(S, k) EXCEPT !.on[k] = TRUE] ELSE TurnedOff(S, k)
<1>1. SharedTypes(S) /\ FlipTypes(S) /\ DOMAIN S = Fields
  BY DEF Good, Seen, SharedTypes
<1>2. /\ Settled(S, V, k) /\ V.flip[k] = NoFlip
      /\ Same(S, V) /\ V.odd = S.odd /\ V.on \in [SinkCrtcs -> BOOLEAN]
  <2>1. CASE b
    <3> DEFINE W == Completed(S, k)
    <3>1. Settled(S, W, k) /\ W.flip[k] = NoFlip
      BY <1>1, CompletedSettles
    <3>2. Same(S, W) /\ W.on = S.on /\ W.odd = S.odd
      BY <1>1, CompletedIs
    <3>3. V = [W EXCEPT !.on[k] = TRUE]
      BY <2>1
    <3> HIDE DEF V, W
    <3>4. DOMAIN W = Fields
      BY <3>2 DEF Same
    <3>5. /\ V.flip = W.flip /\ V.shown = W.shown /\ V.fd = W.fd /\ V.vblanks = W.vblanks
          /\ V.defer = W.defer /\ V.odd = W.odd /\ Same(W, V)
          /\ V.on = [W.on EXCEPT ![k] = TRUE]
      BY <3>3, <3>4 DEF Fields, Same, SamePixmaps, SameQueue, SameDamage
    <3>6. Settled(S, V, k)
      BY <3>1, <3>5 DEF Settled, FlipTypes, Pending
    <3>7. Same(S, V)
      BY <3>2, <3>5, SameSame
    <3> QED BY <1>1, <3>1, <3>2, <3>5, <3>6, <3>7 DEF SharedTypes
  <2>2. CASE ~b
    <3> DEFINE W == TurnedOff(S, k)
    <3>1. Settled(S, W, k) /\ W.flip[k] = NoFlip
      BY <1>1, TurnedOffSettles
    <3>2. Same(S, W) /\ W.on = [S.on EXCEPT ![k] = FALSE] /\ W.odd = S.odd
      BY <1>1, TurnedOffIs
    <3>3. V = W
      BY <2>2
    <3> HIDE DEF V, W
    <3> QED BY <1>1, <3>1, <3>2, <3>3 DEF SharedTypes
  <2> QED BY <2>1, <2>2
<1>4. T = Showing(V, k, Other)
  BY DEF TakenOver, Showing
<1> HIDE DEF V
<1>5. SharedTypes(V)
  <2>1. V.on \in [SinkCrtcs -> BOOLEAN] /\ V.odd \in [SinkCrtcs -> SUBSET Oddities]
    BY <1>1, <1>2 DEF SharedTypes
  <2> QED BY <1>1, <1>2, <2>1, SameTypes
<1>6. /\ Settled(S, T, k) /\ T.flip = V.flip /\ T.shown[k] = Other
      /\ Same(V, T) /\ T.odd = V.odd
  <2>1. NoPixmap \in Pixmaps \cup {NoPixmap, Other} /\ Other \in Pixmaps \cup {NoPixmap, Other}
    OBVIOUS
  <2> QED BY <1>2, <1>4, <1>5, <2>1, ShownSettles
<1>7. Same(S, T)
  BY <1>2, <1>6, SameSame
<1> QED BY <1>2, <1>6, <1>7, NotPixmaps, SettledFine

-----------------------------------------------------------------------------
(* What presenting a pixmap shows *)

\* What the kernel has, and defer.
SameKernel(S, T) ==
    /\ T.flip = S.flip /\ T.shown = S.shown /\ T.fd = S.fd /\ T.vblanks = S.vblanks
    /\ T.defer = S.defer

Unused(S, n) == n # 0 => n \notin Pending(S) /\ \A j \in SinkCrtcs : S.flip[j].seq # n

EntryOf(S, k, x, n, b) ==
    [seq |-> n, crtc |-> k, front |-> x, back |-> S.prime_pixmap[k], flip |-> b]

\* A handler waits for the flip n, ...
FiledFlip(S, T, k, x, n) ==
    /\ S.flip[k] = NoFlip
    /\ T.flip = [S.flip EXCEPT ![k] = [seq |-> n, pixmap |-> x]]
    /\ T.shown = S.shown /\ T.fd = S.fd /\ T.vblanks = S.vblanks /\ T.defer = S.defer
    /\ T.ms_drm_queue = S.ms_drm_queue \cup {EntryOf(S, k, x, n, TRUE)}

\* ... or for the vertical blank n.
FiledBlank(S, T, k, x, n) ==
    /\ T.vblanks = [S.vblanks EXCEPT ![k] = Append(@, n)]
    /\ T.flip = S.flip /\ T.shown = S.shown /\ T.fd = S.fd /\ T.defer = S.defer
    /\ T.ms_drm_queue = S.ms_drm_queue \cup {EntryOf(S, k, x, n, FALSE)}

NumberFor(S, T, n) == n \in Nat /\ Unused(S, n) /\ T.full = (S.full \/ n = 0)

LEMMA NewSeqFresh ==
    ASSUME NEW S, NEW n, n = NewSeq(S)
    PROVE  n \in Nat /\ Unused(S, n)
<1>1. n \in Nat
  BY NewSeqIs
<1>2. ASSUME n # 0 PROVE n \notin InUse(S)
  <2>1. \E s \in Seqs : s \notin InUse(S) /\ \A t \in Seqs \ InUse(S) : s <= t
    <3>1. Seqs \ InUse(S) # {} /\ Seqs \ InUse(S) \in SUBSET Nat
      BY <1>2 DEF NewSeq, Seqs
    <3>2. PICK s \in Seqs \ InUse(S) : \A t \in Seqs \ InUse(S) : s <= t
      BY <3>1, LeastOne
    <3> QED BY <3>2
  <2> QED BY <1>2, <2>1 DEF NewSeq
<1>3. Pending(S) \subseteq InUse(S) /\ \A j \in SinkCrtcs : S.flip[j].seq \in InUse(S)
  BY DEF Pending, InUse
<1> QED BY <1>1, <1>2, <1>3 DEF Unused

LEMMA QueuedKernel ==
    ASSUME NEW S, SharedTypes(S), NEW k \in SinkCrtcs, NEW x \in Pixmaps, NEW b \in BOOLEAN,
           NEW T, T = Queued(S, k, x, b)
    PROVE  SameKernel(S, T)
BY DEF Queued, SharedTypes, Fields, SameKernel

LEMMA FlipSees ==
    ASSUME NEW S, SharedTypes(S), NEW k \in SinkCrtcs, NEW x \in Pixmaps,
           NEW T, T = drmmode_SharedPixmapFlip(S, k, x)
    PROVE  /\ T.ok => \E n : NumberFor(S, T, n) /\ FiledFlip(S, T, k, x, n)
           /\ ~T.ok => SameKernel(S, T) /\ T.ms_drm_queue = S.ms_drm_queue /\ T.full = S.full
           /\ S.odd[k] \subseteq T.odd[k]
<1> DEFINE able == S.vtSema /\ S.on[k] /\ S.flip[k] = NoFlip /\ S.fb_id[x]
<1>1. CASE able
  <2> DEFINE U == Queued(S, k, x, TRUE)
             n == NewSeq(S)
  <2>1. T = [[U EXCEPT !.flip[k] = [seq |-> n, pixmap |-> x]] EXCEPT !.ok = TRUE]
    BY <1>1 DEF drmmode_SharedPixmapFlip, Done
  <2>2. /\ DOMAIN U = Fields /\ U.full = (S.full \/ n = 0) /\ U.odd = S.odd
        /\ U.ms_drm_queue = S.ms_drm_queue \cup {EntryOf(S, k, x, n, TRUE)}
    BY DEF Queued, SharedTypes, Fields, EntryOf
  <2>3. SameKernel(S, U)
    BY QueuedKernel
  <2>4. n \in Nat /\ Unused(S, n)
    BY NewSeqFresh
  <2> HIDE DEF U, n
  <2>5. /\ T.flip = [U.flip EXCEPT ![k] = [seq |-> n, pixmap |-> x]]
        /\ T.shown = U.shown /\ T.fd = U.fd /\ T.vblanks = U.vblanks /\ T.defer = U.defer
        /\ T.ms_drm_queue = U.ms_drm_queue /\ T.full = U.full /\ T.odd = U.odd
        /\ T.ok = TRUE
    BY <2>1, <2>2 DEF Fields
  <2>6. NumberFor(S, T, n)
    BY <2>2, <2>4, <2>5 DEF NumberFor
  <2>7. FiledFlip(S, T, k, x, n)
    BY <1>1, <2>2, <2>3, <2>5 DEF FiledFlip, SameKernel
  <2> QED BY <2>2, <2>5, <2>6, <2>7
<1>2. CASE ~able
  <2>1. T = [[[S EXCEPT !.flip_seq[x] = 0] EXCEPT !.odd[k] = @ \cup {"failed"}] EXCEPT !.ok = FALSE]
    BY <1>2 DEF drmmode_SharedPixmapFlip, Failed, Odd
  <2>2. /\ SameKernel(S, T) /\ T.ms_drm_queue = S.ms_drm_queue /\ T.full = S.full
        /\ T.odd = [S.odd EXCEPT ![k] = @ \cup {"failed"}] /\ T.ok = FALSE
    BY <2>1 DEF SharedTypes, Fields, SameKernel
  <2> QED BY <2>2 DEF SharedTypes
<1> QED BY <1>1, <1>2

LEMMA PresentOnVBlankSees ==
    ASSUME NEW S, SharedTypes(S), NEW k \in SinkCrtcs, NEW x \in Pixmaps,
           S.prime_pixmap[k] # x, S.prime_pixmap_back[k] = x,
           NEW T, T = drmmode_SharedPixmapPresentOnVBlank(S, k, x)
    PROVE  /\ T.ok => \E n : NumberFor(S, T, n) /\ FiledBlank(S, T, k, x, n)
           /\ ~T.ok => SameKernel(S, T) /\ T.ms_drm_queue = S.ms_drm_queue /\ T.full = S.full
           /\ S.odd[k] \subseteq T.odd[k]
<1> DEFINE U == Odd(S, k, "overlap", Entries(S, k) # {})
<1>1. T = IF S.on[k]
          THEN Done([Queued(U, k, x, FALSE) EXCEPT !.vblanks[k] = Append(@, NewSeq(S))])
          ELSE Failed([U EXCEPT !.flip_seq[x] = 0])
  BY DEF drmmode_SharedPixmapPresentOnVBlank
<1>2. /\ Same(S, U) /\ U.on = S.on /\ U.odd \in [SinkCrtcs -> SUBSET Oddities]
      /\ S.odd[k] \subseteq U.odd[k]
  <2>1. "overlap" \in Oddities
    BY DEF Oddities
  <2>2. CASE Entries(S, k) # {}
    BY <2>1, <2>2 DEF Odd, SharedTypes, Fields, Same, SamePixmaps, SameQueue, SameDamage
  <2>3. CASE Entries(S, k) = {}
    BY <2>3 DEF Odd, SharedTypes, Fields, Same, SamePixmaps, SameQueue, SameDamage
  <2> QED BY <2>2, <2>3
<1>3. SameKernel(S, U) /\ NewSeq(U) = NewSeq(S)
  <2>1. CASE Entries(S, k) # {}
    <3>1. SameKernel(S, U) /\ U.ms_drm_queue = S.ms_drm_queue /\ U.flip_seq = S.flip_seq
      BY <2>1 DEF Odd, SharedTypes, Fields, SameKernel
    <3> HIDE DEF U
    <3>2. InUse(U) = InUse(S)
      BY <3>1 DEF InUse, SameKernel
    <3> QED BY <3>1, <3>2 DEF NewSeq
  <2>2. CASE Entries(S, k) = {}
    <3>1. U = S
      BY <2>2 DEF Odd
    <3> QED BY <3>1 DEF SameKernel
  <2> QED BY <2>1, <2>2
<1> HIDE DEF U
<1>4. SharedTypes(U)
  BY <1>2, SameTypes DEF SharedTypes
<1>5. /\ U.ms_drm_queue = S.ms_drm_queue /\ U.full = S.full
      /\ U.prime_pixmap = S.prime_pixmap
  BY <1>2 DEF Same, SameQueue, SamePixmaps
<1>6. CASE S.on[k]
  <2> DEFINE V == Queued(U, k, x, FALSE)
             n == NewSeq(S)
  <2>1. T = [[V EXCEPT !.vblanks[k] = Append(@, n)] EXCEPT !.ok = TRUE]
    BY <1>1, <1>6 DEF Done
  <2>2. /\ DOMAIN V = Fields /\ V.full = (U.full \/ n = 0) /\ V.odd = U.odd
        /\ V.ms_drm_queue = U.ms_drm_queue \cup {EntryOf(U, k, x, n, FALSE)}
    <3>1. n = NewSeq(U)
      BY <1>3
    <3> HIDE DEF n
    <3> QED BY <1>4, <3>1 DEF Queued, SharedTypes, Fields, EntryOf
  <2>3. SameKernel(U, V)
    BY <1>4, QueuedKernel
  <2>4. n \in Nat /\ Unused(S, n)
    BY NewSeqFresh
  <2> HIDE DEF V, n
  <2>5. /\ T.vblanks = [V.vblanks EXCEPT ![k] = Append(@, n)]
        /\ T.shown = V.shown /\ T.fd = V.fd /\ T.flip = V.flip /\ T.defer = V.defer
        /\ T.ms_drm_queue = V.ms_drm_queue /\ T.full = V.full /\ T.odd = V.odd
        /\ T.ok = TRUE
    BY <2>1, <2>2 DEF Fields
  <2>6. NumberFor(S, T, n)
    BY <1>5, <2>2, <2>4, <2>5 DEF NumberFor
  <2>7. FiledBlank(S, T, k, x, n)
    BY <1>3, <1>5, <2>2, <2>3, <2>5 DEF FiledBlank, SameKernel, EntryOf
  <2> QED BY <1>2, <2>2, <2>5, <2>6, <2>7
<1>7. CASE ~S.on[k]
  <2>1. T = [[U EXCEPT !.flip_seq[x] = 0] EXCEPT !.ok = FALSE]
    BY <1>1, <1>7 DEF Failed
  <2>2. /\ SameKernel(U, T) /\ T.ms_drm_queue = U.ms_drm_queue /\ T.full = U.full
        /\ T.odd = U.odd /\ T.ok = FALSE
    BY <1>4, <2>1 DEF SharedTypes, Fields, SameKernel
  <2> QED BY <1>2, <1>3, <1>5, <2>2 DEF SameKernel
<1> QED BY <1>6, <1>7

\* What a presentation does to the kernel and to the entries.
Presented(S, T, k, x) ==
    \/ SameKernel(S, T) /\ T.ms_drm_queue = S.ms_drm_queue /\ T.full = S.full
    \/ \E n : NumberFor(S, T, n) /\ FiledFlip(S, T, k, x, n)
    \/ \E n : NumberFor(S, T, n) /\ FiledBlank(S, T, k, x, n)

LEMMA PresentSees ==
    ASSUME NEW S, SharedTypes(S), NEW k \in SinkCrtcs, NEW x \in Pixmaps,
           S.prime_pixmap[k] # x, S.prime_pixmap_back[k] = x,
           NEW T, T = drmmode_SharedPixmapPresent(S, k, x)
    PROVE  /\ Presented(S, T, k, x) /\ S.odd[k] \subseteq T.odd[k]
           /\ \A y \in Pixmaps \ {x} : T.damage[y] = S.damage[y]
<1>1. CASE ~S.damage[x]
  <2>1. T = [[S EXCEPT !.wait_for_damage[x] = TRUE, !.notify_on_damage[x] = TRUE]
               EXCEPT !.ok = TRUE]
    BY <1>1 DEF drmmode_SharedPixmapPresent, Done
  <2>2. /\ SameKernel(S, T) /\ T.ms_drm_queue = S.ms_drm_queue /\ T.full = S.full
        /\ T.odd = S.odd /\ T.damage = S.damage
    BY <2>1 DEF SharedTypes, Fields, SameKernel
  <2> QED BY <2>2 DEF Presented
<1>2. CASE S.damage[x]
  <2> DEFINE U == [S EXCEPT !.damage[x] = FALSE, !.slave_damage[x] = TRUE]
             F == drmmode_SharedPixmapFlip(U, k, x)
             V == drmmode_SharedPixmapPresentOnVBlank(F, k, x)
  <2>1. T = IF F.ok THEN F ELSE V
    BY <1>2 DEF drmmode_SharedPixmapPresent
  <2>2. /\ DOMAIN U = Fields /\ SamePixmaps(S, U) /\ SameQueue(S, U) /\ SameWaits(S, U)
        /\ U.flipping_active = S.flipping_active /\ U.on = S.on /\ U.odd = S.odd
        /\ U.damage = [S.damage EXCEPT ![x] = FALSE] /\ SameKernel(S, U)
    BY DEF SharedTypes, Fields, SamePixmaps, SameQueue, SameWaits, SameKernel
  <2> HIDE DEF U
  <2>3. SharedTypes(U)
    BY <2>2 DEF SharedTypes, SamePixmaps, SameQueue, SameWaits
  <2>4. Pending(U) = Pending(S)
    BY <2>2 DEF SameKernel, Pending
  <2>5. /\ F.ok => \E n : NumberFor(U, F, n) /\ FiledFlip(U, F, k, x, n)
        /\ ~F.ok => SameKernel(U, F) /\ F.ms_drm_queue = U.ms_drm_queue /\ F.full = U.full
        /\ U.odd[k] \subseteq F.odd[k]
    BY <2>3, FlipSees
  <2>6. Kept(U, F, k) /\ SameDamage(U, F)
    BY <2>3, FlipIs
  <2> HIDE DEF F
  <2>7. \A y \in Pixmaps \ {x} : F.damage[y] = S.damage[y]
    BY <2>2, <2>6 DEF SameDamage, SharedTypes
  <2>8. CASE F.ok
    <3>1. PICK n : NumberFor(U, F, n) /\ FiledFlip(U, F, k, x, n)
      BY <2>5, <2>8
    <3>2. NumberFor(S, F, n)
      BY <2>2, <2>4, <3>1 DEF NumberFor, Unused, SameKernel, SameQueue
    <3>3. FiledFlip(S, F, k, x, n)
      BY <2>2, <3>1 DEF FiledFlip, SameKernel, SameQueue, SamePixmaps, EntryOf
    <3> QED BY <2>1, <2>2, <2>5, <2>7, <2>8, <3>2, <3>3 DEF Presented
  <2>9. CASE ~F.ok
    <3>1. /\ SharedTypes(F) /\ F.prime_pixmap[k] # x /\ F.prime_pixmap_back[k] = x
          /\ F.prime_pixmap = S.prime_pixmap
      BY <2>2, <2>6 DEF Kept, SamePixmaps
    <3>2. SameKernel(S, F) /\ F.ms_drm_queue = S.ms_drm_queue /\ F.full = S.full
      BY <2>2, <2>5, <2>9 DEF SameKernel, SameQueue
    <3>3. Pending(F) = Pending(S)
      BY <3>2 DEF SameKernel, Pending
    <3>4. /\ V.ok => \E n : NumberFor(F, V, n) /\ FiledBlank(F, V, k, x, n)
          /\ ~V.ok => SameKernel(F, V) /\ V.ms_drm_queue = F.ms_drm_queue /\ V.full = F.full
          /\ F.odd[k] \subseteq V.odd[k]
      BY <3>1, PresentOnVBlankSees
    <3>5. SameDamage(F, V)
      BY <3>1, PresentOnVBlankIs
    <3> HIDE DEF V
    <3>6. /\ T = V /\ S.odd[k] \subseteq T.odd[k]
          /\ \A y \in Pixmaps \ {x} : T.damage[y] = S.damage[y]
      BY <2>1, <2>2, <2>5, <2>7, <2>9, <3>4, <3>5 DEF SameDamage
    <3>7. CASE V.ok
      <4>1. PICK n : NumberFor(F, V, n) /\ FiledBlank(F, V, k, x, n)
        BY <3>4, <3>7
      <4>2. NumberFor(S, V, n)
        BY <3>2, <3>3, <4>1 DEF NumberFor, Unused, SameKernel
      <4>3. FiledBlank(S, V, k, x, n)
        BY <3>1, <3>2, <4>1 DEF FiledBlank, SameKernel, EntryOf
      <4> QED BY <3>6, <4>2, <4>3 DEF Presented
    <3>8. CASE ~V.ok
      BY <3>2, <3>4, <3>6, <3>8 DEF Presented, SameKernel
    <3> QED BY <3>7, <3>8
  <2> QED BY <2>8, <2>9
<1> QED BY <1>1, <1>2

LEMMA PresentedTypes ==
    ASSUME NEW S, FlipTypes(S), NEW k \in SinkCrtcs, NEW x \in Pixmaps, NEW T,
           Presented(S, T, k, x)
    PROVE  /\ FlipTypes(T) /\ T.shown = S.shown /\ T.defer = S.defer
           /\ \A j \in SinkCrtcs \ {k} : T.flip[j] = S.flip[j]
           /\ S.full => T.full
<1>1. CASE SameKernel(S, T) /\ T.ms_drm_queue = S.ms_drm_queue /\ T.full = S.full
  BY <1>1 DEF FlipTypes, SameKernel
<1>2. CASE \E n : NumberFor(S, T, n) /\ FiledFlip(S, T, k, x, n)
  <2>1. PICK n : NumberFor(S, T, n) /\ FiledFlip(S, T, k, x, n)
    BY <1>2
  <2>2. T.flip = [S.flip EXCEPT ![k] = [seq |-> n, pixmap |-> x]] /\ n \in Nat
    BY <2>1 DEF FiledFlip, NumberFor
  <2>3. /\ T.flip \in [SinkCrtcs -> [seq : Nat, pixmap : Pixmaps \cup {NoPixmap}]]
        /\ \A j \in SinkCrtcs \ {k} : T.flip[j] = S.flip[j]
    BY <2>2 DEF FlipTypes
  <2> QED BY <2>1, <2>3 DEF FlipTypes, FiledFlip, NumberFor
<1>3. CASE \E n : NumberFor(S, T, n) /\ FiledBlank(S, T, k, x, n)
  <2>1. PICK n : NumberFor(S, T, n) /\ FiledBlank(S, T, k, x, n)
    BY <1>3
  <2>2. T.vblanks = [S.vblanks EXCEPT ![k] = Append(@, n)] /\ n \in Nat
    BY <2>1 DEF FiledBlank, NumberFor
  <2>3. Append(S.vblanks[k], n) \in Seq(Nat)
    BY <2>2 DEF FlipTypes
  <2>4. T.vblanks \in [SinkCrtcs -> Seq(Nat)]
    BY <2>2, <2>3 DEF FlipTypes
  <2> QED BY <2>1, <2>4 DEF FlipTypes, FiledBlank, NumberFor
<1> QED BY <1>1, <1>2, <1>3 DEF Presented

LEMMA PresentedApart ==
    ASSUME NEW S, FlipTypes(S), NumbersApart(S), NEW k \in SinkCrtcs, NEW x \in Pixmaps,
           NEW T, Presented(S, T, k, x), ~T.full
    PROVE  NumbersApart(T)
<1>1. CASE SameKernel(S, T) /\ T.ms_drm_queue = S.ms_drm_queue /\ T.full = S.full
  BY <1>1 DEF NumbersApart, Pending, SameKernel
<1>2. CASE \E n : NumberFor(S, T, n) /\ FiledFlip(S, T, k, x, n)
  <2>1. PICK n : NumberFor(S, T, n) /\ FiledFlip(S, T, k, x, n)
    BY <1>2
  <2>2. n # 0 /\ n \notin Pending(S) /\ \A j \in SinkCrtcs : S.flip[j].seq # n
    BY <2>1 DEF NumberFor, Unused
  <2>3. T.flip = [S.flip EXCEPT ![k] = [seq |-> n, pixmap |-> x]]
    BY <2>1 DEF FiledFlip
  <2>4. T.flip[k].seq = n /\ \A j \in SinkCrtcs \ {k} : T.flip[j] = S.flip[j]
    BY <2>3 DEF FlipTypes
  <2>5. Pending(T) = Pending(S)
    BY <2>1 DEF FiledFlip, Pending
  <2> QED BY <2>2, <2>4, <2>5 DEF NumbersApart
<1>3. CASE \E n : NumberFor(S, T, n) /\ FiledBlank(S, T, k, x, n)
  <2>1. PICK n : NumberFor(S, T, n) /\ FiledBlank(S, T, k, x, n)
    BY <1>3
  <2>2. n \in Nat /\ n # 0 /\ n \notin Pending(S) /\ \A j \in SinkCrtcs : S.flip[j].seq # n
    BY <2>1 DEF NumberFor, Unused
  <2>3. /\ T.vblanks = [S.vblanks EXCEPT ![k] = Append(@, n)]
        /\ T.flip = S.flip /\ T.fd = S.fd
    BY <2>1 DEF FiledBlank
  <2>4. Numbers(Append(S.vblanks[k], n)) = Numbers(S.vblanks[k]) \cup {n}
    BY <2>2, NumbersAppend DEF FlipTypes
  <2>5. /\ Numbers(T.vblanks[k]) = Numbers(S.vblanks[k]) \cup {n}
        /\ \A j \in SinkCrtcs \ {k} : T.vblanks[j] = S.vblanks[j]
    BY <2>3, <2>4 DEF FlipTypes
  <2>6. Pending(T) \subseteq Pending(S) \cup {n}
    BY <2>3, <2>5 DEF Pending
  <2> QED BY <2>2, <2>3, <2>6 DEF NumbersApart
<1> QED BY <1>1, <1>2, <1>3 DEF Presented

\* The CRTC displays the front pixmap, or is about to display something else for other
\* reasons; it has no handler.
Idle(S, k) ==
    /\ ShowsOwn(S, k)
    /\ "overlap" \notin S.odd[k] => Entries(S, k) = {}
    /\ Clean(S, k) /\ S.enable_flipping[k] =>
          S.flip[k] = NoFlip /\ S.shown[k] # S.prime_pixmap_back[k]

LEMMA FiledEntries ==
    ASSUME NEW S, NEW T, NEW k \in SinkCrtcs, NEW x, NEW n, NEW b \in BOOLEAN,
           T.ms_drm_queue = S.ms_drm_queue \cup {EntryOf(S, k, x, n, b)},
           Entries(S, k) = {}
    PROVE  \A e \in Entries(T, k) : e.seq = n /\ e.front = x /\ e.flip = b
<1>1. \A e \in Entries(T, k) : e = EntryOf(S, k, x, n, b)
  BY DEF Entries
<1> QED BY <1>1 DEF EntryOf

LEMMA CleanLess ==
    ASSUME NEW S, NEW T, NEW k, S.odd[k] \subseteq T.odd[k]
    PROVE  Clean(T, k) => Clean(S, k) /\ "overlap" \notin T.odd[k]
BY DEF Clean

\* Nothing changes but what is odd.
LEMMA ShowsKept ==
    ASSUME NEW S, NEW k \in SinkCrtcs, Displays(S, k), NEW T, SameKernel(S, T),
           SamePixmaps(S, T), Entries(T, k) = Entries(S, k), S.odd[k] \subseteq T.odd[k]
    PROVE  Displays(T, k)
<1>1. Targets(T, k) = Targets(S, k) /\ Turning(T, k) = Turning(S, k)
  BY DEF Targets, SamePixmaps, Turning
<1>2. Clean(T, k) => Clean(S, k)
  BY CleanLess
<1>3. ShowsOwn(T, k)
  BY <1>1 DEF Displays, ShowsOwn, SameKernel, SamePixmaps
<1>4. ShowsNext(T, k)
  BY DEF Displays, ShowsNext, SameKernel
<1>5. ShowsFront(T, k)
  BY <1>1, <1>2 DEF Displays, ShowsFront, SameKernel, SamePixmaps
<1> QED BY <1>3, <1>4, <1>5 DEF Displays

LEMMA IdleShows ==
    ASSUME NEW S, NEW k \in SinkCrtcs, Idle(S, k)
    PROVE  Displays(S, k)
<1>1. ShowsNext(S, k)
  BY DEF Idle, ShowsNext
<1>2. Clean(S, k) => ~Turning(S, k)
  BY DEF Idle, Clean, Turning
<1>3. ShowsFront(S, k)
  BY <1>2 DEF Idle, ShowsFront
<1> QED BY <1>1, <1>3 DEF Idle, Displays

LEMMA BlankShows ==
    ASSUME NEW S, NEW k \in SinkCrtcs, Displays(S, k), NEW T, NEW x, NEW n,
           FiledBlank(S, T, k, x, n), SamePixmaps(S, T), S.odd[k] \subseteq T.odd[k],
           "overlap" \in T.odd[k] \/ Entries(S, k) = {}
    PROVE  Displays(T, k)
<1>1. Targets(T, k) = Targets(S, k)
  BY DEF Targets, SamePixmaps
<1>2. Clean(T, k) => Clean(S, k) /\ "overlap" \notin T.odd[k]
  BY CleanLess
<1>3. ShowsOwn(T, k)
  BY <1>1 DEF Displays, ShowsOwn, FiledBlank, SamePixmaps
<1>4. ASSUME "overlap" \notin T.odd[k]
      PROVE  /\ \A e \in Entries(T, k) : ~e.flip
             /\ ~Turning(S, k) /\ ~Turning(T, k)
  <2>1. Entries(S, k) = {} /\ FALSE \in BOOLEAN
    BY <1>4
  <2>2. T.ms_drm_queue = S.ms_drm_queue \cup {EntryOf(S, k, x, n, FALSE)}
    BY DEF FiledBlank
  <2>3. \A e \in Entries(T, k) : e = EntryOf(S, k, x, n, FALSE)
    BY <2>1, <2>2 DEF Entries
  <2>4. \A e \in Entries(T, k) : ~e.flip
    BY <2>3 DEF EntryOf
  <2> QED BY <2>1, <2>4 DEF Turning
<1>5. ShowsNext(T, k)
  BY <1>4 DEF ShowsNext
<1>6. ShowsFront(T, k)
  BY <1>2, <1>4 DEF Displays, ShowsFront, FiledBlank, SamePixmaps
<1> QED BY <1>3, <1>5, <1>6 DEF Displays

LEMMA FlipShows ==
    ASSUME NEW S, FlipTypes(S), NEW k \in SinkCrtcs, Idle(S, k), NEW T, NEW x \in Pixmaps,
           NEW n, S.prime_pixmap_back[k] = x,
           FiledFlip(S, T, k, x, n), SamePixmaps(S, T), S.odd[k] \subseteq T.odd[k]
    PROVE  Displays(T, k)
<1>1. Targets(T, k) = Targets(S, k)
  BY DEF Targets, SamePixmaps
<1>2. Clean(T, k) => Clean(S, k) /\ "overlap" \notin T.odd[k]
  BY CleanLess
<1>3. T.flip[k] = [seq |-> n, pixmap |-> x] /\ T.shown = S.shown /\ T.defer = S.defer
  BY DEF FiledFlip, FlipTypes
<1>4. x \in Targets(S, k)
  <2>1. x # NoPixmap
    BY NotPixmaps
  <2> QED BY <2>1 DEF Targets
<1>5. ShowsOwn(T, k)
  BY <1>1, <1>3, <1>4 DEF Idle, ShowsOwn, SamePixmaps
<1> DEFINE w == EntryOf(S, k, x, n, TRUE)
<1>6. T.ms_drm_queue = S.ms_drm_queue \cup {w}
  BY DEF FiledFlip
<1>7. w.seq = n /\ w.front = x /\ w.flip /\ w.crtc = k
  BY DEF EntryOf
<1> HIDE DEF w
<1>8. ASSUME "overlap" \notin T.odd[k] PROVE Entries(T, k) = {w}
  <2>1. Entries(S, k) = {}
    BY <1>8 DEF Idle
  <2> QED BY <1>6, <1>7, <2>1 DEF Entries
<1>9. ShowsNext(T, k)
  BY <1>3, <1>7, <1>8 DEF ShowsNext
<1>10. ASSUME Clean(T, k), T.enable_flipping[k] PROVE ShowsFront(T, k)
  <2>1. Turning(T, k)
    BY <1>2, <1>7, <1>8, <1>10 DEF Turning
  <2>2. T.shown[k] # T.prime_pixmap_back[k]
    BY <1>2, <1>3, <1>10 DEF Idle, SamePixmaps
  <2>3. T.flip[k] # NoFlip
    <3>1. T.flip[k].pixmap = x /\ NoFlip.pixmap = NoPixmap
      BY <1>3 DEF NoFlip
    <3> QED BY <3>1, NotPixmaps
  <2> QED BY <2>1, <2>2, <2>3 DEF ShowsFront
<1>11. ShowsFront(T, k)
  BY <1>10 DEF ShowsFront
<1> QED BY <1>5, <1>9, <1>11 DEF Displays

LEMMA PresentedShows ==
    ASSUME NEW S, FlipTypes(S), NEW k \in SinkCrtcs, Idle(S, k), NEW x \in Pixmaps,
           S.prime_pixmap_back[k] = x, NEW T, Presented(S, T, k, x), SamePixmaps(S, T),
           S.odd[k] \subseteq T.odd[k]
    PROVE  Displays(T, k)
<1>1. Displays(S, k)
  BY IdleShows
<1>2. CASE SameKernel(S, T) /\ T.ms_drm_queue = S.ms_drm_queue /\ T.full = S.full
  <2>1. Entries(T, k) = Entries(S, k)
    BY <1>2 DEF Entries
  <2> QED BY <1>1, <1>2, <2>1, ShowsKept
<1>3. CASE \E n : NumberFor(S, T, n) /\ FiledFlip(S, T, k, x, n)
  BY <1>3, FlipShows
<1>4. CASE \E n : NumberFor(S, T, n) /\ FiledBlank(S, T, k, x, n)
  <2>1. "overlap" \in T.odd[k] \/ Entries(S, k) = {}
    BY DEF Idle
  <2> QED BY <1>1, <1>4, <2>1, BlankShows
<1> QED BY <1>2, <1>3, <1>4 DEF Presented

\* The other CRTCs are as they were.
LEMMA OthersView ==
    ASSUME NEW S, NEW T, NEW k \in SinkCrtcs, Others(S, T, k),
           \A j \in SinkCrtcs \ {k} :
              /\ T.flip[j] = S.flip[j] /\ T.shown[j] = S.shown[j]
              /\ \A x \in Targets(S, j) : T.defer[x] = S.defer[x] /\ T.damage[x] = S.damage[x]
    PROVE  View(S, T, k)
BY DEF Others, View, Alike

LEMMA OtherTargets ==
    ASSUME NEW S, SharedTypes(S), Separate(S), NEW k \in SinkCrtcs, NEW j \in SinkCrtcs \ {k},
           NEW y \in Targets(S, j)
    PROVE  y \in Pixmaps /\ y \notin Targets(S, k)
BY TargetsArePixmaps DEF Separate

LEMMA PresentShows ==
    ASSUME NEW S, SharedTypes(S), Separate(S), Numbered(S), FlipTypes(S), NumbersApart(S),
           NEW k \in SinkCrtcs, Idle(S, k), NEW x \in Pixmaps, S.prime_pixmap_back[k] = x,
           NEW T, T = drmmode_SharedPixmapPresent(S, k, x), ~T.full
    PROVE  NumbersApart(T) /\ Displays(T, k) /\ View(S, T, k)
<1>1. S.prime_pixmap[k] # x /\ x \in Targets(S, k)
  BY NotPixmaps DEF Separate, Targets
<1>2. /\ Presented(S, T, k, x) /\ S.odd[k] \subseteq T.odd[k]
      /\ \A y \in Pixmaps \ {x} : T.damage[y] = S.damage[y]
  BY <1>1, PresentSees
<1>3. SamePixmaps(S, T)
  BY <1>1, PresentIs DEF Kept
<1>4. Entries(S, k) = {} \/ "overlap" \in S.odd[k]
  BY DEF Idle
<1>5. Others(S, T, k)
  BY <1>4, PresentKeeps
<1>6. NumbersApart(T)
  BY <1>2, PresentedApart
<1>7. Displays(T, k)
  BY <1>2, <1>3, PresentedShows
<1>8. /\ T.shown = S.shown /\ T.defer = S.defer
      /\ \A j \in SinkCrtcs \ {k} : T.flip[j] = S.flip[j]
  BY <1>2, PresentedTypes
<1>9. \A j \in SinkCrtcs \ {k} : \A y \in Targets(S, j) : T.damage[y] = S.damage[y]
  BY <1>1, <1>2, OtherTargets
<1>10. View(S, T, k)
  BY <1>5, <1>8, <1>9, OthersView
<1> QED BY <1>6, <1>7, <1>10

-----------------------------------------------------------------------------
(* What the functions of a CRTC show *)

LEMMA FineRefl ==
    ASSUME NEW S, Seen(S), NEW k \in SinkCrtcs
    PROVE  Fine(S, S, k)
<1>1. Untorn(S, S, k)
  BY DEF Untorn
<1>2. View(S, S, k)
  BY DEF View, Alike
<1> QED BY <1>1, <1>2 DEF Seen, Fine

LEMMA ViewTransitive ==
    ASSUME NEW S, NEW T, NEW U, NEW k \in SinkCrtcs, View(S, T, k), View(T, U, k)
    PROVE  View(S, U, k)
BY AlikeTransitive DEF View

LEMMA FineThen ==
    ASSUME NEW S, NEW T, NEW U, NEW k \in SinkCrtcs, Fine(S, T, k), Fine(T, U, k),
           ~U.full => Untorn(S, U, k)
    PROVE  Fine(S, U, k)
<1>1. ASSUME ~U.full PROVE ~S.full /\ Visible(U) /\ View(S, U, k)
  BY <1>1, ViewTransitive DEF Fine
<1> QED BY <1>1 DEF Fine

LEMMA SameView ==
    ASSUME NEW S, NEW T, NEW k \in SinkCrtcs, SameKernel(S, T), SamePixmaps(S, T),
           T.ms_drm_queue = S.ms_drm_queue, T.damage = S.damage,
           \A j \in SinkCrtcs \ {k} : T.odd[j] = S.odd[j]
    PROVE  View(S, T, k) /\ Entries(T, k) = Entries(S, k)
<1>1. \A j \in SinkCrtcs : Targets(T, j) = Targets(S, j) /\ Entries(T, j) = Entries(S, j)
  BY DEF Targets, Entries, SamePixmaps
<1> QED BY <1>1 DEF View, Alike, SameKernel, SamePixmaps

LEMMA SameApart ==
    ASSUME NEW S, NEW T, SameKernel(S, T)
    PROVE  /\ FlipTypes(S) => FlipTypes(T)
           /\ NumbersApart(S) => NumbersApart(T)
BY DEF SameKernel, FlipTypes, NumbersApart, Pending

\* Nothing changes that can be seen.
LEMMA SameFine ==
    ASSUME NEW S, Seen(S), NEW T, NEW k \in SinkCrtcs, SameKernel(S, T), SamePixmaps(S, T),
           T.ms_drm_queue = S.ms_drm_queue, T.full = S.full, T.damage = S.damage,
           S.odd[k] \subseteq T.odd[k],
           \A j \in SinkCrtcs \ {k} : T.odd[j] = S.odd[j]
    PROVE  Fine(S, T, k)
<1>1. View(S, T, k) /\ Entries(T, k) = Entries(S, k)
  BY SameView
<1>2. FlipTypes(T)
  BY SameApart DEF Seen
<1>3. ASSUME ~T.full PROVE NumbersApart(T) /\ Displays(T, k) /\ Untorn(S, T, k)
  <2>1. NumbersApart(S) /\ Displays(S, k)
    BY <1>3 DEF Seen, Visible
  <2>2. NumbersApart(T)
    BY <2>1, SameApart
  <2>3. Displays(T, k)
    BY <1>1, <2>1, ShowsKept
  <2>4. Untorn(S, T, k)
    BY UncopiedUntorn
  <2> QED BY <2>2, <2>3, <2>4
<1> QED BY <1>1, <1>2, <1>3, FineIf

\* What is copied when flipping starts.
Starts(S, T, k) ==
    /\ T.shown = S.shown /\ S.odd[k] \subseteq T.odd[k] /\ SamePixmaps(S, T)
    /\ ~S.enable_flipping[k] => T.damage = S.damage
    /\ \A y \in Pixmaps \ {S.prime_pixmap_back[k]} : T.damage[y] = S.damage[y]
    /\ ~T.full /\ Clean(T, k) /\ S.shown[k] = S.prime_pixmap_back[k] => T.damage = S.damage

LEMMA InitFine ==
    ASSUME NEW C \in SUBSET SinkCrtcs, NEW k \in SinkCrtcs, NEW S, Good(S, C), Seen(S),
           NEW T, T = drmmode_InitSharedPixmapFlipping(S, k)
    PROVE  Fine(S, T, k) /\ Starts(S, T, k)
<1>1. SharedTypes(S) /\ Separate(S) /\ FlipTypes(S)
  BY DEF Good, Seen
<1> DEFINE x == S.prime_pixmap_back[k]
           V == drmmode_SharedPixmapPresent(S, k, x)
<1>2. CASE ~S.enable_flipping[k] \/ S.flipping_active[k]
  <2>1. T = S
    BY <1>2 DEF drmmode_InitSharedPixmapFlipping
  <2> QED BY <2>1, FineRefl DEF Starts, SamePixmaps
<1>3. CASE ~(~S.enable_flipping[k] \/ S.flipping_active[k])
  <2>1. T = [V EXCEPT !.flipping_active[k] = V.ok]
    BY <1>3 DEF drmmode_InitSharedPixmapFlipping
  <2>2. x \in Pixmaps /\ S.prime_pixmap[k] # x
    BY <1>1, <1>3 DEF Separate, SharedTypes
  <2>3. /\ Presented(S, V, k, x) /\ S.odd[k] \subseteq V.odd[k]
        /\ \A y \in Pixmaps \ {x} : V.damage[y] = S.damage[y]
    BY <1>1, <2>2, PresentSees
  <2>4. Kept(S, V, k)
    BY <1>1, <2>2, PresentIs
  <2>5. FlipTypes(V) /\ V.shown = S.shown /\ (S.full => V.full)
    BY <1>1, <2>2, <2>3, PresentedTypes
  <2>6. ASSUME ~V.full
        PROVE  /\ NumbersApart(V) /\ Displays(V, k) /\ View(S, V, k)
               /\ Clean(S, k) => S.shown[k] # x
    <3>1. ~S.full
      BY <2>5, <2>6
    <3>2. Numbered(S) /\ One(S, k) /\ NumbersApart(S) /\ Displays(S, k)
      BY <3>1 DEF Good, Sound, Seen, Visible
    <3>3. "overlap" \notin S.odd[k] => Entries(S, k) = {}
      BY <1>3, <3>2 DEF One
    <3>4. Clean(S, k) => ~Turning(S, k)
      BY <3>3 DEF Clean, Turning
    <3>5. Idle(S, k)
      BY <3>2, <3>3, <3>4 DEF Displays, ShowsFront, Idle
    <3>6. NumbersApart(V) /\ Displays(V, k) /\ View(S, V, k)
      <4> HIDE DEF x
      <4>1. S.prime_pixmap_back[k] = x
        BY DEF x
      <4> QED BY <1>1, <2>2, <2>6, <3>2, <3>5, <4>1, PresentShows
    <3> QED BY <1>3, <3>5, <3>6 DEF Idle
  <2> HIDE DEF V
  <2>7. DOMAIN V = Fields
    BY <2>4 DEF Kept, SharedTypes
  <2>8. /\ SameKernel(V, T) /\ SamePixmaps(V, T) /\ T.damage = V.damage /\ T.odd = V.odd
        /\ T.ms_drm_queue = V.ms_drm_queue /\ T.full = V.full
    BY <2>1, <2>7 DEF Fields, SameKernel, SamePixmaps
  <2>9. View(V, T, k) /\ Entries(T, k) = Entries(V, k)
    BY <2>8, SameView
  <2>10. SamePixmaps(S, T)
    BY <2>4, <2>8 DEF Kept, SamePixmaps
  <2>11. ASSUME ~T.full, Clean(T, k) PROVE S.shown[k] # x
    BY <2>3, <2>6, <2>8, <2>11, CleanLess
  <2>12. Starts(S, T, k)
    <3>1. T.shown = S.shown /\ S.odd[k] \subseteq T.odd[k]
      BY <2>3, <2>5, <2>8 DEF SameKernel
    <3>2. \A y \in Pixmaps \ {x} : T.damage[y] = S.damage[y]
      BY <2>3, <2>8
    <3> QED BY <1>3, <2>10, <2>11, <3>1, <3>2 DEF Starts
  <2>13. FlipTypes(T)
    BY <2>5, <2>8, SameApart
  <2>14. ASSUME ~T.full
         PROVE  NumbersApart(T) /\ Displays(T, k) /\ Untorn(S, T, k) /\ View(S, T, k)
    <3>1. ~V.full /\ V.odd[k] \subseteq T.odd[k]
      BY <2>8, <2>14
    <3>2. NumbersApart(T)
      BY <2>6, <2>8, <3>1, SameApart
    <3>3. Displays(T, k)
      BY <2>6, <2>8, <2>9, <3>1, ShowsKept
    <3>4. View(S, T, k)
      BY <2>6, <2>9, <3>1, ViewTransitive
    <3>5. Clean(T, k) => T.shown[k] # x
      BY <2>11, <2>12, <2>14 DEF Starts
    <3>6. \A y \in Targets(S, k) : y # x => T.damage[y] = S.damage[y]
      BY <1>1, <2>12, TargetsArePixmaps DEF Starts
    <3>7. Untorn(S, T, k)
      BY <3>5, <3>6 DEF Untorn
    <3> QED BY <3>2, <3>3, <3>4, <3>7
  <2>15. S.full => T.full
    BY <2>5, <2>8
  <2>16. Fine(S, T, k)
    BY <2>13, <2>14, <2>15, FineIf
  <2> QED BY <2>12, <2>16
<1> QED BY <1>2, <1>3

LEMMA StartsTwice ==
    ASSUME NEW S, NEW T, NEW U, NEW k \in SinkCrtcs, Starts(S, T, k), Starts(T, U, k),
           ~U.full => ~T.full
    PROVE  Starts(S, U, k)
<1>1. U.shown = S.shown /\ S.odd[k] \subseteq U.odd[k] /\ SamePixmaps(S, U)
  BY DEF Starts, SamePixmaps
<1>2. ~S.enable_flipping[k] => U.damage = S.damage
  BY DEF Starts, SamePixmaps
<1>3. \A y \in Pixmaps \ {S.prime_pixmap_back[k]} : U.damage[y] = S.damage[y]
  BY DEF Starts, SamePixmaps
<1>4. ASSUME ~U.full, Clean(U, k), S.shown[k] = S.prime_pixmap_back[k]
      PROVE  U.damage = S.damage
  <2>1. Clean(T, k)
    BY <1>4, CleanLess DEF Starts
  <2> QED BY <1>4, <2>1 DEF Starts, SamePixmaps
<1> QED BY <1>1, <1>2, <1>3, <1>4 DEF Starts

LEMMA StartsUntorn ==
    ASSUME NEW S, SharedTypes(S), NEW T, NEW k \in SinkCrtcs, Starts(S, T, k), ~T.full
    PROVE  Untorn(S, T, k)
<1>1. \A y \in Targets(S, k) : y # S.prime_pixmap_back[k] => T.damage[y] = S.damage[y]
  BY TargetsArePixmaps DEF Starts
<1> QED BY <1>1 DEF Starts, Untorn

LEMMA TwiceFine ==
    ASSUME NEW C \in SUBSET SinkCrtcs, NEW k \in SinkCrtcs, NEW S, Good(S, C), Seen(S),
           NEW T, T = drmmode_InitSharedPixmapFlipping(drmmode_InitSharedPixmapFlipping(S, k), k)
    PROVE  Fine(S, T, k) /\ Starts(S, T, k)
<1> DEFINE U == drmmode_InitSharedPixmapFlipping(S, k)
<1>1. Good(U, C)
  BY InitKeeps
<1>2. Fine(S, U, k) /\ Starts(S, U, k)
  BY InitFine
<1>3. T = drmmode_InitSharedPixmapFlipping(U, k)
  OBVIOUS
<1> HIDE DEF U
<1>4. Seen(U)
  BY <1>2, FineSeen
<1>5. Fine(U, T, k) /\ Starts(U, T, k)
  BY <1>1, <1>3, <1>4, InitFine
<1>6. Starts(S, T, k)
  BY <1>2, <1>5, StartsTwice DEF Fine
<1>7. SharedTypes(S)
  BY DEF Good
<1>8. ~T.full => Untorn(S, T, k)
  BY <1>6, <1>7, StartsUntorn
<1>9. Fine(S, T, k)
  BY <1>2, <1>5, <1>8, FineThen
<1> QED BY <1>6, <1>9

\* What a mode that is set displays.
LEMMA LitSettles ==
    ASSUME NEW S, SharedTypes(S), FlipTypes(S), NEW k \in SinkCrtcs, NEW T, T = Lit(S, k)
    PROVE  /\ Settled(S, T, k) /\ T.flip[k] = NoFlip
           /\ T.shown[k] = Other \/ (T.shown[k] = S.prime_pixmap[k] /\ T.shown[k] \in Pixmaps)
           /\ Turning(S, k) => "mode set" \in T.odd[k]
<1> DEFINE U == Completed(S, k)
           b == \E e \in Entries(S, k) : e.flip
           V == Odd(U, k, "mode set", b)
           p == IF S.prime_pixmap[k] # NoPixmap /\ S.fb_id[S.prime_pixmap[k]]
                THEN S.prime_pixmap[k] ELSE Other
<1>1. Settled(S, U, k) /\ U.flip[k] = NoFlip
  BY CompletedSettles DEF SharedTypes
<1>2. Same(S, U) /\ U.odd = S.odd
  BY CompletedIs
<1>3. p = Other \/ (p = S.prime_pixmap[k] /\ p \in Pixmaps)
  BY DEF SharedTypes
<1> HIDE DEF U, b
<1>4. /\ SameKernel(U, V) /\ DOMAIN V = Fields
      /\ b => "mode set" \in V.odd[k]
      /\ V.odd \in [SinkCrtcs -> SUBSET Oddities]
  <2>1. "mode set" \in Oddities /\ U.odd \in [SinkCrtcs -> SUBSET Oddities] /\ DOMAIN U = Fields
    BY <1>2 DEF Oddities, SharedTypes, Same
  <2>2. CASE b
    <3>1. V = [U EXCEPT !.odd[k] = @ \cup {"mode set"}]
      BY <2>2 DEF Odd
    <3> HIDE DEF V
    <3>2. SameKernel(U, V) /\ DOMAIN V = Fields
          /\ V.odd = [U.odd EXCEPT ![k] = @ \cup {"mode set"}]
      BY <2>1, <3>1 DEF Fields, SameKernel
    <3> QED BY <2>1, <3>2
  <2>3. CASE ~b
    <3>1. V = U
      BY <2>3 DEF Odd
    <3> HIDE DEF V
    <3> QED BY <2>1, <2>3, <3>1 DEF SameKernel
  <2> QED BY <2>2, <2>3
<1>5. T = [V EXCEPT !.on[k] = TRUE, !.odd[k] = @ \ {"refused"}, !.shown[k] = p]
  BY DEF Lit, U, b
<1> HIDE DEF V, p
<1>6. /\ T.flip = V.flip /\ T.fd = V.fd /\ T.vblanks = V.vblanks /\ T.defer = V.defer
      /\ T.shown = [V.shown EXCEPT ![k] = p]
      /\ T.odd = [V.odd EXCEPT ![k] = @ \ {"refused"}]
  BY <1>4, <1>5 DEF Fields
<1>7. FlipTypes(U)
  BY <1>1 DEF Settled
<1>8. /\ T.shown \in [SinkCrtcs -> Pixmaps \cup {NoPixmap, Other}] /\ T.shown[k] = p
      /\ \A j \in SinkCrtcs \ {k} : T.shown[j] = U.shown[j]
  <2>1. V.shown = U.shown /\ U.shown \in [SinkCrtcs -> Pixmaps \cup {NoPixmap, Other}]
    BY <1>4, <1>7 DEF FlipTypes, SameKernel
  <2>2. T.shown = [U.shown EXCEPT ![k] = p] /\ p \in Pixmaps \cup {NoPixmap, Other}
    BY <1>3, <1>6, <2>1
  <2> QED BY <2>1, <2>2
<1>9. FlipTypes(T) /\ Pending(T) = Pending(U)
  <2>1. T.flip = U.flip /\ T.fd = U.fd /\ T.vblanks = U.vblanks /\ T.defer = U.defer
    BY <1>4, <1>6 DEF SameKernel
  <2> QED BY <1>7, <1>8, <2>1 DEF FlipTypes, Pending
<1>10. Settled(S, T, k) /\ T.flip[k] = NoFlip
  BY <1>1, <1>4, <1>6, <1>8, <1>9 DEF Settled, SameKernel
<1>11. b => "mode set" \in T.odd[k]
  BY <1>4, <1>6
<1>12. Turning(S, k) => "mode set" \in T.odd[k]
  BY <1>11 DEF Turning, b
<1> QED BY <1>3, <1>8, <1>10, <1>12

LEMMA LitFine ==
    ASSUME NEW C, NEW S, Good(S, C), Seen(S), NEW k \in SinkCrtcs, NEW T, T = Lit(S, k)
    PROVE  Fine(S, T, k)
<1>1. SharedTypes(S) /\ Separate(S) /\ FlipTypes(S)
  BY DEF Good, Seen
<1>2. /\ Settled(S, T, k) /\ T.flip[k] = NoFlip
      /\ T.shown[k] = Other \/ (T.shown[k] = S.prime_pixmap[k] /\ T.shown[k] \in Pixmaps)
      /\ Turning(S, k) => "mode set" \in T.odd[k]
  BY <1>1, LitSettles
<1>3. Same(S, T) /\ \A j \in SinkCrtcs \ {k} : T.odd[j] = S.odd[j]
  BY <1>1, LitIs
<1>4. /\ SamePixmaps(S, T) /\ T.damage = S.damage /\ T.ms_drm_queue = S.ms_drm_queue
      /\ T.full = S.full
  BY <1>3 DEF Same, SameQueue, SameDamage
<1>5. View(S, T, k) /\ Targets(T, k) = Targets(S, k) /\ Entries(T, k) = Entries(S, k)
  BY <1>2, <1>3, <1>4, SettledView
<1>6. ASSUME ~T.full PROVE NumbersApart(T) /\ Displays(T, k) /\ Untorn(S, T, k)
  <2>1. NumbersApart(S) /\ Displays(S, k)
    BY <1>4, <1>6 DEF Seen, Visible
  <2>2. NumbersApart(T)
    BY <1>2, <2>1, SettledApart
  <2>3. Untorn(S, T, k)
    BY <1>4, UncopiedUntorn
  <2>4. ShowsOwn(T, k)
    <3>1. T.shown[k] \in Pixmaps => T.shown[k] \in Targets(S, k)
      BY <1>2, NotPixmaps DEF Targets
    <3> QED BY <1>2, <1>4, <1>5, <2>1, <3>1 DEF Displays, ShowsOwn, SamePixmaps, Settled
  <2>5. ShowsNext(T, k)
    BY <1>2 DEF ShowsNext
  <2>6. Clean(T, k) => ~Turning(T, k)
    BY <1>2, <1>5 DEF Clean, Turning
  <2>7. T.enable_flipping[k] => T.shown[k] # T.prime_pixmap_back[k]
    <3>1. T.enable_flipping[k] => /\ S.prime_pixmap_back[k] \in Pixmaps
                                  /\ S.prime_pixmap[k] # S.prime_pixmap_back[k]
      BY <1>1, <1>4 DEF Separate, SharedTypes, SamePixmaps
    <3> QED BY <1>2, <1>4, <3>1, NotPixmaps DEF SamePixmaps
  <2>8. ShowsFront(T, k)
    BY <1>2, <2>6, <2>7 DEF ShowsFront
  <2> QED BY <2>2, <2>3, <2>4, <2>5, <2>8 DEF Displays
<1> QED BY <1>1, <1>2, <1>4, <1>5, <1>6, FineIf DEF Settled

LEMMA SetModeFine ==
    ASSUME NEW C \in SUBSET SinkCrtcs, NEW k \in SinkCrtcs, NEW S, Good(S, C), Seen(S),
           NEW T, T = drmmode_set_mode_major(S, k)
    PROVE  /\ Fine(S, T, k) /\ SamePixmaps(S, T)
           /\ ~S.enable_flipping[k] => T.damage = S.damage
<1>1. SharedTypes(S) /\ Separate(S) /\ FlipTypes(S)
  BY DEF Good, Seen
<1>2. CASE atomic_modeset
  <2> DEFINE U == drmmode_InitSharedPixmapFlipping(drmmode_InitSharedPixmapFlipping(S, k), k)
  <2>1. T = Lit(U, k)
    BY <1>2 DEF drmmode_set_mode_major
  <2>2. Good(U, C)
    BY TwiceKeeps
  <2>3. Fine(S, U, k) /\ Starts(S, U, k)
    BY TwiceFine
  <2> HIDE DEF U
  <2>4. Seen(U) /\ SharedTypes(U) /\ FlipTypes(U)
    BY <2>2, <2>3, FineSeen DEF Good, Seen
  <2>5. Fine(U, T, k)
    BY <2>1, <2>2, <2>4, LitFine
  <2>6. T.shown[k] = Other \/ (T.shown[k] = U.prime_pixmap[k] /\ T.shown[k] \in Pixmaps)
    BY <2>1, <2>4, LitSettles
  <2>7. SamePixmaps(U, T) /\ T.damage = U.damage
    BY <2>1, <2>4, LitIs DEF Same, SameDamage
  <2>8. SamePixmaps(S, T) /\ (~S.enable_flipping[k] => T.damage = S.damage)
    BY <2>3, <2>7 DEF Starts, SamePixmaps
  <2>9. Untorn(S, T, k)
    <3>1. ASSUME NEW y \in Targets(S, k), T.damage[y] # S.damage[y], S.enable_flipping[k]
          PROVE  T.shown[k] # y
      <4>1. y \in Pixmaps /\ y = S.prime_pixmap_back[k]
        BY <1>1, <2>3, <2>7, <3>1, TargetsArePixmaps DEF Starts
      <4>2. S.prime_pixmap[k] # S.prime_pixmap_back[k]
        BY <1>1, <3>1 DEF Separate
      <4>3. U.prime_pixmap = S.prime_pixmap
        BY <2>3 DEF Starts, SamePixmaps
      <4> QED BY <2>6, <4>1, <4>2, <4>3, NotPixmaps
    <3> QED BY <3>1 DEF Untorn
  <2> QED BY <2>3, <2>5, <2>8, <2>9, FineThen
<1>3. CASE ~atomic_modeset
  <2> DEFINE U == Lit(S, k)
  <2>1. T = drmmode_InitSharedPixmapFlipping(drmmode_InitSharedPixmapFlipping(U, k), k)
    BY <1>3 DEF drmmode_set_mode_major
  <2>2. Good(U, C \ {k}) /\ Same(S, U)
    BY LitKeeps
  <2>3. Fine(S, U, k)
    BY LitFine
  <2> HIDE DEF U
  <2>4. Seen(U) /\ C \ {k} \in SUBSET SinkCrtcs
    BY <2>3, FineSeen
  <2>5. Fine(U, T, k) /\ Starts(U, T, k)
    BY <2>1, <2>2, <2>4, TwiceFine
  <2>6. SamePixmaps(S, U) /\ U.damage = S.damage
    BY <2>2 DEF Same, SameDamage
  <2>7. SamePixmaps(S, T) /\ (~S.enable_flipping[k] => T.damage = S.damage)
    BY <2>5, <2>6 DEF Starts, SamePixmaps
  <2>8. ~T.full => Untorn(S, T, k)
    BY <2>5, <2>6 DEF Fine, Untorn, Targets, SamePixmaps
  <2> QED BY <2>3, <2>5, <2>7, <2>8, FineThen
<1> QED BY <1>2, <1>3

LEMMA AbortTwiceSees ==
    ASSUME NEW S, SharedTypes(S), NEW k \in SinkCrtcs, NEW n, NEW m,
           NEW T, T = Abort(Abort(S, n), m)
    PROVE  SameKernel(S, T) /\ T.ms_drm_queue \subseteq S.ms_drm_queue
<1> DEFINE U == Abort(S, n)
<1>1. SharedTypes(U) /\ U.ms_drm_queue = {e \in S.ms_drm_queue : e.seq # n}
  BY AbortIs DEF Kept
<1>2. SameKernel(S, U)
  BY DEF Abort, SharedTypes, Fields, SameKernel
<1>3. T = Abort(U, m)
  OBVIOUS
<1> HIDE DEF U
<1>4. T.ms_drm_queue = {e \in U.ms_drm_queue : e.seq # m}
  BY <1>1, <1>3, AbortIs
<1>5. SameKernel(U, T)
  BY <1>1, <1>3 DEF Abort, SharedTypes, Fields, SameKernel
<1> QED BY <1>1, <1>2, <1>4, <1>5 DEF SameKernel

\* Nothing is displayed when flipping stops; a flip that is aborted is an oddity.
LEMMA FiniSees ==
    ASSUME NEW C, NEW S, Good(S, C), NEW k \in SinkCrtcs,
           NEW T, T = drmmode_FiniSharedPixmapFlipping(S, k)
    PROVE  /\ SameKernel(S, T) /\ SamePixmaps(S, T) /\ T.damage = S.damage /\ T.full = S.full
           /\ \A j \in SinkCrtcs \ {k} : T.odd[j] = S.odd[j]
           /\ S.odd[k] \subseteq T.odd[k] \cup {"stopped"}
           /\ T.ms_drm_queue \subseteq S.ms_drm_queue
           /\ ~S.full => \A j \in SinkCrtcs \ {k} : Entries(T, j) = Entries(S, j)
           /\ (\E e \in Entries(S, k) \ Entries(T, k) : e.flip) => "aborted" \in T.odd[k]
<1>0. SharedTypes(S) /\ Separate(S)
  BY DEF Good
<1>1. CASE ~S.flipping_active[k]
  <2>1. T = S
    BY <1>1 DEF drmmode_FiniSharedPixmapFlipping
  <2> QED BY <2>1 DEF SamePixmaps, SameKernel
<1>2. CASE S.flipping_active[k]
  <2> DEFINE U == Abort(Abort(S, S.flip_seq[S.prime_pixmap[k]]), S.flip_seq[S.prime_pixmap_back[k]])
             V == [U EXCEPT !.flipping_active[k] = FALSE, !.odd[k] = @ \ {"stopped"}]
             b == \E e \in Entries(S, k) \ Entries(U, k) : e.flip
  <2>1. Kept(S, U, k) /\ SameDamage(S, U) /\ U.full = S.full /\ U.odd = S.odd
    BY <1>0, AbortTwiceIs
  <2>2. ~S.full => Others(S, U, k)
    BY <1>0, <1>2, AbortTwiceKeeps DEF Good
  <2>3. T = IF b THEN [V EXCEPT !.odd[k] = @ \cup {"aborted"}] ELSE V
    BY <1>2 DEF drmmode_FiniSharedPixmapFlipping, Odd
  <2>a. SameKernel(S, U) /\ U.ms_drm_queue \subseteq S.ms_drm_queue
    BY <1>0, AbortTwiceSees
  <2>b. b <=> \E e \in Entries(S, k) \ Entries(U, k) : e.flip
    OBVIOUS
  <2> HIDE DEF U, b
  <2>4. DOMAIN U = Fields /\ U.odd \in [SinkCrtcs -> SUBSET Oddities]
    BY <2>1 DEF Kept, SharedTypes
  <2>5. /\ DOMAIN V = Fields /\ SamePixmaps(U, V) /\ SameQueue(U, V) /\ SameDamage(U, V)
        /\ SameKernel(U, V) /\ V.odd = [U.odd EXCEPT ![k] = @ \ {"stopped"}]
    BY <2>4 DEF Fields, SamePixmaps, SameQueue, SameDamage, SameKernel
  <2> HIDE DEF V
  <2>6. /\ V.odd \in [SinkCrtcs -> SUBSET Oddities]
        /\ \A j \in SinkCrtcs \ {k} : V.odd[j] = U.odd[j]
        /\ U.odd[k] \subseteq V.odd[k] \cup {"stopped"}
    BY <2>4, <2>5
  <2>7. /\ SamePixmaps(V, T) /\ SameQueue(V, T) /\ SameDamage(V, T) /\ SameKernel(V, T)
        /\ \A j \in SinkCrtcs \ {k} : T.odd[j] = V.odd[j]
        /\ V.odd[k] \subseteq T.odd[k] /\ (b => "aborted" \in T.odd[k])
    <3>1. CASE b
      <4>1. /\ SamePixmaps(V, T) /\ SameQueue(V, T) /\ SameDamage(V, T) /\ SameKernel(V, T)
            /\ T.odd = [V.odd EXCEPT ![k] = @ \cup {"aborted"}]
        BY <2>3, <2>5, <3>1 DEF Fields, SamePixmaps, SameQueue, SameDamage, SameKernel
      <4> QED BY <2>6, <4>1
    <3>2. CASE ~b
      BY <2>3, <2>5, <3>2 DEF SamePixmaps, SameQueue, SameDamage, SameKernel
    <3> QED BY <3>1, <3>2
  <2>8. /\ T.ms_drm_queue = U.ms_drm_queue /\ T.full = S.full /\ T.damage = S.damage
        /\ \A j \in SinkCrtcs : Entries(T, j) = Entries(U, j)
    BY <2>1, <2>5, <2>7 DEF SameQueue, SameDamage, Entries
  <2>9. SameKernel(S, T) /\ SamePixmaps(S, T)
    BY <2>a, <2>1, <2>5, <2>7 DEF SameKernel, SamePixmaps, Kept
  <2>10. ~S.full => \A j \in SinkCrtcs \ {k} : Entries(T, j) = Entries(S, j)
    BY <2>2, <2>8 DEF Others
  <2> QED BY <2>a, <2>b, <2>1, <2>6, <2>7, <2>8, <2>9, <2>10
<1> QED BY <1>1, <1>2 DEF Good, SharedTypes

LEMMA FiniFine ==
    ASSUME NEW C, NEW S, Good(S, C), Seen(S), NEW k \in SinkCrtcs,
           NEW T, T = drmmode_FiniSharedPixmapFlipping(S, k)
    PROVE  Fine(S, T, k)
<1>1. /\ SameKernel(S, T) /\ SamePixmaps(S, T) /\ T.damage = S.damage /\ T.full = S.full
      /\ \A j \in SinkCrtcs \ {k} : T.odd[j] = S.odd[j]
      /\ S.odd[k] \subseteq T.odd[k] \cup {"stopped"}
      /\ T.ms_drm_queue \subseteq S.ms_drm_queue
      /\ ~S.full => \A j \in SinkCrtcs \ {k} : Entries(T, j) = Entries(S, j)
      /\ (\E e \in Entries(S, k) \ Entries(T, k) : e.flip) => "aborted" \in T.odd[k]
  BY FiniSees
<1>2. FlipTypes(T)
  BY <1>1, SameApart DEF Seen
<1>3. \A j \in SinkCrtcs : Targets(T, j) = Targets(S, j)
  BY <1>1 DEF Targets, SamePixmaps
<1>4. ASSUME ~T.full
      PROVE  NumbersApart(T) /\ Displays(T, k) /\ Untorn(S, T, k) /\ View(S, T, k)
  <2>1. ~S.full /\ NumbersApart(S) /\ Displays(S, k)
    BY <1>1, <1>4 DEF Seen, Visible
  <2>2. NumbersApart(T)
    BY <1>1, <2>1, SameApart
  <2>3. Untorn(S, T, k)
    BY <1>1, UncopiedUntorn
  <2>4. View(S, T, k)
    BY <1>1, <1>3, <2>1 DEF View, Alike, SameKernel, SamePixmaps
  <2>5. Entries(T, k) \subseteq Entries(S, k)
    BY <1>1 DEF Entries
  <2>6. Clean(T, k) => Clean(S, k) /\ Turning(T, k) = Turning(S, k)
    <3>1. Clean(T, k) => Clean(S, k) /\ "aborted" \notin T.odd[k]
      BY <1>1 DEF Clean
    <3> QED BY <1>1, <2>5, <3>1 DEF Turning
  <2>7. ShowsOwn(T, k)
    BY <1>1, <1>3, <2>1 DEF Displays, ShowsOwn, SameKernel, SamePixmaps
  <2>8. ShowsNext(T, k)
    BY <1>1, <2>1, <2>5 DEF Displays, ShowsNext, SameKernel
  <2>9. ShowsFront(T, k)
    BY <1>1, <2>1, <2>6 DEF Displays, ShowsFront, SameKernel, SamePixmaps
  <2> QED BY <2>2, <2>3, <2>4, <2>7, <2>8, <2>9 DEF Displays
<1> QED BY <1>1, <1>2, <1>4, FineIf

\* DPMS off.
LEMMA SwitchedOffFine ==
    ASSUME NEW C \in SUBSET SinkCrtcs, NEW k \in SinkCrtcs, NEW S, Good(S, C), Seen(S),
           NEW T, T = SwitchedOff(S, k)
    PROVE  Fine(S, T, k)
<1> DEFINE U == IF S.enable_flipping[k] THEN drmmode_FiniSharedPixmapFlipping(S, k) ELSE S
<1>1. C \ {k} \in SUBSET SinkCrtcs
  OBVIOUS
<1>2. Good(U, C \ {k})
  BY FiniKeeps, GoodLess
<1>3. T = TurnedOff(U, k)
  BY DEF SwitchedOff
<1>4. Fine(S, U, k) /\ U.damage = S.damage
  BY FiniFine, FiniSees, FineRefl
<1> HIDE DEF U
<1>5. Seen(U) /\ SharedTypes(U)
  BY <1>2, <1>4, FineSeen DEF Good
<1>6. Fine(U, T, k)
  BY <1>2, <1>3, <1>5, TurnedOffFine
<1>7. T.damage = S.damage
  <2>1. Same(U, T)
    BY <1>3, <1>5, TurnedOffIs
  <2> QED BY <1>4, <2>1 DEF Same, SameDamage
<1>8. Untorn(S, T, k)
  BY <1>7, UncopiedUntorn
<1> QED BY <1>4, <1>6, <1>8, FineThen

-----------------------------------------------------------------------------
(* What scanout pixmaps that come and go show *)

\* CRTC k displays one of the pixmaps in A or none, and is about to.
Within(S, k, A) ==
    /\ S.flip[k] # NoFlip => S.flip[k].pixmap \in A
    /\ S.shown[k] \in Pixmaps => S.shown[k] \in A

LEMMA RemovedSees ==
    ASSUME NEW S, SharedTypes(S), FlipTypes(S), NEW k \in SinkCrtcs, NEW x, NEW A,
           Within(S, k, A), NEW T, T = Removed(S, k, x)
    PROVE  Settled(S, T, k) /\ Within(T, k, A \ {x})
<1> DEFINE b == S.shown[k] = x \/ S.flip[k].pixmap = x
           U == IF b THEN TurnedOff(S, k) ELSE S
           p == IF U.shown[k] = x THEN NoPixmap ELSE U.shown[k]
<1>1. /\ Settled(S, U, k) /\ Same(S, U)
      /\ U.flip[k] # NoFlip => U.flip[k].pixmap \in A \ {x}
      /\ U.shown[k] \in Pixmaps => U.shown[k] \in A
  <2>1. CASE b
    <3>1. Settled(S, TurnedOff(S, k), k) /\ TurnedOff(S, k).flip[k] = NoFlip
          /\ TurnedOff(S, k).shown[k] = NextShown(S, k)
      BY TurnedOffSettles
    <3>2. Same(S, TurnedOff(S, k))
      BY TurnedOffIs
    <3>3. U = TurnedOff(S, k)
      BY <2>1
    <3> HIDE DEF U
    <3> QED BY <3>1, <3>2, <3>3 DEF NextShown, Within
  <2>2. CASE ~b
    <3>1. U = S
      BY <2>2
    <3> HIDE DEF U
    <3>2. Settled(S, S, k)
      BY DEF Settled
    <3>3. Same(S, S)
      BY DEF SharedTypes, Same, SamePixmaps, SameQueue, SameDamage
    <3> QED BY <2>2, <3>1, <3>2, <3>3 DEF Within
  <2> QED BY <2>1, <2>2
<1>2. T = [U EXCEPT !.fb_id[x] = FALSE, !.shown[k] = p]
  BY DEF Removed
<1>3. /\ p \in Pixmaps => p \in A \ {x}
      /\ p \in Pixmaps \cup {NoPixmap, Other}
  <2> HIDE DEF U
  <2>1. U.shown[k] \in Pixmaps \cup {NoPixmap, Other}
    BY <1>1 DEF Settled, FlipTypes
  <2> QED BY <1>1, <2>1, NotPixmaps
<1> HIDE DEF U, p
<1>4. DOMAIN U = Fields
  BY <1>1 DEF Same
<1>5. /\ T.flip = U.flip /\ T.fd = U.fd /\ T.vblanks = U.vblanks /\ T.defer = U.defer
      /\ T.shown = [U.shown EXCEPT ![k] = p]
  BY <1>2, <1>4 DEF Fields
<1>6. FlipTypes(U)
  BY <1>1 DEF Settled
<1>7. /\ T.shown \in [SinkCrtcs -> Pixmaps \cup {NoPixmap, Other}] /\ T.shown[k] = p
      /\ \A j \in SinkCrtcs \ {k} : T.shown[j] = U.shown[j]
  BY <1>3, <1>5, <1>6 DEF FlipTypes
<1>8. FlipTypes(T) /\ Pending(T) = Pending(U)
  BY <1>5, <1>6, <1>7 DEF FlipTypes, Pending
<1>9. Settled(S, T, k)
  BY <1>1, <1>5, <1>7, <1>8 DEF Settled
<1> QED BY <1>1, <1>3, <1>5, <1>7, <1>9 DEF Within

LEMMA ReleasedSees ==
    ASSUME NEW S, SharedTypes(S), FlipTypes(S), NEW k \in SinkCrtcs, NEW x, NEW A,
           Within(S, k, A), NEW T, T = Released(S, k, x)
    PROVE  Settled(S, T, k) /\ (NoPixmap \notin A => Within(T, k, A \ {x}))
<1>1. CASE x = NoPixmap
  <2>1. T = S /\ (NoPixmap \notin A => A \ {x} = A)
    BY <1>1 DEF Released
  <2>2. Settled(S, S, k)
    BY DEF Settled
  <2> QED BY <2>1, <2>2
<1>2. CASE x # NoPixmap
  <2> DEFINE U == Removed(S, k, x)
  <2>1. Settled(S, U, k) /\ Within(U, k, A \ {x})
    BY RemovedSees
  <2>2. DOMAIN U = Fields
    BY RemovedIs DEF SharedTypes
  <2>3. T = [U EXCEPT !.slave_damage[x] = FALSE]
    BY <1>2 DEF Released
  <2> HIDE DEF U
  <2>4. SameKernel(U, T)
    BY <2>2, <2>3 DEF Fields, SameKernel
  <2>5. FlipTypes(T) /\ Pending(T) = Pending(U)
    BY <2>1, <2>4, SameApart DEF Settled, SameKernel, Pending
  <2>6. T.flip = U.flip /\ T.shown = U.shown /\ T.defer = U.defer
    BY <2>4 DEF SameKernel
  <2> QED BY <2>1, <2>5, <2>6 DEF Settled, Within
<1> QED BY <1>1, <1>2

\* The CRTC displays none of its pixmaps when they go.
LEMMA DetachedFine ==
    ASSUME NEW C \in SUBSET SinkCrtcs, NEW k \in SinkCrtcs, NEW S, Good(S, C), Seen(S),
           NEW T, T = Detached(S, k)
    PROVE  /\ Fine(S, T, k) /\ Targets(T, k) = {}
           /\ ~T.full => T.flip[k] = NoFlip /\ T.shown[k] \notin Pixmaps
<1> DEFINE F == IF S.enable_flipping[k] THEN drmmode_FiniSharedPixmapFlipping(S, k) ELSE S
           V == Released(F, k, S.prime_pixmap[k])
           U == Released(V, k, S.prime_pixmap_back[k])
           Gone(f) == [p \in Pixmaps |-> f[p] /\ p \notin Targets(S, k)]
           q == [p \in Pixmaps |-> IF p \in Targets(S, k) THEN 0 ELSE U.flip_seq[p]]
<1>0. C \ {k} \in SUBSET SinkCrtcs
  OBVIOUS
<1>a. Good(T, C \cup {k})
  BY DetachedKeeps
<1>1. Good(F, C \ {k}) /\ SamePixmaps(S, F)
  <2>1. CASE S.enable_flipping[k]
    BY <2>1, FiniKeeps
  <2>2. CASE ~S.enable_flipping[k]
    BY <2>2, GoodLess DEF SamePixmaps
  <2> QED BY <2>1, <2>2
<1>2. Fine(S, F, k)
  BY FiniFine, FineRefl
<1>3. T = [U EXCEPT !.enable_flipping[k] = FALSE,
                    !.prime_pixmap[k] = NoPixmap, !.prime_pixmap_back[k] = NoPixmap,
                    !.flip_seq = q,
                    !.wait_for_damage = Gone(@), !.notify_on_damage = Gone(@),
                    !.damage = Gone(@), !.defer = Gone(@),
                    !.odd[k] = @ \cap {"overlap"}]
  BY DEF Detached
<1> HIDE DEF F
<1>4. SharedTypes(F) /\ FlipTypes(F)
  BY <1>1, <1>2, FineSeen DEF Good, Seen
<1>b. NoPixmap \notin Targets(S, k) /\ Targets(F, k) = Targets(S, k)
  BY <1>1 DEF Targets, SamePixmaps
<1>5. Same(F, V) /\ SharedTypes(V) /\ V.odd = F.odd
  BY <1>4, ReleasedIs
<1>6. ASSUME NEW A, Within(F, k, A)
      PROVE  Settled(F, V, k) /\ (NoPixmap \notin A => Within(V, k, A \ {S.prime_pixmap[k]}))
  BY <1>4, <1>6, ReleasedSees
<1>v. V = Released(F, k, S.prime_pixmap[k])
  OBVIOUS
<1> HIDE DEF V
<1>7. Same(V, U) /\ SharedTypes(U) /\ U.odd = V.odd
  BY <1>5, ReleasedIs
<1>8. Settled(F, V, k) /\ FlipTypes(V)
  <2>1. Within(F, k, {F.flip[k].pixmap, F.shown[k]})
    BY DEF Within
  <2> QED BY <1>6, <2>1 DEF Settled
<1>9. ASSUME NEW A, Within(V, k, A)
      PROVE  /\ Settled(V, U, k)
             /\ NoPixmap \notin A => Within(U, k, A \ {S.prime_pixmap_back[k]})
  BY <1>5, <1>8, <1>9, ReleasedSees
<1>u. U = Released(V, k, S.prime_pixmap_back[k])
  OBVIOUS
<1> HIDE DEF U
<1>10. Settled(F, U, k)
  <2>1. Within(V, k, {V.flip[k].pixmap, V.shown[k]})
    BY DEF Within
  <2>2. Settled(V, U, k)
    BY <1>9, <2>1
  <2> QED BY <1>8, <2>2, SettledTransitive
<1>11. Same(F, U) /\ U.odd = F.odd
  BY <1>5, <1>7 DEF Same, SamePixmaps, SameQueue, SameDamage
<1>12. ASSUME Within(F, k, Targets(S, k)) PROVE Within(U, k, {})
  <2>1. Within(V, k, Targets(S, k) \ {S.prime_pixmap[k]})
    BY <1>b, <1>6, <1>12
  <2>2. Within(U, k, (Targets(S, k) \ {S.prime_pixmap[k]}) \ {S.prime_pixmap_back[k]})
    BY <1>b, <1>9, <2>1
  <2>3. (Targets(S, k) \ {S.prime_pixmap[k]}) \ {S.prime_pixmap_back[k]} = {}
    BY DEF Targets
  <2> QED BY <2>2, <2>3
<1>13. ASSUME NEW f \in [Pixmaps -> BOOLEAN]
       PROVE  /\ Gone(f) \in [Pixmaps -> BOOLEAN]
              /\ \A x \in Pixmaps \ Targets(S, k) : Gone(f)[x] = f[x]
  OBVIOUS
<1> HIDE DEF q, Gone
<1>14. /\ T.full = U.full /\ T.ms_drm_queue = U.ms_drm_queue
       /\ T.flip = U.flip /\ T.shown = U.shown /\ T.fd = U.fd /\ T.vblanks = U.vblanks
       /\ T.enable_flipping = [U.enable_flipping EXCEPT ![k] = FALSE]
       /\ T.prime_pixmap = [U.prime_pixmap EXCEPT ![k] = NoPixmap]
       /\ T.prime_pixmap_back = [U.prime_pixmap_back EXCEPT ![k] = NoPixmap]
       /\ T.damage = Gone(U.damage) /\ T.defer = Gone(U.defer)
       /\ T.odd = [U.odd EXCEPT ![k] = @ \cap {"overlap"}]
  <2>1. DOMAIN U = Fields
    BY <1>7 DEF SharedTypes
  <2>2. /\ T.full = U.full /\ T.ms_drm_queue = U.ms_drm_queue
        /\ T.flip = U.flip /\ T.shown = U.shown /\ T.fd = U.fd /\ T.vblanks = U.vblanks
    BY <1>3, <2>1 DEF Fields
  <2>3. T.enable_flipping = [U.enable_flipping EXCEPT ![k] = FALSE]
    BY <1>3, <2>1 DEF Fields
  <2>4. T.prime_pixmap = [U.prime_pixmap EXCEPT ![k] = NoPixmap]
    BY <1>3, <2>1 DEF Fields
  <2>5. T.prime_pixmap_back = [U.prime_pixmap_back EXCEPT ![k] = NoPixmap]
    BY <1>3, <2>1 DEF Fields
  <2>6. T.damage = Gone(U.damage)
    BY <1>3, <2>1 DEF Fields
  <2>7. T.defer = Gone(U.defer)
    BY <1>3, <2>1 DEF Fields
  <2>8. T.odd = [U.odd EXCEPT ![k] = @ \cap {"overlap"}]
    BY <1>3, <2>1 DEF Fields
  <2> QED BY <2>2, <2>3, <2>4, <2>5, <2>6, <2>7, <2>8
<1>15. /\ \A j \in SinkCrtcs \ {k} :
            /\ T.enable_flipping[j] = F.enable_flipping[j]
            /\ T.prime_pixmap[j] = F.prime_pixmap[j]
            /\ T.prime_pixmap_back[j] = F.prime_pixmap_back[j]
            /\ T.odd[j] = F.odd[j] /\ T.flip[j] = F.flip[j] /\ T.shown[j] = F.shown[j]
       /\ ~T.enable_flipping[k]
       /\ T.prime_pixmap[k] = NoPixmap /\ T.prime_pixmap_back[k] = NoPixmap
  <2>1. /\ U.enable_flipping = F.enable_flipping /\ U.prime_pixmap = F.prime_pixmap
        /\ U.prime_pixmap_back = F.prime_pixmap_back /\ U.odd = F.odd
    BY <1>11 DEF Same, SamePixmaps
  <2> QED BY <1>4, <1>10, <1>14, <2>1 DEF SharedTypes, Settled
<1>16. /\ Targets(T, k) = {} /\ T.full = F.full
       /\ \A j \in SinkCrtcs \ {k} : Targets(T, j) = Targets(F, j)
       /\ \A j \in SinkCrtcs : Entries(T, j) = Entries(F, j)
  BY <1>11, <1>14, <1>15 DEF Targets, Entries, Same, SameQueue
<1>17. FlipTypes(T)
  <2>1. FlipTypes(U)
    BY <1>10 DEF Settled
  <2> QED BY <1>13, <1>14, <2>1 DEF FlipTypes
<1>18. /\ \A x \in Pixmaps \ Targets(S, k) :
            T.defer[x] = F.defer[x] /\ T.damage[x] = F.damage[x]
  <2>1. /\ U.defer = F.defer /\ U.damage = F.damage
        /\ U.defer \in [Pixmaps -> BOOLEAN] /\ U.damage \in [Pixmaps -> BOOLEAN]
    BY <1>7, <1>10, <1>11 DEF Settled, FlipTypes, Same, SameDamage, SharedTypes
  <2> QED BY <1>13, <1>14, <2>1
<1>19. ASSUME ~T.full
       PROVE  /\ NumbersApart(T) /\ Displays(T, k) /\ Untorn(F, T, k) /\ View(F, T, k)
              /\ T.flip[k] = NoFlip /\ T.shown[k] \notin Pixmaps
  <2>1. NumbersApart(F) /\ ShowsOwn(F, k)
    BY <1>2, <1>16, <1>19, FineSeen DEF Seen, Visible, Displays
  <2>2. NumbersApart(U)
    BY <1>10, <2>1, SettledApart
  <2>3. NumbersApart(T)
    BY <1>14, <2>2 DEF NumbersApart, Pending
  <2>4. Within(F, k, Targets(S, k))
    BY <1>b, <2>1 DEF Within, ShowsOwn
  <2>5. T.flip[k] = NoFlip /\ T.shown[k] \notin Pixmaps
    BY <1>12, <1>14, <2>4 DEF Within
  <2>6. Displays(T, k)
    BY <1>15, <1>16, <2>5 DEF Displays, ShowsOwn, ShowsNext, ShowsFront
  <2>7. Untorn(F, T, k)
    BY <1>16 DEF Untorn
  <2>8. ASSUME NEW j \in SinkCrtcs \ {k}, NEW x \in Targets(F, j)
        PROVE  x \in Pixmaps \ Targets(S, k)
    BY <1>1, <1>4, <1>b, OtherTargets DEF Good
  <2>9. View(F, T, k)
    BY <1>15, <1>16, <1>18, <2>8 DEF View, Alike
  <2> QED BY <2>3, <2>5, <2>6, <2>7, <2>9
<1>20. Fine(F, T, k)
  <2>1. Seen(F)
    BY <1>2, FineSeen
  <2> QED BY <1>16, <1>17, <1>19, <2>1, FineIf
<1>21. Untorn(S, T, k)
  BY <1>16 DEF Untorn
<1>22. Fine(S, T, k)
  BY <1>2, <1>20, <1>21, FineThen
<1> QED BY <1>16, <1>19, <1>22

\* Nothing of new pixmaps is displayed, and their copies are out of date.
LEMMA AttachedFine ==
    ASSUME NEW C \in SUBSET SinkCrtcs, NEW k \in SinkCrtcs, NEW S, Good(S, C), Seen(S),
           S.prime_pixmap[k] = NoPixmap, S.prime_pixmap_back[k] = NoPixmap,
           ~S.flipping_active[k], ~S.full => S.flip[k] = NoFlip /\ S.shown[k] \notin Pixmaps,
           NEW b \in BOOLEAN,
           NEW x \in FreePixmaps(S), NEW y \in (FreePixmaps(S) \ {x}) \cup {NoPixmap},
           NEW T, T = Attached(S, k, x, y, b)
    PROVE  Fine(S, T, k) /\ (\A z \in Targets(T, k) : T.damage[z])
<1> DEFINE u == [p \in Pixmaps |-> S.damage[p] \/ p \in {x, y} \ {NoPixmap}]
           f == [p \in Pixmaps |-> IF p \in {x, y} \ {NoPixmap} THEN b ELSE S.fb_id[p]]
           v == [p \in Pixmaps |-> S.defer[p] \/ (p \in {x, y} \ {NoPixmap} /\ y # NoPixmap)]
           w == IF b THEN S.odd[k] ELSE S.odd[k] \cup {"no framebuffer"}
           d == y # NoPixmap
<1>0. SharedTypes(S) /\ FlipTypes(S) /\ DOMAIN S = Fields
  BY DEF Good, SharedTypes, Seen
<1>1. x \in Pixmaps /\ x # NoPixmap /\ y \in Pixmaps \cup {NoPixmap} /\ x # y
  BY DEF FreePixmaps, Pixmaps, NoPixmap
<1>2. \A j \in SinkCrtcs : x \notin Targets(S, j) /\ (y # NoPixmap => y \notin Targets(S, j))
  BY DEF FreePixmaps, Live
<1>3. T = [S EXCEPT !.enable_flipping[k] = d, !.prime_pixmap[k] = x, !.prime_pixmap_back[k] = y,
                    !.fb_id = f, !.damage = u, !.defer = v, !.odd[k] = w]
  BY DEF Attached
<1>4. /\ v \in [Pixmaps -> BOOLEAN] /\ (d <=> y # NoPixmap)
      /\ \A p \in {x, y} \ {NoPixmap} : u[p] /\ (y # NoPixmap => v[p])
      /\ \A p \in Pixmaps \ {x, y} : u[p] = S.damage[p] /\ v[p] = S.defer[p]
  <2>1. S.damage \in [Pixmaps -> BOOLEAN] /\ S.defer \in [Pixmaps -> BOOLEAN]
    BY <1>0 DEF SharedTypes, FlipTypes
  <2>2. \A p \in {x, y} \ {NoPixmap} : u[p] /\ (y # NoPixmap => v[p])
    BY <1>1
  <2> QED BY <2>1, <2>2
<1> HIDE DEF u, f, v, w, d
<1>5. /\ T.ms_drm_queue = S.ms_drm_queue /\ T.full = S.full
      /\ T.flip = S.flip /\ T.shown = S.shown /\ T.fd = S.fd /\ T.vblanks = S.vblanks
      /\ T.damage = u /\ T.defer = v
  BY <1>0, <1>3 DEF Fields
<1>6. T.enable_flipping = [S.enable_flipping EXCEPT ![k] = d]
  BY <1>0, <1>3 DEF Fields
<1>7. T.prime_pixmap = [S.prime_pixmap EXCEPT ![k] = x]
  BY <1>0, <1>3 DEF Fields
<1>8. T.prime_pixmap_back = [S.prime_pixmap_back EXCEPT ![k] = y]
  BY <1>0, <1>3 DEF Fields
<1>9. T.odd = [S.odd EXCEPT ![k] = w]
  BY <1>0, <1>3 DEF Fields
<1>10. /\ \A j \in SinkCrtcs \ {k} :
            /\ T.enable_flipping[j] = S.enable_flipping[j]
            /\ T.prime_pixmap[j] = S.prime_pixmap[j]
            /\ T.prime_pixmap_back[j] = S.prime_pixmap_back[j]
            /\ T.odd[j] = S.odd[j]
       /\ T.enable_flipping[k] = d /\ T.prime_pixmap[k] = x /\ T.prime_pixmap_back[k] = y
  BY <1>0, <1>6, <1>7, <1>8, <1>9 DEF SharedTypes
<1>11. /\ Targets(T, k) = {x, y} \ {NoPixmap}
       /\ \A j \in SinkCrtcs \ {k} : Targets(T, j) = Targets(S, j)
       /\ \A j \in SinkCrtcs : Entries(T, j) = Entries(S, j)
  BY <1>5, <1>10 DEF Targets, Entries
<1>12. FlipTypes(T)
  BY <1>0, <1>4, <1>5 DEF FlipTypes
<1>13. \A z \in Targets(T, k) : T.damage[z]
  BY <1>4, <1>5, <1>11
<1>14. ASSUME ~T.full
       PROVE  NumbersApart(T) /\ Displays(T, k) /\ Untorn(S, T, k) /\ View(S, T, k)
  <2>1. /\ ~S.full /\ NumbersApart(S) /\ T.flip[k] = NoFlip /\ T.shown[k] \notin Pixmaps
    BY <1>5, <1>14 DEF Seen, Visible
  <2>2. NumbersApart(T)
    BY <1>5, <2>1 DEF NumbersApart, Pending
  <2>3. Untorn(S, T, k)
    BY <1>13 DEF Untorn
  <2>4. ASSUME NEW j \in SinkCrtcs \ {k}, NEW z \in Targets(S, j)
        PROVE  z \in Pixmaps \ {x, y}
    BY <1>0, <1>2, TargetsArePixmaps, NotPixmaps
  <2>5. View(S, T, k)
    BY <1>4, <1>5, <1>10, <1>11, <2>4 DEF View, Alike
  <2>6. ShowsOwn(T, k)
    BY <1>4, <1>5, <1>10, <1>11, <2>1 DEF ShowsOwn
  <2>7. ShowsNext(T, k)
    BY <2>1 DEF ShowsNext
  <2>8. ShowsFront(T, k)
    <3>1. T.shown[k] # x /\ (y # NoPixmap => T.shown[k] # y)
      BY <1>1, <2>1
    <3> QED BY <1>4, <1>10, <2>1, <3>1 DEF ShowsFront
  <2> QED BY <2>2, <2>3, <2>5, <2>6, <2>7, <2>8 DEF Displays
<1>15. Fine(S, T, k)
  BY <1>5, <1>12, <1>14, FineIf
<1> QED BY <1>13, <1>15

\* What is only odd changes nothing.
LEMMA AddedFine ==
    ASSUME NEW S, SharedTypes(S), Seen(S), NEW k \in SinkCrtcs, NEW w \in Oddities,
           NEW T, T = Added(S, k, w)
    PROVE  /\ Fine(S, T, k) /\ T.damage = S.damage /\ SamePixmaps(S, T) /\ SameKernel(S, T)
           /\ S.odd[k] \subseteq T.odd[k]
<1>1. /\ Same(S, T) /\ \A j \in SinkCrtcs \ {k} : T.odd[j] = S.odd[j]
      /\ T.odd[k] = S.odd[k] \cup {w}
  BY AddedIs
<1>2. SameKernel(S, T)
  BY DEF Added, SharedTypes, Fields, SameKernel
<1>3. /\ SamePixmaps(S, T) /\ T.ms_drm_queue = S.ms_drm_queue /\ T.full = S.full
      /\ T.damage = S.damage
  BY <1>1 DEF Same, SameQueue, SameDamage
<1>4. S.odd[k] \subseteq T.odd[k]
  BY <1>1
<1> QED BY <1>1, <1>2, <1>3, <1>4, SameFine

LEMMA BlankedFine ==
    ASSUME NEW C, NEW S, Good(S, C), Seen(S), NEW k \in SinkCrtcs, NEW T, T = Blanked(S, k)
    PROVE  Fine(S, T, k)
<1>1. SharedTypes(S) /\ FlipTypes(S) /\ DOMAIN S = Fields
  BY DEF Good, Seen, SharedTypes
<1>2. Settled(S, T, k) /\ T.flip = S.flip /\ T.shown = S.shown
  BY <1>1, BlankedSettles
<1>3. Same(S, T) /\ T.odd = S.odd
  BY <1>1, BlankedIs
<1>4. /\ SamePixmaps(S, T) /\ T.damage = S.damage /\ T.ms_drm_queue = S.ms_drm_queue
      /\ T.full = S.full
  BY <1>3 DEF Same, SameQueue, SameDamage
<1>5. View(S, T, k) /\ Targets(T, k) = Targets(S, k) /\ Entries(T, k) = Entries(S, k)
  BY <1>2, <1>3, <1>4, SettledView
<1>6. FlipTypes(T) /\ T.defer = S.defer
  BY <1>2 DEF Settled
<1>7. Untorn(S, T, k)
  BY <1>4, UncopiedUntorn
<1>8. Alike(S, T, k)
  BY <1>2, <1>3, <1>4, <1>5, <1>6 DEF Alike, SamePixmaps
<1>9. ASSUME ~T.full
      PROVE  NumbersApart(T) /\ Displays(T, k) /\ Untorn(S, T, k) /\ View(S, T, k)
  <2>1. NumbersApart(S) /\ Displays(S, k)
    BY <1>4, <1>9 DEF Seen, Visible
  <2> QED BY <1>2, <1>5, <1>7, <1>8, <2>1, SettledApart, AlikeShows
<1> QED BY <1>4, <1>6, <1>9, FineIf

\* DPMS on.
LEMMA SwitchedOnFine ==
    ASSUME NEW C \in SUBSET SinkCrtcs, NEW k \in SinkCrtcs, NEW S, Good(S, C), Seen(S),
           NEW T, T = SwitchedOn(S, k)
    PROVE  Fine(S, T, k)
<1> DEFINE U == [S EXCEPT !.on[k] = TRUE]
<1>1. CASE S.prime_pixmap[k] = NoPixmap \/ (S.shown[k] = NoPixmap /\ ~S.on[k])
  <2>1. T = S
    BY <1>1 DEF SwitchedOn
  <2> QED BY <2>1, FineRefl
<1>2. CASE ~(S.prime_pixmap[k] = NoPixmap \/ (S.shown[k] = NoPixmap /\ ~S.on[k]))
  <2>1. T = drmmode_InitSharedPixmapFlipping(U, k)
    BY <1>2 DEF SwitchedOn
  <2>2. SharedTypes(S) /\ DOMAIN S = Fields
    BY DEF Good, SharedTypes
  <2>3. Same(S, U) /\ U.odd = S.odd /\ U.on = [S.on EXCEPT ![k] = TRUE]
    BY <2>2 DEF Fields, Same, SamePixmaps, SameQueue, SameDamage
  <2>4. SameKernel(S, U)
    BY <2>2 DEF Fields, SameKernel
  <2> HIDE DEF U
  <2>5. U.on \in [SinkCrtcs -> BOOLEAN] /\ \A j \in SinkCrtcs \ {k} : U.on[j] = S.on[j]
    BY <2>2, <2>3 DEF SharedTypes
  <2>6. SharedTypes(U)
    BY <2>2, <2>3, <2>5, SameTypes DEF SharedTypes
  <2>7. Good(U, C \ {k})
    BY <2>3, <2>5, <2>6, SwitchKeeps
  <2>8. /\ SamePixmaps(S, U) /\ U.ms_drm_queue = S.ms_drm_queue /\ U.full = S.full
        /\ U.damage = S.damage
    BY <2>3 DEF Same, SameQueue, SameDamage
  <2>9. Fine(S, U, k)
    BY <2>3, <2>4, <2>8, SameFine
  <2>10. Seen(U) /\ C \ {k} \in SUBSET SinkCrtcs
    BY <2>9, FineSeen
  <2>11. Fine(U, T, k)
    BY <2>1, <2>7, <2>10, InitFine
  <2>12. ~T.full => Untorn(S, T, k)
    <3>1. Targets(U, k) = Targets(S, k)
      BY <2>8 DEF Targets, SamePixmaps
    <3> QED BY <2>8, <2>11, <3>1 DEF Fine, Untorn, SamePixmaps
  <2> QED BY <2>9, <2>11, <2>12, FineThen
<1> QED BY <1>1, <1>2

\* The VT comes back.
LEMMA DesiredModeFine ==
    ASSUME NEW C \in SUBSET SinkCrtcs, NEW k \in SinkCrtcs, NEW S, Good(S, C), Seen(S),
           NEW T, T = DesiredMode(S, k)
    PROVE  Fine(S, T, k)
<1>1. CASE S.prime_pixmap[k] = NoPixmap
  BY <1>1, DarkFine DEF DesiredMode
<1>2. CASE S.prime_pixmap[k] # NoPixmap
  BY <1>2, SetModeFine DEF DesiredMode
<1> QED BY <1>1, <1>2

-----------------------------------------------------------------------------
(* What damage shows *)

LEMMA FineOn ==
    ASSUME NEW S, NEW T, NEW U, NEW k \in SinkCrtcs, Fine(S, T, k), Fine(T, U, k),
           U.damage = S.damage
    PROVE  Fine(S, U, k)
<1>1. Untorn(S, U, k)
  BY UncopiedUntorn
<1> QED BY <1>1, FineThen

LEMMA OnVBlankFine ==
    ASSUME NEW S, SharedTypes(S), Separate(S), Seen(S), NEW k \in SinkCrtcs,
           NEW x \in Targets(S, k), S.prime_pixmap_back[k] # NoPixmap,
           NEW T, T = drmmode_SharedPixmapPresentOnVBlank(S, k, x)
    PROVE  Fine(S, T, k) /\ T.damage = S.damage /\ SharedTypes(T) /\ SamePixmaps(S, T)
<1>0. x \in Pixmaps
  BY TargetsArePixmaps
<1>1. CASE x # S.prime_pixmap_back[k]
  <2>1. T = [S EXCEPT !.ok = FALSE] /\ DOMAIN S = Fields
    BY <1>1 DEF drmmode_SharedPixmapPresentOnVBlank, Failed, SharedTypes
  <2>2. Same(S, T) /\ T.on = S.on /\ T.odd = S.odd
    BY <2>1 DEF Fields, Same, SamePixmaps, SameQueue, SameDamage
  <2>3. SameKernel(S, T)
    BY <2>1 DEF Fields, SameKernel
  <2>4. /\ SamePixmaps(S, T) /\ T.ms_drm_queue = S.ms_drm_queue /\ T.full = S.full
        /\ T.damage = S.damage
    BY <2>2 DEF Same, SameQueue, SameDamage
  <2>5. SharedTypes(T)
    BY <2>2, SameTypes DEF SharedTypes
  <2> QED BY <2>2, <2>3, <2>4, <2>5, SameFine
<1>2. CASE x = S.prime_pixmap_back[k]
  <2>1. S.prime_pixmap[k] # x
    BY <1>2 DEF Separate
  <2>2. /\ Kept(S, T, k) /\ SameDamage(S, T) /\ T.ok = S.on[k]
        /\ "overlap" \in T.odd[k] <=> ("overlap" \in S.odd[k] \/ Entries(S, k) # {})
    BY <1>0, <1>2, <2>1, PresentOnVBlankIs
  <2>3. /\ T.ok => \E n : NumberFor(S, T, n) /\ FiledBlank(S, T, k, x, n)
        /\ ~T.ok => SameKernel(S, T) /\ T.ms_drm_queue = S.ms_drm_queue /\ T.full = S.full
        /\ S.odd[k] \subseteq T.odd[k]
    BY <1>0, <1>2, <2>1, PresentOnVBlankSees
  <2>4. /\ SharedTypes(T) /\ SamePixmaps(S, T) /\ T.damage = S.damage
        /\ \A j \in SinkCrtcs \ {k} : T.odd[j] = S.odd[j]
    BY <2>2 DEF Kept, SameDamage
  <2>5. CASE ~T.ok
    <3>1. SameKernel(S, T) /\ T.ms_drm_queue = S.ms_drm_queue /\ T.full = S.full
      BY <2>3, <2>5
    <3> QED BY <2>3, <2>4, <3>1, SameFine
  <2>6. CASE T.ok
    <3>1. PICK n : NumberFor(S, T, n) /\ FiledBlank(S, T, k, x, n)
      BY <2>3, <2>6
    <3>2. Presented(S, T, k, x) /\ FlipTypes(S)
      BY <3>1 DEF Presented, Seen
    <3>3. /\ FlipTypes(T) /\ T.shown = S.shown /\ T.defer = S.defer
          /\ \A j \in SinkCrtcs \ {k} : T.flip[j] = S.flip[j]
          /\ S.full => T.full
      BY <1>0, <3>2, PresentedTypes
    <3>4. T.ms_drm_queue = S.ms_drm_queue \cup {EntryOf(S, k, x, n, FALSE)}
      BY <3>1 DEF FiledBlank
    <3>5. \A j \in SinkCrtcs \ {k} : Entries(T, j) = Entries(S, j)
      BY <3>4 DEF Entries, EntryOf
    <3>6. View(S, T, k)
      BY <2>4, <3>3, <3>5 DEF View, Alike, SamePixmaps
    <3>7. Untorn(S, T, k)
      BY <2>4, UncopiedUntorn
    <3>8. ASSUME ~T.full PROVE NumbersApart(T) /\ Displays(T, k)
      <4>1. NumbersApart(S) /\ Displays(S, k)
        BY <3>3, <3>8 DEF Seen, Visible
      <4>2. NumbersApart(T)
        BY <1>0, <3>2, <3>8, <4>1, PresentedApart
      <4>3. "overlap" \in T.odd[k] \/ Entries(S, k) = {}
        BY <2>2
      <4>4. Displays(T, k)
        BY <2>3, <2>4, <3>1, <4>1, <4>3, BlankShows
      <4> QED BY <4>2, <4>4
    <3>9. Fine(S, T, k)
      BY <3>3, <3>6, <3>7, <3>8, FineIf
    <3> QED BY <2>4, <3>9
  <2>7. S.on[k] \in BOOLEAN
    BY DEF SharedTypes
  <2> QED BY <2>2, <2>5, <2>6, <2>7
<1> QED BY <1>1, <1>2

\* The sink is told of damage.
LEMMA NotifyFine ==
    ASSUME NEW C \in SUBSET SinkCrtcs, NEW k \in SinkCrtcs, NEW S, Good(S, C), Seen(S),
           NEW x \in Targets(S, k), NEW T, T = NotifyDamage(S, k, x)
    PROVE  Fine(S, T, k) /\ T.damage = S.damage
<1> DEFINE U == [S EXCEPT !.notify_on_damage[x] = FALSE, !.wait_for_damage[x] = FALSE]
           Q == drmmode_SharedPixmapPresentOnVBlank(U, k, x)
<1>0. SharedTypes(S) /\ Separate(S) /\ x \in Pixmaps /\ DOMAIN S = Fields
  BY TargetsArePixmaps DEF Good, SharedTypes
<1>1. /\ DOMAIN U = Fields /\ SamePixmaps(S, U) /\ SameQueue(S, U)
      /\ U.damage = S.damage /\ U.flipping_active = S.flipping_active
      /\ U.on = S.on /\ U.odd = S.odd
      /\ U.notify_on_damage = [S.notify_on_damage EXCEPT ![x] = FALSE]
      /\ U.wait_for_damage = [S.wait_for_damage EXCEPT ![x] = FALSE]
  BY <1>0 DEF Fields, SamePixmaps, SameQueue
<1>2. SameKernel(S, U)
  BY <1>0 DEF Fields, SameKernel
<1>3. /\ ~S.notify_on_damage[x] => T = S
      /\ S.notify_on_damage[x] /\ (~S.wait_for_damage[x] \/ S.prime_pixmap_back[k] = NoPixmap)
         => T = U
      /\ S.notify_on_damage[x] /\ S.wait_for_damage[x] /\ S.prime_pixmap_back[k] # NoPixmap
         => T = Q \/ T = Added(Q, k, "stopped") \/ T = Added(Q, k, "overlap")
               \/ T = Added(Added(Q, k, "stopped"), k, "overlap")
  BY DEF NotifyDamage, Odd, Added
<1>q. Q = drmmode_SharedPixmapPresentOnVBlank(U, k, x)
  OBVIOUS
<1> HIDE DEF U, Q
<1>4. Fine(S, U, k)
  BY <1>1, <1>2, SameFine DEF SameQueue
<1>5. CASE ~S.notify_on_damage[x]
  BY <1>3, <1>5, FineRefl
<1>6. CASE S.notify_on_damage[x] /\ (~S.wait_for_damage[x] \/ S.prime_pixmap_back[k] = NoPixmap)
  BY <1>1, <1>3, <1>4, <1>6
<1>7. CASE S.notify_on_damage[x] /\ S.wait_for_damage[x] /\ S.prime_pixmap_back[k] # NoPixmap
  <2>1. /\ U.wait_for_damage \in [Pixmaps -> BOOLEAN]
        /\ U.notify_on_damage \in [Pixmaps -> BOOLEAN]
    BY <1>0, <1>1 DEF SharedTypes
  <2>2. SharedTypes(U)
    BY <1>0, <1>1, <2>1 DEF SharedTypes, SamePixmaps, SameQueue
  <2>3. \A j \in SinkCrtcs : Targets(U, j) = Targets(S, j)
    BY <1>1 DEF Targets, SamePixmaps
  <2>4. Separate(U)
    BY <1>0, <1>1, <2>3 DEF Separate, SamePixmaps
  <2>5. x \in Targets(U, k) /\ U.prime_pixmap_back[k] # NoPixmap /\ Seen(U)
    BY <1>1, <1>4, <1>7, <2>3, FineSeen DEF SamePixmaps
  <2>6. Fine(U, Q, k) /\ Q.damage = U.damage /\ SharedTypes(Q)
    BY <1>q, <2>2, <2>4, <2>5, OnVBlankFine
  <2>7. Fine(S, Q, k) /\ Q.damage = S.damage
    BY <1>1, <1>4, <2>6, FineOn
  <2>8. ASSUME NEW V, SharedTypes(V), Fine(S, V, k), V.damage = S.damage,
               NEW w \in {"stopped", "overlap"}, NEW W, W = Added(V, k, w)
        PROVE  Fine(S, W, k) /\ W.damage = S.damage /\ SharedTypes(W)
    <3>1. w \in Oddities /\ Seen(V)
      BY <2>8, FineSeen DEF Oddities
    <3>2. Fine(V, W, k) /\ W.damage = V.damage
      BY <2>8, <3>1, AddedFine
    <3>3. SharedTypes(W)
      BY <2>8, <3>1, AddedIs
    <3>4. W.damage = S.damage
      BY <2>8, <3>2
    <3>5. Fine(S, W, k)
      BY <2>8, <3>2, <3>4, FineOn
    <3> QED BY <3>3, <3>4, <3>5
  <2> DEFINE V == Added(Q, k, "stopped")
             W == Added(Q, k, "overlap")
             X == Added(V, k, "overlap")
  <2>9. Fine(S, V, k) /\ V.damage = S.damage /\ SharedTypes(V)
    BY <2>6, <2>7, <2>8
  <2>10. Fine(S, W, k) /\ W.damage = S.damage
    BY <2>6, <2>7, <2>8
  <2>v. T = Q \/ T = V \/ T = W \/ T = X
    BY <1>3, <1>7
  <2> HIDE DEF V, W
  <2>11. Fine(S, X, k) /\ X.damage = S.damage
    BY <2>8, <2>9
  <2> HIDE DEF X
  <2> QED BY <2>7, <2>9, <2>10, <2>11, <2>v
<1>8. S.notify_on_damage[x] \in BOOLEAN /\ S.wait_for_damage[x] \in BOOLEAN
  BY <1>0 DEF SharedTypes
<1> QED BY <1>5, <1>6, <1>7, <1>8

\* A pixmap that is out of date is copied only if there is no flipping.
LEMMA RedisplayedFine ==
    ASSUME NEW C \in SUBSET SinkCrtcs, NEW k \in SinkCrtcs, NEW S, Good(S, C), Seen(S),
           NEW x \in Targets(S, k) \cup {NoPixmap}, NEW T, T = Redisplayed(S, k, x)
    PROVE  /\ Fine(S, T, k)
           /\ ~T.full /\ S.enable_flipping[k] => T.damage = S.damage
<1>1. CASE x = NoPixmap \/ ~S.damage[x]
  <2>1. T = S
    BY <1>1 DEF Redisplayed
  <2> QED BY <2>1, FineRefl
<1>2. CASE x # NoPixmap /\ S.damage[x] /\ S.defer[x]
  <2>1. T = NotifyDamage(S, k, x)
    BY <1>2 DEF Redisplayed
  <2> QED BY <1>2, <2>1, NotifyFine
<1>3. CASE x # NoPixmap /\ S.damage[x] /\ ~S.defer[x]
  <2> DEFINE U == NotifyDamage(S, k, x)
  <2>1. Good(U, C) /\ SamePixmaps(S, U)
    BY <1>3, NotifyKeeps
  <2>2. Fine(S, U, k)
    BY <1>3, NotifyFine
  <2>3. T = [U EXCEPT !.damage[x] = FALSE, !.slave_damage[x] = TRUE]
    BY <1>3 DEF Redisplayed
  <2> HIDE DEF U
  <2>4. SharedTypes(U) /\ Separate(U) /\ DOMAIN U = Fields /\ Seen(U)
    BY <2>1, <2>2, FineSeen DEF Good, SharedTypes
  <2>5. /\ SamePixmaps(U, T) /\ T.ms_drm_queue = U.ms_drm_queue /\ T.full = U.full
        /\ T.odd = U.odd /\ T.damage = [U.damage EXCEPT ![x] = FALSE]
    BY <2>3, <2>4 DEF Fields, SamePixmaps
  <2>6. SameKernel(U, T)
    BY <2>3, <2>4 DEF Fields, SameKernel
  <2>7. FlipTypes(T)
    BY <2>4, <2>6, SameApart DEF Seen
  <2>8. \A j \in SinkCrtcs : Targets(U, j) = Targets(S, j) /\ Targets(T, j) = Targets(U, j)
    BY <2>1, <2>5 DEF Targets, SamePixmaps
  <2>9. ASSUME ~T.full PROVE ~S.enable_flipping[k] /\ ~U.enable_flipping[k]
    <3>1. ShowsOwn(S, k) /\ x \in Targets(S, k)
      BY <1>3, <2>2, <2>5, <2>9 DEF Fine, Seen, Visible, Displays
    <3> QED BY <1>3, <2>1, <3>1 DEF ShowsOwn, SamePixmaps
  <2>10. \A j \in SinkCrtcs : Entries(T, j) = Entries(U, j)
    BY <2>5 DEF Entries
  <2>11. ASSUME NEW j \in SinkCrtcs \ {k}, NEW z \in Targets(U, j)
         PROVE  T.damage[z] = U.damage[z]
    <3>1. z \in Pixmaps /\ z # x
      BY <1>3, <2>4, <2>8, OtherTargets
    <3> QED BY <2>4, <2>5, <3>1 DEF SharedTypes
  <2>12. View(U, T, k)
    BY <2>5, <2>6, <2>10, <2>11 DEF View, Alike, SamePixmaps, SameKernel
  <2>13. ASSUME ~T.full
         PROVE  NumbersApart(T) /\ Displays(T, k) /\ Untorn(U, T, k) /\ Untorn(S, T, k)
    <3>1. NumbersApart(U) /\ Displays(U, k)
      BY <2>4, <2>5, <2>13 DEF Seen, Visible
    <3>2. NumbersApart(T)
      BY <2>6, <3>1, SameApart
    <3>3. Displays(T, k)
      BY <2>5, <2>6, <2>10, <3>1, ShowsKept
    <3> QED BY <2>9, <2>13, <3>2, <3>3 DEF Untorn
  <2>14. Fine(U, T, k)
    BY <2>4, <2>5, <2>7, <2>12, <2>13, FineIf
  <2>15. Fine(S, T, k)
    BY <2>2, <2>13, <2>14, FineThen
  <2> QED BY <2>9, <2>15
<1> QED BY <1>1, <1>2, <1>3

LEMMA UpdatedFine ==
    ASSUME NEW C \in SUBSET SinkCrtcs, NEW k \in SinkCrtcs, NEW S, Good(S, C), Seen(S),
           NEW T, T = Updated(S, k)
    PROVE  Fine(S, T, k)
<1> DEFINE U == Redisplayed(S, k, S.prime_pixmap[k])
<1>1. /\ S.prime_pixmap[k] \in Targets(S, k) \cup {NoPixmap}
      /\ S.prime_pixmap_back[k] \in Targets(S, k) \cup {NoPixmap}
  BY DEF Targets
<1>2. Good(U, C) /\ SamePixmaps(S, U)
  BY <1>1, RedisplayedKeeps
<1>3. /\ Fine(S, U, k)
      /\ ~U.full /\ S.enable_flipping[k] => U.damage = S.damage
  BY <1>1, RedisplayedFine
<1>4. T = Redisplayed(U, k, S.prime_pixmap_back[k])
  BY DEF Updated
<1> HIDE DEF U
<1>5. S.prime_pixmap_back[k] \in Targets(U, k) \cup {NoPixmap} /\ Seen(U)
  BY <1>1, <1>2, <1>3, FineSeen DEF Targets, SamePixmaps
<1>6. /\ Fine(U, T, k)
      /\ ~T.full /\ U.enable_flipping[k] => T.damage = U.damage
  BY <1>2, <1>4, <1>5, RedisplayedFine
<1>7. ASSUME ~T.full PROVE Untorn(S, T, k)
  <2>1. CASE S.enable_flipping[k]
    <3>1. T.damage = S.damage
      BY <1>2, <1>3, <1>6, <1>7, <2>1 DEF Fine, SamePixmaps
    <3> QED BY <3>1, UncopiedUntorn
  <2>2. CASE ~S.enable_flipping[k]
    BY <2>2 DEF Untorn
  <2> QED BY <2>1, <2>2
<1> QED BY <1>3, <1>6, <1>7, FineThen

-----------------------------------------------------------------------------
(* The event handler copies to what is not displayed *)

\* When the handler presents a pixmap it is not displayed, nor about to be.
LEMMA BegunIdle ==
    ASSUME NEW S, Good(S, SinkCrtcs), ~S.full, Seen(S), NEW e \in S.ms_drm_queue,
           "overlap" \notin S.odd[e.crtc], S.fd # <<>>, e.seq = Head(S.fd),
           NEW k, k = e.crtc, NEW U, U = Begun(S, e)
    PROVE  Idle(U, k) /\ FlipTypes(U) /\ NumbersApart(U) /\ View(S, U, k)
<1> DEFINE x == Presents(e)
<1>u. x = Presents(e)
  OBVIOUS
<1>x. x = IF e.flip THEN e.back ELSE e.front
  BY DEF Presents
<1> HIDE DEF x
<1>1. /\ k \in SinkCrtcs /\ e.flip \in BOOLEAN /\ e \in Entries(S, k)
      /\ S.enable_flipping[k]
      /\ e.front = S.prime_pixmap_back[k] /\ e.back = S.prime_pixmap[k]
      /\ e.front # e.back
      /\ \A w \in Entries(S, k) : w = e
      /\ SharedTypes(U) /\ Others(S, U, k)
      /\ U.enable_flipping = S.enable_flipping /\ U.damage = S.damage
      /\ U.prime_pixmap_back[k] = x
      /\ \A j \in SinkCrtcs : Targets(U, j) = Targets(S, j)
      /\ Entries(U, k) = {}
      /\ U.odd[k] # S.odd[k] => Turning(S, k) /\ S.shown[k] = e.front
      /\ U.flip = S.flip /\ U.shown = S.shown /\ U.vblanks = S.vblanks
      /\ U.defer = S.defer /\ U.fd = Tail(S.fd)
  <2>1. /\ k \in SinkCrtcs /\ e.flip \in BOOLEAN /\ e \in Entries(S, k)
        /\ S.enable_flipping[k]
        /\ e.front = S.prime_pixmap_back[k] /\ e.back = S.prime_pixmap[k]
        /\ e.front # e.back
        /\ \A w \in Entries(S, k) : w = e
    BY <1>u, BegunIs
  <2>2. /\ SharedTypes(U) /\ Others(S, U, k)
        /\ U.enable_flipping = S.enable_flipping /\ U.damage = S.damage
        /\ U.prime_pixmap_back[k] = x
        /\ \A j \in SinkCrtcs : Targets(U, j) = Targets(S, j)
    BY <1>u, BegunIs
  <2>3. Entries(U, k) = {}
    BY <1>u, BegunIs
  <2>4. /\ U.flip = S.flip /\ U.shown = S.shown /\ U.vblanks = S.vblanks
        /\ U.defer = S.defer /\ U.fd = Tail(S.fd)
    BY <1>u, BegunIs
  <2>5. U.odd[k] # S.odd[k] => Turning(S, k) /\ S.shown[k] = e.front
    BY <1>u, BegunIs
  <2> QED BY <2>1, <2>2, <2>3, <2>4, <2>5
<1>2. /\ FlipTypes(S) /\ NumbersApart(S)
      /\ ShowsOwn(S, k) /\ ShowsNext(S, k) /\ ShowsFront(S, k)
  BY <1>1 DEF Seen, Visible, Displays
<1>3. /\ Tail(S.fd) \in Seq(Nat) /\ Numbers(Tail(S.fd)) \subseteq Numbers(S.fd)
      /\ e.seq \in Numbers(S.fd)
  BY <1>2, NumbersTail DEF FlipTypes
<1>4. FlipTypes(U) /\ Pending(U) \subseteq Pending(S) /\ e.seq \in Pending(S)
  BY <1>1, <1>2, <1>3 DEF FlipTypes, Pending
<1>5. NumbersApart(U)
  BY <1>1, <1>2, <1>4 DEF NumbersApart
<1>6. View(S, U, k)
  BY <1>1, OthersView
<1>7. ShowsOwn(U, k)
  BY <1>1, <1>2 DEF ShowsOwn
<1>8. Turning(S, k) = e.flip
  BY <1>1 DEF Turning
<1>9. ASSUME Clean(U, k) PROVE U.flip[k] = NoFlip /\ U.shown[k] # U.prime_pixmap_back[k]
  <2>1. CASE e.flip
    <3>1. S.flip[k] = NoFlip
      BY <1>1, <1>2, <1>4, <2>1 DEF ShowsNext, NumbersApart
    <3>2. CASE S.shown[k] = e.front
      BY <1>1, <1>x, <2>1, <3>1, <3>2
    <3>3. CASE S.shown[k] # e.front
      <4>1. Clean(S, k)
        BY <1>1, <1>9, <3>3 DEF Clean
      <4> QED BY <1>1, <1>2, <1>8, <1>x, <2>1, <3>1, <4>1 DEF ShowsFront
    <3> QED BY <3>2, <3>3
  <2>2. CASE ~e.flip
    <3>1. Clean(S, k)
      BY <1>1, <1>8, <1>9, <2>2 DEF Clean
    <3>2. ~Turning(S, k) /\ x = S.prime_pixmap_back[k]
      BY <1>1, <1>8, <1>x, <2>2
    <3> QED BY <1>1, <1>2, <3>1, <3>2 DEF ShowsFront
  <2> QED BY <1>1, <2>1, <2>2
<1>10. Idle(U, k)
  BY <1>1, <1>7, <1>9 DEF Idle
<1> QED BY <1>4, <1>5, <1>6, <1>10

\* The handler copies to a pixmap that is not displayed.
LEMMA HandlerFine ==
    ASSUME NEW S, Good(S, SinkCrtcs), ~S.full, Seen(S), NEW e \in S.ms_drm_queue,
           "overlap" \notin S.odd[e.crtc], S.fd # <<>>, e.seq = Head(S.fd),
           NEW k, k = e.crtc,
           NEW T, T = drmmode_SharedPixmapVBlankEventHandler(Taken(S, e), e)
    PROVE  Fine(S, T, k)
<1> DEFINE U == Begun(S, e)
           x == Presents(e)
           P == drmmode_SharedPixmapPresent(U, k, x)
<1>u. U = Begun(S, e) /\ x = Presents(e)
  OBVIOUS
<1>p. P = drmmode_SharedPixmapPresent(U, k, x)
  OBVIOUS
<1> HIDE DEF U, x, P
<1>1. /\ k \in SinkCrtcs /\ e.flip \in BOOLEAN
      /\ SharedTypes(U) /\ Separate(U) /\ Numbered(U)
      /\ U.enable_flipping = S.enable_flipping /\ U.damage = S.damage
      /\ U.full = S.full /\ x \in Pixmaps
      /\ U.prime_pixmap_back[k] = x /\ U.prime_pixmap[k] # x
      /\ \A j \in SinkCrtcs : Targets(U, j) = Targets(S, j)
  BY <1>u, BegunIs
<1>2. Idle(U, k) /\ FlipTypes(U) /\ NumbersApart(U) /\ View(S, U, k)
  BY <1>u, BegunIdle
<1>3. T = IF P.ok THEN P ELSE Added(P, k, "stopped")
  BY <1>1, <1>p, <1>u, HandlerIs
<1>4. /\ Presented(U, P, k, x) /\ U.odd[k] \subseteq P.odd[k]
      /\ \A y \in Pixmaps \ {x} : P.damage[y] = U.damage[y]
  BY <1>1, <1>p, PresentSees
<1>5. Kept(U, P, k) /\ P.ok \in BOOLEAN
  BY <1>1, <1>p, PresentIs
<1>6. FlipTypes(P) /\ P.shown = U.shown
  BY <1>1, <1>2, <1>4, PresentedTypes
<1>7. \A j \in SinkCrtcs : Targets(P, j) = Targets(S, j)
  BY <1>1, <1>5 DEF Kept, SamePixmaps, Targets
<1>8. Untorn(S, P, k)
  <2>1. ASSUME Clean(P, k), S.enable_flipping[k], NEW y \in Targets(S, k),
               S.damage[y], ~P.damage[y]
        PROVE  P.shown[k] # y
    <3>1. y \in Pixmaps
      BY <1>1, TargetsArePixmaps
    <3>2. y = x
      BY <1>1, <1>4, <2>1, <3>1
    <3>3. Clean(U, k)
      BY <1>4, <2>1, CleanLess
    <3> QED BY <1>1, <1>2, <1>6, <2>1, <3>2, <3>3 DEF Idle
  <2> QED BY <1>7, <2>1 DEF Untorn
<1>9. ASSUME ~P.full
      PROVE  NumbersApart(P) /\ Displays(P, k) /\ View(S, P, k)
  <2>1. NumbersApart(P) /\ Displays(P, k) /\ View(U, P, k)
    BY <1>1, <1>2, <1>9, <1>p, PresentShows
  <2> QED BY <1>1, <1>2, <2>1, ViewTransitive
<1>10. Fine(S, P, k)
  BY <1>1, <1>6, <1>8, <1>9, FineIf
<1>11. CASE P.ok
  BY <1>3, <1>10, <1>11
<1>12. CASE ~P.ok
  <2>1. T = Added(P, k, "stopped") /\ "stopped" \in Oddities /\ SharedTypes(P) /\ Seen(P)
    BY <1>3, <1>5, <1>10, <1>12, FineSeen DEF Kept, Oddities
  <2>2. /\ Fine(P, T, k) /\ T.damage = P.damage /\ SamePixmaps(P, T) /\ SameKernel(P, T)
        /\ P.odd[k] \subseteq T.odd[k]
    BY <1>1, <2>1, AddedFine
  <2>3. /\ T.shown = P.shown /\ T.damage = P.damage /\ (Clean(T, k) => Clean(P, k))
        /\ Targets(T, k) = Targets(P, k)
    BY <2>2, CleanLess DEF SameKernel, SamePixmaps, Targets
  <2>4. Untorn(S, T, k)
    BY <1>8, <2>3 DEF Untorn
  <2> QED BY <1>1, <1>10, <2>2, <2>4, FineThen
<1> QED BY <1>5, <1>11, <1>12

-----------------------------------------------------------------------------
(* What the loops show *)

LEMMA StepFine ==
    ASSUME NEW w \in Loops, NEW g \in [SinkCrtcs -> BOOLEAN], NEW C \in SUBSET SinkCrtcs,
           NEW k \in SinkCrtcs, NEW S, Good(S, C), Seen(S), NEW T, T = Step(w, g, S, k)
    PROVE  Fine(S, T, k)
<1>1. CASE w = "update"
  <2>1. T = Updated(S, k)
    BY <1>1 DEF Step
  <2> QED BY <2>1, UpdatedFine
<1>2. CASE w = "off"
  <2>1. T = SwitchedOff(S, k)
    BY <1>2 DEF Step
  <2> QED BY <2>1, SwitchedOffFine
<1>3. CASE w = "on"
  <2>1. T = SwitchedOn(S, k)
    BY <1>3 DEF Step
  <2> QED BY <2>1, SwitchedOnFine
<1>4. CASE w = "leave"
  <2>1. T = TakenOver(S, k, g[k]) /\ g[k] \in BOOLEAN
    BY <1>4 DEF Step
  <2> QED BY <2>1, TakenOverFine
<1>5. CASE w = "enter"
  <2>1. T = DesiredMode(S, k)
    BY <1>5 DEF Step
  <2> QED BY <2>1, DesiredModeFine
<1> QED BY <1>1, <1>2, <1>3, <1>4, <1>5 DEF Loops

\* Of the CRTCs up to n nothing is torn, and those after n are as they were.
Upto(S, T, n) ==
    /\ Seen(T)
    /\ ~T.full => \A j \in SinkCrtcs : IF j <= n THEN Untorn(S, T, j) ELSE Alike(S, T, j)

LEMMA UptoNext ==
    ASSUME NEW k \in SinkCrtcs, NEW S, NEW T, Upto(S, T, k - 1), NEW U, Fine(T, U, k)
    PROVE  Upto(S, U, k)
<1>1. Seen(U)
  BY FineSeen
<1>2. ASSUME ~U.full, NEW j \in SinkCrtcs
      PROVE  IF j <= k THEN Untorn(S, U, j) ELSE Alike(S, U, j)
  <2>1. ~T.full /\ Untorn(T, U, k) /\ View(T, U, k)
    BY <1>2 DEF Fine
  <2>2. IF j <= k - 1 THEN Untorn(S, T, j) ELSE Alike(S, T, j)
    BY <2>1 DEF Upto
  <2>3. j \in Int /\ k \in Int
    BY DEF SinkCrtcs
  <2>4. CASE j = k
    <3>1. Alike(S, T, k) /\ j <= k
      BY <2>2, <2>3, <2>4
    <3>2. Untorn(S, U, k)
      BY <2>1, <3>1, AlikeThenUntorn
    <3> QED BY <2>4, <3>1, <3>2
  <2>5. CASE j < k
    <3>1. Untorn(S, T, j) /\ Alike(T, U, j) /\ j <= k
      BY <2>1, <2>2, <2>3, <2>5 DEF View
    <3>2. Untorn(S, U, j)
      BY <3>1, UntornThenAlike
    <3> QED BY <3>1, <3>2
  <2>6. CASE j > k
    <3>1. Alike(S, T, j) /\ Alike(T, U, j) /\ ~(j <= k)
      BY <2>1, <2>2, <2>3, <2>6 DEF View
    <3>2. Alike(S, U, j)
      BY <3>1, AlikeTransitive
    <3> QED BY <3>1, <3>2
  <2> QED BY <2>3, <2>4, <2>5, <2>6
<1> QED BY <1>1, <1>2 DEF Upto

\* Nothing is torn from S to T, on any CRTC.
Clear(S, T) == Seen(T) /\ (~T.full => \A j \in SinkCrtcs : Untorn(S, T, j))

LEMMA LoopFine ==
    ASSUME NEW w \in Loops, NEW g \in [SinkCrtcs -> BOOLEAN], NEW C \in SUBSET SinkCrtcs,
           w = "update" => C = SinkCrtcs, NEW S, LoopGood(S, C, w), Seen(S),
           NEW f, Looped(f, w, g, S, NumSinkCrtcs)
    PROVE  Clear(S, f[NumSinkCrtcs])
<1>0. NumSinkCrtcs \in Nat
  BY SharedFlipAssumption
<1> DEFINE Bad == {k \in 0..NumSinkCrtcs : ~Upto(S, f[k], k)}
<1>1. ASSUME Bad # {} PROVE FALSE
  <2>1. PICK k \in Bad : \A j \in Bad : k <= j
    <3>1. Bad \in SUBSET Nat
      BY <1>0
    <3> HIDE DEF Bad
    <3> QED BY <1>1, <3>1, LeastOne
  <2>2. CASE k = 0
    <3>1. f[0] = S
      BY <1>0 DEF Looped
    <3>2. \A j \in SinkCrtcs : ~(j <= 0) /\ Alike(S, S, j)
      BY DEF SinkCrtcs, Alike
    <3>3. Upto(S, S, 0)
      BY <3>2 DEF Upto
    <3> QED BY <2>1, <2>2, <3>1, <3>3
  <2>3. CASE k # 0
    <3>1. k \in SinkCrtcs /\ k - 1 \in 0..NumSinkCrtcs /\ k - 1 \notin Bad
      BY <1>0, <2>1, <2>3 DEF SinkCrtcs
    <3>2. Upto(S, f[k - 1], k - 1)
      BY <3>1
    <3>3. f[k] = Step(w, g, f[k - 1], k)
      BY <2>1, <2>3 DEF Looped
    <3> DEFINE B == C \cup 1..(k - 1)
    <3>4. LoopGood(f[k - 1], B, w)
      BY <3>1, LoopEach
    <3>5. B \in SUBSET SinkCrtcs
      BY <1>0, <3>1 DEF SinkCrtcs
    <3> HIDE DEF B
    <3>6. Good(f[k - 1], B) /\ Seen(f[k - 1])
      BY <3>2, <3>4 DEF LoopGood, Upto
    <3>7. Fine(f[k - 1], f[k], k)
      BY <3>1, <3>3, <3>5, <3>6, StepFine
    <3>8. Upto(S, f[k], k)
      BY <3>1, <3>2, <3>7, UptoNext
    <3> QED BY <2>1, <3>8
  <2> QED BY <2>2, <2>3
<1>2. Upto(S, f[NumSinkCrtcs], NumSinkCrtcs)
  BY <1>0, <1>1
<1>3. \A j \in SinkCrtcs : j <= NumSinkCrtcs
  BY <1>0 DEF SinkCrtcs
<1> QED BY <1>2, <1>3 DEF Upto, Clear

LEMMA LoopClear ==
    ASSUME NEW w \in Loops, NEW g \in [SinkCrtcs -> BOOLEAN], NEW C \in SUBSET SinkCrtcs,
           w = "update" => C = SinkCrtcs, NEW S, Good(S, C), w = "leave" => ~S.vtSema, Seen(S),
           NEW T, \E f : Looped(f, w, g, S, NumSinkCrtcs) /\ T = f[NumSinkCrtcs]
    PROVE  Clear(S, T)
<1>1. LoopGood(S, C, w)
  BY DEF LoopGood
<1>2. PICK f : Looped(f, w, g, S, NumSinkCrtcs) /\ T = f[NumSinkCrtcs]
  OBVIOUS
<1> QED BY <1>1, <1>2, LoopFine

-----------------------------------------------------------------------------
(* What a step shows *)

LEMMA FineClear ==
    ASSUME NEW S, NEW T, NEW k \in SinkCrtcs, Fine(S, T, k)
    PROVE  Clear(S, T)
<1>1. Seen(T)
  BY FineSeen
<1>2. ASSUME ~T.full, NEW j \in SinkCrtcs PROVE Untorn(S, T, j)
  <2>1. Untorn(S, T, k) /\ View(S, T, k)
    BY <1>2 DEF Fine
  <2>2. CASE j = k
    BY <2>1, <2>2
  <2>3. CASE j # k
    <3>1. \A x \in Targets(S, j) : T.damage[x] = S.damage[x]
      BY <2>1, <2>3 DEF View, Alike
    <3> QED BY <3>1, UncopiedUntorn
  <2> QED BY <2>2, <2>3
<1> QED BY <1>1, <1>2 DEF Clear

\* What is displayed and drawn is the same in S and T.
Unseen(S, T) ==
    /\ SameKernel(S, T) /\ SamePixmaps(S, T)
    /\ T.ms_drm_queue = S.ms_drm_queue /\ T.full = S.full /\ T.damage = S.damage
    /\ T.odd = S.odd

LEMMA UnseenAlike ==
    ASSUME NEW S, NEW T, NEW j \in SinkCrtcs, Unseen(S, T)
    PROVE  Alike(S, T, j)
<1>1. Targets(T, j) = Targets(S, j) /\ Entries(T, j) = Entries(S, j)
  BY DEF Unseen, Targets, Entries, SamePixmaps
<1> QED BY <1>1 DEF Unseen, Alike, SameKernel, SamePixmaps

\* Events may be forgotten, ...
LEMMA AlikeSeen ==
    ASSUME NEW S, Seen(S), NEW T, FlipTypes(T), S.full => T.full,
           ~T.full => NumbersApart(T) /\ \A j \in SinkCrtcs : Alike(S, T, j)
    PROVE  Seen(T)
<1>1. ASSUME ~T.full PROVE Visible(T)
  <2>1. \A j \in SinkCrtcs : Displays(T, j)
    BY <1>1, AlikeShows DEF Seen, Visible
  <2> QED BY <1>1, <2>1 DEF Visible
<1> QED BY <1>1 DEF Seen

LEMMA UnseenSeen ==
    ASSUME NEW S, Seen(S), NEW T, Unseen(S, T)
    PROVE  Seen(T)
<1>1. SameKernel(S, T) /\ T.full = S.full
  BY DEF Unseen
<1>2. FlipTypes(T) /\ (NumbersApart(S) => NumbersApart(T))
  BY <1>1, SameApart DEF Seen
<1>3. ~T.full => NumbersApart(T)
  BY <1>1, <1>2 DEF Seen, Visible
<1> QED BY <1>1, <1>2, <1>3, UnseenAlike, AlikeSeen

\* ... after a step or before it.
LEMMA ClearAfter ==
    ASSUME NEW S, NEW T, Clear(S, T), NEW U, Seen(U), T.full => U.full,
           ~U.full => \A j \in SinkCrtcs : Alike(T, U, j)
    PROVE  Clear(S, U)
BY UntornThenAlike DEF Clear

LEMMA ClearBefore ==
    ASSUME NEW S, NEW T, \A j \in SinkCrtcs : Alike(S, T, j), NEW U, Clear(T, U)
    PROVE  Clear(S, U)
BY AlikeThenUntorn DEF Clear

LEMMA UnseenClear ==
    ASSUME NEW S, NEW T, Clear(S, T), NEW U, Unseen(T, U)
    PROVE  Clear(S, U)
<1>1. Seen(U) /\ U.full = T.full /\ \A j \in SinkCrtcs : Alike(T, U, j)
  BY UnseenSeen, UnseenAlike DEF Clear, Unseen
<1> QED BY <1>1, ClearAfter

LEMMA CanonicalSeen ==
    ASSUME NEW S, SharedTypes(S), Seen(S), NEW T, T = Canonical(S)
    PROVE  Seen(T) /\ T.full = S.full /\ \A j \in SinkCrtcs : Alike(S, T, j)
<1> DEFINE used == {e.seq : e \in S.ms_drm_queue}
           q == [p \in Pixmaps |-> IF S.flip_seq[p] \in used THEN S.flip_seq[p] ELSE 0]
           h == [m \in SinkCrtcs |-> Known(S.vblanks[m], used)]
<1>0. DOMAIN S = Fields /\ FlipTypes(S)
  BY DEF SharedTypes, Seen
<1>1. T = [S EXCEPT !.ok = FALSE, !.fd = Known(@, used), !.vblanks = h, !.flip_seq = q]
  BY DEF Canonical
<1> HIDE DEF q, used
<1>2. /\ T.flip = S.flip /\ T.shown = S.shown /\ T.defer = S.defer
      /\ T.ms_drm_queue = S.ms_drm_queue /\ T.full = S.full /\ T.damage = S.damage
      /\ T.odd = S.odd
      /\ T.fd = Known(S.fd, used) /\ T.vblanks = h
  BY <1>0, <1>1 DEF Fields
<1>3. SamePixmaps(S, T)
  BY <1>0, <1>1 DEF Fields, SamePixmaps
<1>4. T.fd \in Seq(Nat) /\ Numbers(T.fd) \subseteq Numbers(S.fd)
  BY <1>0, <1>2, KnownIs DEF FlipTypes
<1>5. /\ T.vblanks \in [SinkCrtcs -> Seq(Nat)]
      /\ \A j \in SinkCrtcs : Numbers(T.vblanks[j]) \subseteq Numbers(S.vblanks[j])
  <2>1. ASSUME NEW j \in SinkCrtcs
        PROVE  /\ Known(S.vblanks[j], used) \in Seq(Nat)
               /\ Numbers(Known(S.vblanks[j], used)) \subseteq Numbers(S.vblanks[j])
    <3>1. S.vblanks[j] \in Seq(Nat)
      BY <1>0 DEF FlipTypes
    <3> QED BY <3>1, KnownIs
  <2> QED BY <1>2, <2>1
<1>6. FlipTypes(T)
  BY <1>0, <1>2, <1>4, <1>5 DEF FlipTypes
<1>7. Pending(T) \subseteq Pending(S)
  BY <1>4, <1>5 DEF Pending
<1>8. NumbersApart(S) => NumbersApart(T)
  BY <1>2, <1>7 DEF NumbersApart
<1>9. ASSUME NEW j \in SinkCrtcs PROVE Alike(S, T, j)
  <2>1. Targets(T, j) = Targets(S, j) /\ Entries(T, j) = Entries(S, j)
    BY <1>2, <1>3 DEF Targets, Entries, SamePixmaps
  <2> QED BY <1>2, <1>3, <2>1 DEF Alike, SamePixmaps
<1>10. Seen(T)
  <2>1. ~T.full => NumbersApart(T)
    BY <1>2, <1>8 DEF Seen, Visible
  <2> QED BY <1>2, <1>6, <1>9, <2>1, AlikeSeen
<1> QED BY <1>2, <1>9, <1>10

\* A step after which the next can be argued about, and that tears nothing.
NothingTorn == Seen(st') /\ \A j \in SinkCrtcs : Untorn(st, st', j)

LEMMA BecomesClear ==
    ASSUME NEW S, SharedTypes(S), Clear(st, S), Becomes(S)
    PROVE  NothingTorn
<1>1. ~S.full /\ st' = Canonical(S)
  BY DEF Becomes
<1>2. Seen(S)
  BY DEF Clear
<1>3. Seen(st') /\ (st').full = S.full /\ \A j \in SinkCrtcs : Alike(S, st', j)
  BY <1>1, <1>2, CanonicalSeen
<1>4. Clear(st, st')
  BY <1>3, ClearAfter
<1> QED BY <1>1, <1>3, <1>4 DEF Clear, NothingTorn

LEMMA BecomesFine ==
    ASSUME NEW k \in SinkCrtcs, NEW S, SharedTypes(S), Fine(st, S, k), Becomes(S)
    PROVE  NothingTorn
BY FineClear, BecomesClear

LEMMA QuietClear == SharedInv /\ Seen(st) /\ FallQuiet => NothingTorn
<1> SUFFICES ASSUME SharedInv, Seen(st), FallQuiet PROVE NothingTorn
  OBVIOUS
<1> DEFINE T == [st EXCEPT !.quiet = TRUE]
<1>1. Becomes(T) /\ Good(st, SinkCrtcs) /\ SharedTypes(st) /\ DOMAIN st = Fields
  BY DEF FallQuiet, SharedInv, Good, SharedTypes
<1>2. Same(st, T) /\ T.on = st.on /\ T.odd = st.odd /\ SameKernel(st, T)
  BY <1>1 DEF Fields, Same, SamePixmaps, SameQueue, SameDamage, SameKernel
<1> HIDE DEF T
<1>3. Unseen(st, T)
  BY <1>2 DEF Unseen, Same, SameQueue, SameDamage
<1>4. Good(T, SinkCrtcs)
  BY <1>1, <1>2, UnseenKeeps
<1>5. Clear(st, st)
  BY DEF Clear, Untorn
<1>6. Clear(st, T)
  BY <1>3, <1>5, UnseenClear
<1> QED BY <1>1, <1>4, <1>6, BecomesClear DEF Good

LEMMA DrawClear == SharedInv /\ Seen(st) /\ Draw => NothingTorn
<1> SUFFICES ASSUME SharedInv, Seen(st), Draw PROVE NothingTorn
  OBVIOUS
<1> DEFINE u == [p \in Pixmaps |-> st.damage[p] \/ p \in Live(st)]
           o == [m \in SinkCrtcs |-> st.odd[m] \ {"failed"}]
           T == [st EXCEPT !.damage = u, !.odd = o]
<1>1. SharedTypes(st) /\ DOMAIN st = Fields
  BY DEF SharedInv, Good, SharedTypes
<1>2. Becomes(T)
  BY DEF Draw
<1>3. u \in [Pixmaps -> BOOLEAN] /\ \A p \in Pixmaps : st.damage[p] => u[p]
  BY <1>1 DEF SharedTypes
<1>4. /\ o \in [SinkCrtcs -> SUBSET Oddities]
      /\ \A j \in SinkCrtcs : o[j] = st.odd[j] \ {"failed"}
  <2>1. st.odd \in [SinkCrtcs -> SUBSET Oddities]
    BY <1>1 DEF SharedTypes
  <2> QED BY <2>1
<1> HIDE DEF u, o
<1>5. /\ DOMAIN T = Fields /\ SamePixmaps(st, T) /\ SameQueue(st, T) /\ SameWaits(st, T)
      /\ T.flipping_active = st.flipping_active /\ T.on = st.on
      /\ T.damage = u /\ T.odd = o
  BY <1>1 DEF Fields, SamePixmaps, SameQueue, SameWaits
<1>6. SameKernel(st, T)
  BY <1>1 DEF Fields, SameKernel
<1> HIDE DEF T
<1>7. SharedTypes(T)
  BY <1>1, <1>3, <1>4, <1>5 DEF SharedTypes, SamePixmaps, SameQueue, SameWaits
<1>8. FlipTypes(T) /\ (NumbersApart(st) => NumbersApart(T)) /\ T.full = st.full
  BY <1>5, <1>6, SameApart DEF Seen, SameQueue
<1>9. \A j \in SinkCrtcs : Targets(T, j) = Targets(st, j) /\ Entries(T, j) = Entries(st, j)
  BY <1>5 DEF Targets, Entries, SamePixmaps, SameQueue
<1>10. ASSUME NEW j \in SinkCrtcs, Displays(st, j) PROVE Displays(T, j)
  <2>1. Clean(T, j) = Clean(st, j)
    BY <1>4, <1>5 DEF Clean
  <2>2. Turning(T, j) = Turning(st, j)
    BY <1>9 DEF Turning
  <2>3. ShowsOwn(T, j)
    BY <1>5, <1>6, <1>9, <1>10 DEF Displays, ShowsOwn, SameKernel, SamePixmaps
  <2>4. ShowsNext(T, j)
    BY <1>4, <1>5, <1>6, <1>9, <1>10 DEF Displays, ShowsNext, SameKernel
  <2>5. ShowsFront(T, j)
    BY <1>5, <1>6, <1>10, <2>1, <2>2 DEF Displays, ShowsFront, SameKernel, SamePixmaps
  <2> QED BY <2>3, <2>4, <2>5 DEF Displays
<1>11. Seen(T)
  BY <1>8, <1>10 DEF Seen, Visible
<1>12. \A j \in SinkCrtcs : Untorn(st, T, j)
  <2>1. ASSUME NEW j \in SinkCrtcs, NEW x \in Targets(st, j), st.damage[x]
        PROVE  T.damage[x]
    BY <1>1, <1>3, <1>5, <2>1, TargetsArePixmaps
  <2> QED BY <2>1 DEF Untorn
<1>13. Clear(st, T)
  BY <1>11, <1>12 DEF Clear
<1> QED BY <1>2, <1>7, <1>13, BecomesClear

LEMMA BlockHandlerClear == SharedInv /\ Seen(st) /\ msBlockHandler => NothingTorn
<1> SUFFICES ASSUME SharedInv, Seen(st), msBlockHandler PROVE NothingTorn
  OBVIOUS
<1> DEFINE U == ForEachCrtc(st, Updated)
           T == dispatch_slave_dirty(U)
           g == [k \in SinkCrtcs |-> TRUE]
<1>1. Becomes(T)
  BY DEF msBlockHandler, ms_dirty_update
<1>2. \E f : Looped(f, "update", g, st, NumSinkCrtcs) /\ U = f[NumSinkCrtcs]
  BY UpdateLoop
<1>3. g \in [SinkCrtcs -> BOOLEAN] /\ "update" \in Loops /\ "update" # "leave"
      /\ SinkCrtcs \in SUBSET SinkCrtcs
  BY DEF Loops
<1>4. T = [U EXCEPT !.slave_damage = [p \in Pixmaps |-> @[p] /\ p \notin Live(U)]]
  BY DEF dispatch_slave_dirty
<1> HIDE DEF U, T, g
<1>5. Good(U, SinkCrtcs) /\ Clear(st, U)
  BY <1>2, <1>3, LoopDone, LoopClear DEF SharedInv
<1>6. DOMAIN U = Fields
  BY <1>5 DEF Good, SharedTypes
<1>7. Same(U, T) /\ T.on = U.on /\ T.odd = U.odd /\ SameKernel(U, T)
  BY <1>4, <1>6 DEF Fields, Same, SamePixmaps, SameQueue, SameDamage, SameKernel
<1>8. Good(T, SinkCrtcs)
  BY <1>5, <1>7, UnseenKeeps
<1>9. Unseen(U, T)
  BY <1>7 DEF Unseen, Same, SameQueue, SameDamage
<1>10. Clear(st, T)
  BY <1>5, <1>9, UnseenClear
<1> QED BY <1>1, <1>8, <1>10, BecomesClear DEF Good

\* A mode is set for new pixmaps, which are drawn to before they are displayed.
LEMMA ModeUntorn ==
    ASSUME NEW S, NEW U, NEW k \in SinkCrtcs, \A z \in Targets(U, k) : U.damage[z],
           NEW W, Untorn(U, W, k), Targets(W, k) = Targets(U, k),
           ~U.enable_flipping[k] => W.damage = U.damage
    PROVE  Untorn(S, W, k)
BY DEF Untorn

LEMMA SetClear ==
    ASSUME SharedInv, Seen(st), NEW k \in SinkCrtcs, NEW flips \in BOOLEAN, NEW b \in BOOLEAN,
           NEW sets \in BOOLEAN, RandRSet(k, flips, b, sets)
    PROVE  NothingTorn
<1> DEFINE V == Detached(st, k)
           x == CHOOSE p \in FreePixmaps(V) : TRUE
           y == IF flips THEN CHOOSE p \in FreePixmaps(V) \ {x} : TRUE ELSE NoPixmap
           U == Attached(V, k, x, y, b)
           W == IF sets THEN drmmode_set_mode_major(U, k) ELSE Added(U, k, "refused")
           n == W.faults + (IF b /\ sets THEN 0 ELSE 1)
           T == [W EXCEPT !.faults = n]
<1>1. Becomes(T) /\ \E p, q \in FreePixmaps(V) : p # q
  BY DEF RandRSet, Odd, Added
<1>2. Good(st, SinkCrtcs) /\ SinkCrtcs \cup {k} = SinkCrtcs /\ SinkCrtcs \in SUBSET SinkCrtcs
  BY DEF SharedInv
<1> HIDE DEF n
<1>3. T = [W EXCEPT !.faults = n]
  OBVIOUS
<1> HIDE DEF T
<1>4. /\ sets => W = drmmode_set_mode_major(U, k)
      /\ ~sets => W = Added(U, k, "refused")
  OBVIOUS
<1> HIDE DEF W
<1>5. U = Attached(V, k, x, y, b)
  OBVIOUS
<1> HIDE DEF U
<1>6. x \in FreePixmaps(V) /\ y \in (FreePixmaps(V) \ {x}) \cup {NoPixmap}
  <2> HIDE DEF V
  <2>1. x \in FreePixmaps(V)
    BY <1>1
  <2> HIDE DEF x
  <2>2. PICK p \in FreePixmaps(V), q \in FreePixmaps(V) : p # q
    BY <1>1
  <2>3. p \in FreePixmaps(V) \ {x} \/ q \in FreePixmaps(V) \ {x}
    BY <2>2
  <2> QED BY <2>1, <2>3
<1> HIDE DEF x, y
<1>7. V = Detached(st, k)
  OBVIOUS
<1> HIDE DEF V
<1>8. /\ Good(V, SinkCrtcs)
      /\ V.prime_pixmap[k] = NoPixmap /\ V.prime_pixmap_back[k] = NoPixmap
      /\ ~V.flipping_active[k]
  <2>1. /\ Good(V, SinkCrtcs \cup {k})
        /\ V.prime_pixmap[k] = NoPixmap /\ V.prime_pixmap_back[k] = NoPixmap
        /\ ~V.flipping_active[k]
    BY <1>2, <1>7, DetachedKeeps
  <2> QED BY <1>2, <2>1
<1>9. Good(U, SinkCrtcs \ {k}) /\ SinkCrtcs \ {k} \in SUBSET SinkCrtcs
  BY <1>2, <1>5, <1>6, <1>8, AttachedKeeps
<1>10. Fine(st, V, k) /\ (~V.full => V.flip[k] = NoFlip /\ V.shown[k] \notin Pixmaps)
  BY <1>2, <1>7, DetachedFine
<1>11. Fine(V, U, k) /\ \A z \in Targets(U, k) : U.damage[z]
  <2>1. Seen(V)
    BY <1>10, FineSeen
  <2> QED BY <1>2, <1>5, <1>6, <1>8, <1>10, <2>1, AttachedFine
<1>12. Fine(st, U, k)
  <2>1. Untorn(st, U, k)
    BY <1>11 DEF Untorn
  <2> QED BY <1>10, <1>11, <2>1, FineThen
<1>13. Seen(U) /\ SharedTypes(U)
  BY <1>9, <1>12, FineSeen DEF Good
<1>14. /\ Fine(U, W, k) /\ SamePixmaps(U, W) /\ SharedTypes(W)
       /\ ~U.enable_flipping[k] => W.damage = U.damage
  <2>1. CASE sets
    <3>1. W = drmmode_set_mode_major(U, k)
      BY <1>4, <2>1
    <3>2. Good(W, (SinkCrtcs \ {k}) \cup {k})
      BY <1>9, <3>1, SetModeKeeps
    <3> QED BY <1>9, <1>13, <3>1, <3>2, SetModeFine DEF Good
  <2>2. CASE ~sets
    <3>1. W = Added(U, k, "refused") /\ "refused" \in Oddities
      BY <1>4, <2>2 DEF Oddities
    <3> QED BY <1>13, <3>1, AddedFine, AddedIs
  <2> QED BY <2>1, <2>2
<1>15. Fine(st, W, k)
  <2>1. Targets(W, k) = Targets(U, k)
    BY <1>14 DEF Targets, SamePixmaps
  <2>2. ASSUME ~W.full PROVE Untorn(st, W, k)
    <3>1. Untorn(U, W, k)
      BY <1>14, <2>2 DEF Fine
    <3> QED BY <1>11, <1>14, <2>1, <3>1, ModeUntorn
  <2> QED BY <1>12, <1>14, <2>2, FineThen
<1>16. DOMAIN W = Fields
  BY <1>14 DEF SharedTypes
<1>17. Same(W, T) /\ T.on = W.on /\ T.odd = W.odd /\ SameKernel(W, T)
  BY <1>3, <1>16 DEF Fields, Same, SamePixmaps, SameQueue, SameDamage, SameKernel
<1>18. Unseen(W, T)
  BY <1>17 DEF Unseen, Same, SameQueue, SameDamage
<1>19. SharedTypes(T)
  BY <1>14, <1>17, SameTypes DEF SharedTypes
<1>20. Clear(st, T)
  BY <1>15, <1>18, FineClear, UnseenClear
<1> QED BY <1>1, <1>19, <1>20, BecomesClear

LEMMA DisableClear ==
    ASSUME SharedInv, Seen(st), NEW k \in SinkCrtcs, RandRDisable(k)
    PROVE  NothingTorn
<1> DEFINE V == Detached(st, k)
           T == Dark(V, k)
<1>1. Becomes(T) /\ Good(st, SinkCrtcs)
  BY DEF RandRDisable, SharedInv
<1>2. SinkCrtcs \cup {k} = SinkCrtcs /\ SinkCrtcs \in SUBSET SinkCrtcs
  OBVIOUS
<1>3. Good(V, SinkCrtcs) /\ Fine(st, V, k) /\ Targets(V, k) = {}
  BY <1>1, <1>2, DetachedKeeps, DetachedFine
<1> HIDE DEF V
<1>4. Seen(V)
  BY <1>3, FineSeen
<1>5. Good(T, SinkCrtcs) /\ Fine(V, T, k) /\ SamePixmaps(V, T)
  BY <1>2, <1>3, <1>4, DarkKeeps, DarkFine
<1>6. Targets(T, k) = {}
  BY <1>3, <1>5 DEF Targets, SamePixmaps
<1> HIDE DEF T
<1>7. Untorn(st, T, k)
  BY <1>6 DEF Untorn
<1>8. Fine(st, T, k)
  BY <1>3, <1>5, <1>7, FineThen
<1> QED BY <1>1, <1>5, <1>8, BecomesFine DEF Good

LEMMA DpmsOffClear == SharedInv /\ Seen(st) /\ DpmsOff => NothingTorn
<1> SUFFICES ASSUME SharedInv, Seen(st), DpmsOff PROVE NothingTorn
  OBVIOUS
<1> DEFINE T == ForEachCrtc(st, SwitchedOff)
           g == [k \in SinkCrtcs |-> TRUE]
<1>1. Becomes(T)
  BY DEF DpmsOff
<1>2. \E f : Looped(f, "off", g, st, NumSinkCrtcs) /\ T = f[NumSinkCrtcs]
  BY OffLoop
<1>3. g \in [SinkCrtcs -> BOOLEAN] /\ "off" \in Loops /\ "off" # "leave" /\ "off" # "update"
      /\ SinkCrtcs \in SUBSET SinkCrtcs
  BY DEF Loops
<1> HIDE DEF T, g
<1>4. Good(T, SinkCrtcs) /\ Clear(st, T)
  BY <1>2, <1>3, LoopDone, LoopClear DEF SharedInv
<1> QED BY <1>1, <1>4, BecomesClear DEF Good

LEMMA DpmsOnClear == SharedInv /\ Seen(st) /\ DpmsOn => NothingTorn
<1> SUFFICES ASSUME SharedInv, Seen(st), DpmsOn PROVE NothingTorn
  OBVIOUS
<1> DEFINE T == ForEachCrtc(st, SwitchedOn)
           g == [k \in SinkCrtcs |-> TRUE]
<1>1. Becomes(T)
  BY DEF DpmsOn
<1>2. \E f : Looped(f, "on", g, st, NumSinkCrtcs) /\ T = f[NumSinkCrtcs]
  BY OnLoop
<1>3. g \in [SinkCrtcs -> BOOLEAN] /\ "on" \in Loops /\ "on" # "leave" /\ "on" # "update"
      /\ SinkCrtcs \in SUBSET SinkCrtcs
  BY DEF Loops
<1> HIDE DEF T, g
<1>4. Good(T, SinkCrtcs) /\ Clear(st, T)
  BY <1>2, <1>3, LoopDone, LoopClear DEF SharedInv
<1> QED BY <1>1, <1>4, BecomesClear DEF Good

LEMMA VTSeen ==
    ASSUME NEW S, SharedTypes(S), Seen(S), NEW b, NEW T, T = [S EXCEPT !.vtSema = b]
    PROVE  Seen(T) /\ \A j \in SinkCrtcs : Alike(S, T, j)
<1>1. DOMAIN S = Fields
  BY DEF SharedTypes
<1>2. /\ SameKernel(S, T) /\ T.enable_flipping = S.enable_flipping
      /\ T.prime_pixmap = S.prime_pixmap /\ T.prime_pixmap_back = S.prime_pixmap_back
      /\ T.ms_drm_queue = S.ms_drm_queue /\ T.full = S.full /\ T.damage = S.damage
      /\ T.odd = S.odd
  BY <1>1 DEF Fields, SameKernel
<1>3. ASSUME NEW j \in SinkCrtcs PROVE Alike(S, T, j)
  <2>1. Targets(T, j) = Targets(S, j) /\ Entries(T, j) = Entries(S, j)
    BY <1>2 DEF Targets, Entries
  <2> QED BY <1>2, <2>1 DEF Alike, SameKernel
<1>4. FlipTypes(T) /\ (NumbersApart(S) => NumbersApart(T))
  BY <1>2, SameApart DEF Seen
<1>5. ~T.full => NumbersApart(T)
  BY <1>2, <1>4 DEF Seen, Visible
<1> QED BY <1>2, <1>3, <1>4, <1>5, AlikeSeen

LEMMA LeaveClear == SharedInv /\ Seen(st) /\ LeaveVT => NothingTorn
<1> SUFFICES ASSUME SharedInv, Seen(st), LeaveVT PROVE NothingTorn
  OBVIOUS
<1> DEFINE S == [st EXCEPT !.vtSema = FALSE]
<1>1. PICK g \in [SinkCrtcs -> BOOLEAN] :
          Becomes(ForEachCrtc(S, LAMBDA U, k : TakenOver(U, k, g[k])))
  BY DEF LeaveVT
<1>2. Good(S, SinkCrtcs) /\ S.vtSema = FALSE
  BY VTKeeps DEF SharedInv
<1>b. Seen(S) /\ \A j \in SinkCrtcs : Alike(st, S, j)
  BY VTSeen DEF SharedInv, Good
<1> HIDE DEF S
<1> DEFINE Body(d) == [m \in 0..NumSinkCrtcs |->
                           IF m = 0 THEN S ELSE TakenOver(d[m - 1], m, g[m])]
           done == CHOOSE d : d = Body(d)
           T == done[NumSinkCrtcs]
<1>3. Becomes(T)
  BY <1>1 DEF ForEachCrtc
<1>4. \A d : Looped(d, "leave", g, S, NumSinkCrtcs) <=> d = Body(d)
  BY DEF Looped, Step
<1> HIDE DEF Body
<1>5. \E f : Looped(f, "leave", g, S, NumSinkCrtcs) /\ T = f[NumSinkCrtcs]
  <2>1. done = Body(done)
    BY <1>4, LoopExists, SharedFlipAssumption
  <2> HIDE DEF done
  <2> QED BY <1>4, <2>1
<1>a. "leave" \in Loops /\ "leave" # "update" /\ SinkCrtcs \in SUBSET SinkCrtcs
  BY DEF Loops
<1> HIDE DEF T
<1>6. Good(T, SinkCrtcs) /\ Clear(S, T)
  BY <1>2, <1>5, <1>a, <1>b, LoopDone, LoopClear
<1>7. Clear(st, T)
  BY <1>6, <1>b, ClearBefore
<1> QED BY <1>3, <1>6, <1>7, BecomesClear DEF Good

LEMMA EnterClear == SharedInv /\ Seen(st) /\ EnterVT => NothingTorn
<1> SUFFICES ASSUME SharedInv, Seen(st), EnterVT PROVE NothingTorn
  OBVIOUS
<1> DEFINE S == [st EXCEPT !.vtSema = TRUE]
           T == ForEachCrtc(S, DesiredMode)
           g == [k \in SinkCrtcs |-> TRUE]
<1>1. Becomes(T)
  BY DEF EnterVT
<1>2. Good(S, {})
  BY VTKeeps DEF SharedInv
<1>b. Seen(S) /\ \A j \in SinkCrtcs : Alike(st, S, j)
  BY VTSeen DEF SharedInv, Good
<1> HIDE DEF S
<1>3. \E f : Looped(f, "enter", g, S, NumSinkCrtcs) /\ T = f[NumSinkCrtcs]
  BY EnterLoop
<1>4. g \in [SinkCrtcs -> BOOLEAN] /\ "enter" \in Loops /\ "enter" # "leave"
      /\ "enter" # "update" /\ {} \in SUBSET SinkCrtcs
  BY DEF Loops
<1> HIDE DEF T, g
<1>5. Good(T, SinkCrtcs) /\ Clear(S, T)
  BY <1>2, <1>3, <1>4, <1>b, LoopDone, LoopClear
<1>6. Clear(st, T)
  BY <1>5, <1>b, ClearBefore
<1> QED BY <1>1, <1>5, <1>6, BecomesClear DEF Good

LEMMA FlipDoneClear ==
    ASSUME SharedInv, Seen(st), NEW k \in SinkCrtcs, FlipDone(k)
    PROVE  NothingTorn
<1> DEFINE T == Completed(st, k)
<1>1. Becomes(T) /\ Good(st, SinkCrtcs) /\ SharedTypes(st)
  BY DEF FlipDone, SharedInv, Good
<1>2. Same(st, T) /\ T.on = st.on /\ T.odd = st.odd
  BY <1>1, CompletedIs
<1>3. Fine(st, T, k)
  BY <1>1, CompletedFine
<1> HIDE DEF T
<1>4. SharedTypes(T)
  BY <1>1, <1>2, SameTypes DEF SharedTypes
<1> QED BY <1>1, <1>3, <1>4, BecomesFine

LEMMA VBlankClear ==
    ASSUME SharedInv, Seen(st), NEW k \in SinkCrtcs, VBlank(k)
    PROVE  NothingTorn
<1> DEFINE T == Blanked(st, k)
<1>1. Becomes(T) /\ Good(st, SinkCrtcs) /\ SharedTypes(st)
  BY DEF VBlank, SharedInv, Good
<1>2. Same(st, T) /\ T.on = st.on /\ T.odd = st.odd
  BY <1>1, BlankedIs
<1>3. Fine(st, T, k)
  BY <1>1, BlankedFine
<1> HIDE DEF T
<1>4. SharedTypes(T)
  BY <1>1, <1>2, SameTypes DEF SharedTypes
<1> QED BY <1>1, <1>3, <1>4, BecomesFine

LEMMA EventClear == SharedInv /\ Seen(st) /\ HandleEvent => NothingTorn
<1> SUFFICES ASSUME SharedInv, Seen(st), HandleEvent PROVE NothingTorn
  OBVIOUS
<1>1. PICK e \in st.ms_drm_queue :
          /\ e.seq = Head(st.fd)
          /\ Becomes(drmmode_SharedPixmapVBlankEventHandler(Taken(st, e), e))
  BY DEF HandleEvent, Taken
<1> DEFINE T == drmmode_SharedPixmapVBlankEventHandler(Taken(st, e), e)
<1>2. Good(st, SinkCrtcs) /\ ~st.full /\ SharedTypes(st) /\ st.fd # <<>>
  BY DEF SharedInv, Good, HandleEvent
<1>3. e.crtc \in SinkCrtcs
  BY <1>2 DEF SharedTypes, Entry
<1>4. "overlap" \notin st.odd[e.crtc]
  BY <1>1, <1>3 DEF Becomes, Going
<1>5. Fine(st, T, e.crtc)
  BY <1>1, <1>2, <1>4, HandlerFine
<1>6. Good(T, SinkCrtcs)
  BY <1>2, <1>4, HandlerKeeps
<1>7. Becomes(T)
  BY <1>1
<1> HIDE DEF T
<1> QED BY <1>3, <1>5, <1>6, <1>7, BecomesFine DEF Good

\* A step tears nothing.
LEMMA SharedNextClear == SharedInv /\ Seen(st) /\ SharedNext => NothingTorn
<1> SUFFICES ASSUME SharedInv, Seen(st), SharedNext PROVE NothingTorn
  OBVIOUS
<1>2. CASE FallQuiet
  BY <1>2, QuietClear
<1>3. CASE Draw
  BY <1>3, DrawClear
<1>4. CASE msBlockHandler
  BY <1>4, BlockHandlerClear
<1>5. CASE \E k \in SinkCrtcs, flips, b, sets \in BOOLEAN : RandRSet(k, flips, b, sets)
  BY <1>5, SetClear
<1>6. CASE \E k \in SinkCrtcs : RandRDisable(k)
  BY <1>6, DisableClear
<1>7. CASE DpmsOff
  BY <1>7, DpmsOffClear
<1>8. CASE DpmsOn
  BY <1>8, DpmsOnClear
<1>9. CASE LeaveVT
  BY <1>9, LeaveClear
<1>10. CASE EnterVT
  BY <1>10, EnterClear
<1>11. CASE \E k \in SinkCrtcs : FlipDone(k) \/ VBlank(k)
  BY <1>11, FlipDoneClear, VBlankClear
<1>12. CASE HandleEvent
  BY <1>12, EventClear
<1> QED BY <1>2, <1>3, <1>4, <1>5, <1>6, <1>7, <1>8, <1>9, <1>10, <1>11, <1>12
        DEF SharedNext

LEMMA SharedInitSeen == SharedInit => Seen(st)
<1> SUFFICES ASSUME SharedInit PROVE Seen(st)
  OBVIOUS
<1>1. /\ st.flip = [k \in SinkCrtcs |-> NoFlip] /\ st.shown = [k \in SinkCrtcs |-> NoPixmap]
      /\ st.fd = <<>> /\ st.vblanks = [k \in SinkCrtcs |-> <<>>]
      /\ st.defer = [x \in Pixmaps |-> FALSE]
      /\ st.enable_flipping = [k \in SinkCrtcs |-> FALSE] /\ st.ms_drm_queue = {}
  BY DEF SharedInit
<1>2. FlipTypes(st)
  <2>1. NoFlip \in [seq : Nat, pixmap : Pixmaps \cup {NoPixmap}] /\ <<>> \in Seq(Nat)
    BY DEF NoFlip
  <2> QED BY <1>1, <2>1 DEF FlipTypes
<1>3. NumbersApart(st)
  BY <1>1 DEF NumbersApart
<1>4. ASSUME NEW k \in SinkCrtcs PROVE Displays(st, k)
  <2>1. st.flip[k] = NoFlip /\ st.shown[k] \notin Pixmaps /\ ~st.enable_flipping[k]
    BY <1>1, NotPixmaps
  <2>2. Entries(st, k) = {}
    BY <1>1 DEF Entries
  <2> QED BY <2>1, <2>2 DEF Displays, ShowsOwn, ShowsNext, ShowsFront
<1> QED BY <1>2, <1>3, <1>4 DEF Seen, Visible

\* The source never copies to a pixmap that is displayed with flipping
\* (drmmode_SharedPixmapPresent, drmmode_SharedPixmapVBlankEventHandler, redisplay_dirty):
\* what a handler or a block handler copies to is the back pixmap, whose flip is over.
THEOREM SharedNoTearing == SharedSpec => NoTearing
<1>1. SharedInit => SharedInv /\ Seen(st)
  BY SharedInitInv, SharedInitSeen
<1>2. SharedInv /\ Seen(st) /\ [SharedNext]_sharedVars => SharedInv' /\ Seen(st)'
  <2> SUFFICES ASSUME SharedInv, Seen(st), [SharedNext]_sharedVars
               PROVE  SharedInv' /\ Seen(st)'
    OBVIOUS
  <2>1. SharedInv'
    BY SharedNextInv
  <2>2. CASE SharedNext
    BY <2>1, <2>2, SharedNextClear DEF NothingTorn
  <2>3. CASE UNCHANGED sharedVars
    <3>1. st' = st
      BY <2>3 DEF sharedVars
    <3>2. Seen(st')
      BY <3>1
    <3> QED BY <2>1, <3>2
  <2> QED BY <2>2, <2>3
<1>3. SharedInv /\ Seen(st) /\ [SharedNext]_sharedVars => [CopiesAside]_sharedVars
  <2> SUFFICES ASSUME SharedInv, Seen(st), SharedNext PROVE CopiesAside
    OBVIOUS
  <2>1. \A j \in SinkCrtcs : Untorn(st, st', j)
    BY SharedNextClear DEF NothingTorn
  <2> QED BY <2>1 DEF CopiesAside, Untorn, Clean
<1> QED BY <1>1, <1>2, <1>3, PTL DEF SharedSpec, NoTearing

=============================================================================
