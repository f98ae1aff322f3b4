--------------------------- MODULE PageFlipProofs ---------------------------
(***************************************************************************)
(* Proofs about module PageFlip, for any number of CRTCs, of flips and of  *)
(* nested activations.                                                     *)
(*                                                                         *)
(* FlipInv.  The references to a flipdata are counted right.  RefCount is  *)
(* no base for an induction: that a refused flip drops a carrier of its    *)
(* own rests on the carrier being linked still, although the events that   *)
(* are flushed before the ioctl is retried may unlink any carrier.  The    *)
(* strengthening (StackInv) relates the C stack, the linked carriers and   *)
(* the kernel: a carrier that is about to be submitted has no event, and   *)
(* no two activations work on one flip.                                    *)
(*                                                                         *)
(* AnswerInv.  An extension gets one answer per flip, or none.             *)
(*                                                                         *)
(* DisplayInv.  As long as no flip was left half done and none began       *)
(* inside another (Undisturbed), framebuffers reach each CRTC in the order *)
(* of the flips; so what a flip removes when it is over is older than all  *)
(* that is shown, and what it removes when the first CRTC refused it is    *)
(* newer.                                                                  *)
(***************************************************************************)
EXTENDS PageFlip, FiniteSetTheorems, WellFoundedInduction, TLAPS

-----------------------------------------------------------------------------
(* Types *)

\* An activation on the C stack, and an event that was read.
Frame == {NoFrame} \cup [kind : {"flip"}, flip : Flips, crtc : Crtcs, ran : {FALSE}]
           \cup [kind : {"events"}, flip : 0..MaxFlips, crtc : {0}, ran : BOOLEAN]
Read  == [flip : 0..MaxFlips, crtc : 0..NumCrtcs, at : Nat]

\* The values the variables can have.
PageFlipTypes ==
    /\ on \subseteq Crtcs
    /\ fb_id \in Fbs
    /\ scanout \in [Crtcs -> Int]
    /\ submitted \in [Crtcs -> {None} \cup [flip : Flips, fb : Int]]
    /\ fd \subseteq Event
    /\ queue \subseteq Carrier
    /\ live \subseteq Flips
    /\ flip_count \in [Flips -> Int]
    /\ old_fb_id \in [Flips -> Fbs]
    /\ calls \in Fbs
    /\ returned \in [Flips -> {"no", "true", "false"}]
    /\ notified \in [Flips -> Nat]
    /\ dropped \in [Flips -> Nat]
    /\ partial \subseteq Flips
    /\ nested \in BOOLEAN
    /\ batch \subseteq Read
    /\ depth \in 0..MaxDepth
    /\ frame \in [1..MaxDepth -> Frame]
    /\ closed \in BOOLEAN

-----------------------------------------------------------------------------

\* A set of CRTCs that is not empty has a first one.
LEMMA FirstCrtc ==
    ASSUME NEW S \in SUBSET Crtcs, S # {}
    PROVE  \E c \in S : \A d \in S : c <= d
<1> DEFINE R == {p \in Nat \X Nat : p[1] < p[2]}
<1>1. IsWellFoundedOn(R, Nat)
  BY NatLessThanWellFounded DEF OpToRel
<1>2. S \subseteq Nat
  BY PageFlipAssumption DEF Crtcs
<1>3. PICK c \in S : \A d \in S : ~(<<d, c>> \in R)
  <2> HIDE DEF R
  <2>1. QED
    BY <1>1, <1>2, WFMin
<1>4. ASSUME NEW d \in S PROVE c <= d
  <2>1. c \in Nat /\ d \in Nat
    BY <1>2
  <2>2. <<d, c>> \in R <=> d < c
    BY <2>1
  <2>3. QED
    BY <1>3, <2>1, <2>2
<1>5. QED
  BY <1>4

\* The loop over the CRTCs goes to the next one that is on, and ends after the last.
LEMMA NextOnIs ==
    ASSUME on \subseteq Crtcs, NEW c \in Int
    PROVE  /\ NextOn(c) = 0 => \A d \in on : ~(d > c)
           /\ NextOn(c) # 0 => /\ NextOn(c) \in on /\ NextOn(c) > c
                               /\ \A d \in on : d > c => NextOn(c) <= d
<1> DEFINE S == {d \in on : d > c}
<1>1. CASE S = {}
  <2>1. NextOn(c) = 0 /\ \A d \in on : ~(d > c)
    BY <1>1 DEF NextOn
  <2>2. QED
    BY <2>1
<1>2. CASE S # {}
  <2>1. \E d \in S : \A e \in S : d <= e
    <3>1. S \in SUBSET Crtcs
      OBVIOUS
    <3> HIDE DEF S
    <3>2. QED
      BY <1>2, <3>1, FirstCrtc
  <2>2. \E d \in on : d > c /\ \A e \in on : e > c => d <= e
    BY <2>1
  <2>3. NextOn(c) = CHOOSE d \in on : d > c /\ \A e \in on : e > c => d <= e
    BY <1>2 DEF NextOn
  <2>4. NextOn(c) \in on /\ NextOn(c) > c /\ \A e \in on : e > c => NextOn(c) <= e
    BY <2>2, <2>3
  <2>5. NextOn(c) # 0
    BY <2>4, PageFlipAssumption DEF Crtcs
  <2>6. QED
    BY <2>4, <2>5
<1>3. QED
  BY <1>1, <1>2

\* There are finitely many carriers, and finitely many activations.
LEMMA CarriersFinite ==
    ASSUME PageFlipTypes
    PROVE  \A f : /\ IsFiniteSet(Carriers(f)) /\ Cardinality({q \in queue : q.flip = f}) \in Nat
                  /\ Cardinality(Carriers(f)) = Cardinality({q \in queue : q.flip = f})
<1> DEFINE g == [p \in Flips \X Crtcs |-> [flip |-> p[1], crtc |-> p[2]]]
<1>1. IsFiniteSet(Flips) /\ IsFiniteSet(Crtcs)
  BY FS_Interval, PageFlipAssumption DEF Flips, Crtcs
<1>2. IsFiniteSet(Flips \X Crtcs)
  BY <1>1, FS_Product
<1>3. g \in Surjection(Flips \X Crtcs, Carrier)
  <2>1. g \in [Flips \X Crtcs -> Carrier]
    BY DEF Carrier
  <2>2. ASSUME NEW q \in Carrier PROVE \E p \in Flips \X Crtcs : g[p] = q
    <3>1. <<q.flip, q.crtc>> \in Flips \X Crtcs /\ g[<<q.flip, q.crtc>>] = q
      BY <2>2 DEF Carrier
    <3>2. QED
      BY <3>1
  <2>3. QED
    BY <2>1, <2>2 DEF Surjection
<1> HIDE DEF g
<1>4. IsFiniteSet(Carrier)
  BY <1>2, <1>3, FS_Surjection
<1>5. ASSUME NEW f
      PROVE  /\ IsFiniteSet(Carriers(f)) /\ Cardinality({q \in queue : q.flip = f}) \in Nat
             /\ Cardinality(Carriers(f)) = Cardinality({q \in queue : q.flip = f})
  <2>1. {q \in queue : q.flip = f} \in SUBSET Carrier
    BY DEF PageFlipTypes
  <2>2. IsFiniteSet({q \in queue : q.flip = f})
    BY <1>4, <2>1, FS_Subset
  <2>3. QED
    BY <2>2, FS_CardinalityType DEF Carriers
<1>6. QED
  BY <1>5

\* The stack is finite.
LEMMA ActivationsFinite ==
    ASSUME PageFlipTypes
    PROVE  \A f : IsFiniteSet(Activations(f)) /\ Cardinality(Activations(f)) \in Nat
<1>1. IsFiniteSet(1..depth)
  BY FS_Interval, PageFlipAssumption DEF PageFlipTypes
<1>2. ASSUME NEW f PROVE IsFiniteSet(Activations(f)) /\ Cardinality(Activations(f)) \in Nat
  <2>1. Activations(f) \in SUBSET (1..depth)
    BY DEF Activations
  <2>2. QED
    BY <1>1, <2>1, FS_Subset, FS_CardinalityType
<1>3. QED
  BY <1>2

\* What a call pushes, a return pops, and a handler writes on the top of the stack.
LEMMA Pushed ==
    ASSUME PageFlipTypes, NEW F \in Frame, Push(F)
    PROVE  /\ depth' = depth + 1 /\ depth' \in 1..MaxDepth /\ frame' \in [1..MaxDepth -> Frame]
           /\ frame'[depth + 1] = F
           /\ \A d \in 1..depth : frame'[d] = frame[d]
           /\ \A d \in 1..depth' : d \in 1..depth \/ d = depth + 1
<1>1. depth \in 0..MaxDepth /\ depth < MaxDepth /\ depth' = depth + 1
      /\ frame' = [frame EXCEPT ![depth + 1] = F]
  BY DEF PageFlipTypes, Push
<1>2. depth + 1 \in 1..MaxDepth /\ frame \in [1..MaxDepth -> Frame] /\ MaxDepth \in Nat
  BY <1>1, PageFlipAssumption DEF PageFlipTypes
<1>3. QED
  BY <1>1, <1>2

\* A return leaves the activations below the top.
LEMMA Popped ==
    ASSUME PageFlipTypes, depth > 0, Pop
    PROVE  /\ depth' = depth - 1 /\ depth' \in 0..MaxDepth /\ frame' \in [1..MaxDepth -> Frame]
           /\ \A d \in 1..depth' : d \in 1..depth /\ d # depth /\ frame'[d] = frame[d]
           /\ \A d \in 1..depth : d \in 1..depth' \/ d = depth
<1>1. depth \in 1..MaxDepth /\ depth' = depth - 1 /\ frame' = [frame EXCEPT ![depth] = NoFrame]
  BY PageFlipAssumption DEF PageFlipTypes, Pop
<1>2. frame \in [1..MaxDepth -> Frame] /\ MaxDepth \in Nat /\ NoFrame \in Frame
  BY <1>1, PageFlipAssumption DEF PageFlipTypes, Frame, NoFrame
<1>3. QED
  BY <1>1, <1>2

\* A handler rewrites the activation on top and no other.
LEMMA Replaced ==
    ASSUME PageFlipTypes, depth > 0, NEW F \in Frame, frame' = [frame EXCEPT ![depth] = F]
    PROVE  /\ depth \in 1..depth /\ frame' \in [1..MaxDepth -> Frame] /\ frame'[depth] = F
           /\ \A d \in 1..depth : d # depth => frame'[d] = frame[d]
BY PageFlipAssumption DEF PageFlipTypes

\* What the code puts on the stack has the form of an activation.
LEMMA FramesTyped ==
    /\ \A f \in Flips, c \in Crtcs : FlipFrame(f, c) \in Frame
    /\ \A f \in 0..MaxFlips : EventFrame(f, TRUE) \in Frame /\ EventFrame(f, FALSE) \in Frame
    /\ EventFrame(0, TRUE) \in Frame /\ EventFrame(0, FALSE) \in Frame
<1>1. \A f \in Flips, c \in Crtcs : FlipFrame(f, c) \in Frame
  BY DEF Frame, FlipFrame
<1>2. \A f \in 0..MaxFlips : EventFrame(f, TRUE) \in Frame /\ EventFrame(f, FALSE) \in Frame
  BY DEF Frame, EventFrame
<1>3. 0 \in 0..MaxFlips
  BY PageFlipAssumption
<1>4. QED
  BY <1>1, <1>2, <1>3

\* The frame on top of the stack.
LEMMA TopTyped ==
    ASSUME PageFlipTypes, depth > 0
    PROVE  /\ depth \in 1..MaxDepth /\ depth \in 1..depth /\ top \in Frame
           /\ top.flip \in 0..MaxFlips
           /\ top.kind = "flip" => top.flip \in Flips /\ top.crtc \in Crtcs
<1>1. depth \in 1..MaxDepth /\ depth \in 1..depth /\ top \in Frame
  BY PageFlipAssumption DEF PageFlipTypes, top
<1>2. ASSUME NEW F \in Frame
      PROVE  F.flip \in 0..MaxFlips /\ (F.kind = "flip" => F.flip \in Flips /\ F.crtc \in Crtcs)
  <2>1. CASE F = NoFrame
    BY <2>1, PageFlipAssumption DEF NoFrame
  <2>2. CASE F \in [kind : {"flip"}, flip : Flips, crtc : Crtcs, ran : {FALSE}]
    BY <2>2, PageFlipAssumption DEF Flips
  <2>3. CASE F \in [kind : {"events"}, flip : 0..MaxFlips, crtc : {0}, ran : BOOLEAN]
    BY <2>3
  <2>4. QED
    BY <2>1, <2>2, <2>3 DEF Frame
<1>3. QED
  BY <1>1, <1>2

-----------------------------------------------------------------------------

\* The program starts with values of the right types.
LEMMA TypesInit == Init => PageFlipTypes
<1> SUFFICES ASSUME Init PROVE PageFlipTypes
  OBVIOUS
<1>1. /\ on \subseteq Crtcs /\ fd = {} /\ queue = {} /\ live = {} /\ partial = {} /\ batch = {}
      /\ fb_id = 0 /\ calls = 0 /\ depth = 0 /\ nested = FALSE /\ closed = FALSE
  BY DEF Init
<1>2. 0 \in Fbs /\ 0 \in 0..MaxDepth /\ 0 \in 0..NumCrtcs /\ 0 \in 0..MaxFlips
  BY PageFlipAssumption DEF Fbs
<1>3. scanout \in [Crtcs -> Int] /\ submitted \in [Crtcs -> {None}]
  BY DEF Init, Blank
<1>4. /\ flip_count \in [Flips -> Int] /\ notified \in [Flips -> Nat]
         /\ dropped \in [Flips -> Nat]
      /\ returned \in [Flips -> {"no"}]
  BY DEF Init
<1>5. old_fb_id \in [Flips -> Fbs]
  BY <1>2 DEF Init
<1>6. frame \in [1..MaxDepth -> Frame]
  BY <1>2 DEF Init, Frame, NoFrame
<1>7. QED
  BY <1>1, <1>2, <1>3, <1>4, <1>5, <1>6 DEF PageFlipTypes

\* A framebuffer goes.
LEMMA RmFBTypes ==
    ASSUME PageFlipTypes, NEW fb, drmModeRmFB(fb)
    PROVE  /\ scanout' \in [Crtcs -> Int]
           /\ submitted' \in [Crtcs -> {None} \cup [flip : Flips, fb : Int]]
           /\ \A c \in Crtcs : submitted'[c].flip = submitted[c].flip
               /\ (submitted'[c] = None <=> submitted[c] = None)
<1>1. /\ scanout' = [c \in Crtcs |-> IF scanout[c] = fb THEN Blank ELSE scanout[c]]
      /\ submitted' = [c \in Crtcs |->
            IF submitted[c] # None /\ submitted[c].fb = fb
              THEN [submitted[c] EXCEPT !.fb = Blank] ELSE submitted[c]]
  BY DEF drmModeRmFB
<1>2. scanout' \in [Crtcs -> Int]
  BY <1>1 DEF PageFlipTypes, Blank
<1>3. ASSUME NEW c \in Crtcs
      PROVE  /\ submitted'[c] \in {None} \cup [flip : Flips, fb : Int]
             /\ submitted'[c].flip = submitted[c].flip
                 /\ (submitted'[c] = None <=> submitted[c] = None)
  <2>1. CASE submitted[c] # None /\ submitted[c].fb = fb
    <3>1. submitted[c] \in [flip : Flips, fb : Int] /\ Blank \in Int
      BY <2>1 DEF PageFlipTypes, Blank
    <3>2. submitted'[c] = [submitted[c] EXCEPT !.fb = Blank]
      BY <1>1, <2>1
    <3>3. submitted'[c] \in [flip : Flips, fb : Int] /\ submitted'[c].flip = submitted[c].flip
      BY <3>1, <3>2
    <3>4. submitted'[c].flip # 0 /\ None.flip = 0
      BY <3>3, PageFlipAssumption DEF Flips, None
    <3>5. QED
      BY <2>1, <3>3, <3>4
  <2>2. CASE ~(submitted[c] # None /\ submitted[c].fb = fb)
    BY <1>1, <2>2 DEF PageFlipTypes
  <2>3. QED
    BY <2>1, <2>2
<1>4. DOMAIN submitted' = Crtcs /\ submitted' = [c \in Crtcs |-> submitted'[c]]
  BY <1>1
<1>5. QED
  BY <1>2, <1>3, <1>4

\* A call keeps the types of the stack.
LEMMA PushTypes ==
    ASSUME PageFlipTypes, NEW F \in Frame, Push(F)
    PROVE  depth' \in 0..MaxDepth /\ frame' \in [1..MaxDepth -> Frame]
<1>1. depth' \in 1..MaxDepth /\ frame' \in [1..MaxDepth -> Frame]
  BY Pushed
<1>2. QED
  BY <1>1, PageFlipAssumption

\* drmHandleEvent reads events of the kernel into its own activation.
LEMMA ReadEventsTypes ==
    ASSUME PageFlipTypes, NEW E \in SUBSET fd, ReadEvents(E)
    PROVE  /\ depth' \in 0..MaxDepth /\ frame' \in [1..MaxDepth -> Frame]
           /\ fd' \subseteq Event /\ batch' \subseteq Read
<1>1. EventFrame(0, FALSE) \in Frame
  BY FramesTyped, PageFlipAssumption
<1>2. depth' \in 0..MaxDepth /\ frame' \in [1..MaxDepth -> Frame]
  BY <1>1, PushTypes DEF ReadEvents
<1>3. fd' \subseteq Event
  BY DEF ReadEvents, PageFlipTypes
<1>4. ASSUME NEW e \in E PROVE [flip |-> e.flip, crtc |-> e.crtc, at |-> depth + 1] \in Read
  <2>1. e \in Event /\ depth \in Nat
    BY PageFlipAssumption DEF PageFlipTypes
  <2>2. e.flip \in 0..MaxFlips /\ e.crtc \in 0..NumCrtcs
    BY <2>1, PageFlipAssumption DEF Event, Carrier, Vblank, Flips, Crtcs
  <2>3. QED
    BY <2>1, <2>2 DEF Read
<1>5. batch' \subseteq Read
  BY <1>4 DEF ReadEvents, PageFlipTypes
<1>6. QED
  BY <1>2, <1>3, <1>5

\* ms_pageflip_handler keeps the types, and displays nothing itself.
LEMMA HandlerTypes ==
    ASSUME PageFlipTypes, depth > 0, NEW f \in Flips, ms_pageflip_handler(f)
    PROVE  /\ frame' \in [1..MaxDepth -> Frame] /\ notified' \in [Flips -> Nat]
           /\ flip_count' \in [Flips -> Int] /\ live' \subseteq Flips
           /\ UNCHANGED <<fbs, scanout, submitted>>
<1>1. f \in 0..MaxFlips
  BY PageFlipAssumption DEF Flips
<1>2. EventFrame(f, TRUE) \in Frame /\ EventFrame(0, TRUE) \in Frame
  BY <1>1, FramesTyped, PageFlipAssumption
<1>3. frame' = [frame EXCEPT ![depth] = EventFrame(f, TRUE)]
      \/ frame' = [frame EXCEPT ![depth] = EventFrame(0, TRUE)]
  BY DEF ms_pageflip_handler
<1>4. frame' \in [1..MaxDepth -> Frame]
  BY <1>2, <1>3, Replaced
<1>a. notified \in [Flips -> Nat] /\ flip_count \in [Flips -> Int] /\ live \subseteq Flips
  BY DEF PageFlipTypes
<1>5. notified' \in [Flips -> Nat]
  <2>1. notified' = [notified EXCEPT ![f] = @ + 1] \/ notified' = notified
    BY DEF ms_pageflip_handler
  <2>2. QED
    BY <1>a, <2>1
<1>6. flip_count' \in [Flips -> Int] /\ live' \subseteq Flips
  <2>1. \/ flip_count' = flip_count /\ live' = live
        \/ /\ flip_count' = [flip_count EXCEPT ![f] = @ - 1]
           /\ live' = live \/ live' = live \ {f}
    BY DEF ms_pageflip_handler, Unref
  <2>2. QED
    BY <1>a, <2>1
<1>7. QED
  BY <1>4, <1>5, <1>6 DEF ms_pageflip_handler, displayVars

\* Every step keeps the types.
LEMMA TypesStep == PageFlipTypes /\ [Next]_vars => PageFlipTypes'
<1> SUFFICES ASSUME PageFlipTypes, [Next]_vars PROVE PageFlipTypes'
  OBVIOUS
<1>a. calls + 1 \in Flips => calls + 1 \in Fbs
  BY PageFlipAssumption DEF Flips, Fbs
<1>1. CASE FlipImpossible
  <2>1. returned' \in [Flips -> {"no", "true", "false"}]
    BY <1>1 DEF FlipImpossible, PageFlipTypes
  <2>2. QED
    BY <1>1, <1>a, <2>1 DEF FlipImpossible, PageFlipTypes, displayVars, stackVars
<1>2. CASE FlipBegin
  <2> DEFINE f == calls + 1
             c == NextOn(0)
  <2>1. f \in Flips /\ c \in on
    BY <1>2, NextOnIs DEF FlipBegin, PageFlipTypes
  <2>2. c \in Crtcs
    BY <2>1 DEF PageFlipTypes
  <2>3. FlipFrame(f, c) \in Frame
    BY <2>1, <2>2, FramesTyped
  <2>4. depth' \in 0..MaxDepth /\ frame' \in [1..MaxDepth -> Frame]
    BY <1>2, <2>3, PushTypes DEF FlipBegin
  <2>5. queue' \subseteq Carrier
    BY <1>2, <2>1, <2>2 DEF FlipBegin, PageFlipTypes, Carrier
  <2>6. old_fb_id' \in [Flips -> Fbs] /\ flip_count' \in [Flips -> Int] /\ live' \subseteq Flips
    BY <1>2, <2>1 DEF FlipBegin, PageFlipTypes
  <2>7. nested' \in BOOLEAN
    BY <1>2 DEF FlipBegin, PageFlipTypes, Submitting
  <2>8. calls' \in Fbs /\ fb_id' \in Fbs
    BY <1>2, <1>a, <2>1 DEF FlipBegin
  <2>9. QED
    BY <1>2, <2>4, <2>5, <2>6, <2>7, <2>8 DEF FlipBegin, PageFlipTypes
<1>3. CASE FlipAccepted
  <2> DEFINE f == top.flip
             c == top.crtc
             n == NextOn(c)
  <2>1. /\ depth > 0 /\ top.kind = "flip"
        /\ submitted' = [submitted EXCEPT ![c] = [flip |-> f, fb |-> fb_id]]
    BY <1>3 DEF FlipAccepted
  <2>2. f \in Flips /\ c \in Crtcs
    BY <2>1, TopTyped
  <2>3. submitted' \in [Crtcs -> {None} \cup [flip : Flips, fb : Int]]
    <3>1. fb_id \in Int
      BY PageFlipAssumption DEF PageFlipTypes, Fbs
    <3>2. QED
      BY <2>1, <2>2, <3>1 DEF PageFlipTypes
  <2>4. flip_count' \in [Flips -> Int]
    BY <1>3 DEF FlipAccepted, PageFlipTypes
  <2>5. CASE n # 0 /\ queue' = queue \cup {[flip |-> f, crtc |-> n]}
             /\ frame' = [frame EXCEPT ![depth] = FlipFrame(f, n)] /\ UNCHANGED <<depth,
                 returned>>
    <3>0. c \in Int /\ on \subseteq Crtcs
      BY <2>2, PageFlipAssumption DEF PageFlipTypes, Crtcs
    <3>1. n \in Crtcs
      BY <2>5, <3>0, NextOnIs
    <3>2. frame' \in [1..MaxDepth -> Frame]
      BY <2>1, <2>2, <2>5, <3>1, FramesTyped, Replaced
    <3>3. queue' \subseteq Carrier
      BY <2>2, <2>5, <3>1 DEF PageFlipTypes, Carrier
    <3>4. QED
      BY <1>3, <2>3, <2>4, <2>5, <3>2, <3>3 DEF FlipAccepted, PageFlipTypes
  <2>6. CASE n = 0 /\ returned' = [returned EXCEPT ![f] = "true"] /\ Pop /\ UNCHANGED queue
    <3>1. depth' \in 0..MaxDepth /\ frame' \in [1..MaxDepth -> Frame]
      BY <2>1, <2>6, Popped
    <3>2. returned' \in [Flips -> {"no", "true", "false"}]
      BY <2>6 DEF PageFlipTypes
    <3>3. QED
      BY <1>3, <2>3, <2>4, <2>6, <3>1, <3>2 DEF FlipAccepted, PageFlipTypes
  <2>7. QED
    BY <1>3, <2>5, <2>6 DEF FlipAccepted
<1>4. CASE FlipFlush
  <2>1. PICK E \in SUBSET fd : ReadEvents(E)
    BY <1>4 DEF FlipFlush
  <2>2. QED
    BY <1>4, <2>1, ReadEventsTypes DEF FlipFlush, PageFlipTypes, displayVars, flipVars
<1>5. CASE FlipRefused
  <2> DEFINE f == top.flip
  <2>1. depth > 0 /\ top.kind = "flip" /\ Undo(f, flip_count[f] - 1)
    BY <1>5 DEF FlipRefused
  <2>2. f \in Flips
    BY <2>1, TopTyped
  <2>3. depth' \in 0..MaxDepth /\ frame' \in [1..MaxDepth -> Frame]
    BY <2>1, Popped DEF Undo
  <2>4. flip_count' \in [Flips -> Int] /\ returned' \in [Flips -> {"no", "true", "false"}]
    BY <2>1, <2>2 DEF Undo, PageFlipTypes
  <2>5. /\ scanout' \in [Crtcs -> Int]
           /\ submitted' \in [Crtcs -> {None} \cup [flip : Flips, fb : Int]]
        /\ fb_id' \in Fbs /\ live' \subseteq Flips
    <3>1. CASE flip_count[f] - 1 = 1
      <4>1. drmModeRmFB(fb_id) /\ fb_id' = old_fb_id[f] /\ live' = live \ {f}
        BY <2>1, <3>1 DEF Undo
      <4>2. QED
        BY <2>2, <4>1, RmFBTypes DEF PageFlipTypes
    <3>2. CASE flip_count[f] - 1 # 1
      BY <2>1, <2>2, <3>2 DEF Undo, PageFlipTypes, displayVars
    <3>3. QED
      BY <3>1, <3>2
  <2>6. partial' \subseteq Flips /\ queue' \subseteq Carrier
    BY <1>5, <2>2 DEF FlipRefused, PageFlipTypes
  <2>7. QED
    BY <1>5, <2>3, <2>4, <2>5, <2>6 DEF FlipRefused, PageFlipTypes
<1>6. CASE ms_drm_socket_handler
  <2>1. PICK E \in SUBSET fd : ReadEvents(E)
    BY <1>6 DEF ms_drm_socket_handler
  <2>2. QED
    BY <1>6, <2>1, ReadEventsTypes DEF ms_drm_socket_handler, PageFlipTypes, displayVars,
        flipVars
<1>7. ASSUME NEW r \in batch, Dispatch(r) PROVE PageFlipTypes'
  <2> DEFINE e == [flip |-> r.flip, crtc |-> r.crtc]
  <2>1. depth > 0 /\ batch' \subseteq Read
    BY <1>7 DEF Dispatch, PageFlipTypes
  <2>2. CASE e \in queue /\ queue' = queue \ {e} /\ ms_pageflip_handler(r.flip)
    <3>1. r.flip \in Flips
      BY <2>2 DEF PageFlipTypes, Carrier
    <3>2. QED
      BY <1>7, <2>1, <2>2, <3>1, HandlerTypes DEF Dispatch, PageFlipTypes
  <2>3. CASE frame' = [frame EXCEPT ![depth] = EventFrame(0, e = Vblank)]
             /\ UNCHANGED <<queue, notified, displayVars, flip_count, live>>
    <3>1. frame' \in [1..MaxDepth -> Frame]
      <4>1. (e = Vblank) = TRUE \/ (e = Vblank) = FALSE
        OBVIOUS
      <4>2. EventFrame(0, e = Vblank) \in Frame
        BY <4>1, FramesTyped
      <4>3. QED
        BY <2>1, <2>3, <4>2, Replaced
    <3>2. QED
      BY <1>7, <2>1, <2>3, <3>1 DEF Dispatch, PageFlipTypes, displayVars
  <2>4. QED
    BY <1>7, <2>2, <2>3 DEF Dispatch
<1>8. CASE HandlerReturns
  <2> DEFINE f == top.flip
  <2>1. depth > 0 /\ f # 0 /\ drmModeRmFB(old_fb_id[f]) /\ Unref(f)
        /\ frame' = [frame EXCEPT ![depth] = EventFrame(0, FALSE)]
    BY <1>8 DEF HandlerReturns
  <2>2. frame' \in [1..MaxDepth -> Frame]
    BY <2>1, FramesTyped, Replaced, PageFlipAssumption
  <2>3. flip_count' \in [Flips -> Int] /\ live' \subseteq Flips
    <3>1. flip_count' = [flip_count EXCEPT ![f] = @ - 1] /\ (live' = live \/ live' = live \ {f})
      BY <2>1 DEF Unref
    <3>2. f \in Flips
      BY <2>1, TopTyped, PageFlipAssumption DEF Flips
    <3>3. QED
      BY <3>1, <3>2 DEF PageFlipTypes
  <2>4. scanout' \in [Crtcs -> Int] /\ submitted' \in [Crtcs -> {None} \cup [flip : Flips,
        fb : Int]]
    BY <2>1, RmFBTypes
  <2>5. QED
    BY <1>8, <2>2, <2>3, <2>4 DEF HandlerReturns, PageFlipTypes
<1>9. CASE EventsDone
  <2>1. depth' \in 0..MaxDepth /\ frame' \in [1..MaxDepth -> Frame]
    BY <1>9, Popped DEF EventsDone
  <2>2. QED
    BY <1>9, <2>1 DEF EventsDone, PageFlipTypes, displayVars, flipVars
<1>10. ASSUME NEW c \in Crtcs, KernelFlips(c) PROVE PageFlipTypes'
  <2>1. submitted[c] \in [flip : Flips, fb : Int]
    BY <1>10 DEF KernelFlips, PageFlipTypes
  <2>2. scanout' \in [Crtcs -> Int] /\ submitted' \in [Crtcs -> {None} \cup [flip : Flips,
        fb : Int]]
    BY <1>10, <2>1 DEF KernelFlips, PageFlipTypes
  <2>3. fd' \subseteq Event
    BY <1>10, <2>1 DEF KernelFlips, PageFlipTypes, Event, Carrier
  <2>4. QED
    BY <1>10, <2>2, <2>3 DEF KernelFlips, PageFlipTypes, flipVars, stackVars
<1>11. CASE KernelVblank
  BY <1>11 DEF KernelVblank, PageFlipTypes, displayVars, flipVars, stackVars, Event
<1>12. CASE CloseScreen
  <2> DEFINE of(f) == Cardinality({q \in queue : q.flip = f})
  <2>1. /\ flip_count' = [f \in Flips |-> flip_count[f] - of(f)]
        /\ live' = {f \in live : flip_count[f] # of(f)}
        /\ dropped' = [f \in Flips |->
              IF of(f) > 0 /\ of(f) = flip_count[f] THEN dropped[f] + 1 ELSE dropped[f]]
    BY <1>12 DEF CloseScreen
  <2>2. live' \subseteq Flips /\ dropped' \in [Flips -> Nat]
    BY <2>1 DEF PageFlipTypes
  <2>3. flip_count' \in [Flips -> Int]
    <3>1. \A f \in Flips : of(f) \in Nat
      BY CarriersFinite
    <3> HIDE DEF of
    <3>2. QED
      BY <2>1, <3>1 DEF PageFlipTypes
  <2>4. QED
    BY <1>12, <2>2, <2>3 DEF CloseScreen, PageFlipTypes, displayVars, stackVars
<1>13. CASE UNCHANGED vars
  BY <1>13 DEF vars, PageFlipTypes, displayVars, flipVars, stackVars
<1>14. QED
  BY <1>1, <1>2, <1>3, <1>4, <1>5, <1>6, <1>7, <1>8, <1>9, <1>10, <1>11, <1>12, <1>13
     DEF Next, ServerStep

-----------------------------------------------------------------------------
(* Counting carriers and activations *)

\* A call of ms_do_pageflip or event_handler is one activation more.
LEMMA PushCounts ==
    ASSUME PageFlipTypes, NEW F \in Frame, Push(F), NEW f
    PROVE  Cardinality(Activations(f))' = Cardinality(Activations(f)) + IF F.flip = f THEN 1 ELSE 0
<1>1. Activations(f)' = IF F.flip = f THEN Activations(f) \cup {depth + 1} ELSE Activations(f)
  BY Pushed, PageFlipAssumption DEF Activations, PageFlipTypes
<1>2. IsFiniteSet(Activations(f)) /\ Cardinality(Activations(f)) \in Nat
  BY ActivationsFinite
<1>3. depth + 1 \notin Activations(f)
  BY PageFlipAssumption DEF Activations, PageFlipTypes
<1>4. Cardinality(Activations(f) \cup {depth + 1}) = Cardinality(Activations(f)) + 1
  BY <1>2, <1>3, FS_AddElement
<1>5. CASE F.flip = f
  BY <1>1, <1>4, <1>5
<1>6. CASE F.flip # f
  BY <1>1, <1>2, <1>6
<1>7. QED
  BY <1>5, <1>6

\* A return is one activation less.
LEMMA PopCounts ==
    ASSUME PageFlipTypes, depth > 0, Pop, NEW f
    PROVE  Cardinality(Activations(f))' = Cardinality(Activations(f)) - IF top.flip = f THEN 1 ELSE 0
<1>1. Activations(f)' = Activations(f) \ {depth}
  BY Popped, PageFlipAssumption DEF Activations, PageFlipTypes
<1>2. IsFiniteSet(Activations(f)) /\ Cardinality(Activations(f)) \in Nat
  BY ActivationsFinite
<1>3. depth \in Activations(f) <=> top.flip = f
  BY TopTyped DEF Activations, top
<1>4. Cardinality(Activations(f) \ {depth}) =
         IF depth \in Activations(f) THEN Cardinality(Activations(f)) - 1 ELSE Cardinality(Activations(f))
  BY <1>2, FS_RemoveElement
<1>5. CASE top.flip = f
  BY <1>1, <1>3, <1>4, <1>5
<1>6. CASE top.flip # f
  BY <1>1, <1>2, <1>3, <1>4, <1>6
<1>7. QED
  BY <1>5, <1>6

\* A handler ends one activation and may begin one.
LEMMA ReplaceCounts ==
    ASSUME PageFlipTypes, depth > 0, NEW F \in Frame, frame' = [frame EXCEPT ![depth] = F],
           UNCHANGED depth, NEW f
    PROVE  Cardinality(Activations(f))' =
             (Cardinality(Activations(f)) - IF top.flip = f THEN 1 ELSE 0)
               + IF F.flip = f THEN 1 ELSE 0
<1> DEFINE A == Activations(f) \ {depth}
<1>1. depth \in 1..depth /\ frame'[depth] = F /\ \A d \in 1..depth : d # depth
      => frame'[d] = frame[d]
  BY Replaced
<1>2. Activations(f)' = IF F.flip = f THEN A \cup {depth} ELSE A
  BY <1>1 DEF Activations
<1>3. IsFiniteSet(Activations(f)) /\ Cardinality(Activations(f)) \in Nat
  BY ActivationsFinite
<1>4. depth \in Activations(f) <=> top.flip = f
  BY <1>1 DEF Activations, top
<1>5. IsFiniteSet(A) /\ Cardinality(A) =
         IF depth \in Activations(f) THEN Cardinality(Activations(f)) - 1 ELSE Cardinality(Activations(f))
  BY <1>3, FS_RemoveElement
<1>6. Cardinality(A) \in Nat
  BY <1>5, FS_CardinalityType
<1>7. depth \notin A
  OBVIOUS
<1> HIDE DEF A
<1>8. Cardinality(A \cup {depth}) = Cardinality(A) + 1
  BY <1>5, <1>7, FS_AddElement
<1>9. Cardinality(A) = Cardinality(Activations(f)) - IF top.flip = f THEN 1 ELSE 0
  BY <1>3, <1>4, <1>5
<1>10. CASE F.flip = f
  BY <1>2, <1>8, <1>9, <1>10
<1>11. CASE F.flip # f
  BY <1>2, <1>6, <1>9, <1>11
<1>12. QED
  BY <1>10, <1>11

\* queue_flip_on_crtc links one carrier.
LEMMA LinkCounts ==
    ASSUME PageFlipTypes, NEW q \in Carrier, q \notin queue, queue' = queue \cup {q}, NEW f
    PROVE  Cardinality(Carriers(f))' = Cardinality(Carriers(f)) + IF q.flip = f THEN 1 ELSE 0
<1>1. Carriers(f)' = IF q.flip = f THEN Carriers(f) \cup {q} ELSE Carriers(f)
  BY DEF Carriers
<1>2. IsFiniteSet(Carriers(f)) /\ Cardinality(Carriers(f)) \in Nat
  BY CarriersFinite
<1>3. q \notin Carriers(f)
  BY DEF Carriers
<1>4. Cardinality(Carriers(f) \cup {q}) = Cardinality(Carriers(f)) + 1
  BY <1>2, <1>3, FS_AddElement
<1>5. CASE q.flip = f
  BY <1>1, <1>4, <1>5
<1>6. CASE q.flip # f
  BY <1>1, <1>2, <1>6
<1>7. QED
  BY <1>5, <1>6

\* A dispatched or aborted carrier is unlinked.
LEMMA UnlinkCounts ==
    ASSUME PageFlipTypes, NEW q \in queue, queue' = queue \ {q}, NEW f
    PROVE  Cardinality(Carriers(f))' = Cardinality(Carriers(f)) - IF q.flip = f THEN 1 ELSE 0
<1>1. Carriers(f)' = Carriers(f) \ {q}
  BY DEF Carriers
<1>2. IsFiniteSet(Carriers(f)) /\ Cardinality(Carriers(f)) \in Nat
  BY CarriersFinite
<1>3. q \in Carriers(f) <=> q.flip = f
  BY DEF Carriers
<1>4. Cardinality(Carriers(f) \ {q}) =
         IF q \in Carriers(f) THEN Cardinality(Carriers(f)) - 1 ELSE Cardinality(Carriers(f))
  BY <1>2, FS_RemoveElement
<1>5. CASE q.flip = f
  BY <1>1, <1>3, <1>4, <1>5
<1>6. CASE q.flip # f
  BY <1>1, <1>2, <1>3, <1>4, <1>6
<1>7. QED
  BY <1>5, <1>6

\* A count of zero means that there is none, and a member that there is one at least.
LEMMA CountsMean ==
    ASSUME PageFlipTypes
    PROVE  \A f : /\ Cardinality(Carriers(f)) \in Nat /\ Cardinality(Activations(f)) \in Nat
                  /\ Cardinality(Carriers(f)) = 0 <=> Carriers(f) = {}
                  /\ Cardinality(Activations(f)) = 0 <=> Activations(f) = {}
                  /\ \A q \in queue : q.flip = f => Cardinality(Carriers(f)) >= 1
                  /\ \A d \in 1..depth : frame[d].flip = f => Cardinality(Activations(f)) >= 1
                  /\ \A q \in queue : q.flip = f /\ Cardinality(Carriers(f)) = 1
                      => Carriers(f) = {q}
<1> SUFFICES ASSUME NEW f
             PROVE  /\ Cardinality(Carriers(f)) \in Nat /\ Cardinality(Activations(f)) \in Nat
                    /\ Cardinality(Carriers(f)) = 0 <=> Carriers(f) = {}
                    /\ Cardinality(Activations(f)) = 0 <=> Activations(f) = {}
                    /\ \A q \in queue : q.flip = f => Cardinality(Carriers(f)) >= 1
                    /\ \A d \in 1..depth : frame[d].flip = f => Cardinality(Activations(f)) >= 1
                    /\ \A q \in queue : q.flip = f /\ Cardinality(Carriers(f)) = 1
                        => Carriers(f) = {q}
  OBVIOUS
<1>1. /\ IsFiniteSet(Carriers(f)) /\ Cardinality(Carriers(f)) \in Nat
      /\ IsFiniteSet(Activations(f)) /\ Cardinality(Activations(f)) \in Nat
  BY CarriersFinite, ActivationsFinite
<1>2. /\ Cardinality(Carriers(f)) = 0 <=> Carriers(f) = {}
      /\ Cardinality(Activations(f)) = 0 <=> Activations(f) = {}
  BY <1>1, FS_EmptySet
<1>3. /\ \A q \in queue : q.flip = f => q \in Carriers(f)
      /\ \A d \in 1..depth : frame[d].flip = f => d \in Activations(f)
  BY DEF Carriers, Activations
<1>4. /\ \A q \in queue : q.flip = f => Cardinality(Carriers(f)) >= 1
      /\ \A d \in 1..depth : frame[d].flip = f => Cardinality(Activations(f)) >= 1
  BY <1>1, <1>2, <1>3
<1>5. ASSUME NEW q \in queue, q.flip = f, Cardinality(Carriers(f)) = 1 PROVE Carriers(f) = {q}
  <2>1. PICK x : Carriers(f) = {x}
    BY <1>1, <1>5, FS_Singleton
  <2>2. QED
    BY <1>3, <1>5, <2>1
<1>6. QED
  BY <1>1, <1>2, <1>4, <1>5

-----------------------------------------------------------------------------
(* What is on the stack agrees with what is linked and what is submitted *)

\* The carriers that were submitted and whose event was not dispatched yet.
Sent == {q \in Carrier : \/ q \in fd
                         \/ submitted[q.crtc].flip = q.flip
                         \/ \E r \in batch : r.flip = q.flip /\ r.crtc = q.crtc}

\* With Q linked, S submitted and n flips begun: an activation of ms_do_pageflip
\* has linked the carrier it is about to submit, and none for a later CRTC; an
\* activation inside event_handler has no carrier of its flip left.
FrameInv(F, Q, S, n) ==
    /\ F.flip <= n
    /\ F.kind = "events" /\ F.flip # 0 => \A q \in Q : q.flip # F.flip
    /\ F.kind = "flip" =>
         /\ [flip |-> F.flip, crtc |-> F.crtc] \in Q
         /\ \A q \in Carrier : q.flip = F.flip =>
              /\ q.crtc >= F.crtc => q \notin S
              /\ q.crtc > F.crtc => q \notin Q

\* Of two activations one is about no flip or about another flip, nothing is ahead of
\* the flips begun, and every activation is right.
StackInv ==
    /\ closed => depth = 0
    /\ \A d, e \in 1..depth : frame[d].flip # 0 /\ frame[d].flip = frame[e].flip => d = e
    /\ \A q \in queue : q.flip <= calls /\ q.crtc \in on
    /\ \A q \in Sent : q.flip <= calls
    /\ \A d \in 1..depth : FrameInv(frame[d], queue, Sent, calls)

\* An activation that is not touched itself stays right while other carriers are
\* linked, unlinked or submitted.
LEMMA FrameStep ==
    ASSUME NEW F \in Frame, NEW Q, NEW Q2, NEW S, NEW S2, NEW n \in Int, NEW n2 \in Int,
           Q2 \subseteq Carrier, n <= n2, FrameInv(F, Q, S, n),
           \A q \in Carrier : q.flip = F.flip =>
              /\ q \in Q2 => q \in Q
              /\ q \in Q /\ q \notin Q2 => q \in S
              /\ q \in S2 => q \in S
    PROVE  FrameInv(F, Q2, S2, n2)
<1>1. F.flip \in Int /\ (F.kind = "flip" => F.flip \in Flips /\ F.crtc \in Crtcs)
  <2>1. CASE F = NoFrame
    BY <2>1 DEF NoFrame
  <2>2. CASE F \in [kind : {"flip"}, flip : Flips, crtc : Crtcs, ran : {FALSE}]
    BY <2>2, PageFlipAssumption DEF Flips
  <2>3. CASE F \in [kind : {"events"}, flip : 0..MaxFlips, crtc : {0}, ran : BOOLEAN]
    BY <2>3, PageFlipAssumption
  <2>4. QED
    BY <2>1, <2>2, <2>3 DEF Frame
<1>2. F.flip <= n2
  BY <1>1 DEF FrameInv
<1>3. F.kind = "events" /\ F.flip # 0 => \A q \in Q2 : q.flip # F.flip
  BY DEF FrameInv
<1>4. ASSUME F.kind = "flip"
      PROVE  /\ [flip |-> F.flip, crtc |-> F.crtc] \in Q2
             /\ \A q \in Carrier : q.flip = F.flip =>
                  /\ q.crtc >= F.crtc => q \notin S2
                  /\ q.crtc > F.crtc => q \notin Q2
  <2> DEFINE e == [flip |-> F.flip, crtc |-> F.crtc]
  <2>1. e \in Carrier /\ e.flip = F.flip /\ e.crtc = F.crtc /\ F.crtc >= F.crtc
    BY <1>1, <1>4, PageFlipAssumption DEF Carrier, Crtcs
  <2>2. /\ e \in Q
        /\ \A q \in Carrier : q.flip = F.flip =>
              /\ q.crtc >= F.crtc => q \notin S
              /\ q.crtc > F.crtc => q \notin Q
    BY <1>4 DEF FrameInv
  <2>3. e \notin S
    BY <2>1, <2>2
  <2>4. e \in Q2
    BY <2>1, <2>2, <2>3
  <2>5. QED
    BY <2>2, <2>4
<1>5. QED
  BY <1>2, <1>3, <1>4 DEF FrameInv

\* Nothing is on the stack, linked or submitted.
LEMMA StackInit == Init => StackInv
<1> SUFFICES ASSUME Init PROVE StackInv
  OBVIOUS
<1>1. /\ depth = 0 /\ queue = {} /\ fd = {} /\ batch = {} /\ closed = FALSE
      /\ submitted = [c \in Crtcs |-> None]
  BY DEF Init
<1>2. Sent = {}
  BY <1>1, PageFlipAssumption DEF Sent, Carrier, None, Flips
<1>3. 1..depth = {}
  BY <1>1
<1>4. QED
  BY <1>1, <1>2, <1>3 DEF StackInv

\* The invariant after a step that touches activation t only.
LEMMA StackStep ==
    ASSUME PageFlipTypes, PageFlipTypes', StackInv, NEW t \in Int,
           calls <= calls', closed' => depth' = 0,
           \A d \in 1..depth' : d # t => d \in 1..depth /\ frame'[d] = frame[d],
           t \in 1..depth' =>
              /\ FrameInv(frame'[t], queue', Sent', calls')
              /\ \A d \in 1..depth' : d # t => frame[d].flip = 0
                  \/ frame[d].flip # frame'[t].flip,
           \A q \in Carrier, d \in 1..depth' : d # t /\ q.flip = frame[d].flip =>
              /\ q \in queue' => q \in queue
              /\ q \in queue /\ q \notin queue' => q \in Sent
              /\ q \in Sent' => q \in Sent,
           \A q \in queue' : q.flip <= calls' /\ q.crtc \in on',
           \A q \in Sent' : q.flip <= calls'
    PROVE  StackInv'
<1>1. calls \in Int /\ calls' \in Int /\ queue' \subseteq Carrier /\ depth \in Nat
      /\ depth' \in Nat
  BY PageFlipAssumption DEF PageFlipTypes, Fbs
<1>2. ASSUME NEW d \in 1..depth', d # t PROVE FrameInv(frame'[d], queue', Sent', calls')
  <2>1. frame'[d] = frame[d] /\ FrameInv(frame[d], queue, Sent, calls)
    BY <1>2 DEF StackInv
  <2>2. frame[d] \in Frame
    BY <1>2, PageFlipAssumption DEF PageFlipTypes
  <2>3. \A q \in Carrier : q.flip = frame[d].flip =>
              /\ q \in queue' => q \in queue
              /\ q \in queue /\ q \notin queue' => q \in Sent
              /\ q \in Sent' => q \in Sent
    BY <1>2
  <2>4. QED
    BY <1>1, <2>1, <2>2, <2>3, FrameStep
<1>3. \A d \in 1..depth' : FrameInv(frame'[d], queue', Sent', calls')
  BY <1>2
<1>4. ASSUME NEW d \in 1..depth', NEW e \in 1..depth', frame'[d].flip # 0,
             frame'[d].flip = frame'[e].flip
      PROVE  d = e
  <2>1. CASE d # t /\ e # t
    BY <1>4, <2>1 DEF StackInv
  <2>2. CASE d = t \/ e = t
    BY <1>4, <2>2
  <2>3. QED
    BY <2>1, <2>2
<1>5. QED
  BY <1>3, <1>4 DEF StackInv

\* What was submitted stays submitted while its event waits or is read.
LEMMA SentKept ==
    ASSUME PageFlipTypes, UNCHANGED <<submitted, batch>>, fd' \subseteq fd \cup {Vblank}
    PROVE  Sent' \subseteq Sent
BY PageFlipAssumption DEF Sent, Vblank, Carrier, Flips

\* Reading events takes them off the file descriptor, to dispatch them.
LEMMA StackRead ==
    ASSUME PageFlipTypes, PageFlipTypes', StackInv, NEW E \in SUBSET fd, ReadEvents(E), ~closed,
           UNCHANGED <<on, submitted, queue, calls, closed>>
    PROVE  StackInv'
<1>0. PICK F \in Frame : F = EventFrame(0, FALSE)
  BY FramesTyped
<1>1. /\ depth' = depth + 1 /\ depth' \in 1..MaxDepth /\ frame'[depth'] = F
      /\ \A d \in 1..depth' : d # depth' => d \in 1..depth /\ frame'[d] = frame[d]
  <2>1. Push(F)
    BY <1>0 DEF ReadEvents
  <2>2. /\ depth' = depth + 1 /\ depth' \in 1..MaxDepth /\ frame'[depth + 1] = F
        /\ \A d \in 1..depth : frame'[d] = frame[d]
        /\ \A d \in 1..depth' : d \in 1..depth \/ d = depth + 1
    BY <2>1, Pushed
  <2>3. QED
    BY <2>2
<1>2. Sent' \subseteq Sent
  <2>1. /\ fd' = fd \ E
        /\ batch' = batch \cup {[flip |-> e.flip, crtc |-> e.crtc, at |-> depth + 1] : e \in E}
    BY DEF ReadEvents
  <2>2. ASSUME NEW r \in batch', NEW q \in Carrier, r.flip = q.flip,
               r.crtc = q.crtc PROVE q \in Sent
    <3>1. CASE r \in batch
      BY <2>2, <3>1 DEF Sent
    <3>2. CASE r \notin batch
      <4>1. PICK e \in E : r = [flip |-> e.flip, crtc |-> e.crtc, at |-> depth + 1]
        BY <2>1, <2>2, <3>2
      <4>2. e \in fd /\ e \in Event /\ e.flip = q.flip /\ e.crtc = q.crtc
        BY <2>2, <4>1 DEF PageFlipTypes
      <4>3. e = q
        BY <2>2, <4>2, PageFlipAssumption DEF Event, Carrier, Vblank, Flips
      <4>4. QED
        BY <4>2, <4>3 DEF Sent
    <3>3. QED
      BY <3>1, <3>2
  <2>3. QED
    BY <2>1, <2>2 DEF Sent
<1>3. FrameInv(frame'[depth'], queue', Sent', calls') /\ F.flip = 0
  BY <1>0, <1>1, PageFlipAssumption DEF FrameInv, EventFrame, PageFlipTypes, Fbs
<1>4. depth' \in Int /\ calls <= calls'
  BY <1>1, PageFlipAssumption DEF PageFlipTypes, Fbs
<1>5. \A d \in 1..depth' : d # depth' => frame[d].flip = 0
      \/ frame[d].flip # frame'[depth'].flip
  BY <1>1, <1>3
<1>6. /\ \A q \in queue' : q.flip <= calls' /\ q.crtc \in on'
      /\ \A q \in Sent' : q.flip <= calls'
  BY <1>2 DEF StackInv
<1>7. QED
  BY <1>1, <1>2, <1>3, <1>4, <1>5, <1>6, StackStep

\* A flip that begins is newer than everything linked, submitted or active.
LEMMA StackFlipBegin ==
    ASSUME PageFlipTypes, PageFlipTypes', StackInv, FlipBegin
    PROVE  StackInv'
<1> DEFINE f == calls + 1
           c == NextOn(0)
           q0 == [flip |-> f, crtc |-> c]
<1>1. f \in Flips /\ c \in on /\ c \in Crtcs /\ calls \in Nat
  BY NextOnIs, PageFlipAssumption DEF FlipBegin, PageFlipTypes, Fbs
<1>2. /\ depth' = depth + 1 /\ depth' \in 1..MaxDepth /\ frame'[depth'] = FlipFrame(f, c)
      /\ \A d \in 1..depth' : d # depth' => d \in 1..depth /\ frame'[d] = frame[d]
  <2>1. FlipFrame(f, c) \in Frame
    BY <1>1, FramesTyped
  <2>2. Push(FlipFrame(f, c))
    BY DEF FlipBegin
  <2>3. QED
    BY <2>1, <2>2, Pushed
<1>3. queue' = queue \cup {q0} /\ calls' = f /\ Sent' = Sent /\ on' = on /\ closed' = FALSE
  BY DEF FlipBegin, Sent, CanFlip, PageFlipTypes
<1>4. /\ \A q \in queue : q.flip <= calls /\ q.crtc \in on
      /\ \A q \in Sent : q.flip <= calls
      /\ \A d \in 1..depth : frame[d].flip <= calls
  BY DEF StackInv, FrameInv
<1>a. \A q \in queue : q \in Carrier
  BY DEF PageFlipTypes
<1>5. FrameInv(FlipFrame(f, c), queue', Sent', calls')
  <2>1. q0 \in queue'
    BY <1>3
  <2>2. ASSUME NEW q \in Carrier, q.flip = f
        PROVE  q \notin Sent' /\ (q.crtc > c => q \notin queue')
    <3>1. q \notin Sent /\ q \notin queue
      BY <1>1, <1>4, <2>2
    <3>2. q.crtc > c => q # q0
      BY <1>1, PageFlipAssumption DEF Crtcs
    <3>3. QED
      BY <1>3, <3>1, <3>2
  <2>3. FlipFrame(f, c).kind = "flip" /\ FlipFrame(f, c).flip = f /\ FlipFrame(f, c).crtc = c
    BY DEF FlipFrame
  <2>4. f <= calls'
    BY <1>1, <1>3
  <2>5. QED
    BY <2>1, <2>2, <2>3, <2>4 DEF FrameInv
<1>6. \A d \in 1..depth' : d # depth' => frame[d].flip = 0
      \/ frame[d].flip # frame'[depth'].flip
  BY <1>1, <1>2, <1>4 DEF FlipFrame
<1>7. ASSUME NEW q \in Carrier, NEW d \in 1..depth', d # depth', q.flip = frame[d].flip
      PROVE  q # q0
  BY <1>1, <1>2, <1>4, <1>7
<1>8. /\ \A q \in queue' : q.flip <= calls' /\ q.crtc \in on'
      /\ \A q \in Sent' : q.flip <= calls'
  <2>1. \A q \in Carrier : q.flip \in Int
    BY PageFlipAssumption DEF Carrier, Flips
  <2>2. \A q \in Sent : q \in Carrier
    BY DEF Sent
  <2>3. QED
    BY <1>1, <1>3, <1>4, <1>a, <2>1, <2>2
<1>9. depth' \in Int /\ calls <= calls'
  BY <1>1, <1>2, <1>3
<1>10. QED
  BY <1>2, <1>3, <1>5, <1>6, <1>7, <1>8, <1>9, StackStep

\* drmmode_crtc_flip submits the carrier that was linked, then the loop links
\* the one for the next CRTC, or ends.
LEMMA StackFlipAccepted ==
    ASSUME PageFlipTypes, PageFlipTypes', StackInv, FlipAccepted
    PROVE  StackInv'
<1> DEFINE f == top.flip
           c == top.crtc
           n == NextOn(c)
           q0 == [flip |-> f, crtc |-> c]
<1>1. /\ depth > 0 /\ top.kind = "flip" /\ submitted[c] = None
      /\ submitted' = [submitted EXCEPT ![c] = [flip |-> f, fb |-> fb_id]]
      /\ UNCHANGED <<on, fd, calls, batch, closed>>
  BY DEF FlipAccepted
<1>2. f \in Flips /\ c \in Crtcs /\ depth \in 1..depth /\ depth \in 1..MaxDepth
      /\ calls \in Nat /\ f # 0
  <2>1. f \in Flips /\ c \in Crtcs /\ depth \in 1..depth /\ depth \in 1..MaxDepth
    BY <1>1, TopTyped
  <2>2. calls \in Nat /\ f # 0
    BY <2>1, PageFlipAssumption DEF PageFlipTypes, Fbs, Flips
  <2>3. QED
    BY <2>1, <2>2
<1>3. ASSUME NEW q \in Carrier PROVE q \in Sent' => q \in Sent \/ q = q0
  <2>1. CASE q.crtc = c
    <3>1. submitted'[q.crtc].flip = f
      BY <1>1, <1>2, <2>1 DEF PageFlipTypes
    <3>2. QED
      BY <1>1, <2>1, <3>1 DEF Sent, Carrier
  <2>2. CASE q.crtc # c
    <3>1. submitted'[q.crtc] = submitted[q.crtc]
      BY <1>1, <2>2 DEF PageFlipTypes, Carrier
    <3>2. QED
      BY <1>1, <3>1 DEF Sent
  <2>3. QED
    BY <2>1, <2>2
<1>4. /\ f <= calls /\ q0 \in queue
      /\ \A q \in Carrier : q.flip = f =>
           /\ q.crtc >= c => q \notin Sent
           /\ q.crtc > c => q \notin queue
  BY <1>1, <1>2 DEF StackInv, FrameInv, top
<1>5. \A d \in 1..depth : d # depth => frame[d].flip = 0 \/ frame[d].flip # f
  BY <1>2 DEF StackInv, top
<1>6. \A q \in Sent' : q.flip <= calls'
  <2>1. \A q \in Sent' : q \in Carrier
    BY DEF Sent
  <2>2. QED
    BY <1>1, <1>3, <1>4, <2>1 DEF StackInv
<1>7. ASSUME NEW q \in Carrier, NEW d \in 1..depth, d # depth, q.flip = frame[d].flip
      PROVE  q.flip # f
  <2>1. q.flip # 0
    BY PageFlipAssumption DEF Carrier, Flips
  <2>2. QED
    BY <1>5, <1>7, <2>1
<1>8. CASE n # 0 /\ queue' = queue \cup {[flip |-> f, crtc |-> n]}
           /\ frame' = [frame EXCEPT ![depth] = FlipFrame(f, n)] /\ UNCHANGED depth
  <2> DEFINE q1 == [flip |-> f, crtc |-> n]
  <2>1. n \in on /\ n > c /\ n \in Crtcs /\ n \in Int /\ c \in Int
    <3>1. c \in Int /\ on \subseteq Crtcs
      BY <1>2, PageFlipAssumption DEF PageFlipTypes, Crtcs
    <3>2. n \in on /\ n > c
      BY <1>8, <3>1, NextOnIs
    <3>3. n \in Crtcs
      BY <3>1, <3>2
    <3>4. n \in Int
      BY <3>3, PageFlipAssumption DEF Crtcs
    <3>5. QED
      BY <3>1, <3>2, <3>3, <3>4
  <2>2. FlipFrame(f, n) \in Frame
    BY <1>2, <2>1, FramesTyped
  <2>3. frame'[depth] = FlipFrame(f, n) /\ \A d \in 1..depth : d # depth => frame'[d] = frame[d]
    BY <1>1, <1>8, <2>2, Replaced
  <2>4. FrameInv(FlipFrame(f, n), queue', Sent', calls')
    <3>1. q1 \in queue'
      BY <1>8
    <3>2. ASSUME NEW q \in Carrier, q.flip = f
          PROVE  (q.crtc >= n => q \notin Sent') /\ (q.crtc > n => q \notin queue')
      <4>1. q.crtc \in Int
        BY PageFlipAssumption DEF Carrier, Crtcs
      <4>2. q.crtc >= n => q \notin Sent'
        BY <1>3, <1>4, <2>1, <3>2, <4>1
      <4>3. q.crtc > n => q \notin queue /\ q # q1
        BY <1>4, <2>1, <3>2, <4>1
      <4>4. QED
        BY <1>8, <4>2, <4>3
    <3>3. FlipFrame(f, n).kind = "flip" /\ FlipFrame(f, n).flip = f /\ FlipFrame(f, n).crtc = n
      BY DEF FlipFrame
    <3>4. QED
      BY <1>1, <1>4, <3>1, <3>2, <3>3 DEF FrameInv
  <2>5. \A q \in queue' : q.flip <= calls' /\ q.crtc \in on'
    BY <1>1, <1>4, <1>8, <2>1 DEF StackInv
  <2>6. ASSUME NEW q \in Carrier, NEW d \in 1..depth', d # depth, q.flip = frame[d].flip
        PROVE  /\ q \in queue' => q \in queue
               /\ q \in queue /\ q \notin queue' => q \in Sent
               /\ q \in Sent' => q \in Sent
    <3>1. q # q0 /\ q # q1
      BY <1>7, <1>8, <2>6
    <3>2. QED
      BY <1>3, <1>8, <3>1
  <2>7. \A d \in 1..depth' : d # depth => frame[d].flip = 0
        \/ frame[d].flip # frame'[depth].flip
    BY <1>5, <1>8, <2>3 DEF FlipFrame
  <2>8. closed' => depth' = 0
    BY <1>1, <1>8 DEF StackInv
  <2>9. calls <= calls' /\ depth \in Int /\ depth' = depth
    BY <1>1, <1>2, <1>8, PageFlipAssumption
  <2>10. \A d \in 1..depth' : d # depth => d \in 1..depth /\ frame'[d] = frame[d]
    BY <2>3, <2>9
  <2>11. FrameInv(frame'[depth], queue', Sent', calls')
    BY <2>3, <2>4
  <2>12. QED
    BY <1>6, <2>5, <2>6, <2>7, <2>8, <2>9, <2>10, <2>11, StackStep
<1>9. CASE Pop /\ UNCHANGED queue
  <2>1. depth' = depth - 1 /\ \A d \in 1..depth' : d \in 1..depth /\ d # depth
        /\ frame'[d] = frame[d]
    BY <1>1, <1>9, Popped
  <2>2. \A q \in Carrier, d \in 1..depth' : q.flip = frame[d].flip =>
              /\ q \in queue' => q \in queue
              /\ q \in queue /\ q \notin queue' => q \in Sent
              /\ q \in Sent' => q \in Sent
    BY <1>3, <1>7, <1>9, <2>1
  <2>3. \A q \in queue' : q.flip <= calls' /\ q.crtc \in on'
    BY <1>1, <1>9 DEF StackInv
  <2>4. calls <= calls' /\ 0 \in Int /\ (closed' => depth' = 0) /\ 0 \notin 1..depth'
    BY <1>1, <1>2 DEF StackInv
  <2>5. QED
    BY <1>6, <2>1, <2>2, <2>3, <2>4, StackStep
<1>10. QED
  BY <1>8, <1>9 DEF FlipAccepted

\* ms_drm_abort_seq unlinks a carrier that was never submitted.
LEMMA StackFlipRefused ==
    ASSUME PageFlipTypes, PageFlipTypes', StackInv, FlipRefused
    PROVE  StackInv'
<1> DEFINE f == top.flip
           c == top.crtc
           q0 == [flip |-> f, crtc |-> c]
<1>1. /\ depth > 0 /\ top.kind = "flip" /\ Pop /\ queue' = queue \ {q0}
      /\ UNCHANGED <<on, fd, calls, batch, closed>>
  BY DEF FlipRefused, Undo
<1>2. f \in Flips /\ c \in Crtcs /\ depth \in 1..depth /\ depth \in 1..MaxDepth
      /\ calls \in Nat /\ f # 0
  <2>1. f \in Flips /\ c \in Crtcs /\ depth \in 1..depth /\ depth \in 1..MaxDepth
    BY <1>1, TopTyped
  <2>2. calls \in Nat /\ f # 0
    BY <2>1, PageFlipAssumption DEF PageFlipTypes, Fbs, Flips
  <2>3. QED
    BY <2>1, <2>2
<1>3. Sent' = Sent
  <2>1. \A d \in Crtcs : submitted'[d].flip = submitted[d].flip
    <3>1. drmModeRmFB(fb_id) \/ UNCHANGED displayVars
      BY DEF FlipRefused, Undo
    <3>2. QED
      BY <3>1, RmFBTypes DEF displayVars
  <2>2. QED
    BY <1>1, <2>1 DEF Sent, Carrier
<1>4. depth' = depth - 1 /\ \A d \in 1..depth' : d \in 1..depth /\ d # depth
      /\ frame'[d] = frame[d]
  BY <1>1, Popped
<1>5. ASSUME NEW d \in 1..depth', NEW q \in Carrier, q.flip = frame[d].flip PROVE q # q0
  BY <1>2, <1>4, <1>5 DEF StackInv, top
<1>6. \A q \in Carrier, d \in 1..depth' : q.flip = frame[d].flip =>
              /\ q \in queue' => q \in queue
              /\ q \in queue /\ q \notin queue' => q \in Sent
              /\ q \in Sent' => q \in Sent
  BY <1>1, <1>3, <1>5
<1>7. /\ \A q \in queue' : q.flip <= calls' /\ q.crtc \in on'
      /\ \A q \in Sent' : q.flip <= calls'
  BY <1>1, <1>3 DEF StackInv
<1>8. calls <= calls' /\ 0 \in Int /\ (closed' => depth' = 0) /\ 0 \notin 1..depth'
  BY <1>1, <1>2 DEF StackInv
<1>9. QED
  BY <1>4, <1>6, <1>7, <1>8, StackStep

\* A handler or drmHandleEvent goes on inside the top activation, which becomes F.
LEMMA StackReplaced ==
    ASSUME PageFlipTypes, PageFlipTypes', StackInv, depth > 0,
           NEW F \in Frame, frame' = [frame EXCEPT ![depth] = F], F.kind = "events",
           UNCHANGED <<depth, on, calls, closed>>,
           queue' \subseteq queue, \A q \in queue : q \notin queue' => q \in Sent,
           Sent' \subseteq Sent, F.flip <= calls,
           F.flip # 0 => /\ \A q \in queue' : q.flip # F.flip
                         /\ \A d \in 1..depth : frame[d].flip # F.flip
    PROVE  StackInv'
<1>1. depth \in 1..depth /\ frame'[depth] = F /\ \A d \in 1..depth : d # depth
      => frame'[d] = frame[d]
  BY Replaced
<1>2. FrameInv(frame'[depth], queue', Sent', calls')
  BY <1>1 DEF FrameInv
<1>3. /\ \A q \in queue' : q.flip <= calls' /\ q.crtc \in on'
      /\ \A q \in Sent' : q.flip <= calls'
      /\ closed' => depth' = 0
  BY DEF StackInv
<1>4. calls <= calls' /\ depth \in Int /\ depth' = depth
  BY PageFlipAssumption DEF PageFlipTypes, Fbs
<1>5. \A d \in 1..depth' : d # depth => d \in 1..depth /\ frame'[d] = frame[d]
  BY <1>1, <1>4
<1>6. \A d \in 1..depth' : d # depth => frame[d].flip = 0 \/ frame[d].flip # frame'[depth].flip
  BY <1>1, <1>4
<1>7. \A q \in Carrier, d \in 1..depth' : d # depth /\ q.flip = frame[d].flip =>
              /\ q \in queue' => q \in queue
              /\ q \in queue /\ q \notin queue' => q \in Sent
              /\ q \in Sent' => q \in Sent
  OBVIOUS
<1>8. QED
  BY <1>2, <1>3, <1>4, <1>5, <1>6, <1>7, StackStep

\* A dispatched carrier is one that was submitted; the last one leaves no other
\* activation of its flip.
LEMMA StackDispatch ==
    ASSUME PageFlipTypes, PageFlipTypes', StackInv, RefCount, NEW r \in batch, Dispatch(r)
    PROVE  StackInv'
<1> DEFINE e == [flip |-> r.flip, crtc |-> r.crtc]
<1>1. /\ depth > 0 /\ batch' = batch \ {r}
      /\ UNCHANGED <<on, fd, submitted, depth, calls, closed>>
  BY DEF Dispatch, ms_pageflip_handler, displayVars
<1>2. Sent' \subseteq Sent
  BY <1>1 DEF Sent
<1>3. \A q \in queue : q \in Carrier /\ q.flip <= calls
  BY DEF PageFlipTypes, StackInv
<1>4. calls \in Nat
  BY PageFlipAssumption DEF PageFlipTypes, Fbs
<1>5. ASSUME NEW F \in Frame, F.flip = 0, F.kind = "events",
             frame' = [frame EXCEPT ![depth] = F],
             queue' \subseteq queue, \A q \in queue : q \notin queue' => q \in Sent
      PROVE  StackInv'
  <2>1. UNCHANGED <<depth, on, calls, closed>> /\ F.flip <= calls
    BY <1>1, <1>4, <1>5
  <2>2. F.flip # 0 => /\ \A q \in queue' : q.flip # F.flip
                     /\ \A d \in 1..depth : frame[d].flip # F.flip
    BY <1>5
  <2>3. QED
    BY <1>1, <1>2, <1>5, <2>1, <2>2, StackReplaced
<1>6. CASE e \in queue /\ queue' = queue \ {e} /\ ms_pageflip_handler(r.flip)
  <2>1. e \in Carrier /\ r.flip <= calls /\ r.flip \in Flips
    BY <1>3, <1>6 DEF Carrier
  <2>2. e \in Sent
    BY <2>1 DEF Sent
  <2>3. CASE flip_count[r.flip] = 1
    <3>0. r.flip \in 0..MaxFlips
      BY <2>1, PageFlipAssumption DEF Flips
    <3>1. PICK F \in Frame : F = EventFrame(r.flip, TRUE)
      BY <3>0, FramesTyped
    <3>2. frame' = [frame EXCEPT ![depth] = F]
      BY <1>6, <2>3, <3>1 DEF ms_pageflip_handler
    <3>3. Carriers(r.flip) = {e} /\ Activations(r.flip) = {}
      <4>1. flip_count[r.flip] = Cardinality(Carriers(r.flip)) + Cardinality(Activations(r.flip))
        BY <2>1 DEF RefCount
      <4>2. Cardinality(Carriers(r.flip)) = 1 /\ Cardinality(Activations(r.flip)) = 0
        BY <1>6, <2>3, <4>1, CountsMean
      <4>3. QED
        BY <1>6, <4>2, CountsMean
    <3>4. \A q \in queue' : q.flip # r.flip
      BY <1>6, <3>3 DEF Carriers
    <3>5. \A d \in 1..depth : frame[d].flip # r.flip
      BY <3>3 DEF Activations
    <3>6. F.flip = r.flip /\ F.kind = "events"
      BY <3>1 DEF EventFrame
    <3>7. queue' \subseteq queue /\ \A q \in queue : q \notin queue' => q \in Sent
      BY <1>6, <2>2
    <3>8. QED
      BY <1>1, <1>2, <2>1, <3>2, <3>4, <3>5, <3>6, <3>7, StackReplaced
  <2>4. CASE flip_count[r.flip] # 1
    <3>1. PICK F \in Frame : F = EventFrame(0, TRUE)
      BY FramesTyped
    <3>2. frame' = [frame EXCEPT ![depth] = F] /\ F.flip = 0 /\ F.kind = "events"
      BY <1>6, <2>4, <3>1 DEF ms_pageflip_handler, EventFrame
    <3>3. QED
      BY <1>5, <1>6, <2>2, <3>2
  <2>5. QED
    BY <2>3, <2>4
<1>7. CASE frame' = [frame EXCEPT ![depth] = EventFrame(0, e = Vblank)] /\ UNCHANGED queue
  <2>1. (e = Vblank) = TRUE \/ (e = Vblank) = FALSE
    OBVIOUS
  <2>2. EventFrame(0, e = Vblank) \in Frame
    BY <2>1, FramesTyped
  <2>3. PICK F \in Frame : F = EventFrame(0, e = Vblank)
    BY <2>2
  <2>4. frame' = [frame EXCEPT ![depth] = F] /\ F.flip = 0 /\ F.kind = "events"
    BY <1>7, <2>3 DEF EventFrame
  <2>5. QED
    BY <1>5, <1>7, <2>4
<1>8. QED
  BY <1>6, <1>7 DEF Dispatch

\* event_handler returns: its activation is no longer about the flip.
LEMMA StackHandlerReturns ==
    ASSUME PageFlipTypes, PageFlipTypes', StackInv, HandlerReturns
    PROVE  StackInv'
<1>1. /\ depth > 0 /\ drmModeRmFB(old_fb_id[top.flip])
      /\ frame' = [frame EXCEPT ![depth] = EventFrame(0, FALSE)]
      /\ UNCHANGED <<on, fd, batch, depth, calls, closed, queue>>
  BY DEF HandlerReturns
<1>2. PICK F \in Frame : F = EventFrame(0, FALSE)
  BY FramesTyped
<1>3. frame' = [frame EXCEPT ![depth] = F] /\ F.flip = 0 /\ F.kind = "events"
  BY <1>1, <1>2 DEF EventFrame
<1>4. Sent' = Sent
  <2>1. \A d \in Crtcs : submitted'[d].flip = submitted[d].flip
    BY <1>1, RmFBTypes
  <2>2. QED
    BY <1>1, <2>1 DEF Sent, Carrier
<1>5. calls \in Nat
  BY PageFlipAssumption DEF PageFlipTypes, Fbs
<1>6. F.flip <= calls /\ (F.flip # 0 => /\ \A q \in queue' : q.flip # F.flip
                                       /\ \A d \in 1..depth : frame[d].flip # F.flip)
  BY <1>3, <1>5
<1>7. QED
  BY <1>1, <1>3, <1>4, <1>6, StackReplaced

\* drmHandleEvent returns after the last of its events.
LEMMA StackEventsDone ==
    ASSUME PageFlipTypes, PageFlipTypes', StackInv, EventsDone
    PROVE  StackInv'
<1>1. /\ depth > 0 /\ Pop
      /\ UNCHANGED <<on, fd, batch, submitted, calls, closed, queue>>
  BY DEF EventsDone, displayVars, flipVars
<1>2. depth' = depth - 1 /\ \A d \in 1..depth' : d \in 1..depth /\ frame'[d] = frame[d]
  BY <1>1, Popped
<1>3. Sent' = Sent
  BY <1>1 DEF Sent
<1>4. /\ \A q \in queue' : q.flip <= calls' /\ q.crtc \in on'
      /\ \A q \in Sent' : q.flip <= calls'
      /\ closed' => depth' = 0
  BY <1>1, <1>3 DEF StackInv
<1>5. calls <= calls' /\ 0 \in Int /\ 0 \notin 1..depth'
  BY <1>1, PageFlipAssumption DEF PageFlipTypes, Fbs
<1>6. QED
  BY <1>1, <1>2, <1>3, <1>4, <1>5, StackStep

\* Steps that leave the stack and the carriers alone.
LEMMA StackSame ==
    ASSUME PageFlipTypes, PageFlipTypes', StackInv,
           UNCHANGED <<on, depth, frame, queue, closed>>, calls <= calls', Sent' \subseteq Sent
    PROVE  StackInv'
<1>1. calls \in Nat /\ calls' \in Nat
  BY PageFlipAssumption DEF PageFlipTypes, Fbs
<1>2. /\ \A q \in queue' : q.flip <= calls' /\ q.crtc \in on'
      /\ \A q \in Sent' : q.flip <= calls'
      /\ closed' => depth' = 0
  <2>1. \A q \in Carrier : q.flip \in Int
    BY PageFlipAssumption DEF Carrier, Flips
  <2>2. /\ \A q \in queue : q \in Carrier
        /\ \A q \in Sent : q \in Carrier
    BY DEF PageFlipTypes, Sent
  <2>3. QED
    BY <1>1, <2>1, <2>2 DEF StackInv
<1>3. 0 \in Int /\ 0 \notin 1..depth'
  OBVIOUS
<1>4. QED
  BY <1>2, <1>3, StackStep

\* CloseScreen unlinks every carrier, with nothing on the stack.
LEMMA StackCloses ==
    ASSUME PageFlipTypes, PageFlipTypes', StackInv, CloseScreen
    PROVE  StackInv'
<1>1. depth = 0 /\ depth' = 0 /\ queue' = {} /\ UNCHANGED <<on, fd, batch, submitted, calls>>
  BY DEF CloseScreen, stackVars, displayVars
<1>2. Sent' = Sent
  BY <1>1 DEF Sent
<1>3. QED
  BY <1>1, <1>2 DEF StackInv

\* A flip that happens turns a submitted carrier into an event.
LEMMA KernelFlipsSent ==
    ASSUME PageFlipTypes, NEW c \in Crtcs, KernelFlips(c)
    PROVE  Sent' \subseteq Sent
<1>1. /\ submitted' = [submitted EXCEPT ![c] = None] /\ batch' = batch
      /\ fd' = fd \cup {[flip |-> submitted[c].flip, crtc |-> c]}
  BY DEF KernelFlips, stackVars
<1>2. ASSUME NEW q \in Carrier, q \in Sent' PROVE q \in Sent
  <2>1. q.crtc \in Crtcs /\ q.flip # 0
    BY PageFlipAssumption DEF Carrier, Flips
  <2>2. submitted'[q.crtc].flip = q.flip => submitted[q.crtc].flip = q.flip
    BY <1>1, <2>1 DEF PageFlipTypes, None
  <2>3. q = [flip |-> submitted[c].flip, crtc |-> c] => submitted[q.crtc].flip = q.flip
    BY <2>1
  <2>4. QED
    BY <1>1, <1>2, <2>2, <2>3 DEF Sent
<1>3. QED
  BY <1>2 DEF Sent

\* Every step keeps stack, list and kernel in agreement.
LEMMA StackInvStep == PageFlipTypes /\ StackInv /\ RefCount /\ [Next]_vars => StackInv'
<1> SUFFICES ASSUME PageFlipTypes, StackInv, RefCount, [Next]_vars PROVE StackInv'
  OBVIOUS
<1>0. PageFlipTypes'
  BY TypesStep
<1>1. CASE FlipImpossible
  <2>1. calls \in Nat /\ calls' = calls + 1
    BY <1>1, PageFlipAssumption DEF FlipImpossible, PageFlipTypes, Fbs
  <2>2. UNCHANGED <<on, depth, frame, queue, closed>> /\ Sent' = Sent
    BY <1>1 DEF FlipImpossible, displayVars, stackVars, Sent
  <2>3. QED
    BY <1>0, <2>1, <2>2, StackSame
<1>2. CASE FlipBegin
  BY <1>0, <1>2, StackFlipBegin
<1>3. CASE FlipAccepted
  BY <1>0, <1>3, StackFlipAccepted
<1>4. CASE FlipFlush
  <2>1. PICK E \in SUBSET fd : ReadEvents(E)
    BY <1>4 DEF FlipFlush
  <2>2. ~closed /\ UNCHANGED <<on, submitted, queue, calls, closed>>
    BY <1>4 DEF FlipFlush, displayVars, flipVars, StackInv
  <2>3. QED
    BY <1>0, <2>1, <2>2, StackRead
<1>5. CASE FlipRefused
  BY <1>0, <1>5, StackFlipRefused
<1>6. CASE ms_drm_socket_handler
  <2>1. PICK E \in SUBSET fd : ReadEvents(E)
    BY <1>6 DEF ms_drm_socket_handler
  <2>2. ~closed /\ UNCHANGED <<on, submitted, queue, calls, closed>>
    BY <1>6 DEF ms_drm_socket_handler, displayVars, flipVars
  <2>3. QED
    BY <1>0, <2>1, <2>2, StackRead
<1>7. ASSUME NEW r \in batch, Dispatch(r) PROVE StackInv'
  BY <1>0, <1>7, StackDispatch
<1>8. CASE HandlerReturns
  BY <1>0, <1>8, StackHandlerReturns
<1>9. CASE EventsDone
  BY <1>0, <1>9, StackEventsDone
<1>a. calls <= calls
  BY PageFlipAssumption DEF PageFlipTypes, Fbs
<1>10. ASSUME NEW c \in Crtcs, KernelFlips(c) PROVE StackInv'
  <2>1. UNCHANGED <<on, depth, frame, queue, closed, calls>>
    BY <1>10 DEF KernelFlips, flipVars, stackVars
  <2>2. QED
    BY <1>0, <1>a, <1>10, <2>1, KernelFlipsSent, StackSame
<1>11. CASE KernelVblank
  <2>1. UNCHANGED <<on, depth, frame, queue, closed, calls>> /\ Sent' \subseteq Sent
    BY <1>11, SentKept DEF KernelVblank, flipVars, stackVars, displayVars
  <2>2. QED
    BY <1>0, <1>a, <2>1, StackSame
<1>12. CASE CloseScreen
  BY <1>0, <1>12, StackCloses
<1>13. CASE UNCHANGED vars
  <2>1. UNCHANGED <<on, depth, frame, queue, closed, calls>> /\ Sent' = Sent
    BY <1>13 DEF vars, flipVars, stackVars, displayVars, Sent
  <2>2. QED
    BY <1>0, <1>a, <2>1, StackSame
<1>14. QED
  BY <1>1, <1>2, <1>3, <1>4, <1>5, <1>6, <1>7, <1>8, <1>9, <1>10, <1>11, <1>12, <1>13
     DEF Next, ServerStep

-----------------------------------------------------------------------------
(* Every reference to a flipdata is counted *)

\* The counts do not change when neither the carriers nor the stack do.
LEMMA CountsKept ==
    /\ UNCHANGED queue => \A f : Cardinality(Carriers(f))' = Cardinality(Carriers(f))
    /\ UNCHANGED <<depth, frame>>
        => \A f : Cardinality(Activations(f))' = Cardinality(Activations(f))
<1>1. ASSUME UNCHANGED queue PROVE \A f : Carriers(f)' = Carriers(f)
  BY <1>1 DEF Carriers
<1>2. ASSUME UNCHANGED <<depth, frame>> PROVE \A f : Activations(f)' = Activations(f)
  BY <1>2 DEF Activations
<1>3. QED
  BY <1>1, <1>2

\* An activation of drmHandleEvent that is pushed or rewritten is no reference.
LEMMA ReadKeepsRefs ==
    ASSUME PageFlipTypes, RefCount, NEW E \in SUBSET fd, ReadEvents(E),
           UNCHANGED <<queue, flip_count, live>>
    PROVE  RefCount'
<1>1. PICK F \in Frame : F = EventFrame(0, FALSE)
  BY FramesTyped
<1>2. Push(F) /\ F.flip = 0
  BY <1>1 DEF ReadEvents, EventFrame
<1>3. ASSUME NEW f \in Flips
      PROVE  Cardinality(Activations(f))' = Cardinality(Activations(f))
  <2>1. F.flip # f
    BY <1>2, PageFlipAssumption DEF Flips
  <2>2. Cardinality(Activations(f))' = Cardinality(Activations(f)) + 0
    BY <1>2, <2>1, PushCounts
  <2>3. Cardinality(Activations(f)) \in Nat
    BY CountsMean
  <2>4. QED
    BY <2>2, <2>3
<1>4. QED
  BY <1>3, CountsKept DEF RefCount

\* A new flipdata has two references: the activation and the first carrier.
LEMMA FlipBeginRefs ==
    ASSUME PageFlipTypes, StackInv, RefCount, FlipBegin
    PROVE  RefCount'
<1> DEFINE f == calls + 1
           c == NextOn(0)
           q0 == [flip |-> f, crtc |-> c]
<1>1. f \in Flips /\ c \in Crtcs /\ calls \in Nat
  BY NextOnIs, PageFlipAssumption DEF FlipBegin, PageFlipTypes, Fbs
<1>2. /\ Push(FlipFrame(f, c)) /\ queue' = queue \cup {q0}
      /\ flip_count' = [flip_count EXCEPT ![f] = 2] /\ live' = live \cup {f}
  BY DEF FlipBegin
<1>3. PICK F \in Frame : F = FlipFrame(f, c)
  BY <1>1, FramesTyped
<1>4. Push(F) /\ F.flip = f
  BY <1>2, <1>3 DEF FlipFrame
<1>5. q0 \in Carrier /\ q0.flip = f
  BY <1>1 DEF Carrier
<1>6. q0 \notin queue /\ Carriers(f) = {} /\ Activations(f) = {}
  <2>1. \A q \in queue : q.flip # f
    BY <1>1 DEF StackInv
  <2>2. \A d \in 1..depth : frame[d].flip # f
    <3>1. \A d \in 1..depth : frame[d].flip <= calls
      BY DEF StackInv, FrameInv
    <3>2. QED
      BY <1>1, <3>1
  <2>3. QED
    BY <1>5, <2>1, <2>2 DEF Carriers, Activations
<1> HIDE DEF f, c, q0
<1>7. ASSUME NEW g \in Flips
      PROVE  flip_count'[g] = Cardinality(Carriers(g))' + Cardinality(Activations(g))'
             /\ (g \in live' <=> flip_count'[g] > 0)
  <2>1. /\ Cardinality(Carriers(g))' = Cardinality(Carriers(g)) + IF f = g THEN 1 ELSE 0
        /\ Cardinality(Activations(g))' = Cardinality(Activations(g)) + IF f = g THEN 1 ELSE 0
    <3>1. Cardinality(Carriers(g))' = Cardinality(Carriers(g)) + IF f = g THEN 1 ELSE 0
      BY <1>2, <1>5, <1>6, LinkCounts
    <3>2. Cardinality(Activations(g))' = Cardinality(Activations(g)) + IF f = g THEN 1 ELSE 0
      BY <1>4, PushCounts
    <3>3. QED
      BY <3>1, <3>2
  <2>2. /\ Cardinality(Carriers(g)) \in Nat /\ Cardinality(Activations(g)) \in Nat
        /\ g = f => Cardinality(Carriers(g)) = 0 /\ Cardinality(Activations(g)) = 0
    <3>1. Cardinality(Carriers(f)) = 0 /\ Cardinality(Activations(f)) = 0
      BY <1>6, FS_EmptySet
    <3>2. Cardinality(Carriers(g)) \in Nat /\ Cardinality(Activations(g)) \in Nat
      BY CountsMean
    <3>3. QED
      BY <3>1, <3>2
  <2>3. /\ flip_count[g] = Cardinality(Carriers(g)) + Cardinality(Activations(g))
        /\ g \in live <=> flip_count[g] > 0
    BY DEF RefCount
  <2>4. flip_count'[g] = IF g = f THEN 2 ELSE flip_count[g]
    BY <1>2 DEF PageFlipTypes
  <2>5. g \in live' <=> g \in live \/ g = f
    BY <1>2
  <2>6. CASE g = f
    BY <2>1, <2>2, <2>4, <2>5, <2>6
  <2>7. CASE g # f
    BY <2>1, <2>2, <2>3, <2>4, <2>5, <2>7
  <2>8. QED
    BY <2>6, <2>7
<1>8. QED
  BY <1>7 DEF RefCount

\* The loop takes a reference per carrier, and drops its own at the end, when the
\* carrier just submitted is still linked.
LEMMA FlipAcceptedRefs ==
    ASSUME PageFlipTypes, StackInv, RefCount, FlipAccepted
    PROVE  RefCount'
<1> DEFINE f == top.flip
           c == top.crtc
           n == NextOn(c)
           q0 == [flip |-> f, crtc |-> c]
           q1 == [flip |-> f, crtc |-> n]
<1>1. depth > 0 /\ top.kind = "flip" /\ live' = live
  BY DEF FlipAccepted
<1>2. f \in Flips /\ c \in Crtcs /\ depth \in 1..depth
  BY <1>1, TopTyped
<1>3. /\ q0 \in queue
      /\ \A q \in Carrier : q.flip = f /\ q.crtc > c => q \notin queue
  BY <1>1, <1>2 DEF StackInv, FrameInv, top
<1>4. ASSUME NEW g \in Flips
      PROVE  /\ flip_count[g] = Cardinality(Carriers(g)) + Cardinality(Activations(g))
             /\ g \in live <=> flip_count[g] > 0
             /\ Cardinality(Carriers(g)) \in Nat /\ Cardinality(Activations(g)) \in Nat
             /\ g = f => Cardinality(Carriers(g)) >= 1 /\ Cardinality(Activations(g)) >= 1
  <2>1. q0.flip = f /\ frame[depth].flip = f
    BY DEF top
  <2>2. /\ Cardinality(Carriers(g)) \in Nat /\ Cardinality(Activations(g)) \in Nat
        /\ g = f => Cardinality(Carriers(g)) >= 1 /\ Cardinality(Activations(g)) >= 1
    BY <1>2, <1>3, <2>1, CountsMean
  <2>3. QED
    BY <2>2 DEF RefCount
<1>5. CASE /\ n # 0 /\ queue' = queue \cup {q1}
           /\ flip_count' = [flip_count EXCEPT ![f] = @ + 1]
           /\ frame' = [frame EXCEPT ![depth] = FlipFrame(f, n)] /\ UNCHANGED depth
  <2>1. n \in on /\ n > c /\ n \in Crtcs
    <3>1. c \in Int /\ on \subseteq Crtcs
      BY <1>2, PageFlipAssumption DEF PageFlipTypes, Crtcs
    <3>2. QED
      BY <1>5, <3>1, NextOnIs
  <2>2. q1 \in Carrier /\ q1 \notin queue /\ q1.flip = f
    BY <1>2, <1>3, <2>1 DEF Carrier
  <2>3. PICK F \in Frame : F = FlipFrame(f, n)
    BY <1>2, <2>1, FramesTyped
  <2>4. frame' = [frame EXCEPT ![depth] = F] /\ F.flip = f
    BY <1>5, <2>3 DEF FlipFrame
  <2>a. top.flip = f
    OBVIOUS
  <2>b. queue' = queue \cup {q1} /\ flip_count' = [flip_count EXCEPT ![f] = @ + 1]
    BY <1>5
  <2> HIDE DEF f, c, n, q0, q1
  <2>5. ASSUME NEW g \in Flips
        PROVE  flip_count'[g] = Cardinality(Carriers(g))' + Cardinality(Activations(g))'
               /\ (g \in live' <=> flip_count'[g] > 0)
    <3>1. Cardinality(Carriers(g))' = Cardinality(Carriers(g)) + IF f = g THEN 1 ELSE 0
      BY <2>b, <2>2, LinkCounts
    <3>2. Cardinality(Activations(g))' =
             (Cardinality(Activations(g)) - IF f = g THEN 1 ELSE 0) + IF f = g THEN 1 ELSE 0
      BY <1>1, <1>5, <2>4, <2>a, ReplaceCounts
    <3>3. flip_count'[g] = IF g = f THEN flip_count[g] + 1 ELSE flip_count[g]
      BY <2>b DEF PageFlipTypes
    <3>4. QED
      BY <1>1, <1>4, <3>1, <3>2, <3>3
  <2>6. QED
    BY <2>5 DEF RefCount
<1>6. CASE flip_count' = [flip_count EXCEPT ![f] = @ - 1] /\ Pop /\ UNCHANGED queue
  <2>1. ASSUME NEW g \in Flips
        PROVE  flip_count'[g] = Cardinality(Carriers(g))' + Cardinality(Activations(g))'
               /\ (g \in live' <=> flip_count'[g] > 0)
    <3>1. Cardinality(Carriers(g))' = Cardinality(Carriers(g))
      BY <1>6, CountsKept
    <3>2. Cardinality(Activations(g))' = Cardinality(Activations(g)) - IF f = g THEN 1 ELSE 0
      BY <1>1, <1>6, PopCounts
    <3>3. flip_count'[g] = IF g = f THEN flip_count[g] - 1 ELSE flip_count[g]
      BY <1>6 DEF PageFlipTypes
    <3> HIDE DEF f
    <3>4. QED
      BY <1>1, <1>4, <3>1, <3>2, <3>3
  <2>2. QED
    BY <2>1 DEF RefCount
<1>7. QED
  BY <1>5, <1>6 DEF FlipAccepted

\* After a refusal the carrier's reference and the loop's are dropped.
LEMMA FlipRefusedRefs ==
    ASSUME PageFlipTypes, StackInv, RefCount, FlipRefused
    PROVE  RefCount'
<1> DEFINE f == top.flip
           q0 == [flip |-> f, crtc |-> top.crtc]
<1>1. /\ depth > 0 /\ top.kind = "flip" /\ Pop /\ queue' = queue \ {q0}
      /\ live' = IF flip_count[f] - 1 = 1 THEN live \ {f} ELSE live
      /\ flip_count' = [flip_count EXCEPT ![f] = (flip_count[f] - 1) - 1]
  BY DEF FlipRefused, Undo
<1>2. f \in Flips /\ depth \in 1..depth
  BY <1>1, TopTyped
<1>3. q0 \in queue /\ q0.flip = f /\ frame[depth].flip = f
  BY <1>1, <1>2 DEF StackInv, FrameInv, top
<1>4. ASSUME NEW g \in Flips
      PROVE  flip_count'[g] = Cardinality(Carriers(g))' + Cardinality(Activations(g))'
             /\ (g \in live' <=> flip_count'[g] > 0)
  <2>1. /\ flip_count[g] = Cardinality(Carriers(g)) + Cardinality(Activations(g))
        /\ g \in live <=> flip_count[g] > 0
    BY DEF RefCount
  <2>2. /\ Cardinality(Carriers(g)) \in Nat /\ Cardinality(Activations(g)) \in Nat
        /\ g = f => Cardinality(Carriers(g)) >= 1 /\ Cardinality(Activations(g)) >= 1
    BY <1>2, <1>3, CountsMean
  <2>3. Cardinality(Carriers(g))' = Cardinality(Carriers(g)) - IF f = g THEN 1 ELSE 0
    BY <1>1, <1>3, UnlinkCounts
  <2>4. Cardinality(Activations(g))' = Cardinality(Activations(g)) - IF f = g THEN 1 ELSE 0
    BY <1>1, PopCounts
  <2>5. flip_count'[g] = IF g = f THEN (flip_count[g] - 1) - 1 ELSE flip_count[g]
    BY <1>1 DEF PageFlipTypes
  <2>6. live' = IF flip_count[f] - 1 = 1 THEN live \ {f} ELSE live
    BY <1>1
  <2> HIDE DEF f
  <2>7. QED
    BY <2>1, <2>2, <2>3, <2>4, <2>5, <2>6
<1>5. QED
  BY <1>4 DEF RefCount

\* A dispatched carrier drops its reference, or, being the last, keeps it while
\* event_handler runs.
LEMMA DispatchRefs ==
    ASSUME PageFlipTypes, RefCount, NEW r \in batch, Dispatch(r)
    PROVE  RefCount'
<1> DEFINE f == r.flip
           q0 == [flip |-> r.flip, crtc |-> r.crtc]
<1>1. depth > 0 /\ top.flip = 0 /\ UNCHANGED depth
  BY DEF Dispatch
<1>2. ASSUME NEW g \in Flips
      PROVE  /\ flip_count[g] = Cardinality(Carriers(g)) + Cardinality(Activations(g))
             /\ g \in live <=> flip_count[g] > 0
             /\ Cardinality(Carriers(g)) \in Nat /\ Cardinality(Activations(g)) \in Nat
  BY CountsMean DEF RefCount
<1>3. ASSUME NEW F \in Frame, frame' = [frame EXCEPT ![depth] = F], NEW g \in Flips
      PROVE  Cardinality(Activations(g))' = Cardinality(Activations(g)) + IF F.flip = g THEN 1 ELSE 0
  <2>1. top.flip # g
    BY <1>1, <1>3, PageFlipAssumption DEF Flips
  <2>2. Cardinality(Activations(g))' =
             (Cardinality(Activations(g)) - 0) + IF F.flip = g THEN 1 ELSE 0
    BY <1>1, <1>3, <2>1, ReplaceCounts
  <2>3. QED
    BY <1>2, <1>3, <2>2
<1>4. CASE q0 \in queue /\ queue' = queue \ {q0} /\ ms_pageflip_handler(r.flip)
  <2>1. f \in Flips /\ q0.flip = f
    BY <1>4 DEF PageFlipTypes, Carrier
  <2>2. Cardinality(Carriers(f)) >= 1
    BY <1>4, <2>1, CountsMean
  <2>3. ASSUME NEW g \in Flips
        PROVE  Cardinality(Carriers(g))' = Cardinality(Carriers(g)) - IF f = g THEN 1 ELSE 0
    BY <1>4, <2>1, UnlinkCounts
  <2>4. CASE flip_count[f] = 1
    <3>0. r.flip \in 0..MaxFlips
      BY <2>1, PageFlipAssumption DEF Flips
    <3>1. PICK F \in Frame : F = EventFrame(f, TRUE)
      BY <3>0, FramesTyped
    <3>2. frame' = [frame EXCEPT ![depth] = F] /\ F.flip = f
      BY <1>4, <2>4, <3>1 DEF ms_pageflip_handler, EventFrame
    <3>3. UNCHANGED <<flip_count, live>>
      BY <1>4, <2>4 DEF ms_pageflip_handler
    <3> HIDE DEF f
    <3>4. ASSUME NEW g \in Flips
          PROVE  flip_count'[g] = Cardinality(Carriers(g))' + Cardinality(Activations(g))' /\ (g \in live' <=> flip_count'[g] > 0)
      <4>1. Cardinality(Activations(g))' = Cardinality(Activations(g)) + IF f = g THEN 1 ELSE 0
        BY <1>3, <3>2
      <4>2. QED
        BY <1>2, <2>2, <2>3, <3>3, <4>1
    <3>5. QED
      BY <3>4 DEF RefCount
  <2>5. CASE flip_count[f] # 1
    <3>1. PICK F \in Frame : F = EventFrame(0, TRUE)
      BY FramesTyped
    <3>2. frame' = [frame EXCEPT ![depth] = F] /\ F.flip = 0
      BY <1>4, <2>5, <3>1 DEF ms_pageflip_handler, EventFrame
    <3>3. flip_count' = [flip_count EXCEPT ![f] = @ - 1] /\ live' = live
      BY <1>4, <2>5 DEF ms_pageflip_handler, Unref
    <3> HIDE DEF f
    <3>4. ASSUME NEW g \in Flips
          PROVE  flip_count'[g] = Cardinality(Carriers(g))' + Cardinality(Activations(g))' /\ (g \in live' <=> flip_count'[g] > 0)
      <4>1. F.flip # g
        BY <3>2, PageFlipAssumption DEF Flips
      <4>2. Cardinality(Activations(g))' = Cardinality(Activations(g)) + 0
        BY <1>3, <3>2, <4>1
      <4>3. flip_count'[g] = IF g = f THEN flip_count[g] - 1 ELSE flip_count[g]
        BY <3>3 DEF PageFlipTypes
      <4>4. QED
        BY <1>2, <2>1, <2>2, <2>3, <2>5, <3>3, <4>2, <4>3
    <3>5. QED
      BY <3>4 DEF RefCount
  <2>6. QED
    BY <2>4, <2>5
<1>5. CASE /\ frame' = [frame EXCEPT ![depth] = EventFrame(0, q0 = Vblank)]
           /\ UNCHANGED <<queue, flip_count, live>>
  <2>1. (q0 = Vblank) = TRUE \/ (q0 = Vblank) = FALSE
    OBVIOUS
  <2>2. EventFrame(0, q0 = Vblank) \in Frame
    BY <2>1, FramesTyped
  <2>3. PICK F \in Frame : F = EventFrame(0, q0 = Vblank)
    BY <2>2
  <2>4. frame' = [frame EXCEPT ![depth] = F] /\ F.flip = 0
    BY <1>5, <2>3 DEF EventFrame
  <2>5. ASSUME NEW g \in Flips
        PROVE  flip_count'[g] = Cardinality(Carriers(g))' + Cardinality(Activations(g))'
               /\ (g \in live' <=> flip_count'[g] > 0)
    <3>1. F.flip # g
      BY <2>4, PageFlipAssumption DEF Flips
    <3>2. Cardinality(Activations(g))' = Cardinality(Activations(g)) + 0
      BY <1>3, <2>4, <3>1
    <3>3. Cardinality(Carriers(g))' = Cardinality(Carriers(g))
      BY <1>5, CountsKept
    <3>4. QED
      BY <1>2, <1>5, <3>2, <3>3
  <2>6. QED
    BY <2>5 DEF RefCount
<1>6. QED
  BY <1>4, <1>5 DEF Dispatch

\* ms_pageflip_handler drops the last reference after event_handler returned.
LEMMA HandlerReturnsRefs ==
    ASSUME PageFlipTypes, RefCount, HandlerReturns
    PROVE  RefCount'
<1> DEFINE f == top.flip
<1>1. /\ depth > 0 /\ f # 0 /\ UNCHANGED <<depth, queue>>
      /\ frame' = [frame EXCEPT ![depth] = EventFrame(0, FALSE)]
      /\ flip_count' = [flip_count EXCEPT ![f] = @ - 1]
      /\ live' = IF flip_count[f] = 1 THEN live \ {f} ELSE live
  BY DEF HandlerReturns, Unref
<1>2. f \in 0..MaxFlips /\ depth \in 1..depth
  BY <1>1, TopTyped
<1>3. f \in Flips /\ frame[depth].flip = f
  BY <1>1, <1>2, PageFlipAssumption DEF Flips, top
<1>4. PICK F \in Frame : F = EventFrame(0, FALSE)
  BY FramesTyped
<1>5. frame' = [frame EXCEPT ![depth] = F] /\ F.flip = 0
  BY <1>1, <1>4 DEF EventFrame
<1>6. ASSUME NEW g \in Flips
      PROVE  flip_count'[g] = Cardinality(Carriers(g))' + Cardinality(Activations(g))'
             /\ (g \in live' <=> flip_count'[g] > 0)
  <2>1. /\ flip_count[g] = Cardinality(Carriers(g)) + Cardinality(Activations(g))
        /\ g \in live <=> flip_count[g] > 0
    BY DEF RefCount
  <2>2. /\ Cardinality(Carriers(g)) \in Nat /\ Cardinality(Activations(g)) \in Nat
        /\ g = f => Cardinality(Activations(g)) >= 1
    BY <1>2, <1>3, CountsMean
  <2>3. Cardinality(Carriers(g))' = Cardinality(Carriers(g))
    BY <1>1, CountsKept
  <2>4. F.flip # g
    BY <1>5, PageFlipAssumption DEF Flips
  <2>5. Cardinality(Activations(g))' = (Cardinality(Activations(g)) - IF f = g THEN 1 ELSE 0) + 0
    BY <1>1, <1>5, <2>4, ReplaceCounts
  <2>6. flip_count'[g] = IF g = f THEN flip_count[g] - 1 ELSE flip_count[g]
    BY <1>1 DEF PageFlipTypes
  <2>7. live' = IF flip_count[f] = 1 THEN live \ {f} ELSE live
    BY <1>1
  <2> HIDE DEF f
  <2>8. QED
    BY <2>1, <2>2, <2>3, <2>5, <2>6, <2>7
<1>7. QED
  BY <1>6 DEF RefCount

\* drmHandleEvent holds no reference when it returns.
LEMMA EventsDoneRefs ==
    ASSUME PageFlipTypes, RefCount, EventsDone
    PROVE  RefCount'
<1>1. depth > 0 /\ Pop /\ top.flip = 0 /\ UNCHANGED <<queue, flip_count, live>>
  BY DEF EventsDone, flipVars
<1>2. ASSUME NEW g \in Flips
      PROVE  Cardinality(Activations(g))' = Cardinality(Activations(g))
  <2>1. top.flip # g
    BY <1>1, PageFlipAssumption DEF Flips
  <2>2. Cardinality(Activations(g))' = Cardinality(Activations(g)) - 0
    BY <1>1, <2>1, PopCounts
  <2>3. QED
    BY <2>2, CountsMean
<1>3. QED
  BY <1>1, <1>2, CountsKept DEF RefCount

\* With nothing on the stack, only the carriers hold references.
LEMMA CloseScreenRefs ==
    ASSUME PageFlipTypes, RefCount, CloseScreen
    PROVE  RefCount' /\ live' = {}
<1> DEFINE of(f) == Cardinality({q \in queue : q.flip = f})
<1>1. /\ depth = 0 /\ queue' = {} /\ depth' = 0
      /\ flip_count' = [f \in Flips |-> flip_count[f] - of(f)]
      /\ live' = {f \in live : flip_count[f] # of(f)}
  BY DEF CloseScreen, stackVars
<1>2. ASSUME NEW g \in Flips
      PROVE  flip_count[g] = of(g) /\ of(g) \in Nat
  <2>1. Activations(g) = {}
    BY <1>1 DEF Activations
  <2>2. Cardinality(Activations(g)) = 0 /\ Cardinality(Carriers(g)) \in Nat
    BY <2>1, CountsMean
  <2>3. of(g) = Cardinality(Carriers(g))
    BY CarriersFinite
  <2>4. flip_count[g] = Cardinality(Carriers(g)) + Cardinality(Activations(g))
    BY DEF RefCount
  <2> HIDE DEF of
  <2>5. QED
    BY <2>2, <2>3, <2>4
<1> HIDE DEF of
<1>3. live' = {} /\ \A g \in Flips : flip_count'[g] = 0
  BY <1>1, <1>2 DEF PageFlipTypes
<1>4. \A g \in Flips : Carriers(g)' = {} /\ Activations(g)' = {}
  BY <1>1 DEF Carriers, Activations
<1>5. \A g \in Flips : Cardinality(Carriers(g))' = 0 /\ Cardinality(Activations(g))' = 0
  BY <1>4, FS_EmptySet
<1>6. QED
  BY <1>3, <1>5 DEF RefCount

\* No flip has begun.
LEMMA RefCountInit == Init => RefCount
<1> SUFFICES ASSUME Init PROVE RefCount
  OBVIOUS
<1>1. /\ depth = 0 /\ queue = {} /\ live = {} /\ flip_count = [f \in Flips |-> 0]
  BY DEF Init
<1>2. \A f \in Flips : Carriers(f) = {} /\ Activations(f) = {}
  BY <1>1 DEF Carriers, Activations
<1>3. \A f \in Flips : Cardinality(Carriers(f)) = 0 /\ Cardinality(Activations(f)) = 0
  BY <1>2, FS_EmptySet
<1>4. QED
  BY <1>1, <1>3 DEF RefCount

\* Every step counts the references it takes and drops.
LEMMA RefCountStep == PageFlipTypes /\ StackInv /\ RefCount /\ [Next]_vars => RefCount'
<1> SUFFICES ASSUME PageFlipTypes, StackInv, RefCount, [Next]_vars PROVE RefCount'
  OBVIOUS
<1>0. ASSUME UNCHANGED <<queue, depth, frame, flip_count, live>> PROVE RefCount'
  BY <1>0, CountsKept DEF RefCount
<1>1. CASE FlipImpossible
  BY <1>0, <1>1 DEF FlipImpossible, stackVars
<1>2. CASE FlipBegin
  BY <1>2, FlipBeginRefs
<1>3. CASE FlipAccepted
  BY <1>3, FlipAcceptedRefs
<1>4. CASE FlipFlush
  <2>1. PICK E \in SUBSET fd : ReadEvents(E)
    BY <1>4 DEF FlipFlush
  <2>2. UNCHANGED <<queue, flip_count, live>>
    BY <1>4 DEF FlipFlush, flipVars
  <2>3. QED
    BY <2>1, <2>2, ReadKeepsRefs
<1>5. CASE FlipRefused
  BY <1>5, FlipRefusedRefs
<1>6. CASE ms_drm_socket_handler
  <2>1. PICK E \in SUBSET fd : ReadEvents(E)
    BY <1>6 DEF ms_drm_socket_handler
  <2>2. UNCHANGED <<queue, flip_count, live>>
    BY <1>6 DEF ms_drm_socket_handler, flipVars
  <2>3. QED
    BY <2>1, <2>2, ReadKeepsRefs
<1>7. ASSUME NEW r \in batch, Dispatch(r) PROVE RefCount'
  BY <1>7, DispatchRefs
<1>8. CASE HandlerReturns
  BY <1>8, HandlerReturnsRefs
<1>9. CASE EventsDone
  BY <1>9, EventsDoneRefs
<1>10. ASSUME NEW c \in Crtcs, KernelFlips(c) PROVE RefCount'
  BY <1>0, <1>10 DEF KernelFlips, flipVars, stackVars
<1>11. CASE KernelVblank
  BY <1>0, <1>11 DEF KernelVblank, flipVars, stackVars
<1>12. CASE CloseScreen
  BY <1>12, CloseScreenRefs
<1>13. CASE UNCHANGED vars
  BY <1>0, <1>13 DEF vars, flipVars, stackVars
<1>14. QED
  BY <1>1, <1>2, <1>3, <1>4, <1>5, <1>6, <1>7, <1>8, <1>9, <1>10, <1>11, <1>12, <1>13
     DEF Next, ServerStep

\* The types, the stack and the counts together are inductive.
FlipInv == PageFlipTypes /\ StackInv /\ RefCount

\* The types, the stack and the counts are right at all times.
LEMMA FlipInvariant == Spec => []FlipInv
<1>1. Init => FlipInv
  BY TypesInit, StackInit, RefCountInit DEF FlipInv
<1>2. FlipInv /\ [Next]_vars => FlipInv'
  BY TypesStep, StackInvStep, RefCountStep DEF FlipInv
<1>3. QED
  BY <1>1, <1>2, PTL DEF Spec

\* The count in ms_flipdata is the number of linked carriers and of activations of
\* ms_do_pageflip and event_handler that can reach it, and it is allocated while there is
\* one: no use after free and no leak, whatever events are flushed between two ioctls.
THEOREM ReferencesCounted == Spec => []RefCount
<1>1. FlipInv => RefCount
  BY DEF FlipInv
<1>2. QED
  BY <1>1, FlipInvariant, PTL

-----------------------------------------------------------------------------
(* Every flip is answered once *)

\* An activation of the kind k works on flip f.
In(k, f) == \E d \in 1..depth : frame[d].kind = k /\ frame[d].flip = f

\* What ms_do_pageflip returned for flip f, and what the extension was told since.
AnswerOf(f) ==
    /\ f > calls => returned[f] = "no" /\ notified[f] = 0 /\ dropped[f] = 0
    /\ notified[f] + dropped[f] <= 1
    /\ f \in live /\ ~In("events", f) => notified[f] = 0 /\ dropped[f] = 0
    /\ In("events", f) => notified[f] = 1 /\ dropped[f] = 0
    /\ returned[f] = "false" /\ f \notin partial
         => f \notin live /\ notified[f] = 0 /\ dropped[f] = 0
    /\ returned[f] = "true" /\ f \notin live => notified[f] + dropped[f] = 1
    /\ In("flip", f) => returned[f] = "no"
    /\ f <= calls /\ returned[f] = "no" => In("flip", f)

AnswerInv == \A f \in Flips : AnswerOf(f)

\* What a call, a return and a handler do to the set of activations.
LEMMA PushedIn ==
    ASSUME PageFlipTypes, NEW F \in Frame, Push(F), NEW k, NEW f
    PROVE  In(k, f)' <=> (In(k, f) \/ (F.kind = k /\ F.flip = f))
<1>1. /\ depth' = depth + 1 /\ depth' \in 1..MaxDepth /\ frame'[depth + 1] = F
      /\ \A d \in 1..depth : frame'[d] = frame[d]
      /\ \A d \in 1..depth' : d \in 1..depth \/ d = depth + 1
  BY Pushed
<1>2. depth \in Nat
  BY PageFlipAssumption DEF PageFlipTypes
<1>3. depth + 1 \in 1..depth' /\ \A d \in 1..depth : d \in 1..depth'
  BY <1>1, <1>2
<1>4. QED
  BY <1>1, <1>3 DEF In

\* A return ends the work of an activation on its flip.
LEMMA PoppedIn ==
    ASSUME PageFlipTypes, StackInv, depth > 0, Pop, NEW k, NEW f \in Flips
    PROVE  In(k, f)' <=> (In(k, f) /\ top.flip # f)
<1>1. /\ \A d \in 1..depth' : d \in 1..depth /\ d # depth /\ frame'[d] = frame[d]
      /\ \A d \in 1..depth : d \in 1..depth' \/ d = depth
  BY Popped
<1>2. depth \in 1..depth /\ f # 0
  BY TopTyped, PageFlipAssumption DEF Flips
<1>3. \A d \in 1..depth : frame[d].flip = f /\ top.flip = f => d = depth
  BY <1>2 DEF StackInv, top
<1>4. ASSUME In(k, f)' PROVE In(k, f) /\ top.flip # f
  BY <1>1, <1>3, <1>4 DEF In
<1>5. ASSUME In(k, f), top.flip # f PROVE In(k, f)'
  BY <1>1, <1>5 DEF In, top
<1>6. QED
  BY <1>4, <1>5

\* A handler that goes on may take up another flip.
LEMMA ReplacedIn ==
    ASSUME PageFlipTypes, StackInv, depth > 0, NEW F \in Frame,
           frame' = [frame EXCEPT ![depth] = F],
           UNCHANGED depth, NEW k, NEW f \in Flips
    PROVE  In(k, f)' <=> ((In(k, f) /\ top.flip # f) \/ (F.kind = k /\ F.flip = f))
<1>1. depth \in 1..depth /\ frame'[depth] = F /\ \A d \in 1..depth : d # depth
      => frame'[d] = frame[d]
  BY Replaced
<1>2. f # 0
  BY PageFlipAssumption DEF Flips
<1>3. \A d \in 1..depth : frame[d].flip = f /\ top.flip = f => d = depth
  BY <1>1, <1>2 DEF StackInv, top
<1>4. ASSUME In(k, f)' PROVE (In(k, f) /\ top.flip # f) \/ (F.kind = k /\ F.flip = f)
  <2>1. PICK d \in 1..depth : frame'[d].kind = k /\ frame'[d].flip = f
    BY <1>4 DEF In
  <2>2. CASE d = depth
    BY <1>1, <2>1, <2>2
  <2>3. CASE d # depth
    BY <1>1, <1>3, <2>1, <2>3 DEF In
  <2>4. QED
    BY <2>2, <2>3
<1>5. ASSUME In(k, f), top.flip # f PROVE In(k, f)'
  BY <1>1, <1>5 DEF In, top
<1>6. ASSUME F.kind = k, F.flip = f PROVE In(k, f)'
  BY <1>1, <1>6 DEF In
<1>7. QED
  BY <1>4, <1>5, <1>6

\* A flip some activation works on is alive, and no other activation does.
LEMMA InIsLive ==
    ASSUME FlipInv, NEW f \in Flips
    PROVE  /\ In("flip", f) => f \in live /\ ~In("events", f)
           /\ In("events", f) => f \in live /\ ~In("flip", f)
           /\ f \in live => f <= calls
           /\ f \in live <=> Carriers(f) # {} \/ Activations(f) # {}
<1>1. /\ flip_count[f] = Cardinality(Carriers(f)) + Cardinality(Activations(f))
      /\ f \in live <=> flip_count[f] > 0
  BY DEF FlipInv, RefCount
<1>2. /\ Cardinality(Carriers(f)) \in Nat /\ Cardinality(Activations(f)) \in Nat
      /\ Cardinality(Carriers(f)) = 0 <=> Carriers(f) = {}
      /\ Cardinality(Activations(f)) = 0 <=> Activations(f) = {}
  BY CountsMean DEF FlipInv
<1>3. f \in live <=> Carriers(f) # {} \/ Activations(f) # {}
  BY <1>1, <1>2
<1>4. \A k : In(k, f) => Activations(f) # {}
  BY DEF In, Activations
<1>5. ~(In("flip", f) /\ In("events", f))
  <2>1. f # 0
    BY PageFlipAssumption DEF Flips
  <2>2. QED
    BY <2>1 DEF In, FlipInv, StackInv
<1>6. f \in live => f <= calls
  <2>1. \A d \in 1..depth : frame[d].flip <= calls
    BY DEF FlipInv, StackInv, FrameInv
  <2>2. \A q \in queue : q.flip <= calls
    BY DEF FlipInv, StackInv
  <2>3. QED
    BY <1>3, <2>1, <2>2 DEF Carriers, Activations
<1>7. QED
  BY <1>3, <1>4, <1>5, <1>6

\* The flip in the top activation.
LEMMA TopIn ==
    ASSUME PageFlipTypes, depth > 0
    PROVE  In(top.kind, top.flip)
<1>1. depth \in 1..depth
  BY TopTyped
<1>2. QED
  BY <1>1 DEF In, top

\* A flip that a step leaves alone keeps its answer.
LEMMA AnswerKept ==
    ASSUME AnswerInv, NEW f \in Flips, calls' = calls,
           returned'[f] = returned[f], notified'[f] = notified[f], dropped'[f] = dropped[f],
           f \in partial' <=> f \in partial, f \in live' <=> f \in live,
           In("flip", f)' <=> In("flip", f), In("events", f)' <=> In("events", f)
    PROVE  AnswerOf(f)'
<1>1. AnswerOf(f)
  BY DEF AnswerInv
<1>2. QED
  BY <1>1 DEF AnswerOf

\* No flip was answered yet.
LEMMA AnswerInit == Init => AnswerInv
<1> SUFFICES ASSUME Init, NEW f \in Flips PROVE AnswerOf(f)
  BY DEF AnswerInv
<1>1. /\ depth = 0 /\ live = {} /\ calls = 0 /\ returned[f] = "no" /\ notified[f] = 0
         /\ dropped[f] = 0
  BY DEF Init
<1>2. \A k : ~In(k, f)
  BY <1>1 DEF In
<1>3. f > calls /\ ~(f <= calls)
  BY <1>1, PageFlipAssumption DEF Flips
<1>4. QED
  BY <1>1, <1>2, <1>3 DEF AnswerOf

\* Reading events works on no flip.
LEMMA ReadIn ==
    ASSUME PageFlipTypes, NEW E \in SUBSET fd, ReadEvents(E), NEW f \in Flips
    PROVE  (In("flip", f)' <=> In("flip", f)) /\ (In("events", f)' <=> In("events", f))
<1>1. PICK F \in Frame : F = EventFrame(0, FALSE)
  BY FramesTyped
<1>2. Push(F) /\ F.flip = 0
  BY <1>1 DEF ReadEvents, EventFrame
<1>3. F.flip # f
  BY <1>2, PageFlipAssumption DEF Flips
<1>4. \A k : In(k, f)' <=> In(k, f)
  <2>1. ASSUME NEW k PROVE In(k, f)' <=> (In(k, f) \/ (F.kind = k /\ F.flip = f))
    BY <1>2, PushedIn
  <2>2. QED
    BY <1>3, <2>1
<1>5. QED
  BY <1>4

\* A flip that fails before it is submitted gets FALSE and no answer.
LEMMA AnswerFlipImpossible ==
    ASSUME FlipInv, AnswerInv, FlipImpossible, NEW g \in Flips
    PROVE  AnswerOf(g)'
<1> DEFINE f == calls + 1
<1>1. /\ f \in Flips /\ calls \in Nat /\ calls' = f
      /\ returned' = [returned EXCEPT ![f] = "false"]
      /\ UNCHANGED <<live, notified, dropped, partial, depth, frame>>
  BY PageFlipAssumption DEF FlipImpossible, stackVars, FlipInv, PageFlipTypes, Fbs
<1>2. \A k : In(k, g)' <=> In(k, g)
  BY <1>1 DEF In
<1>3. AnswerOf(g) /\ returned \in [Flips -> {"no", "true", "false"}] /\ g \in Int
  BY PageFlipAssumption DEF AnswerInv, FlipInv, PageFlipTypes, Flips
<1>4. CASE g = f
  <2>1. returned'[g] = "false" /\ g > calls /\ ~(g > calls') /\ g <= calls'
    BY <1>1, <1>3, <1>4
  <2>2. g \notin live /\ ~In("flip", g) /\ ~In("events", g)
    BY <1>3, <2>1, InIsLive, <1>1
  <2>3. notified[g] = 0 /\ dropped[g] = 0
    BY <1>3, <2>1 DEF AnswerOf
  <2>4. QED
    BY <1>1, <1>2, <2>1, <2>2, <2>3 DEF AnswerOf
<1>5. CASE g # f
  <2>1. returned'[g] = returned[g] /\ (g > calls' <=> g > calls) /\ (g <= calls' <=> g <= calls)
    BY <1>1, <1>3, <1>5
  <2>2. QED
    BY <1>1, <1>2, <1>3, <2>1 DEF AnswerOf
<1>6. QED
  BY <1>4, <1>5

\* A flip that begins is not answered yet.
LEMMA AnswerFlipBegin ==
    ASSUME FlipInv, AnswerInv, FlipBegin, NEW g \in Flips
    PROVE  AnswerOf(g)'
<1> DEFINE f == calls + 1
           c == NextOn(0)
<1>1. /\ f \in Flips /\ calls \in Nat /\ calls' = f /\ c \in Crtcs
      /\ live' = live \cup {f} /\ UNCHANGED <<returned, notified, dropped, partial>>
  BY NextOnIs, PageFlipAssumption DEF FlipBegin, FlipInv, PageFlipTypes, Fbs
<1>2. PICK F \in Frame : F = FlipFrame(f, c)
  BY <1>1, FramesTyped
<1>3. Push(F) /\ F.kind = "flip" /\ F.flip = f
  BY <1>2 DEF FlipBegin, FlipFrame
<1>4. ASSUME NEW k PROVE In(k, g)' <=> (In(k, g) \/ (F.kind = k /\ F.flip = g))
  BY <1>3, PushedIn DEF FlipInv
<1>5. (In("flip", g)' <=> (In("flip", g) \/ g = f)) /\ (In("events", g)' <=> In("events", g))
  BY <1>3, <1>4
<1>6. AnswerOf(g) /\ g \in Int
  BY PageFlipAssumption DEF AnswerInv, Flips
<1>7. CASE g = f
  <2>1. g > calls /\ ~(g > calls') /\ g <= calls'
    BY <1>1, <1>6, <1>7
  <2>2. g \notin live /\ ~In("events", g)
    BY <1>1, <1>6, <2>1, InIsLive
  <2>3. returned[g] = "no" /\ notified[g] = 0 /\ dropped[g] = 0
    BY <1>6, <2>1 DEF AnswerOf
  <2>4. QED
    BY <1>1, <1>5, <1>7, <2>1, <2>2, <2>3 DEF AnswerOf
<1>8. CASE g # f
  <2>1. (g > calls' <=> g > calls) /\ (g <= calls' <=> g <= calls)
        /\ (g \in live' <=> g \in live)
    BY <1>1, <1>6, <1>8
  <2>2. QED
    BY <1>1, <1>5, <1>6, <1>8, <2>1 DEF AnswerOf
<1>9. QED
  BY <1>7, <1>8

\* A flip that was submitted on the last CRTC gets TRUE, and waits for its answer.
LEMMA AnswerFlipAccepted ==
    ASSUME FlipInv, AnswerInv, FlipAccepted, NEW g \in Flips
    PROVE  AnswerOf(g)'
<1> DEFINE f == top.flip
           n == NextOn(top.crtc)
<1>1. /\ depth > 0 /\ top.kind = "flip" /\ UNCHANGED <<live, calls, notified, dropped, partial>>
  BY DEF FlipAccepted
<1>2. /\ f \in Flips /\ top.crtc \in Crtcs /\ In("flip", f)
      /\ PageFlipTypes /\ StackInv /\ returned \in [Flips -> {"no", "true", "false"}]
  BY <1>1, TopTyped, TopIn DEF FlipInv, PageFlipTypes
<1>3. AnswerOf(g) /\ AnswerOf(f) /\ f \in live /\ ~In("events", f) /\ ~(f > calls)
  <2>1. f \in Int /\ calls \in Int
    BY <1>2, PageFlipAssumption DEF PageFlipTypes, Fbs, Flips
  <2>2. QED
    BY <1>2, <2>1, InIsLive DEF AnswerInv
<1>4. CASE n # 0 /\ frame' = [frame EXCEPT ![depth] = FlipFrame(f, n)] /\ UNCHANGED <<depth,
           returned>>
  <2>1. n \in Crtcs
    <3>1. top.crtc \in Int /\ on \subseteq Crtcs
      BY <1>2, PageFlipAssumption DEF PageFlipTypes, Crtcs
    <3>2. n \in on
      BY <1>4, <3>1, NextOnIs
    <3>3. QED
      BY <3>1, <3>2
  <2>2. PICK F \in Frame : F = FlipFrame(f, n)
    BY <1>2, <2>1, FramesTyped
  <2>3. frame' = [frame EXCEPT ![depth] = F] /\ F.kind = "flip" /\ F.flip = f
    BY <1>4, <2>2 DEF FlipFrame
  <2>4. ASSUME NEW k PROVE In(k, g)' <=> ((In(k, g) /\ top.flip # g) \/ (F.kind = k
               /\ F.flip = g))
    BY <1>1, <1>2, <1>4, <2>3, ReplacedIn
  <2>5. (In("flip", g)' <=> In("flip", g)) /\ (In("events", g)' <=> In("events", g))
    BY <1>2, <1>3, <2>3, <2>4
  <2>6. QED
    BY <1>1, <1>4, <2>5, AnswerKept
<1>5. CASE returned' = [returned EXCEPT ![f] = "true"] /\ Pop
  <2>1. ASSUME NEW k PROVE In(k, g)' <=> (In(k, g) /\ top.flip # g)
    BY <1>1, <1>2, <1>5, PoppedIn
  <2>2. CASE g # f
    BY <1>1, <1>5, <2>1, <2>2, AnswerKept
  <2>3. CASE g = f
    <3>1. ~In("flip", g)' /\ ~In("events", g)' /\ returned'[g] = "true"
      BY <1>2, <1>5, <2>1, <2>3
    <3>2. notified[g] = 0 /\ dropped[g] = 0 /\ ~(g > calls)
      BY <1>3, <2>3 DEF AnswerOf
    <3>3. g \in live' /\ notified'[g] = 0 /\ dropped'[g] = 0 /\ ~(g > calls')
      BY <1>1, <1>3, <2>3, <3>2
    <3>4. QED
      BY <3>1, <3>3 DEF AnswerOf
  <2>4. QED
    BY <2>2, <2>3
<1>6. QED
  BY <1>4, <1>5 DEF FlipAccepted

\* The first CRTC refused: no other carrier of the flip exists, so it is freed.
LEMMA RefusedIsFreed ==
    ASSUME FlipInv, FlipRefused, top.crtc = NextOn(0)
    PROVE  /\ flip_count[top.flip] = 2 /\ live' = live \ {top.flip}
           /\ drmModeRmFB(fb_id) /\ fb_id' = old_fb_id[top.flip]
<1> DEFINE f == top.flip
           c == top.crtc
           q0 == [flip |-> f, crtc |-> c]
<1>1. depth > 0 /\ top.kind = "flip" /\ Undo(f, flip_count[f] - 1)
  BY DEF FlipRefused
<1>2. f \in Flips /\ c \in Crtcs /\ depth \in 1..depth /\ PageFlipTypes
  BY <1>1, TopTyped DEF FlipInv
<1>3. f # 0 /\ c \in Nat
  BY <1>2, PageFlipAssumption DEF Flips, Crtcs
<1>4. /\ q0 \in queue
      /\ \A q \in Carrier : q.flip = f /\ q.crtc > c => q \notin queue
      /\ \A q \in queue : q \in Carrier /\ q.crtc \in on
  BY <1>1, <1>2 DEF FlipInv, StackInv, FrameInv, top, PageFlipTypes
<1>5. ASSUME NEW q \in queue, q.flip = f PROVE q = q0
  <2>1. q.crtc \in on /\ q.crtc \in Crtcs /\ q.crtc \in Nat /\ q.crtc > 0
    BY <1>4, PageFlipAssumption DEF Carrier, Crtcs
  <2>2. c <= q.crtc
    <3>1. on \subseteq Crtcs /\ 0 \in Int
      BY <1>2 DEF PageFlipTypes
    <3>2. NextOn(0) = 0 => \A d \in on : ~(d > 0)
      BY <3>1, NextOnIs
    <3>3. NextOn(0) # 0 => \A d \in on : d > 0 => NextOn(0) <= d
      BY <3>1, NextOnIs
    <3>4. QED
      BY <2>1, <3>2, <3>3
  <2>3. ~(q.crtc > c)
    BY <1>4, <1>5
  <2>4. q.crtc = c
    BY <1>3, <2>1, <2>2, <2>3
  <2>5. QED
    BY <1>4, <1>5, <2>4 DEF Carrier
<1>6. Carriers(f) = {q0}
  BY <1>4, <1>5 DEF Carriers
<1>7. Activations(f) = {depth}
  BY <1>2, <1>3 DEF FlipInv, StackInv, Activations, top
<1>8. Cardinality(Carriers(f)) = 1 /\ Cardinality(Activations(f)) = 1
  BY <1>6, <1>7, FS_Singleton
<1>9. flip_count[f] = 2
  BY <1>2, <1>8 DEF FlipInv, RefCount
<1>10. QED
  BY <1>1, <1>9 DEF Undo

\* A refused flip gets FALSE; it is freed with no answer unless a CRTC has accepted it.
LEMMA AnswerFlipRefused ==
    ASSUME FlipInv, AnswerInv, FlipRefused, NEW g \in Flips
    PROVE  AnswerOf(g)'
<1> DEFINE f == top.flip
<1>1. /\ depth > 0 /\ top.kind = "flip" /\ Pop /\ UNCHANGED <<calls, notified, dropped>>
      /\ returned' = [returned EXCEPT ![f] = "false"]
      /\ live' = live \/ live' = live \ {f}
      /\ partial' = IF top.crtc = NextOn(0) THEN partial ELSE partial \cup {f}
  BY DEF FlipRefused, Undo
<1>2. /\ f \in Flips /\ In("flip", f)
      /\ PageFlipTypes /\ StackInv /\ returned \in [Flips -> {"no", "true", "false"}]
  BY <1>1, TopTyped, TopIn DEF FlipInv, PageFlipTypes
<1>3. AnswerOf(g) /\ AnswerOf(f) /\ f \in live /\ ~In("events", f) /\ ~(f > calls)
  <2>1. f \in Int /\ calls \in Int
    BY <1>2, PageFlipAssumption DEF PageFlipTypes, Fbs, Flips
  <2>2. QED
    BY <1>2, <2>1, InIsLive DEF AnswerInv
<1>4. ASSUME NEW k PROVE In(k, g)' <=> (In(k, g) /\ top.flip # g)
  BY <1>1, <1>2, PoppedIn
<1>5. CASE g # f
  <2>1. (g \in live' <=> g \in live) /\ (g \in partial' <=> g \in partial)
        /\ returned'[g] = returned[g]
    BY <1>1, <1>5
  <2>2. QED
    BY <1>1, <1>4, <1>5, <2>1, AnswerKept
<1>6. CASE g = f
  <2>1. ~In("flip", g)' /\ ~In("events", g)' /\ returned'[g] = "false"
    BY <1>1, <1>2, <1>4, <1>6
  <2>2. notified'[g] = 0 /\ dropped'[g] = 0 /\ ~(g > calls')
    BY <1>1, <1>3, <1>6 DEF AnswerOf
  <2>3. g \notin partial' => g \notin live'
    <3>1. ASSUME g \notin partial' PROVE top.crtc = NextOn(0)
      BY <1>1, <1>6, <3>1
    <3>2. QED
      BY <1>6, <3>1, RefusedIsFreed
  <2>4. QED
    BY <2>1, <2>2, <2>3 DEF AnswerOf
<1>7. QED
  BY <1>5, <1>6

\* What the last event of a flip finds: no other reference, and no answer yet.
LEMMA LastEvent ==
    ASSUME FlipInv, NEW f \in Flips,
           NEW q0 \in queue, q0.flip = f, flip_count[f] = 1
    PROVE  Carriers(f) = {q0} /\ Activations(f) = {} /\ f \in live
<1>1. /\ flip_count[f] = Cardinality(Carriers(f)) + Cardinality(Activations(f))
      /\ f \in live <=> flip_count[f] > 0
  BY DEF FlipInv, RefCount
<1>2. Cardinality(Carriers(f)) = 1 /\ Cardinality(Activations(f)) = 0
  BY <1>1, CountsMean DEF FlipInv
<1>3. QED
  BY <1>1, <1>2, CountsMean DEF FlipInv

\* The last event of a flip runs event_handler, once.
LEMMA AnswerDispatch ==
    ASSUME FlipInv, AnswerInv, NEW r \in batch, Dispatch(r), NEW g \in Flips
    PROVE  AnswerOf(g)'
<1> DEFINE f == r.flip
           q0 == [flip |-> r.flip, crtc |-> r.crtc]
<1>1. depth > 0 /\ top.flip = 0 /\ UNCHANGED <<depth, calls, returned, dropped, partial>>
  BY DEF Dispatch
<1>2. /\ PageFlipTypes /\ StackInv /\ notified \in [Flips -> Nat] /\ top.flip # g /\ AnswerOf(g)
  <2>1. top.flip # g
    BY <1>1, PageFlipAssumption DEF Flips
  <2>2. QED
    BY <2>1 DEF FlipInv, PageFlipTypes, AnswerInv
<1>3. ASSUME NEW F \in Frame, frame' = [frame EXCEPT ![depth] = F], NEW k
      PROVE  In(k, g)' <=> (In(k, g) \/ (F.kind = k /\ F.flip = g))
  <2>1. In(k, g)' <=> ((In(k, g) /\ top.flip # g) \/ (F.kind = k /\ F.flip = g))
    BY <1>1, <1>2, <1>3, ReplacedIn
  <2>2. QED
    BY <1>2, <2>1
<1>4. ASSUME NEW F \in Frame, frame' = [frame EXCEPT ![depth] = F], F.flip = 0,
             UNCHANGED <<notified, live>>
      PROVE  AnswerOf(g)'
  <2>1. F.flip # g
    BY <1>4, PageFlipAssumption DEF Flips
  <2>2. (In("flip", g)' <=> In("flip", g)) /\ (In("events", g)' <=> In("events", g))
    <3>1. \A k : In(k, g)' <=> (In(k, g) \/ (F.kind = k /\ F.flip = g))
      BY <1>3, <1>4
    <3>2. QED
      BY <2>1, <3>1
  <2>3. QED
    BY <1>1, <1>4, <2>2, AnswerKept
<1>5. CASE q0 \in queue /\ ms_pageflip_handler(f) /\ flip_count[f] = 1
  <2>1. f \in Flips /\ q0.flip = f
    BY <1>2, <1>5 DEF PageFlipTypes, Carrier
  <2>2. f \in 0..MaxFlips
    BY <2>1, PageFlipAssumption DEF Flips
  <2>3. PICK F \in Frame : F = EventFrame(f, TRUE)
    BY <2>2, FramesTyped
  <2>4. /\ frame' = [frame EXCEPT ![depth] = F] /\ F.kind = "events" /\ F.flip = f
        /\ notified' = [notified EXCEPT ![f] = @ + 1] /\ live' = live
    BY <1>5, <2>3 DEF ms_pageflip_handler, EventFrame
  <2>5. Activations(f) = {} /\ f \in live
    BY <1>5, <2>1, LastEvent
  <2>6. ~In("events", f) /\ ~In("flip", f)
    BY <2>5 DEF In, Activations
  <2>7. \A k : In(k, g)' <=> (In(k, g) \/ (F.kind = k /\ F.flip = g))
    BY <1>3, <2>4
  <2>8. (In("flip", g)' <=> In("flip", g)) /\ (In("events", g)' <=> (In("events", g) \/ g = f))
    BY <2>4, <2>7
  <2>9. CASE g # f
    BY <1>1, <2>4, <2>8, <2>9, AnswerKept
  <2>10. CASE g = f
    <3>1. /\ notified[g] = 0 /\ dropped[g] = 0
          /\ returned[g] = "false" => g \in partial
      BY <1>2, <2>5, <2>6, <2>10 DEF AnswerOf
    <3>2. notified'[g] = 1 /\ dropped'[g] = 0
      BY <1>1, <1>2, <2>1, <2>4, <2>10, <3>1
    <3>3. In("events", g)' /\ ~In("flip", g)' /\ g \in live' /\ ~(g > calls)
      <4>1. g <= calls
        BY <2>1, <2>5, <2>10, InIsLive
      <4>2. g \in Int /\ calls \in Int
        BY <1>2, PageFlipAssumption DEF PageFlipTypes, Fbs, Flips
      <4>3. QED
        BY <2>4, <2>5, <2>6, <2>8, <2>10, <4>1, <4>2
    <3>4. QED
      BY <1>1, <1>2, <2>6, <2>10, <3>1, <3>2, <3>3 DEF AnswerOf
  <2>11. QED
    BY <2>9, <2>10
<1>6. CASE q0 \in queue /\ ms_pageflip_handler(f) /\ flip_count[f] # 1
  <2>1. PICK F \in Frame : F = EventFrame(0, TRUE)
    BY FramesTyped
  <2>2. frame' = [frame EXCEPT ![depth] = F] /\ F.flip = 0 /\ UNCHANGED <<notified, live>>
    BY <1>6, <2>1 DEF ms_pageflip_handler, Unref, EventFrame
  <2>3. QED
    BY <1>4, <2>2
<1>7. CASE /\ frame' = [frame EXCEPT ![depth] = EventFrame(0, q0 = Vblank)]
           /\ UNCHANGED <<notified, live>>
  <2>1. (q0 = Vblank) = TRUE \/ (q0 = Vblank) = FALSE
    OBVIOUS
  <2>2. EventFrame(0, q0 = Vblank) \in Frame
    BY <2>1, FramesTyped
  <2>3. PICK F \in Frame : F = EventFrame(0, q0 = Vblank)
    BY <2>2
  <2>4. frame' = [frame EXCEPT ![depth] = F] /\ F.flip = 0
    BY <1>7, <2>3 DEF EventFrame
  <2>5. QED
    BY <1>4, <1>7, <2>4
<1>8. QED
  BY <1>5, <1>6, <1>7 DEF Dispatch

\* Only event_handler's own activation is left when it returns.
LEMMA ReturnFrees ==
    ASSUME FlipInv, HandlerReturns
    PROVE  /\ top.flip \in Flips /\ In("events", top.flip) /\ live' = live \ {top.flip}
           /\ \A q \in queue : q.flip # top.flip
<1> DEFINE f == top.flip
<1>1. /\ depth > 0 /\ top.kind = "events" /\ f # 0
      /\ live' = IF flip_count[f] = 1 THEN live \ {f} ELSE live
  BY DEF HandlerReturns, Unref
<1>2. f \in Flips /\ depth \in 1..depth /\ PageFlipTypes
  BY <1>1, TopTyped, PageFlipAssumption DEF Flips, FlipInv
<1>3. \A q \in queue : q.flip # f
  BY <1>1, <1>2 DEF FlipInv, StackInv, FrameInv, top
<1>4. Carriers(f) = {}
  BY <1>3 DEF Carriers
<1>5. Activations(f) = {depth}
  BY <1>1, <1>2 DEF FlipInv, StackInv, Activations, top
<1>6. Cardinality(Carriers(f)) = 0 /\ Cardinality(Activations(f)) = 1
  BY <1>4, <1>5, FS_EmptySet, FS_Singleton
<1>7. flip_count[f] = 1
  BY <1>2, <1>6 DEF FlipInv, RefCount
<1>8. QED
  BY <1>1, <1>2, <1>3, <1>7, TopIn

\* A flip is freed after it was answered.
LEMMA AnswerHandlerReturns ==
    ASSUME FlipInv, AnswerInv, HandlerReturns, NEW g \in Flips
    PROVE  AnswerOf(g)'
<1> DEFINE f == top.flip
<1>1. /\ depth > 0 /\ UNCHANGED <<depth, calls, returned, notified, dropped, partial>>
      /\ frame' = [frame EXCEPT ![depth] = EventFrame(0, FALSE)]
  BY DEF HandlerReturns
<1>2. f \in Flips /\ In("events", f) /\ live' = live \ {f}
  BY ReturnFrees
<1>3. AnswerOf(g) /\ PageFlipTypes /\ StackInv
  BY DEF AnswerInv, FlipInv
<1>4. PICK F \in Frame : F = EventFrame(0, FALSE)
  BY FramesTyped
<1>5. frame' = [frame EXCEPT ![depth] = F] /\ F.flip # g
  BY <1>1, <1>4, PageFlipAssumption DEF EventFrame, Flips
<1>6. \A k : In(k, g)' <=> (In(k, g) /\ top.flip # g)
  <2>1. ASSUME NEW k PROVE In(k, g)' <=> ((In(k, g) /\ top.flip # g) \/ (F.kind = k
               /\ F.flip = g))
    BY <1>1, <1>3, <1>5, ReplacedIn
  <2>2. QED
    BY <1>5, <2>1
<1>7. CASE g # f
  <2>1. (In("flip", g)' <=> In("flip", g)) /\ (In("events", g)' <=> In("events", g))
        /\ (g \in live' <=> g \in live)
    BY <1>2, <1>6, <1>7
  <2>2. QED
    BY <1>1, <2>1, AnswerKept
<1>8. CASE g = f
  <2>1. ~In("flip", g)' /\ ~In("events", g)' /\ g \notin live'
    BY <1>2, <1>6, <1>8
  <2>2. notified[g] = 1 /\ dropped[g] = 0 /\ g \in live /\ ~In("flip", g)
    BY <1>2, <1>3, <1>8, InIsLive DEF AnswerOf
  <2>3. QED
    BY <1>1, <1>3, <2>1, <2>2 DEF AnswerOf
<1>9. QED
  BY <1>7, <1>8

\* A return of drmHandleEvent answers nothing.
LEMMA AnswerEventsDone ==
    ASSUME FlipInv, AnswerInv, EventsDone, NEW g \in Flips
    PROVE  AnswerOf(g)'
<1>1. depth > 0 /\ top.flip = 0 /\ Pop /\ UNCHANGED <<calls, returned, notified, dropped,
      partial, live>>
  BY DEF EventsDone, flipVars
<1>2. top.flip # g
  BY <1>1, PageFlipAssumption DEF Flips
<1>3. \A k : In(k, g)' <=> In(k, g)
  <2>1. ASSUME NEW k PROVE In(k, g)' <=> (In(k, g) /\ top.flip # g)
    BY <1>1, PoppedIn DEF FlipInv
  <2>2. QED
    BY <1>2, <2>1
<1>4. QED
  BY <1>1, <1>3, AnswerKept

\* CloseScreen aborts every flip that is alive, once.
LEMMA AnswerCloseScreen ==
    ASSUME FlipInv, AnswerInv, CloseScreen, NEW g \in Flips
    PROVE  AnswerOf(g)'
<1> DEFINE of(f) == Cardinality({q \in queue : q.flip = f})
<1>1. /\ depth = 0 /\ depth' = 0 /\ UNCHANGED <<calls, returned, notified, partial>>
      /\ dropped' = [f \in Flips |->
            IF of(f) > 0 /\ of(f) = flip_count[f] THEN dropped[f] + 1 ELSE dropped[f]]
  BY DEF CloseScreen, stackVars
<1>2. live' = {}
  BY CloseScreenRefs DEF FlipInv
<1>3. \A k : ~In(k, g) /\ ~In(k, g)'
  BY <1>1 DEF In
<1>4. AnswerOf(g) /\ notified[g] \in Nat /\ dropped[g] \in Nat
  BY DEF AnswerInv, FlipInv, PageFlipTypes
<1>5. Activations(g) = {}
  BY <1>1 DEF Activations
<1>6. /\ flip_count[g] = of(g) /\ of(g) \in Nat /\ (g \in live <=> of(g) > 0)
  <2>1. Cardinality(Activations(g)) = 0 /\ Cardinality(Carriers(g)) \in Nat
    BY <1>5, CountsMean DEF FlipInv
  <2>2. of(g) = Cardinality(Carriers(g))
    BY CarriersFinite DEF FlipInv
  <2>3. /\ flip_count[g] = Cardinality(Carriers(g)) + Cardinality(Activations(g))
        /\ g \in live <=> flip_count[g] > 0
    BY DEF FlipInv, RefCount
  <2> HIDE DEF of
  <2>4. QED
    BY <2>1, <2>2, <2>3
<1>7. dropped'[g] = IF g \in live THEN dropped[g] + 1 ELSE dropped[g]
  <2>1. dropped'[g] = IF of(g) > 0 /\ of(g) = flip_count[g] THEN dropped[g] + 1 ELSE dropped[g]
    BY <1>1
  <2> HIDE DEF of
  <2>2. QED
    BY <1>6, <2>1
<1> HIDE DEF of
<1>8. CASE g \in live
  <2>1. notified[g] = 0 /\ dropped[g] = 0 /\ ~(g > calls)
    <3>1. g <= calls
      BY <1>8, InIsLive
    <3>2. g \in Int /\ calls \in Int
      BY PageFlipAssumption DEF FlipInv, PageFlipTypes, Fbs, Flips
    <3>3. QED
      BY <1>3, <1>4, <1>8, <3>1, <3>2 DEF AnswerOf
  <2>2. dropped'[g] = 1 /\ notified'[g] = 0
    BY <1>1, <1>7, <1>8, <2>1
  <2>3. (returned[g] = "false" => g \in partial) /\ (returned[g] = "no" => ~(g <= calls))
    BY <1>3, <1>4, <1>8 DEF AnswerOf
  <2>4. QED
    BY <1>1, <1>2, <1>3, <2>1, <2>2, <2>3 DEF AnswerOf
<1>9. CASE g \notin live
  <2>1. dropped'[g] = dropped[g]
    BY <1>7, <1>9
  <2>2. QED
    BY <1>1, <1>2, <1>3, <1>4, <1>9, <2>1 DEF AnswerOf
<1>10. QED
  BY <1>8, <1>9

\* Every step answers no flip twice.
LEMMA AnswerStep == FlipInv /\ AnswerInv /\ [Next]_vars => AnswerInv'
<1> SUFFICES ASSUME FlipInv, AnswerInv, [Next]_vars, NEW g \in Flips PROVE AnswerOf(g)'
  BY DEF AnswerInv
<1>0. ASSUME UNCHANGED <<calls, returned, notified, dropped, partial, live, depth,
             frame>> PROVE AnswerOf(g)'
  <2>1. \A k : In(k, g)' <=> In(k, g)
    BY <1>0 DEF In
  <2>2. QED
    BY <1>0, <2>1, AnswerKept
<1>a. ASSUME NEW E \in SUBSET fd, ReadEvents(E),
             UNCHANGED <<calls, returned, notified, dropped, partial, live>>
      PROVE  AnswerOf(g)'
  <2>1. (In("flip", g)' <=> In("flip", g)) /\ (In("events", g)' <=> In("events", g))
    BY <1>a, ReadIn DEF FlipInv
  <2>2. QED
    BY <1>a, <2>1, AnswerKept
<1>1. CASE FlipImpossible
  BY <1>1, AnswerFlipImpossible
<1>2. CASE FlipBegin
  BY <1>2, AnswerFlipBegin
<1>3. CASE FlipAccepted
  BY <1>3, AnswerFlipAccepted
<1>4. CASE FlipFlush
  BY <1>4, <1>a DEF FlipFlush, flipVars
<1>5. CASE FlipRefused
  BY <1>5, AnswerFlipRefused
<1>6. CASE ms_drm_socket_handler
  BY <1>6, <1>a DEF ms_drm_socket_handler, flipVars
<1>7. ASSUME NEW r \in batch, Dispatch(r) PROVE AnswerOf(g)'
  BY <1>7, AnswerDispatch
<1>8. CASE HandlerReturns
  BY <1>8, AnswerHandlerReturns
<1>9. CASE EventsDone
  BY <1>9, AnswerEventsDone
<1>10. ASSUME NEW c \in Crtcs, KernelFlips(c) PROVE AnswerOf(g)'
  BY <1>0, <1>10 DEF KernelFlips, flipVars, stackVars
<1>11. CASE KernelVblank
  BY <1>0, <1>11 DEF KernelVblank, flipVars, stackVars
<1>12. CASE CloseScreen
  BY <1>12, AnswerCloseScreen
<1>13. CASE UNCHANGED vars
  BY <1>0, <1>13 DEF vars, flipVars, stackVars
<1>14. QED
  BY <1>1, <1>2, <1>3, <1>4, <1>5, <1>6, <1>7, <1>8, <1>9, <1>10, <1>11, <1>12, <1>13
     DEF Next, ServerStep

\* The answers are right at all times.
LEMMA AnswerInvariant == Spec => [](FlipInv /\ AnswerInv)
<1>1. Init => FlipInv /\ AnswerInv
  BY TypesInit, StackInit, RefCountInit, AnswerInit DEF FlipInv
<1>2. FlipInv /\ AnswerInv /\ [Next]_vars => FlipInv' /\ AnswerInv'
  BY TypesStep, StackInvStep, RefCountStep, AnswerStep DEF FlipInv
<1>3. QED
  BY <1>1, <1>2, PTL DEF Spec

\* Present or DRI2 hears of an accepted flip once, by event_handler or abort_handler, by
\* the time its flipdata is gone, and never of one for which ms_do_pageflip returned FALSE
\* unless a CRTC had accepted it.
THEOREM FlipsAreAnsweredOnce == Spec => []AnsweredOnce
<1>1. AnswerInv => AnsweredOnce
  BY DEF AnswerInv, AnswerOf, AnsweredOnce
<1>2. QED
  BY <1>1, AnswerInvariant, PTL

-----------------------------------------------------------------------------
(* What the CRTCs display *)

\* The carriers whose flip happened and whose event was not dispatched yet, and the
\* flips that ms_do_pageflip accepted.
Done     == {q \in Carrier : q \in fd \/ \E r \in batch : r.flip = q.flip /\ r.crtc = q.crtc}
Accepted == {f \in Flips : returned[f] = "true"}

\* A CRTC never goes back to an older framebuffer, and when its event arrives it has
\* flipped.
ScanInv ==
    /\ fb_id <= calls
    /\ \A c \in on : 0 <= scanout[c] /\ scanout[c] <= fb_id /\ submitted[c].fb <= fb_id
    /\ \A c \in Crtcs : submitted[c] # None =>
         /\ c \in on
         /\ submitted[c].fb = submitted[c].flip
         /\ scanout[c] < submitted[c].fb
    /\ \A q \in Done : q.crtc \in on /\ scanout[q.crtc] >= q.flip

\* A CRTC whose carrier of an accepted flip is gone has done that flip.
ReachInv ==
    ~closed => \A f \in Accepted, c \in on :
                   [flip |-> f, crtc |-> c] \notin queue => scanout[c] >= f

\* While a flip is submitted CRTC by CRTC, it is the last one begun; the CRTCs behind the
\* loop do this flip, and those ahead show and await the framebuffers before it.
LoopInv ==
    \A d \in 1..depth : frame[d].kind = "flip" =>
        /\ frame[d].flip = fb_id
        /\ \A c \in on : c < frame[d].crtc /\
              [flip |-> fb_id, crtc |-> c] \notin queue => scanout[c] >= fb_id
        /\ \A c \in on : c >= frame[d].crtc =>
              scanout[c] <= old_fb_id[fb_id] /\ submitted[c].fb <= old_fb_id[fb_id]

\* The kernel keeps the framebuffer of the screen and those the flips will remove.
FbsInv == ~closed => fbs = {fb_id} \cup {old_fb_id[g] : g \in live}

\* The flips that are alive form a chain of framebuffers, each replaced by an
\* accepted flip or by the one that is submitted now.
ChainInv ==
    /\ \A g \in live : old_fb_id[g] < g /\ g <= fb_id
    /\ \A g, h \in live : g < h => g <= old_fb_id[h]
    /\ fb_id # 0 => fb_id \in Accepted \/ In("flip", fb_id)
    /\ \A g \in live : old_fb_id[g] # 0 => old_fb_id[g] \in Accepted

\* Inside event_handler, every CRTC shows the flip it is about or a later one.
ToldInv == \A f \in Flips : In("events", f) => f \in Accepted /\ \A c \in on : scanout[c] >= f

DisplayInv == Undisturbed => ScanInv /\ ReachInv /\ LoopInv /\ FbsInv /\ ChainInv /\ ToldInv

\* Every CRTC that is on shows the framebuffer of the screen.
LEMMA DisplayInit == Init => DisplayInv
<1> SUFFICES ASSUME Init PROVE ScanInv /\ ReachInv /\ LoopInv /\ FbsInv /\ ChainInv /\ ToldInv
  BY DEF DisplayInv
<1>1. /\ fb_id = 0 /\ calls = 0 /\ fbs = {0} /\ live = {} /\ depth = 0 /\ fd = {} /\ batch = {}
      /\ submitted = [c \in Crtcs |-> None] /\ on \subseteq Crtcs
      /\ scanout = [c \in Crtcs |-> IF c \in on THEN 0 ELSE Blank]
      /\ returned = [f \in Flips |-> "no"]
  BY DEF Init
<1>2. Done = {} /\ Accepted = {} /\ \A k, f : ~In(k, f)
  BY <1>1 DEF Done, Accepted, In
<1>3. ScanInv
  BY <1>1, <1>2 DEF ScanInv, None
<1>4. QED
  BY <1>1, <1>2, <1>3 DEF ReachInv, LoopInv, FbsInv, ChainInv, ToldInv

\* The numbers the invariants compare.
LEMMA DisplayNumbers ==
    ASSUME FlipInv
    PROVE  /\ fb_id \in Nat /\ calls \in Nat /\ on \subseteq Crtcs
           /\ \A c \in Crtcs : c \in Nat /\ c > 0 /\ scanout[c] \in Int
               /\ submitted[c].fb \in Int
           /\ \A f \in Flips : f \in Nat /\ f > 0 /\ old_fb_id[f] \in Nat
           /\ \A q \in Carrier : q.flip \in Flips /\ q.crtc \in Crtcs
           /\ live \subseteq Flips /\ queue \subseteq Carrier /\ Done \subseteq Carrier
<1>1. fb_id \in Nat /\ calls \in Nat /\ on \subseteq Crtcs /\ live \subseteq Flips
      /\ queue \subseteq Carrier
  BY PageFlipAssumption DEF FlipInv, PageFlipTypes, Fbs
<1>2. ASSUME NEW c \in Crtcs PROVE scanout[c] \in Int /\ submitted[c].fb \in Int
  <2>1. scanout[c] \in Int /\ submitted[c] \in {None} \cup [flip : Flips, fb : Int]
    BY DEF FlipInv, PageFlipTypes
  <2>2. QED
    BY <2>1 DEF None
<1>3. ASSUME NEW f \in Flips PROVE f \in Nat /\ f > 0 /\ old_fb_id[f] \in Nat
  <2>1. old_fb_id[f] \in Fbs
    BY DEF FlipInv, PageFlipTypes
  <2>2. QED
    BY <2>1, PageFlipAssumption DEF Flips, Fbs
<1>4. \A c \in Crtcs : c \in Nat /\ c > 0
  BY PageFlipAssumption DEF Crtcs
<1>5. (\A q \in Carrier : q.flip \in Flips /\ q.crtc \in Crtcs) /\ Done \subseteq Carrier
  BY DEF Carrier, Done
<1>6. QED
  BY <1>1, <1>2, <1>3, <1>4, <1>5

\* A step that handles events leaves what is displayed, and no new promise.
LEMMA DisplayKept ==
    ASSUME FlipInv, FlipInv', ScanInv, ReachInv, LoopInv, ToldInv,
           UNCHANGED <<on, fb_id, old_fb_id, closed>>, Accepted' = Accepted,
           calls <= calls',
           \A c \in on : scanout'[c] = scanout[c],
           \A c \in Crtcs : submitted'[c] = submitted[c],
           Done' \subseteq Done,
           \A q \in queue : q \notin queue' => q \in Done,
           \A d \in 1..depth' : frame'[d].kind = "flip" => d \in 1..depth
               /\ frame'[d] = frame[d],
           \A f \in Flips : In("events", f)' =>
              In("events", f) \/ (f \in Accepted /\ \A c \in on : scanout[c] >= f)
    PROVE  ScanInv' /\ ReachInv' /\ LoopInv' /\ ToldInv'
<1> USE DisplayNumbers
<1>0. calls' \in Nat
  BY PageFlipAssumption DEF FlipInv, PageFlipTypes, Fbs
<1>1. ScanInv'
  BY <1>0 DEF ScanInv
<1>2. ReachInv'
  BY <1>0 DEF ReachInv, ScanInv
<1>3. LoopInv'
  BY <1>0 DEF LoopInv, ScanInv
<1>4. ToldInv'
  BY DEF ToldInv
<1>5. QED
  BY <1>1, <1>2, <1>3, <1>4

\* The first part of the invariant does not need the others.
LEMMA FlipInvStep == FlipInv /\ [Next]_vars => FlipInv'
BY TypesStep, StackInvStep, RefCountStep DEF FlipInv

\* What DisplayInv promises of an undisturbed run.
AllDisplay == ScanInv /\ ReachInv /\ LoopInv /\ FbsInv /\ ChainInv /\ ToldInv

\* Removing a framebuffer that no CRTC shows or awaits leaves the display as it is.
LEMMA RmFBUnseen ==
    ASSUME FlipInv, ScanInv, NEW fb, drmModeRmFB(fb),
           \A c \in on : scanout[c] # fb /\ (submitted[c] # None => submitted[c].fb # fb)
    PROVE  /\ \A c \in on : scanout'[c] = scanout[c]
           /\ \A c \in Crtcs : submitted'[c] = submitted[c]
           /\ fbs' = fbs \ {fb}
<1>1. /\ fbs' = fbs \ {fb}
      /\ scanout' = [c \in Crtcs |-> IF scanout[c] = fb THEN Blank ELSE scanout[c]]
      /\ submitted' = [c \in Crtcs |->
           IF submitted[c] # None /\ submitted[c].fb = fb
             THEN [submitted[c] EXCEPT !.fb = Blank] ELSE submitted[c]]
  BY DEF drmModeRmFB
<1>2. on \subseteq Crtcs /\ \A c \in Crtcs : submitted[c] # None => c \in on
  BY DEF FlipInv, PageFlipTypes, ScanInv
<1>3. QED
  BY <1>1, <1>2

\* A flip that fails before it is submitted displays nothing.
LEMMA DisplayFlipImpossible ==
    ASSUME FlipInv, FlipInv', AnswerInv, AllDisplay, FlipImpossible
    PROVE  AllDisplay'
<1> DEFINE f == calls + 1
<1>1. /\ f \in Flips /\ calls' = f /\ returned' = [returned EXCEPT ![f] = "false"]
      /\ UNCHANGED <<on, fb_id, old_fb_id, closed, live, fbs, scanout, submitted, fd, batch,
                     queue, depth, frame>>
  BY DEF FlipImpossible, displayVars, stackVars
<1>2. Accepted' = Accepted
  <2>1. returned[f] = "no"
    <3>1. f > calls
      BY DisplayNumbers
    <3>2. QED
      BY <1>1, <3>1 DEF AnswerInv, AnswerOf
  <2>2. returned \in [Flips -> {"no", "true", "false"}]
    BY DEF FlipInv, PageFlipTypes
  <2>3. QED
    BY <1>1, <2>1, <2>2 DEF Accepted
<1>3. Done' = Done /\ \A k, g : In(k, g)' <=> In(k, g)
  BY <1>1 DEF Done, In
<1>4. calls <= calls'
  BY <1>1, DisplayNumbers
<1>5. ScanInv' /\ ReachInv' /\ LoopInv' /\ ToldInv'
  BY <1>1, <1>2, <1>3, <1>4, DisplayKept DEF AllDisplay
<1>6. FbsInv' /\ ChainInv'
  BY <1>1, <1>2, <1>3 DEF AllDisplay, FbsInv, ChainInv
<1>7. QED
  BY <1>5, <1>6 DEF AllDisplay

\* No other flip is being submitted, so the framebuffer of the screen was accepted.
LEMMA DisplayFlipBegin ==
    ASSUME FlipInv, FlipInv', AnswerInv, AllDisplay, FlipBegin, ~nested'
    PROVE  AllDisplay'
<1> DEFINE f == calls + 1
           c0 == NextOn(0)
           q0 == [flip |-> f, crtc |-> c0]
<1>0. ScanInv /\ ReachInv /\ LoopInv /\ FbsInv /\ ChainInv /\ ToldInv
  BY DEF AllDisplay
<1>1. /\ f \in Flips /\ calls' = f /\ fb_id' = f /\ queue' = queue \cup {q0}
      /\ live' = live \cup {f} /\ fbs' = fbs \cup {f} /\ c0 # 0
      /\ old_fb_id' = [old_fb_id EXCEPT ![f] = fb_id]
      /\ Push(FlipFrame(f, c0)) /\ ~Submitting
      /\ UNCHANGED <<on, closed, returned, scanout, submitted, fd, batch>>
  BY DEF FlipBegin
<1>2. Accepted' = Accepted /\ Done' = Done
  BY <1>1 DEF Accepted, Done
<1>3. /\ c0 \in on /\ c0 \in Crtcs
      /\ \A d \in on : c0 <= d
  <2>1. on \subseteq Crtcs /\ 0 \in Int
    BY DisplayNumbers
  <2>2. c0 \in on /\ \A d \in on : d > 0 => c0 <= d
    BY <1>1, <2>1, NextOnIs
  <2>3. QED
    BY <2>1, <2>2, DisplayNumbers
<1>4. f \notin live /\ f \notin Accepted /\ f > calls
  <2>1. f > calls /\ ~(f <= calls)
    BY DisplayNumbers
  <2>2. QED
    BY <1>1, <2>1, InIsLive DEF AnswerInv, AnswerOf, Accepted
<1>5. PICK F \in Frame : F = FlipFrame(f, c0)
  BY <1>1, <1>3, FramesTyped
<1>6. Push(F) /\ F.kind = "flip" /\ F.flip = f /\ F.crtc = c0
  BY <1>1, <1>5 DEF FlipFrame
<1>7. \A k, g : In(k, g)' <=> (In(k, g) \/ (F.kind = k /\ F.flip = g))
  <2>1. ASSUME NEW k, NEW g PROVE In(k, g)' <=> (In(k, g) \/ (F.kind = k /\ F.flip = g))
    BY <1>6, PushedIn DEF FlipInv
  <2>2. QED
    BY <2>1
<1>8. \A g \in Flips : g # f => old_fb_id'[g] = old_fb_id[g]
  BY <1>1 DEF FlipInv, PageFlipTypes
<1>9. old_fb_id'[f] = fb_id
  BY <1>1 DEF FlipInv, PageFlipTypes
<1>10. \A g \in live : g \in Flips /\ g # f
  BY <1>4, DisplayNumbers
<1>11. ScanInv'
  BY <1>0, <1>1, <1>2, DisplayNumbers DEF ScanInv
<1>12. ReachInv'
  BY <1>0, <1>1, <1>2 DEF ReachInv
<1>13. LoopInv'
  <2>1. /\ frame'[depth + 1] = F
        /\ \A d \in 1..depth : frame'[d] = frame[d]
        /\ \A d \in 1..depth' : d \in 1..depth \/ d = depth + 1
    BY <1>6, Pushed DEF FlipInv
  <2>2. \A d \in 1..depth : frame[d].kind # "flip"
    BY <1>1 DEF Submitting
  <2>3. ASSUME NEW d \in 1..depth', frame'[d].kind = "flip" PROVE frame'[d] = F
    BY <2>1, <2>2, <2>3
  <2>4. ASSUME NEW c \in on PROVE ~(c < c0)
    BY <1>3, <2>4, DisplayNumbers
  <2>5. ASSUME NEW c \in on PROVE scanout[c] <= old_fb_id'[f]
               /\ submitted[c].fb <= old_fb_id'[f]
    BY <1>0, <1>9 DEF ScanInv
  <2>6. QED
    BY <1>1, <1>6, <2>3, <2>4, <2>5 DEF LoopInv
<1>14. FbsInv'
  <2>1. ~closed
    BY DEF FlipBegin, CanFlip
  <2>2. fbs = {fb_id} \cup {old_fb_id[g] : g \in live}
    BY <1>0, <2>1 DEF FbsInv
  <2>3. {old_fb_id'[g] : g \in live'} = {fb_id} \cup {old_fb_id[g] : g \in live}
    BY <1>1, <1>8, <1>9, <1>10
  <2>4. QED
    BY <1>1, <2>2, <2>3 DEF FbsInv
<1>15. ChainInv'
  <2>1. fb_id # 0 => fb_id \in Accepted
    <3>1. ~In("flip", fb_id)
      BY <1>1 DEF Submitting, In
    <3>2. QED
      BY <1>0, <3>1 DEF ChainInv
  <2>2. In("flip", fb_id)'
    <3>1. depth + 1 \in 1..depth' /\ frame'[depth + 1] = F
      <4>1. depth \in Nat /\ PageFlipTypes
        BY PageFlipAssumption DEF FlipInv, PageFlipTypes
      <4>2. depth' = depth + 1 /\ frame'[depth + 1] = F
        BY <1>6, <4>1, Pushed
      <4>3. QED
        BY <4>1, <4>2
    <3>2. QED
      BY <1>1, <1>6, <3>1 DEF In
  <2>3. \A g \in live' : old_fb_id'[g] < g /\ g <= fb_id'
    <3>1. fb_id < f /\ f <= f
      BY <1>0, DisplayNumbers DEF ScanInv
    <3>2. ASSUME NEW g \in live PROVE old_fb_id'[g] < g /\ g <= f
      BY <1>0, <1>8, <1>10, <3>1, DisplayNumbers DEF ChainInv
    <3>3. QED
      BY <1>1, <1>9, <3>1, <3>2
  <2>4. ASSUME NEW g \in live', NEW h \in live', g < h PROVE g <= old_fb_id'[h]
    <3>1. \A x \in live : x <= fb_id
      BY <1>0 DEF ChainInv
    <3>2. CASE h = f
      <4>1. g # f
        BY <1>1, <2>4, <3>2, DisplayNumbers
      <4>2. QED
        BY <1>1, <1>9, <3>1, <3>2, <4>1
    <3>3. CASE h # f /\ g # f
      BY <1>0, <1>1, <1>8, <1>10, <2>4, <3>3 DEF ChainInv
    <3>4. CASE h # f /\ g = f
      <4>0. h \in live /\ h \in Flips /\ fb_id <= calls
        BY <1>0, <1>1, <1>10, <3>4 DEF ScanInv
      <4>1. h <= fb_id /\ fb_id < f /\ h \in Nat
        BY <3>1, <4>0, DisplayNumbers
      <4>2. QED
        BY <2>4, <3>4, <4>1, DisplayNumbers
    <3>5. QED
      BY <3>2, <3>3, <3>4
  <2>5. \A g \in live' : old_fb_id'[g] # 0 => old_fb_id'[g] \in Accepted
    BY <1>0, <1>1, <1>8, <1>9, <1>10, <2>1 DEF ChainInv
  <2>6. fb_id' # 0 => fb_id' \in Accepted' \/ In("flip", fb_id)'
    BY <2>2
  <2>7. QED
    BY <1>2, <2>3, <2>4, <2>5, <2>6 DEF ChainInv
<1>16. ToldInv'
  <2>1. \A g : In("events", g)' => In("events", g)
    BY <1>6, <1>7
  <2>2. QED
    BY <1>0, <1>1, <1>2, <2>1 DEF ToldInv
<1>17. QED
  BY <1>11, <1>12, <1>13, <1>14, <1>15, <1>16 DEF AllDisplay

\* The activation of ms_do_pageflip on top of the stack is the only one.
LEMMA LoopTop ==
    ASSUME FlipInv, LoopInv, ChainInv, depth > 0, top.kind = "flip"
    PROVE  /\ top.flip = fb_id /\ fb_id \in Flips /\ fb_id \in live /\ top.crtc \in on
           /\ depth \in 1..depth
           /\ [flip |-> fb_id, crtc |-> top.crtc] \in queue
           /\ \A d \in 1..depth : frame[d].kind = "flip" => d = depth
           /\ \A c \in on : c < top.crtc /\
                 [flip |-> fb_id, crtc |-> c] \notin queue => scanout[c] >= fb_id
           /\ \A c \in on : c >= top.crtc =>
                 scanout[c] <= old_fb_id[fb_id] /\ submitted[c].fb <= old_fb_id[fb_id]
           /\ old_fb_id[fb_id] < fb_id
           /\ \A g \in live : g # fb_id => g <= old_fb_id[fb_id]
<1>1. depth \in 1..depth /\ top.flip \in Flips /\ top.crtc \in Crtcs
  BY TopTyped DEF FlipInv
<1>2. /\ top.flip = fb_id
      /\ \A c \in on : c < top.crtc /\
            [flip |-> fb_id, crtc |-> c] \notin queue => scanout[c] >= fb_id
      /\ \A c \in on : c >= top.crtc =>
            scanout[c] <= old_fb_id[fb_id] /\ submitted[c].fb <= old_fb_id[fb_id]
  BY <1>1 DEF LoopInv, top
<1>3. [flip |-> fb_id, crtc |-> top.crtc] \in queue
  BY <1>1, <1>2 DEF FlipInv, StackInv, FrameInv, top
<1>4. top.crtc \in on
  BY <1>3 DEF FlipInv, StackInv
<1>5. \A d \in 1..depth : frame[d].kind = "flip" => d = depth
  <2>1. fb_id # 0
    BY <1>1, <1>2, DisplayNumbers
  <2>2. QED
    BY <1>1, <1>2, <2>1 DEF LoopInv, FlipInv, StackInv, top
<1>6. fb_id \in live
  BY <1>1, <1>2, TopIn, InIsLive DEF FlipInv
<1>7. old_fb_id[fb_id] < fb_id
  BY <1>6 DEF ChainInv
<1>8. ASSUME NEW g \in live, g # fb_id PROVE g <= old_fb_id[fb_id]
  <2>1. g < fb_id
    BY <1>8, DisplayNumbers DEF ChainInv
  <2>2. QED
    BY <1>6, <2>1 DEF ChainInv
<1>9. QED
  BY <1>1, <1>2, <1>3, <1>4, <1>5, <1>6, <1>7, <1>8

\* A CRTC that accepts a flip showed and awaited older framebuffers only.
LEMMA DisplayFlipAccepted ==
    ASSUME FlipInv, FlipInv', AnswerInv, AllDisplay, FlipAccepted
    PROVE  AllDisplay'
<1> DEFINE f == fb_id
           c == top.crtc
           n == NextOn(c)
           q0 == [flip |-> f, crtc |-> c]
           q1 == [flip |-> f, crtc |-> n]
<1>0. ScanInv /\ ReachInv /\ LoopInv /\ FbsInv /\ ChainInv /\ ToldInv
  BY DEF AllDisplay
<1>1. /\ depth > 0 /\ top.kind = "flip"
      /\ submitted' = [submitted EXCEPT ![c] = [flip |-> top.flip, fb |-> fb_id]]
      /\ UNCHANGED <<on, fb_id, fbs, scanout, fd, live, old_fb_id, calls, batch, closed>>
  BY DEF FlipAccepted
<1>2. /\ top.flip = f /\ f \in Flips /\ f \in live /\ c \in on /\ q0 \in queue
         /\ old_fb_id[f] < f
      /\ depth \in 1..depth
      /\ \A d \in 1..depth : frame[d].kind = "flip" => d = depth
      /\ \A d \in on : d < c /\ [flip |-> f, crtc |-> d] \notin queue => scanout[d] >= f
      /\ \A d \in on : d >= c => scanout[d] <= old_fb_id[f] /\ submitted[d].fb <= old_fb_id[f]
  BY <1>0, <1>1, LoopTop
<1>3. /\ c \in Crtcs /\ c \in Nat /\ on \subseteq Crtcs /\ \A d \in on : d \in Nat
      /\ PageFlipTypes /\ StackInv /\ f # 0
  BY <1>2, DisplayNumbers DEF FlipInv
<1>4. submitted'[c] = [flip |-> f, fb |-> f] /\ \A d \in Crtcs : d # c
      => submitted'[d] = submitted[d]
  BY <1>1, <1>2, <1>3 DEF PageFlipTypes
<1>5. Done' = Done
  BY <1>1 DEF Done
<1>6. \A d \in on : d > c => n \in on /\ n > c /\ n <= d
  <2>1. c \in Int
    BY <1>3
  <2>2. NextOn(c) = 0 => \A d \in on : ~(d > c)
    BY <1>3, <2>1, NextOnIs
  <2>3. NextOn(c) # 0 => NextOn(c) \in on /\ NextOn(c) > c /\ \A d \in on : d > c
        => NextOn(c) <= d
    BY <1>3, <2>1, NextOnIs
  <2>4. QED
    BY <2>2, <2>3
<1>7. ScanInv'
  <2>1. scanout[c] < f
    BY <1>2, <1>3, DisplayNumbers
  <2>2. f <= f
    BY <1>3, DisplayNumbers
  <2>3. QED
    BY <1>0, <1>1, <1>2, <1>3, <1>4, <1>5, <2>1, <2>2 DEF ScanInv
<1>8. FbsInv'
  BY <1>0, <1>1 DEF FbsInv
<1>9. CASE n # 0 /\ queue' = queue \cup {q1}
           /\ frame' = [frame EXCEPT ![depth] = FlipFrame(top.flip, n)]
           /\ UNCHANGED <<depth, returned>>
  <2>1. n \in on /\ n > c /\ n \in Crtcs
    BY <1>3, <1>9, NextOnIs
  <2>2. PICK F \in Frame : F = FlipFrame(f, n)
    BY <1>2, <2>1, FramesTyped
  <2>3. frame' = [frame EXCEPT ![depth] = F] /\ F.kind = "flip" /\ F.flip = f /\ F.crtc = n
    BY <1>2, <1>9, <2>2 DEF FlipFrame
  <2>4. frame'[depth] = F /\ \A d \in 1..depth : d # depth => frame'[d] = frame[d]
    BY <1>1, <1>3, <2>3, Replaced
  <2>5. Accepted' = Accepted
    BY <1>9 DEF Accepted
  <2>6. ReachInv'
    BY <1>0, <1>1, <1>9, <2>5 DEF ReachInv
  <2>7. LoopInv'
    <3>1. \A d \in 1..depth' : frame'[d].kind = "flip" => d = depth /\ frame'[d] = F
      BY <1>2, <1>9, <2>4
    <3>2. ASSUME NEW d \in on, d < n, [flip |-> f,
                 crtc |-> d] \notin queue' PROVE scanout[d] >= f
      <4>1. ~(d > c)
        BY <1>3, <1>6, <2>1, <3>2
      <4>2. d # c
        BY <1>2, <1>9, <3>2
      <4>3. d < c
        BY <1>3, <4>1, <4>2
      <4>4. QED
        BY <1>2, <1>9, <3>2, <4>3
    <3>3. ASSUME NEW d \in on, d >= n PROVE scanout[d] <= old_fb_id[f]
                 /\ submitted'[d].fb <= old_fb_id[f]
      <4>1. d >= c /\ d # c /\ d \in Crtcs
        BY <1>3, <2>1, <3>3
      <4>2. QED
        BY <1>2, <1>4, <4>1
    <3>4. QED
      BY <1>1, <2>3, <3>1, <3>2, <3>3 DEF LoopInv
  <2>8. ChainInv'
    <3>1. In("flip", fb_id)'
      BY <1>1, <1>2, <1>9, <2>3, <2>4 DEF In
    <3>2. QED
      BY <1>0, <1>1, <2>5, <3>1 DEF ChainInv
  <2>9. ToldInv'
    <3>1. ASSUME NEW g \in Flips, In("events", g)' PROVE In("events", g)
      BY <1>9, <2>3, <2>4, <3>1 DEF In
    <3>2. QED
      BY <1>0, <1>1, <2>5, <3>1 DEF ToldInv
  <2>10. QED
    BY <1>7, <1>8, <2>6, <2>7, <2>8, <2>9 DEF AllDisplay
<1>10. CASE n = 0 /\ returned' = [returned EXCEPT ![top.flip] = "true"] /\ Pop
            /\ UNCHANGED queue
  <2>1. /\ \A d \in 1..depth' : d \in 1..depth /\ d # depth /\ frame'[d] = frame[d]
    BY <1>1, <1>3, <1>10, Popped
  <2>2. Accepted' = Accepted \cup {f}
    BY <1>2, <1>10 DEF Accepted, FlipInv, PageFlipTypes
  <2>3. ReachInv'
    <3>1. ASSUME NEW d \in on, [flip |-> f, crtc |-> d] \notin queue PROVE scanout[d] >= f
      <4>1. ~(d > c)
        BY <1>3, <1>10, NextOnIs
      <4>2. d # c
        BY <1>2, <3>1
      <4>3. d < c
        BY <1>3, <4>1, <4>2
      <4>4. QED
        BY <1>2, <3>1, <4>3
    <3>2. QED
      BY <1>0, <1>1, <1>10, <2>2, <3>1 DEF ReachInv
  <2>4. LoopInv'
    BY <1>2, <2>1 DEF LoopInv
  <2>5. ChainInv'
    BY <1>0, <1>1, <2>2 DEF ChainInv
  <2>6. ToldInv'
    <3>1. ASSUME NEW g \in Flips, In("events", g)' PROVE In("events", g)
      BY <2>1, <3>1 DEF In
    <3>2. QED
      BY <1>0, <1>1, <2>2, <3>1 DEF ToldInv
  <2>7. QED
    BY <1>7, <1>8, <2>3, <2>4, <2>5, <2>6 DEF AllDisplay
<1>11. QED
  BY <1>2, <1>9, <1>10 DEF FlipAccepted

\* The first CRTC refused: the framebuffer of the flip is on no CRTC yet.
LEMMA DisplayFlipRefused ==
    ASSUME FlipInv, FlipInv', AnswerInv, AllDisplay, FlipRefused, partial' = {}
    PROVE  AllDisplay'
<1> DEFINE f == fb_id
           c == top.crtc
           q0 == [flip |-> f, crtc |-> c]
<1>0. ScanInv /\ ReachInv /\ LoopInv /\ FbsInv /\ ChainInv /\ ToldInv
  BY DEF AllDisplay
<1>1. /\ depth > 0 /\ top.kind = "flip" /\ Pop
      /\ queue' = queue \ {[flip |-> top.flip, crtc |-> c]}
      /\ returned' = [returned EXCEPT ![top.flip] = "false"]
      /\ UNCHANGED <<on, fd, old_fb_id, calls, batch, closed>>
  BY DEF FlipRefused, Undo
<1>2. top.crtc = NextOn(0)
  BY DEF FlipRefused
<1>3. drmModeRmFB(fb_id) /\ fb_id' = old_fb_id[top.flip] /\ live' = live \ {top.flip}
  BY <1>2, RefusedIsFreed
<1>4. /\ top.flip = f /\ f \in Flips /\ f \in live /\ c \in on /\ q0 \in queue
         /\ old_fb_id[f] < f
      /\ \A d \in 1..depth : frame[d].kind = "flip" => d = depth
      /\ \A d \in on : d >= c => scanout[d] <= old_fb_id[f] /\ submitted[d].fb <= old_fb_id[f]
      /\ \A g \in live : g # f => g <= old_fb_id[f]
  BY <1>0, <1>1, LoopTop
<1>5. \A d \in on : d >= c
  <2>1. on \subseteq Crtcs /\ 0 \in Int
    BY DisplayNumbers
  <2>2. NextOn(0) = 0 => \A d \in on : ~(d > 0)
    BY <2>1, NextOnIs
  <2>3. NextOn(0) # 0 => \A d \in on : d > 0 => NextOn(0) <= d
    BY <2>1, NextOnIs
  <2>4. QED
    BY <1>2, <1>4, <2>1, <2>2, <2>3, DisplayNumbers
<1>6. \A d \in on : scanout[d] <= old_fb_id[f] /\ submitted[d].fb <= old_fb_id[f]
  BY <1>4, <1>5
<1>7. /\ \A d \in on : scanout'[d] = scanout[d]
      /\ \A d \in Crtcs : submitted'[d] = submitted[d]
      /\ fbs' = fbs \ {f}
  <2>1. \A d \in on : scanout[d] # f /\ submitted[d].fb # f
    BY <1>4, <1>6, DisplayNumbers
  <2>2. QED
    BY <1>0, <1>3, <2>1, RmFBUnseen
<1>8. Done' = Done
  BY <1>1 DEF Done
<1>9. Accepted' = Accepted /\ f \notin Accepted
  <2>1. In("flip", f)
    BY <1>1, <1>4, TopIn DEF FlipInv
  <2>2. returned[f] = "no"
    BY <1>4, <2>1 DEF AnswerInv, AnswerOf
  <2>3. QED
    BY <1>1, <1>4, <2>2 DEF Accepted, FlipInv, PageFlipTypes
<1>10. \A d \in 1..depth' : d \in 1..depth /\ d # depth /\ frame'[d] = frame[d]
  BY <1>1, Popped DEF FlipInv
<1>11. ScanInv'
  <2>1. old_fb_id[f] <= calls
    BY <1>0, <1>4, DisplayNumbers DEF ScanInv
  <2>2. fb_id' = old_fb_id[f]
    BY <1>3, <1>4
  <2>3. on \subseteq Crtcs /\ \A q \in Done : q.crtc \in on
    BY <1>0, DisplayNumbers DEF ScanInv
  <2>4. QED
    BY <1>0, <1>1, <1>6, <1>7, <1>8, <2>1, <2>2, <2>3 DEF ScanInv
<1>12. ReachInv'
  BY <1>0, <1>1, <1>4, <1>7, <1>9 DEF ReachInv
<1>13. LoopInv'
  BY <1>4, <1>10 DEF LoopInv
<1>14. FbsInv'
  <2>1. ASSUME ~closed PROVE fbs' = {fb_id'} \cup {old_fb_id[g] : g \in live'}
    <3>1. fbs = {f} \cup {old_fb_id[g] : g \in live}
      BY <1>0, <2>1 DEF FbsInv
    <3>2. \A g \in live : old_fb_id[g] # f
      BY <1>0, DisplayNumbers DEF ChainInv
    <3>3. QED
      BY <1>3, <1>4, <1>7, <3>1, <3>2
  <2>2. QED
    BY <1>1, <2>1 DEF FbsInv
<1>15. ChainInv'
  BY <1>0, <1>1, <1>3, <1>4, <1>9 DEF ChainInv
<1>16. ToldInv'
  <2>1. ASSUME NEW g \in Flips, In("events", g)' PROVE In("events", g)
    BY <1>10, <2>1 DEF In
  <2>2. QED
    BY <1>0, <1>1, <1>7, <1>9, <2>1 DEF ToldInv
<1>17. QED
  BY <1>11, <1>12, <1>13, <1>14, <1>15, <1>16 DEF AllDisplay

\* The last event of a flip: it was accepted, and every CRTC that is on has done it.
LEMMA ToldIsDone ==
    ASSUME FlipInv, AnswerInv, ScanInv, ReachInv, partial = {}, depth > 0,
           NEW r \in batch, NEW f \in Flips, r.flip = f,
           [flip |-> f, crtc |-> r.crtc] \in queue, flip_count[f] = 1
    PROVE  f \in Accepted /\ \A c \in on : scanout[c] >= f
<1> DEFINE q0 == [flip |-> f, crtc |-> r.crtc]
<1>1. Carriers(f) = {q0} /\ Activations(f) = {} /\ f \in live
  <2>1. q0 \in queue /\ q0.flip = f
    OBVIOUS
  <2> HIDE DEF q0
  <2>2. QED
    BY <2>1, LastEvent
<1>2. f \in Accepted
  <2>1. ~In("flip", f) /\ f <= calls
    BY <1>1, InIsLive DEF In, Activations
  <2>2. returned[f] # "no" /\ returned[f] # "false"
    BY <1>1, <2>1 DEF AnswerInv, AnswerOf
  <2>3. returned[f] \in {"no", "true", "false"}
    BY DEF FlipInv, PageFlipTypes
  <2>4. QED
    BY <2>2, <2>3 DEF Accepted
<1>3. ASSUME NEW c \in on PROVE scanout[c] >= f
  <2>1. CASE c = r.crtc
    <3>1. q0 \in Done /\ q0.crtc = c /\ q0.flip = f
      BY <2>1, DisplayNumbers DEF Done
    <3>2. QED
      BY <3>1 DEF ScanInv
  <2>2. CASE c # r.crtc
    <3>1. [flip |-> f, crtc |-> c] \notin queue
      <4>1. [flip |-> f, crtc |-> c] # q0
        BY <2>2
      <4>2. QED
        BY <1>1, <4>1 DEF Carriers
    <3>2. ~closed
      BY DEF FlipInv, StackInv
    <3>3. QED
      BY <1>2, <3>1, <3>2 DEF ReachInv
  <2>3. QED
    BY <2>1, <2>2
<1>4. QED
  BY <1>2, <1>3

\* Dispatching events displays nothing.
LEMMA DisplayDispatch ==
    ASSUME FlipInv, FlipInv', AnswerInv, AllDisplay, NEW r \in batch, Dispatch(r), partial = {}
    PROVE  AllDisplay'
<1> DEFINE f == r.flip
           q0 == [flip |-> r.flip, crtc |-> r.crtc]
<1>0. ScanInv /\ ReachInv /\ LoopInv /\ FbsInv /\ ChainInv /\ ToldInv
  BY DEF AllDisplay
<1>1. /\ depth > 0 /\ top.kind = "events" /\ batch' = batch \ {r}
      /\ UNCHANGED <<on, fb_id, fbs, scanout, submitted, fd, old_fb_id, calls, returned,
          depth, closed>>
  BY DEF Dispatch, ms_pageflip_handler, displayVars
<1>2. Accepted' = Accepted /\ Done' \subseteq Done
  BY <1>1 DEF Accepted, Done
<1>3. calls <= calls' /\ depth \in 1..depth /\ frame[depth].kind = "events" /\ PageFlipTypes
  BY <1>1, DisplayNumbers, TopTyped DEF FlipInv, top
<1>4. ASSUME NEW F \in Frame, frame' = [frame EXCEPT ![depth] = F], F.kind = "events",
             live' = live,
             \A q \in queue : q \notin queue' => q \in Done,
             F.flip \in Flips => F.flip \in Accepted /\ \A c \in on : scanout[c] >= F.flip
      PROVE  AllDisplay'
  <2>1. frame'[depth] = F /\ \A d \in 1..depth : d # depth => frame'[d] = frame[d]
    BY <1>1, <1>3, <1>4, Replaced
  <2>2. \A d \in 1..depth' : frame'[d].kind = "flip" => d \in 1..depth /\ frame'[d] = frame[d]
    BY <1>1, <1>4, <2>1
  <2>3. ASSUME NEW g \in Flips, In("events", g)'
        PROVE  In("events", g) \/ (g \in Accepted /\ \A c \in on : scanout[c] >= g)
    <3>1. PICK d \in 1..depth' : frame'[d].kind = "events" /\ frame'[d].flip = g
      BY <2>3 DEF In
    <3>2. CASE d = depth
      BY <1>4, <2>1, <3>1, <3>2
    <3>3. CASE d # depth
      BY <1>1, <2>1, <3>1, <3>3 DEF In
    <3>4. QED
      BY <3>2, <3>3
  <2>4. ScanInv' /\ ReachInv' /\ LoopInv' /\ ToldInv'
    BY <1>0, <1>1, <1>2, <1>3, <1>4, <2>2, <2>3, DisplayKept
  <2>5. FbsInv'
    BY <1>0, <1>1, <1>4 DEF FbsInv
  <2>6. In("flip", fb_id) => In("flip", fb_id)'
    BY <1>1, <1>3, <2>1 DEF In
  <2>7. ChainInv'
    BY <1>0, <1>1, <1>2, <1>4, <2>6 DEF ChainInv
  <2>8. QED
    BY <2>4, <2>5, <2>7 DEF AllDisplay
<1>5. 0 \notin Flips
  BY PageFlipAssumption DEF Flips
<1>6. CASE q0 \in queue /\ queue' = queue \ {q0} /\ ms_pageflip_handler(f)
  <2>1. f \in Flips /\ q0 \in Carrier
    BY <1>6, DisplayNumbers
  <2>2. \A q \in queue : q \notin queue' => q \in Done
    BY <1>6, <2>1 DEF Done
  <2>3. CASE flip_count[f] = 1
    <3>1. f \in Accepted /\ \A c \in on : scanout[c] >= f
      BY <1>0, <1>1, <1>6, <2>1, <2>3, ToldIsDone
    <3>2. f \in 0..MaxFlips
      BY <2>1, PageFlipAssumption DEF Flips
    <3>3. PICK F \in Frame : F = EventFrame(f, TRUE)
      BY <3>2, FramesTyped
    <3>4. frame' = [frame EXCEPT ![depth] = F] /\ F.kind = "events" /\ F.flip = f
          /\ live' = live
      BY <1>6, <2>3, <3>3 DEF ms_pageflip_handler, EventFrame
    <3>5. QED
      BY <1>4, <2>2, <3>1, <3>4
  <2>4. CASE flip_count[f] # 1
    <3>1. PICK F \in Frame : F = EventFrame(0, TRUE)
      BY FramesTyped
    <3>2. frame' = [frame EXCEPT ![depth] = F] /\ F.kind = "events" /\ F.flip = 0
          /\ live' = live
      BY <1>6, <2>4, <3>1 DEF ms_pageflip_handler, EventFrame, Unref
    <3>3. QED
      BY <1>4, <1>5, <2>2, <3>2
  <2>5. QED
    BY <2>3, <2>4
<1>7. CASE /\ frame' = [frame EXCEPT ![depth] = EventFrame(0, q0 = Vblank)]
           /\ UNCHANGED <<queue, live>>
  <2>1. (q0 = Vblank) = TRUE \/ (q0 = Vblank) = FALSE
    OBVIOUS
  <2>2. EventFrame(0, q0 = Vblank) \in Frame
    BY <2>1, FramesTyped
  <2>3. PICK F \in Frame : F = EventFrame(0, q0 = Vblank)
    BY <2>2
  <2>4. frame' = [frame EXCEPT ![depth] = F] /\ F.flip = 0 /\ F.kind = "events"
    BY <1>7, <2>3 DEF EventFrame
  <2>5. \A q \in queue : q \notin queue' => q \in Done
    BY <1>7
  <2>6. QED
    BY <1>4, <1>5, <1>7, <2>4, <2>5
<1>8. QED
  BY <1>6, <1>7 DEF Dispatch

\* The framebuffer that is removed is older than everything shown or awaited.
LEMMA DisplayHandlerReturns ==
    ASSUME FlipInv, FlipInv', AllDisplay, HandlerReturns
    PROVE  AllDisplay'
<1> DEFINE f == top.flip
<1>0. ScanInv /\ ReachInv /\ LoopInv /\ FbsInv /\ ChainInv /\ ToldInv
  BY DEF AllDisplay
<1>1. /\ depth > 0 /\ top.kind = "events" /\ drmModeRmFB(old_fb_id[f])
      /\ frame' = [frame EXCEPT ![depth] = EventFrame(0, FALSE)]
      /\ UNCHANGED <<on, fb_id, fd, queue, old_fb_id, calls, returned, batch, depth, closed>>
  BY DEF HandlerReturns
<1>2. f \in Flips /\ In("events", f) /\ live' = live \ {f}
  BY ReturnFrees
<1>3. f \in Accepted /\ f \in live /\ \A c \in on : scanout[c] >= f
  BY <1>0, <1>2, InIsLive DEF ToldInv
<1>4. old_fb_id[f] < f
  BY <1>0, <1>3 DEF ChainInv
<1>5. /\ \A c \in on : scanout'[c] = scanout[c]
      /\ \A c \in Crtcs : submitted'[c] = submitted[c]
      /\ fbs' = fbs \ {old_fb_id[f]}
  <2>1. ASSUME NEW c \in on
        PROVE  scanout[c] # old_fb_id[f] /\ (submitted[c] # None
               => submitted[c].fb # old_fb_id[f])
    <3>1. c \in Crtcs /\ scanout[c] >= f /\ (submitted[c] # None
          => scanout[c] < submitted[c].fb)
      BY <1>0, <1>3, DisplayNumbers DEF ScanInv
    <3>2. scanout[c] \in Int /\ submitted[c].fb \in Int /\ f \in Int /\ old_fb_id[f] \in Int
      BY <1>2, <3>1, DisplayNumbers
    <3>3. QED
      BY <1>4, <3>1, <3>2
  <2>2. QED
    BY <1>0, <1>1, <2>1, RmFBUnseen
<1>6. Accepted' = Accepted /\ Done' = Done
  BY <1>1 DEF Accepted, Done
<1>7. PICK F \in Frame : F = EventFrame(0, FALSE)
  BY FramesTyped
<1>8. frame' = [frame EXCEPT ![depth] = F] /\ F.kind = "events" /\ F.flip = 0
  BY <1>1, <1>7 DEF EventFrame
<1>9. /\ depth \in 1..depth /\ frame[depth].kind = "events" /\ frame'[depth] = F
      /\ \A d \in 1..depth : d # depth => frame'[d] = frame[d]
  BY <1>1, <1>8, Replaced DEF FlipInv, top
<1>10. \A d \in 1..depth' : frame'[d].kind = "flip" => d \in 1..depth /\ frame'[d] = frame[d]
  BY <1>1, <1>8, <1>9
<1>11. \A g \in Flips : In("events", g)' => In("events", g)
  <2>1. \A g \in Flips : g # 0
    BY PageFlipAssumption DEF Flips
  <2>2. QED
    BY <1>1, <1>8, <1>9, <2>1 DEF In
<1>12. calls <= calls' /\ \A q \in queue : q \notin queue' => q \in Done
  BY <1>1, DisplayNumbers
<1>13. ScanInv' /\ ReachInv' /\ LoopInv' /\ ToldInv'
  BY <1>0, <1>1, <1>5, <1>6, <1>10, <1>11, <1>12, DisplayKept
<1>14. FbsInv'
  <2>1. ASSUME ~closed PROVE fbs' = {fb_id} \cup {old_fb_id[g] : g \in live'}
    <3>1. fbs = {fb_id} \cup {old_fb_id[g] : g \in live}
      BY <1>0, <2>1 DEF FbsInv
    <3>2. old_fb_id[f] # fb_id
      BY <1>0, <1>3, DisplayNumbers DEF ChainInv
    <3>3. ASSUME NEW g \in live, g # f PROVE old_fb_id[g] # old_fb_id[f]
      <4>1. g \in Nat /\ f \in Nat /\ old_fb_id[g] \in Nat /\ old_fb_id[f] \in Nat
        BY <1>2, <3>3, DisplayNumbers
      <4>2. CASE g < f
        <5>1. g <= old_fb_id[f] /\ old_fb_id[g] < g
          BY <1>0, <1>3, <4>2 DEF ChainInv
        <5>2. QED
          BY <4>1, <5>1
      <4>3. CASE f < g
        <5>1. f <= old_fb_id[g]
          BY <1>0, <1>3, <4>3 DEF ChainInv
        <5>2. QED
          BY <1>4, <4>1, <5>1
      <4>4. QED
        BY <3>3, <4>1, <4>2, <4>3
    <3>4. QED
      BY <1>2, <1>3, <1>5, <3>1, <3>2, <3>3
  <2>2. QED
    BY <1>1, <2>1 DEF FbsInv
<1>15. ChainInv'
  <2>1. In("flip", fb_id) => In("flip", fb_id)'
    BY <1>1, <1>9 DEF In
  <2>2. QED
    BY <1>0, <1>1, <1>2, <1>6, <2>1 DEF ChainInv
<1>16. QED
  BY <1>13, <1>14, <1>15 DEF AllDisplay

\* A return of drmHandleEvent displays nothing.
LEMMA DisplayEventsDone ==
    ASSUME FlipInv, FlipInv', AllDisplay, EventsDone
    PROVE  AllDisplay'
<1>0. ScanInv /\ ReachInv /\ LoopInv /\ FbsInv /\ ChainInv /\ ToldInv
  BY DEF AllDisplay
<1>1. /\ depth > 0 /\ top.kind = "events" /\ Pop
      /\ UNCHANGED <<on, fb_id, fbs, scanout, submitted, fd, live, queue, old_fb_id, calls,
          returned,
                     batch, closed>>
  BY DEF EventsDone, displayVars, flipVars
<1>2. /\ \A d \in 1..depth' : d \in 1..depth /\ d # depth /\ frame'[d] = frame[d]
      /\ \A d \in 1..depth : d \in 1..depth' \/ d = depth
  BY <1>1, Popped DEF FlipInv
<1>3. Accepted' = Accepted /\ Done' = Done
  BY <1>1 DEF Accepted, Done
<1>4. calls <= calls' /\ \A q \in queue : q \notin queue' => q \in Done
  BY <1>1, DisplayNumbers
<1>5. \A g \in Flips : In("events", g)' => In("events", g)
  BY <1>2 DEF In
<1>6. ScanInv' /\ ReachInv' /\ LoopInv' /\ ToldInv'
  BY <1>0, <1>1, <1>2, <1>3, <1>4, <1>5, DisplayKept
<1>7. In("flip", fb_id) => In("flip", fb_id)'
  BY <1>1, <1>2 DEF In, top
<1>8. FbsInv' /\ ChainInv'
  BY <1>0, <1>1, <1>3, <1>7 DEF FbsInv, ChainInv
<1>9. QED
  BY <1>6, <1>8 DEF AllDisplay

\* Reading events displays nothing.
LEMMA DisplayReadEvents ==
    ASSUME FlipInv, FlipInv', AllDisplay, NEW E \in SUBSET fd, ReadEvents(E),
           UNCHANGED <<on, fb_id, displayVars, queue, flipVars, closed>>
    PROVE  AllDisplay'
<1>0. ScanInv /\ ReachInv /\ LoopInv /\ FbsInv /\ ChainInv /\ ToldInv
  BY DEF AllDisplay
<1>1. /\ UNCHANGED <<on, fb_id, fbs, scanout, submitted, live, queue, old_fb_id, calls,
         returned,
                     closed>>
      /\ fd' = fd \ E
      /\ batch' = batch \cup {[flip |-> e.flip, crtc |-> e.crtc, at |-> depth + 1] : e \in E}
  BY DEF displayVars, flipVars, ReadEvents
<1>2. PICK F \in Frame : F = EventFrame(0, FALSE)
  BY FramesTyped
<1>3. Push(F) /\ F.kind = "events" /\ F.flip = 0
  BY <1>2 DEF ReadEvents, EventFrame
<1>4. /\ frame'[depth + 1] = F
      /\ \A d \in 1..depth : frame'[d] = frame[d]
      /\ \A d \in 1..depth' : d \in 1..depth \/ d = depth + 1
  BY <1>3, Pushed DEF FlipInv
<1>5. Accepted' = Accepted
  BY <1>1 DEF Accepted
<1>6. Done' \subseteq Done
  <2>1. ASSUME NEW x \in batch', NEW q \in Carrier, x.flip = q.flip,
               x.crtc = q.crtc PROVE q \in Done
    <3>1. CASE x \in batch
      BY <2>1, <3>1 DEF Done
    <3>2. CASE x \notin batch
      <4>1. PICK e \in E : x = [flip |-> e.flip, crtc |-> e.crtc, at |-> depth + 1]
        BY <1>1, <2>1, <3>2
      <4>2. e \in fd /\ e \in Event /\ e.flip = q.flip /\ e.crtc = q.crtc
        BY <2>1, <4>1 DEF FlipInv, PageFlipTypes
      <4>3. e = q
        BY <2>1, <4>2, PageFlipAssumption DEF Event, Carrier, Vblank, Flips
      <4>4. QED
        BY <4>2, <4>3 DEF Done
    <3>3. QED
      BY <3>1, <3>2
  <2>2. QED
    BY <1>1, <2>1 DEF Done
<1>7. calls <= calls' /\ \A q \in queue : q \notin queue' => q \in Done
  BY <1>1, DisplayNumbers
<1>8. \A d \in 1..depth' : frame'[d].kind = "flip" => d \in 1..depth /\ frame'[d] = frame[d]
  BY <1>3, <1>4
<1>9. \A k, g : In(k, g)' <=> (In(k, g) \/ (F.kind = k /\ F.flip = g))
  <2>1. ASSUME NEW k, NEW g PROVE In(k, g)' <=> (In(k, g) \/ (F.kind = k /\ F.flip = g))
    BY <1>3, PushedIn DEF FlipInv
  <2>2. QED
    BY <2>1
<1>10. \A g \in Flips : In("events", g)' => In("events", g)
  <2>1. \A g \in Flips : g # 0
    BY PageFlipAssumption DEF Flips
  <2>2. QED
    BY <1>3, <1>9, <2>1
<1>11. ScanInv' /\ ReachInv' /\ LoopInv' /\ ToldInv'
  BY <1>0, <1>1, <1>5, <1>6, <1>7, <1>8, <1>10, DisplayKept
<1>12. In("flip", fb_id) => In("flip", fb_id)'
  <2>1. depth' = depth + 1 /\ depth \in Nat
    BY <1>3, Pushed, PageFlipAssumption DEF FlipInv, PageFlipTypes
  <2>2. QED
    BY <1>1, <1>4, <2>1 DEF In
<1>13. FbsInv' /\ ChainInv'
  BY <1>0, <1>1, <1>5, <1>12 DEF FbsInv, ChainInv
<1>14. QED
  BY <1>11, <1>13 DEF AllDisplay

\* A CRTC flips to a newer framebuffer.
LEMMA DisplayKernelFlips ==
    ASSUME FlipInv, FlipInv', AllDisplay, NEW c \in Crtcs, KernelFlips(c)
    PROVE  AllDisplay'
<1> DEFINE b == submitted[c].fb
<1>0. ScanInv /\ ReachInv /\ LoopInv /\ FbsInv /\ ChainInv /\ ToldInv
  BY DEF AllDisplay
<1>1. /\ submitted[c] # None /\ scanout' = [scanout EXCEPT ![c] = b]
      /\ submitted' = [submitted EXCEPT ![c] = None]
      /\ fd' = fd \cup {[flip |-> submitted[c].flip, crtc |-> c]}
      /\ UNCHANGED <<on, fb_id, fbs, live, queue, old_fb_id, calls, returned, depth, frame,
                     batch, closed>>
  BY DEF KernelFlips, flipVars, stackVars
<1>2. c \in on /\ b = submitted[c].flip /\ scanout[c] < b /\ b <= fb_id /\ 0 <= scanout[c]
  BY <1>0, <1>1 DEF ScanInv
<1>3. /\ on \subseteq Crtcs /\ fb_id \in Nat /\ b \in Int /\ scanout[c] \in Int
      /\ \A d \in Crtcs : scanout[d] \in Int
  BY DisplayNumbers
<1>4. /\ scanout'[c] = b /\ \A d \in Crtcs : d # c => scanout'[d] = scanout[d]
      /\ submitted'[c] = None /\ \A d \in Crtcs : d # c => submitted'[d] = submitted[d]
  BY <1>1 DEF FlipInv, PageFlipTypes
<1>5. \A d \in on : scanout'[d] >= scanout[d] /\ scanout'[d] \in Int
  BY <1>2, <1>3, <1>4
<1>6. Accepted' = Accepted /\ \A k, g : In(k, g)' <=> In(k, g)
  BY <1>1 DEF Accepted, In
<1>7. \A q \in Done' : q \in Done \/ (q.flip = b /\ q.crtc = c)
  BY <1>1, <1>2 DEF Done
<1>8. ScanInv'
  <2>1. \A d \in on : 0 <= scanout'[d] /\ scanout'[d] <= fb_id /\ submitted'[d].fb <= fb_id
    BY <1>0, <1>2, <1>3, <1>4 DEF ScanInv, None
  <2>2. \A d \in Crtcs : submitted'[d] # None =>
         /\ d \in on
         /\ submitted'[d].fb = submitted'[d].flip
         /\ scanout'[d] < submitted'[d].fb
    BY <1>0, <1>4 DEF ScanInv
  <2>3. ASSUME NEW q \in Done' PROVE q.crtc \in on /\ scanout'[q.crtc] >= q.flip
    <3>1. CASE q \in Done
      <4>1. q.crtc \in on /\ scanout[q.crtc] >= q.flip /\ q.flip \in Int
        BY <1>0, <3>1, DisplayNumbers DEF ScanInv
      <4>2. scanout[q.crtc] \in Int /\ scanout'[q.crtc] >= scanout[q.crtc]
            /\ scanout'[q.crtc] \in Int
        BY <1>3, <1>5, <4>1
      <4>3. QED
        BY <4>1, <4>2
    <3>2. CASE q.flip = b /\ q.crtc = c
      BY <1>2, <1>3, <1>4, <3>2
    <3>3. QED
      BY <1>7, <3>1, <3>2
  <2>4. QED
    BY <1>0, <1>1, <2>1, <2>2, <2>3 DEF ScanInv
<1>9. ReachInv'
  <2>1. ASSUME ~closed, NEW f \in Accepted, NEW d \in on, [flip |-> f, crtc |-> d] \notin queue
        PROVE  scanout'[d] >= f
    <3>1. scanout[d] >= f /\ f \in Int /\ scanout[d] \in Int
      BY <1>0, <1>3, <2>1, DisplayNumbers DEF ReachInv, Accepted
    <3>2. QED
      BY <1>5, <3>1
  <2>2. QED
    BY <1>1, <1>6, <2>1 DEF ReachInv
<1>10. LoopInv'
  <2>1. ASSUME NEW d \in 1..depth, frame[d].kind = "flip"
        PROVE  /\ frame[d].flip = fb_id
               /\ \A e \in on : e < frame[d].crtc /\
                     [flip |-> fb_id, crtc |-> e] \notin queue => scanout'[e] >= fb_id
               /\ \A e \in on : e >= frame[d].crtc =>
                     scanout'[e] <= old_fb_id[fb_id] /\ submitted'[e].fb <= old_fb_id[fb_id]
    <3>1. /\ frame[d].flip = fb_id
          /\ \A e \in on : e < frame[d].crtc /\
                [flip |-> fb_id, crtc |-> e] \notin queue => scanout[e] >= fb_id
          /\ \A e \in on : e >= frame[d].crtc =>
                scanout[e] <= old_fb_id[fb_id] /\ submitted[e].fb <= old_fb_id[fb_id]
      BY <1>0, <2>1 DEF LoopInv
    <3>2. fb_id \in Flips
      <4>1. In("flip", fb_id) /\ d \in 1..MaxDepth
        BY <2>1, <3>1, PageFlipAssumption DEF In, FlipInv, PageFlipTypes
      <4>2. frame[d] \in Frame
        BY <4>1 DEF FlipInv, PageFlipTypes
      <4>3. frame[d] # NoFrame /\ frame[d] \notin [kind : {"events"}, flip : 0..MaxFlips,
            crtc : {0}, ran : BOOLEAN]
        BY <2>1 DEF NoFrame
      <4>4. frame[d] \in [kind : {"flip"}, flip : Flips, crtc : Crtcs, ran : {FALSE}]
        BY <4>2, <4>3 DEF Frame
      <4>5. QED
        BY <3>1, <4>4
    <3>3. old_fb_id[fb_id] \in Nat
      BY <3>2, DisplayNumbers
    <3>4. ASSUME NEW e \in on, e < frame[d].crtc, [flip |-> fb_id, crtc |-> e] \notin queue
          PROVE  scanout'[e] >= fb_id
      <4>1. scanout[e] >= fb_id /\ scanout[e] \in Int
        BY <1>3, <3>1, <3>4
      <4>2. QED
        BY <1>3, <1>5, <4>1
    <3>5. ASSUME NEW e \in on, e >= frame[d].crtc
          PROVE  scanout'[e] <= old_fb_id[fb_id] /\ submitted'[e].fb <= old_fb_id[fb_id]
      <4>1. scanout[e] <= old_fb_id[fb_id] /\ submitted[e].fb <= old_fb_id[fb_id] /\ e \in Crtcs
        BY <1>3, <3>1, <3>5
      <4>2. QED
        BY <1>4, <3>3, <4>1 DEF None
    <3>6. QED
      BY <3>1, <3>4, <3>5
  <2>2. QED
    BY <1>1, <2>1 DEF LoopInv
<1>11. FbsInv' /\ ChainInv'
  BY <1>0, <1>1, <1>6 DEF FbsInv, ChainInv
<1>12. ToldInv'
  <2>1. ASSUME NEW f \in Flips, In("events", f), NEW d \in on PROVE scanout'[d] >= f
    <3>1. scanout[d] >= f /\ f \in Int /\ scanout[d] \in Int
      BY <1>0, <1>3, <2>1, DisplayNumbers DEF ToldInv
    <3>2. QED
      BY <1>5, <3>1
  <2>2. QED
    BY <1>0, <1>1, <1>6, <2>1 DEF ToldInv
<1>13. QED
  BY <1>8, <1>9, <1>10, <1>11, <1>12 DEF AllDisplay

\* Other events display nothing.
LEMMA DisplaySame ==
    ASSUME FlipInv, FlipInv', AllDisplay, fd' \subseteq fd \cup {Vblank},
           UNCHANGED <<on, fb_id, fbs, scanout, submitted, live, queue, old_fb_id, calls,
               returned,
                       depth, frame, batch, closed>>
    PROVE  AllDisplay'
<1>0. ScanInv /\ ReachInv /\ LoopInv /\ FbsInv /\ ChainInv /\ ToldInv
  BY DEF AllDisplay
<1>1. Accepted' = Accepted /\ \A k, g : In(k, g)' <=> In(k, g)
  BY DEF Accepted, In
<1>2. Done' \subseteq Done
  BY PageFlipAssumption DEF Done, Vblank, Carrier, Flips
<1>3. calls <= calls' /\ \A q \in queue : q \notin queue' => q \in Done
  BY DisplayNumbers
<1>4. ScanInv' /\ ReachInv' /\ LoopInv' /\ ToldInv'
  BY <1>0, <1>1, <1>2, <1>3, DisplayKept
<1>5. FbsInv' /\ ChainInv'
  BY <1>0, <1>1 DEF FbsInv, ChainInv
<1>6. QED
  BY <1>4, <1>5 DEF AllDisplay

\* Closing aborts the flips, and leaves what the CRTCs show.
LEMMA DisplayCloseScreen ==
    ASSUME FlipInv, FlipInv', AllDisplay, CloseScreen
    PROVE  AllDisplay'
<1>0. ScanInv /\ ReachInv /\ LoopInv /\ FbsInv /\ ChainInv /\ ToldInv
  BY DEF AllDisplay
<1>1. /\ depth = 0 /\ depth' = 0 /\ closed' = TRUE
      /\ UNCHANGED <<on, fb_id, scanout, submitted, fd, old_fb_id, calls, returned, batch>>
  BY DEF CloseScreen, displayVars, stackVars
<1>2. live' = {}
  BY CloseScreenRefs DEF FlipInv
<1>3. Accepted' = Accepted /\ Done' = Done /\ \A k, g : ~In(k, g) /\ ~In(k, g)'
  BY <1>1 DEF Accepted, Done, In
<1>4. ScanInv'
  BY <1>0, <1>1, <1>3 DEF ScanInv
<1>5. ReachInv' /\ LoopInv' /\ FbsInv' /\ ToldInv'
  BY <1>1, <1>3 DEF ReachInv, LoopInv, FbsInv, ToldInv
<1>6. ChainInv'
  BY <1>0, <1>1, <1>2, <1>3 DEF ChainInv
<1>7. QED
  BY <1>4, <1>5, <1>6 DEF AllDisplay

\* Every step of an undisturbed run keeps the displays alive.
LEMMA DisplayStep == FlipInv /\ AnswerInv /\ DisplayInv /\ [Next]_vars => DisplayInv'
<1> SUFFICES ASSUME FlipInv, AnswerInv, DisplayInv, [Next]_vars, Undisturbed' PROVE AllDisplay'
  BY DEF DisplayInv, AllDisplay
<1>a. FlipInv'
  BY FlipInvStep
<1>b. (partial' = {} => partial = {}) /\ (nested => nested')
  <2>1. CASE FlipBegin
    BY <2>1 DEF FlipBegin
  <2>2. CASE FlipRefused
    BY <2>2 DEF FlipRefused
  <2>3. CASE ~FlipBegin /\ ~FlipRefused
    <3>1. UNCHANGED <<partial, nested>>
      BY <2>3 DEF Next, ServerStep, FlipImpossible, FlipAccepted, FlipFlush,
             ms_drm_socket_handler, Dispatch, HandlerReturns, EventsDone, KernelFlips,
                 KernelVblank,
             CloseScreen, vars, flipVars
    <3>2. QED
      BY <3>1
  <2>4. QED
    BY <2>1, <2>2, <2>3
<1>c. /\ partial = {} /\ partial' = {} /\ ~nested' /\ AllDisplay
  BY <1>b DEF Undisturbed, DisplayInv, AllDisplay
<1>1. CASE FlipImpossible
  BY <1>a, <1>c, <1>1, DisplayFlipImpossible
<1>2. CASE FlipBegin
  BY <1>a, <1>c, <1>2, DisplayFlipBegin
<1>3. CASE FlipAccepted
  BY <1>a, <1>c, <1>3, DisplayFlipAccepted
<1>4. CASE FlipFlush
  <2>1. PICK E \in SUBSET fd : ReadEvents(E)
    BY <1>4 DEF FlipFlush
  <2>2. UNCHANGED <<on, fb_id, displayVars, queue, flipVars, closed>>
    BY <1>4 DEF FlipFlush
  <2>3. QED
    BY <1>a, <1>c, <2>1, <2>2, DisplayReadEvents
<1>5. CASE FlipRefused
  BY <1>a, <1>c, <1>5, DisplayFlipRefused
<1>6. CASE ms_drm_socket_handler
  <2>1. PICK E \in SUBSET fd : ReadEvents(E)
    BY <1>6 DEF ms_drm_socket_handler
  <2>2. UNCHANGED <<on, fb_id, displayVars, queue, flipVars, closed>>
    BY <1>6 DEF ms_drm_socket_handler
  <2>3. QED
    BY <1>a, <1>c, <2>1, <2>2, DisplayReadEvents
<1>7. ASSUME NEW r \in batch, Dispatch(r) PROVE AllDisplay'
  BY <1>a, <1>c, <1>7, DisplayDispatch
<1>8. CASE HandlerReturns
  BY <1>a, <1>c, <1>8, DisplayHandlerReturns
<1>9. CASE EventsDone
  BY <1>a, <1>c, <1>9, DisplayEventsDone
<1>10. ASSUME NEW c \in Crtcs, KernelFlips(c) PROVE AllDisplay'
  BY <1>a, <1>c, <1>10, DisplayKernelFlips
<1>11. CASE KernelVblank
  <2>1. fd' \subseteq fd \cup {Vblank}
    BY <1>11 DEF KernelVblank
  <2>2. UNCHANGED <<on, fb_id, fbs, scanout, submitted, live, queue, old_fb_id, calls, returned,
                    depth, frame, batch, closed>>
    BY <1>11 DEF KernelVblank, displayVars, flipVars, stackVars
  <2>3. QED
    BY <1>a, <1>c, <2>1, <2>2, DisplaySame
<1>12. CASE CloseScreen
  BY <1>a, <1>c, <1>12, DisplayCloseScreen
<1>13. CASE UNCHANGED vars
  <2>1. fd' \subseteq fd \cup {Vblank}
    BY <1>13 DEF vars
  <2>2. UNCHANGED <<on, fb_id, fbs, scanout, submitted, live, queue, old_fb_id, calls, returned,
                    depth, frame, batch, closed>>
    BY <1>13 DEF vars, displayVars, flipVars, stackVars
  <2>3. QED
    BY <1>a, <1>c, <2>1, <2>2, DisplaySame
<1>14. QED
  BY <1>1, <1>2, <1>3, <1>4, <1>5, <1>6, <1>7, <1>8, <1>9, <1>10, <1>11, <1>12, <1>13
     DEF Next, ServerStep

\* The inductive invariant.
PageFlipInv == FlipInv /\ AnswerInv /\ DisplayInv

\* The whole invariant.
LEMMA PageFlipInvariant == Spec => []PageFlipInv
<1>1. Init => PageFlipInv
  BY TypesInit, StackInit, RefCountInit, AnswerInit, DisplayInit DEF FlipInv, PageFlipInv
<1>2. PageFlipInv /\ [Next]_vars => PageFlipInv'
  BY FlipInvStep, AnswerStep, DisplayStep DEF PageFlipInv
<1>3. QED
  BY <1>1, <1>2, PTL DEF Spec

\* As long as no flip was left half done or begun inside another, drmModeRmFB never takes
\* away a framebuffer that is shown or awaited, and when all flips are over each CRTC shows
\* the framebuffer of the screen and no other is left.
THEOREM DisplaysStayAlive == Spec => []DisplayAlive
<1>1. ASSUME FlipInv, AllDisplay, NEW c \in on
      PROVE  scanout[c] # Blank /\ submitted[c].fb # Blank
  <2>1. c \in Crtcs /\ scanout[c] \in Int /\ submitted[c].fb \in Int
    BY <1>1, DisplayNumbers
  <2>2. 0 <= scanout[c] /\ (submitted[c] # None => scanout[c] < submitted[c].fb)
    BY <1>1, <2>1 DEF AllDisplay, ScanInv
  <2>3. QED
    BY <2>1, <2>2 DEF Blank, None
<1>2. ASSUME FlipInv, AllDisplay, depth = 0, live = {}, ~closed
      PROVE  fbs = {fb_id} /\ \A c \in on : scanout[c] = fb_id
  <2>1. fbs = {fb_id}
    BY <1>2 DEF AllDisplay, FbsInv
  <2>2. ASSUME NEW c \in on PROVE scanout[c] = fb_id
    <3>1. c \in Crtcs /\ scanout[c] \in Int /\ fb_id \in Nat
      BY <1>2, DisplayNumbers
    <3>2. 0 <= scanout[c] /\ scanout[c] <= fb_id
      BY <1>2 DEF AllDisplay, ScanInv
    <3>3. ASSUME fb_id # 0 PROVE scanout[c] >= fb_id
      <4>1. ~In("flip", fb_id)
        BY <1>2 DEF In
      <4>2. fb_id \in Accepted
        BY <1>2, <3>3, <4>1 DEF AllDisplay, ChainInv
      <4>3. Carriers(fb_id) = {}
        BY <1>2, <4>2, InIsLive DEF Accepted
      <4>4. [flip |-> fb_id, crtc |-> c] \notin queue
        BY <4>3 DEF Carriers
      <4>5. QED
        BY <1>2, <4>2, <4>4 DEF AllDisplay, ReachInv
    <3>4. QED
      BY <3>1, <3>2, <3>3
  <2>3. QED
    BY <2>1, <2>2
<1>3. PageFlipInv => DisplayAlive
  BY <1>1, <1>2 DEF PageFlipInv, DisplayInv, AllDisplay, DisplayAlive
<1>4. QED
  BY <1>3, PageFlipInvariant, PTL

\* In such a run ms_pageflip_handler tells the extension of a flip only when every CRTC has
\* done it, although events overtake each other when they are flushed.
THEOREM ToldWhenFlipped == Spec => ToldWhenDone
<1>1. ASSUME PageFlipInv, [Next]_vars, Undisturbed, NEW f \in Flips, Told(f)
      PROVE  \A c \in on : scanout[c] >= f
  <2>0. FlipInv /\ AnswerInv /\ ScanInv /\ ReachInv /\ partial = {}
        /\ notified \in [Flips -> Nat]
    BY <1>1 DEF PageFlipInv, DisplayInv, Undisturbed, FlipInv, PageFlipTypes
  <2>1. notified' # notified
    BY <1>1, <2>0 DEF Told
  <2>2. PICK r \in batch : Dispatch(r)
    BY <1>1, <2>1 DEF Next, ServerStep, FlipImpossible, FlipBegin, FlipAccepted, FlipFlush,
           FlipRefused, ms_drm_socket_handler, HandlerReturns, EventsDone, KernelFlips,
           KernelVblank, CloseScreen, vars, flipVars
  <2>3. /\ depth > 0 /\ [flip |-> r.flip, crtc |-> r.crtc] \in queue
        /\ flip_count[r.flip] = 1 /\ notified' = [notified EXCEPT ![r.flip] = @ + 1]
    BY <2>1, <2>2 DEF Dispatch, ms_pageflip_handler
  <2>4. r.flip = f
    BY <1>1, <2>0, <2>3 DEF Told
  <2>5. QED
    BY <2>0, <2>3, <2>4, ToldIsDone
<1>2. PageFlipInv /\ [Next]_vars
        => [Undisturbed => \A f \in Flips : Told(f) => \A c \in on : scanout[c] >= f]_vars
  BY <1>1
<1>3. QED
  BY <1>2, PageFlipInvariant, PTL DEF Spec, ToldWhenDone
=============================================================================
