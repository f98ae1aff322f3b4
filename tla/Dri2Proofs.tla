----------------------------- MODULE Dri2Proofs -----------------------------
(***************************************************************************)
(* Proofs about module Dri2, for any number of clients, windows, buffers   *)
(* and frame events.                                                       *)
(*                                                                         *)
(* EventInv.  A frame event that is not deleted is in exactly one place,   *)
(* the DRM queue or a running ms_do_pageflip, and a flip outlives its      *)
(* frame event.  All that follows rests on it.                             *)
(*                                                                         *)
(* ClientInv.  NoDangling is not inductive: it says nothing of a sleeping  *)
(* client, whose frame event must still be queued when the client exits or *)
(* the window goes, nor of what a running ms_do_pageflip works on.         *)
(*                                                                         *)
(* ReportInv.  Who may still be told of a request is said with one set     *)
(* (Owed): a swap passes from the queue through the submission to the      *)
(* flip, and is told of when it leaves the set.                            *)
(*                                                                         *)
(* BufferInv, FrontInv.  The framebuffer is of the BO of the screen's      *)
(* pixmap because each flip is of a pair of buffers of which the front one *)
(* has the screen's pixmap, and the back one a pixmap of its own           *)
(* (PairInv): so the exchange puts the BO that is flipped to into the      *)
(* screen's pixmap.  That windows are redirected meanwhile does not        *)
(* disturb it, because update_front moves only front buffers.              *)
(*                                                                         *)
(* RefInv.  The references are those of the windows and of the frame       *)
(* events.  It holds as long as ms_queue_vblank refuses no request         *)
(* (QueueFails = FALSE); a refused one is deleted twice.                   *)
(***************************************************************************)
EXTENDS Dri2, FiniteSetTheorems, SequenceTheorems, TLAPS

-----------------------------------------------------------------------------
(* Types *)

Handle == Buffers \cup {NULL}
Info   == [type : {"unused", "swap", "flip", "wait"}, client : Clients \cup {NULL},
           drawable : Windows \cup {NULL}, front : Handle, back : Handle]
Flip   == [event : Events, client : Clients \cup {NULL}, drawable : Windows \cup {NULL}]
Sleep  == [client : Clients, drawable : Windows, event : Events]

\* The values the variables can have.
Dri2Types ==
    /\ clients \subseteq Clients
    /\ windows \subseteq Windows
    /\ winpix \in [Windows -> Pixmaps \ Buffers]
    /\ held \in [Windows -> [front : Handle, back : Handle]]
    /\ created \in 0..NumBuffers
    /\ refcnt \in [Buffers -> Int]
    /\ pixmap \in [Buffers -> Pixmaps]
    /\ bo \in [Pixmaps -> Pixmaps]
    /\ fb_bo \in Pixmaps /\ old_bo \in [Events -> Pixmaps]
    /\ scheduled \in 0..NumEvents
    /\ info \in [Events -> Info]
    /\ deleted \in [Events -> Nat]
    /\ asked \in [Events -> Windows \cup {NULL}]
    /\ completed \in [Events -> Nat]
    /\ queue \subseteq Events
    /\ stack \in Seq(Events)
    /\ flips \subseteq Flip
    /\ dri2_flipping \in BOOLEAN
    /\ blocked \subseteq Sleep
    /\ closed \in BOOLEAN
    /\ halfway \subseteq Events /\ nested \in BOOLEAN /\ mixed \in BOOLEAN

-----------------------------------------------------------------------------
(* The C stack *)

\* The frame events whose ms_do_pageflip is running.
Stacked == {stack[i] : i \in 1..Len(stack)}

\* No frame event is on the stack twice.
Distinct(s) == \A i, j \in 1..Len(s) : s[i] = s[j] => i = j

\* A call puts its frame event on the stack.
LEMMA CallPushes ==
    ASSUME stack \in Seq(Events), NEW e \in Events, stack' = Append(stack, e)
    PROVE  /\ stack' \in Seq(Events)
           /\ Stacked' = Stacked \cup {e}
           /\ Distinct(stack) /\ e \notin Stacked => Distinct(stack')
<1>1. Len(stack) \in Nat /\ stack' \in Seq(Events) /\ Len(stack') = Len(stack) + 1
  OBVIOUS
<1>2. \A i \in 1..Len(stack) : stack'[i] = stack[i]
  OBVIOUS
<1>3. stack'[Len(stack) + 1] = e
  OBVIOUS
<1>4. 1..Len(stack') = 1..Len(stack) \cup {Len(stack) + 1}
  BY <1>1
<1>5. Stacked' = Stacked \cup {e}
  BY <1>2, <1>3, <1>4 DEF Stacked
<1>6. ASSUME Distinct(stack), e \notin Stacked PROVE Distinct(stack')
  <2>1. \A i \in 1..Len(stack) : stack[i] # e
    BY <1>6 DEF Stacked
  <2>2. QED
    BY <1>1, <1>2, <1>3, <1>4, <1>6, <2>1 DEF Distinct
<1>7. QED
  BY <1>1, <1>5, <1>6

\* A return takes it off, and it was on the stack only once.
LEMMA ReturnPops ==
    ASSUME stack \in Seq(Events), stack # <<>>, Distinct(stack), stack' = Pop
    PROVE  /\ submitting \in Stacked /\ submitting \in Events
           /\ stack' \in Seq(Events)
           /\ Stacked' = Stacked \ {submitting}
           /\ Distinct(stack')
           /\ Len(stack) = 1 => stack' = <<>>
<1>1. Len(stack) \in Nat /\ Len(stack) >= 1
  OBVIOUS
<1> DEFINE n == Len(stack) - 1
<1>2. stack' \in Seq(Events) /\ Len(stack') = Len(stack) - 1
  <2>1. stack' = SubSeq(stack, 1, n) /\ n \in Int
    BY <1>1 DEF Pop
  <2>2. \A i \in 1..n : stack[i] \in Events
    BY <1>1
  <2>3. SubSeq(stack, 1, n) \in Seq(Events) /\ Len(SubSeq(stack, 1,
        n)) = IF 1 <= n THEN n - 1 + 1 ELSE 0
    BY ONLY <2>1, <2>2, SubSeqProperties, 1 \in Int
  <2>4. (IF 1 <= n THEN n - 1 + 1 ELSE 0) = Len(stack) - 1
    BY <1>1
  <2>5. stack' \in Seq(Events) /\ Len(stack') = IF 1 <= n THEN n - 1 + 1 ELSE 0
    BY <2>1, <2>3, Zenon
  <2>6. QED
    BY <2>4, <2>5, Zenon
<1>3. \A i \in 1..(Len(stack) - 1) : stack'[i] = stack[i]
  BY <1>1 DEF Pop
<1>4. 1..Len(stack) = 1..(Len(stack) - 1) \cup {Len(stack)}
      /\ Len(stack) \notin 1..(Len(stack) - 1)
  BY <1>1
<1>5. submitting \in Stacked /\ submitting \in Events
  BY <1>1 DEF submitting, Stacked
<1>6. \A i \in 1..(Len(stack) - 1) : stack[i] # submitting
  BY <1>1, <1>4 DEF submitting, Distinct
<1>7. Stacked' = {stack[i] : i \in 1..(Len(stack) - 1)}
  BY <1>2, <1>3 DEF Stacked
<1>8. Stacked' = Stacked \ {submitting}
  BY <1>4, <1>6, <1>7 DEF Stacked, submitting
<1>9. Distinct(stack')
  BY <1>2, <1>3, <1>4 DEF Distinct
<1>10. Len(stack) = 1 => stack' = <<>>
  <2>1. Len(stack) = 1 => stack' \in Seq(Events) /\ Len(stack') = 0
    BY <1>2
  <2>2. QED
    BY <2>1
<1>11. QED
  BY <1>2, <1>5, <1>8, <1>9, <1>10

\* With nothing on the stack no submission is running.
LEMMA NothingSubmitted == stack = <<>> => Stacked = {} /\ Distinct(stack)
<1>1. Len(<<>>) = 0
  OBVIOUS
<1>2. QED
  BY <1>1 DEF Stacked, Distinct

-----------------------------------------------------------------------------
(* The variables keep their types *)

\* Numbers of windows, buffers and frame events.
LEMMA Numbers ==
    /\ NumWindows \in Nat /\ NumBuffers \in Nat /\ NumEvents \in Nat
    /\ NULL \notin Clients /\ NULL \notin Windows /\ NULL \notin Buffers /\ NULL \notin Events
    /\ Root \in Pixmaps \ Buffers /\ Buffers \subseteq Pixmaps
    /\ \A d \in Windows : Redirect(d) \in Pixmaps \ Buffers
    /\ Windows \subseteq Nat /\ Buffers \subseteq Nat /\ Events \subseteq Nat
    /\ IsFiniteSet(Windows) /\ IsFiniteSet(Buffers) /\ IsFiniteSet(Events)
<1>1. NumWindows \in Nat /\ NumBuffers \in Nat /\ NumEvents \in Nat /\ NULL \notin Clients
  BY Dri2Assumption
<1>2. NULL \notin Windows /\ NULL \notin Buffers /\ NULL \notin Events
  BY DEF Windows, Buffers, Events, NULL
<1>3. Root \in Pixmaps \ Buffers /\ Buffers \subseteq Pixmaps
  BY DEF Pixmaps, Root, Buffers
<1>4. \A d \in Windows : Redirect(d) \in Pixmaps \ Buffers
  BY <1>1 DEF Pixmaps, Redirect, Windows, Buffers
<1>5. Windows \subseteq Nat /\ Buffers \subseteq Nat /\ Events \subseteq Nat
  BY DEF Windows, Buffers, Events
<1>6. IsFiniteSet(Windows) /\ IsFiniteSet(Buffers) /\ IsFiniteSet(Events)
  BY <1>1, FS_Interval DEF Windows, Buffers, Events
<1>7. QED
  BY <1>1, <1>2, <1>3, <1>4, <1>5, <1>6

\* How many frame events of a set there are is a number.
LEMMA EventsCount ==
    ASSUME NEW S \in SUBSET Events
    PROVE  IsFiniteSet(S) /\ Cardinality(S) \in Nat
  BY Numbers, FS_Subset, FS_CardinalityType

\* Deleting frame events keeps the types.
LEMMA DelTypes ==
    ASSUME Dri2Types, NEW S \in SUBSET Events, DelFrameEvents(S)
    PROVE  /\ info' \in [Events -> Info]
           /\ deleted' \in [Events -> Nat]
           /\ refcnt' \in [Buffers -> Int]
<1>1. \A e \in Events : FreedInfo(info[e].type) \in Info /\ info[e] \in Info
  BY DEF Dri2Types, FreedInfo, NoInfo, Info, Handle
<1>2. info' \in [Events -> Info]
  BY <1>1 DEF DelFrameEvents
<1>3. deleted' \in [Events -> Nat]
  BY DEF DelFrameEvents, Dri2Types
<1>4. ASSUME NEW b \in Buffers
      PROVE  Cardinality({e \in S : b \in BuffersOf(e)}) \in Nat
  BY EventsCount
<1>5. refcnt' \in [Buffers -> Int]
  <2>1. \A b \in Buffers : refcnt[b] \in Int
    BY DEF Dri2Types
  <2>2. \A b \in Buffers : refcnt[b] - Cardinality({e \in S : b \in BuffersOf(e)}) \in Int
    BY <1>4, <2>1
  <2>3. QED
    BY <2>2, Zenon DEF DelFrameEvents
<1>6. QED
  BY <1>2, <1>3, <1>5

\* DRI2 lets go of buffers.
LEMMA ReleasedTypes ==
    ASSUME Dri2Types, NEW S
    PROVE  Released(S) \in [Buffers -> Int]
  BY DEF Released, Dri2Types

\* A pair of new buffers has one reference each.
LEMMA NewReferences ==
    ASSUME NEW R \in [Buffers -> Int], NEW x \in Buffers, NEW y \in Buffers
    PROVE  [R EXCEPT ![x] = 1, ![y] = 1] \in [Buffers -> Int]
  OBVIOUS

\* A client is told.
LEMMA CompleteTypes ==
    ASSUME Dri2Types, NEW e \in Events, Complete(e)
    PROVE  completed' \in [Events -> Nat]
<1>1. completed \in [Events -> Nat]
  BY DEF Dri2Types
<1>2. completed' = [completed EXCEPT ![e] = @ + 1]
  BY DEF Complete
<1>3. QED
  BY <1>1, <1>2

\* A front buffer follows its window.
LEMMA FrontTypes ==
    ASSUME Dri2Types, NEW v, NEW b, NEW d \in Windows
    PROVE  UpdatedFront(v, b, d) \in [Buffers -> Pixmaps]
  BY DEF UpdatedFront, Dri2Types

\* At start nothing is created and nothing is queued.
LEMMA TypesInit == Init => Dri2Types
<1> SUFFICES ASSUME Init PROVE Dri2Types
  OBVIOUS
<1> USE Numbers
<1>1. winpix \in [Windows -> Pixmaps \ Buffers] /\ pixmap \in [Buffers -> Pixmaps]
  BY DEF Init
<1>2. held \in [Windows -> [front : Handle, back : Handle]]
  BY DEF Init, NoBuffers, Handle
<1>3. info \in [Events -> Info]
  BY DEF Init, NoInfo, Info, Handle
<1>4. /\ created \in 0..NumBuffers /\ scheduled \in 0..NumEvents
      /\ refcnt \in [Buffers -> Int] /\ bo \in [Pixmaps -> Pixmaps] /\ fb_bo \in Pixmaps
      /\ old_bo \in [Events -> Pixmaps]
  BY DEF Init
<1>5. /\ deleted \in [Events -> Nat] /\ completed \in [Events -> Nat]
      /\ asked \in [Events -> Windows \cup {NULL}]
  BY DEF Init
<1>6. stack \in Seq(Events)
  BY DEF Init
<1>7. QED
  BY <1>1, <1>2, <1>3, <1>4, <1>5, <1>6 DEF Init, Dri2Types

\* The types that deal with buffers are kept by what DRI2 does to them.
LEMMA BufferStepTypes ==
    ASSUME Dri2Types, NEW d \in Windows,
           ms_dri2_create_buffer2(d) \/ DestroyDrawable(d) \/ Redirection(d)
    PROVE  Dri2Types'
<1> USE Numbers
<1>1. CASE ms_dri2_create_buffer2(d)
  <2>1. /\ created + 1 \in Buffers /\ created + 2 \in Buffers /\ created + 2 \in 0..NumBuffers
        /\ created' = created + 2
    BY <1>1 DEF ms_dri2_create_buffer2, Dri2Types, Buffers
  <2>2. held' \in [Windows -> [front : Handle, back : Handle]]
    BY <1>1, <2>1 DEF ms_dri2_create_buffer2, Dri2Types, Handle
  <2>3. refcnt' \in [Buffers -> Int]
    <3>1. refcnt' = [Released(HeldFor(d)) EXCEPT ![created + 1] = 1, ![created + 2] = 1]
      BY <1>1 DEF ms_dri2_create_buffer2
    <3>2. Released(HeldFor(d)) \in [Buffers -> Int]
      BY ReleasedTypes
    <3>3. QED
      BY <2>1, <3>1, <3>2, NewReferences
  <2>4. pixmap' \in [Buffers -> Pixmaps]
    BY <1>1, <2>1 DEF ms_dri2_create_buffer2, Dri2Types
  <2>5. QED
    BY <1>1, <2>1, <2>2, <2>3, <2>4
    DEF ms_dri2_create_buffer2, Dri2Types, serverVars, eventVars, flipVars
<1>2. CASE DestroyDrawable(d)
  <2>1. held' \in [Windows -> [front : Handle, back : Handle]]
    BY <1>2 DEF DestroyDrawable, Dri2DrawableGone, Dri2Types, Handle, NoBuffers
  <2>2. refcnt' \in [Buffers -> Int]
    BY <1>2, ReleasedTypes DEF DestroyDrawable, Dri2DrawableGone
  <2>3. blocked' \subseteq Sleep
    BY <1>2 DEF DestroyDrawable, Dri2DrawableGone, Dri2Types
  <2>4. QED
    BY <1>2, <2>1, <2>2, <2>3
    DEF DestroyDrawable, Dri2Types, serverVars, eventVars, flipVars
<1>3. CASE Redirection(d)
  <2>1. winpix' \in [Windows -> Pixmaps \ Buffers]
    BY <1>3 DEF Redirection, Dri2Types
  <2>2. QED
    BY <1>3, <2>1 DEF Redirection, Dri2Types, bufferVars, eventVars, flipVars
<1>4. QED
  BY <1>1, <1>2, <1>3

\* A new request keeps the types.
LEMMA RequestTypes ==
    ASSUME Dri2Types, NEW type \in {"swap", "flip", "wait"}, NEW c, NEW d,
           NEW B \in [front : Handle, back : Handle], NEW answer \in Answers,
           NewFrameEvent(type, c, d, B, answer)
    PROVE  /\ scheduled' \in 0..NumEvents
           /\ info' \in [Events -> Info]
           /\ asked' \in [Events -> Windows \cup {NULL}]
           /\ deleted' \in [Events -> Nat]
           /\ completed' \in [Events -> Nat]
           /\ queue' \subseteq Events
           /\ refcnt' \in [Buffers -> Int]
           /\ c \in clients /\ d \in windows /\ scheduled + 1 \in Events
<1> USE Numbers
<1>1. c \in clients /\ d \in windows /\ scheduled + 1 \in Events /\ scheduled' = scheduled + 1
  BY DEF NewFrameEvent
<1>2. scheduled' \in 0..NumEvents
  BY <1>1 DEF Events
<1>3. Deletions(answer) \in 0..2
  BY DEF Deletions, Answers
<1>4. info' \in [Events -> Info]
  <2>1. FreedInfo(type) \in Info
    BY DEF FreedInfo, NoInfo, Info, Handle
  <2>2. [type |-> type, client |-> c, drawable |-> d, front |-> B.front,
        back |-> B.back] \in Info
    BY <1>1 DEF Info, Dri2Types
  <2>3. QED
    BY <2>1, <2>2 DEF NewFrameEvent, Dri2Types
<1>5. asked' \in [Events -> Windows \cup {NULL}]
  BY <1>1 DEF NewFrameEvent, Dri2Types
<1>6. deleted' \in [Events -> Nat]
  BY <1>3 DEF NewFrameEvent, Dri2Types
<1>7. completed' \in [Events -> Nat]
  BY DEF NewFrameEvent, Dri2Types
<1>8. queue' \subseteq Events
  BY <1>1 DEF NewFrameEvent, Dri2Types
<1>9. refcnt' \in [Buffers -> Int]
  BY <1>3 DEF NewFrameEvent, Dri2Types
<1>10. QED
  BY <1>1, <1>2, <1>4, <1>5, <1>6, <1>7, <1>8, <1>9

\* Scheduling a swap or a wait keeps the types.
LEMMA ScheduleTypes ==
    ASSUME Dri2Types, NEW c, NEW d, NEW v, NEW answer \in Answers,
           ms_dri2_schedule_swap(c, d, v, answer) \/ ms_dri2_schedule_wait_msc(c, d, answer)
    PROVE  Dri2Types'
<1> USE Numbers
<1>1. CASE ms_dri2_schedule_swap(c, d, v, answer)
  <2> DEFINE type == IF v = "yes" THEN "flip" ELSE "swap"
  <2>1. NewFrameEvent(type, c, d, held[d], answer) /\ d \in Windows
    BY <1>1 DEF ms_dri2_schedule_swap, NewFrameEvent, Dri2Types
  <2>2. held[d] \in [front : Handle, back : Handle] /\ type \in {"swap", "flip", "wait"}
    BY <2>1 DEF Dri2Types
  <2>3. pixmap' \in [Buffers -> Pixmaps]
    BY <1>1, <2>1, FrontTypes DEF ms_dri2_schedule_swap
  <2> HIDE DEF type
  <2>4. /\ scheduled' \in 0..NumEvents /\ info' \in [Events -> Info]
        /\ asked' \in [Events -> Windows \cup {NULL}] /\ deleted' \in [Events -> Nat]
        /\ completed' \in [Events -> Nat] /\ queue' \subseteq Events
        /\ refcnt' \in [Buffers -> Int]
    BY <2>1, <2>2, RequestTypes
  <2>5. QED
    BY <1>1, <2>3, <2>4 DEF ms_dri2_schedule_swap, Dri2Types, serverVars, flipVars
<1>2. CASE ms_dri2_schedule_wait_msc(c, d, answer)
  <2>1. NewFrameEvent("wait", c, d, NoBuffers, answer)
    BY <1>2 DEF ms_dri2_schedule_wait_msc
  <2>2. NoBuffers \in [front : Handle, back : Handle]
    BY DEF NoBuffers, Handle
  <2>3. /\ scheduled' \in 0..NumEvents /\ info' \in [Events -> Info]
        /\ asked' \in [Events -> Windows \cup {NULL}] /\ deleted' \in [Events -> Nat]
        /\ completed' \in [Events -> Nat] /\ queue' \subseteq Events
        /\ refcnt' \in [Buffers -> Int]
        /\ c \in clients /\ d \in windows /\ scheduled + 1 \in Events
    BY <2>1, <2>2, RequestTypes
  <2>4. blocked' \subseteq Sleep
    <3>1. [client |-> c, drawable |-> d, event |-> scheduled + 1] \in Sleep
      BY <2>3 DEF Sleep, Dri2Types
    <3>2. QED
      BY <1>2, <3>1 DEF ms_dri2_schedule_wait_msc, Dri2Types
  <2>5. QED
    BY <1>2, <2>3, <2>4 DEF ms_dri2_schedule_wait_msc, Dri2Types, serverVars, flipVars
<1>3. QED
  BY <1>1, <1>2

\* The frame event handler keeps the types.
LEMMA HandlerTypes ==
    ASSUME Dri2Types, NEW e \in queue, NEW v,
           FrameAbandoned(e) \/ WaitOver(e) \/ SwapBlits(e, v) \/ FlipSubmitted(e),
           info[e].type = "flip" => info[e].back \in Buffers
    PROVE  Dri2Types'
<1> USE Numbers
<1>0. FlipSubmitted(e) => info[e].back \in Buffers
  BY DEF FlipSubmitted
<1>1. e \in Events /\ {e} \in SUBSET Events
  BY DEF Dri2Types
<1>2. CASE FrameAbandoned(e)
  <2>1. /\ info' \in [Events -> Info] /\ deleted' \in [Events -> Nat]
        /\ refcnt' \in [Buffers -> Int]
    BY <1>1, <1>2, DelTypes DEF FrameAbandoned
  <2>2. queue' \subseteq Events
    BY <1>2 DEF FrameAbandoned, Dri2Types
  <2>3. QED
    BY <1>2, <2>1, <2>2 DEF FrameAbandoned, Dri2Types, serverVars, flipVars
<1>3. CASE WaitOver(e)
  <2>1. /\ info' \in [Events -> Info] /\ deleted' \in [Events -> Nat]
        /\ refcnt' \in [Buffers -> Int]
    BY <1>1, <1>3, DelTypes DEF WaitOver
  <2>2. queue' \subseteq Events /\ blocked' \subseteq Sleep
    BY <1>3 DEF WaitOver, Dri2Types
  <2>3. completed' \in [Events -> Nat]
    <3>1. Complete(e) \/ completed' = completed
      BY <1>3 DEF WaitOver
    <3>2. QED
      BY <1>1, <3>1, CompleteTypes DEF Dri2Types
  <2>4. QED
    BY <1>3, <2>1, <2>2, <2>3 DEF WaitOver, Dri2Types, serverVars, flipVars
<1>4. CASE SwapBlits(e, v)
  <2>1. /\ info' \in [Events -> Info] /\ deleted' \in [Events -> Nat]
        /\ refcnt' \in [Buffers -> Int]
    BY <1>1, <1>4, DelTypes DEF SwapBlits
  <2>2. queue' \subseteq Events
    BY <1>4 DEF SwapBlits, Dri2Types
  <2>3. completed' \in [Events -> Nat]
    BY <1>1, <1>4, CompleteTypes DEF SwapBlits
  <2>4. pixmap' \in [Buffers -> Pixmaps]
    <3>1. info[e].drawable \in Windows
      BY <1>1, <1>4 DEF SwapBlits, Dri2Types, Info
    <3>2. QED
      BY <1>4, <3>1, FrontTypes DEF SwapBlits
  <2>5. QED
    BY <1>4, <2>1, <2>2, <2>3, <2>4 DEF SwapBlits, Dri2Types, serverVars, flipVars
<1>5. CASE FlipSubmitted(e)
  <2>1. queue' \subseteq Events /\ stack' \in Seq(Events)
    BY <1>1, <1>5 DEF FlipSubmitted, Dri2Types
  <2>2. pixmap' \in [Buffers -> Pixmaps]
    <3>1. info[e].drawable \in Windows
      BY <1>1, <1>5 DEF FlipSubmitted, Dri2Types, Info
    <3>2. QED
      BY <1>5, <3>1, FrontTypes DEF FlipSubmitted
  <2>3. fb_bo' \in Pixmaps /\ old_bo' \in [Events -> Pixmaps] /\ nested' \in BOOLEAN
    <3>1. info[e].back \in Buffers => pixmap[info[e].back] \in Pixmaps
      BY DEF Dri2Types
    <3>2. QED
      BY <1>0, <1>5, <3>1 DEF FlipSubmitted, Dri2Types
  <2>4. QED
    BY <1>5, <2>1, <2>2, <2>3 DEF FlipSubmitted, Dri2Types, serverVars, eventVars
<1>6. QED
  BY <1>2, <1>3, <1>4, <1>5

\* The ways in which ms_do_pageflip returns.
FlipReturns == FlipAccepted \/ FlipRefused \/ FlipHalfDone

\* What ms_do_pageflip returns, and what the flip leads to, keeps the types, provided that
\* the flip is of a front and a back buffer.
LEMMA FlipTypes ==
    ASSUME Dri2Types, Distinct(stack),
           \A e \in Stacked : info[e].front \in Buffers /\ info[e].back \in Buffers,
           FlipReturns \/ \E f \in flips : ms_dri2_flip_handler(f)
    PROVE  Dri2Types'
<1> USE Numbers
<1>1. CASE FlipReturns
  <2>1. stack \in Seq(Events) /\ stack # <<>> /\ stack' = Pop
    BY <1>1 DEF FlipReturns, FlipAccepted, FlipRefused, FlipHalfDone, Dri2Types
  <2>2. submitting \in Stacked /\ submitting \in Events /\ stack' \in Seq(Events)
    BY <2>1, ReturnPops
  <2> DEFINE e == submitting
             front == pixmap[info[e].front]
             back == pixmap[info[e].back]
  <2>3. front \in Pixmaps /\ back \in Pixmaps
    BY <2>2 DEF Dri2Types
  <2>4. bo' \in [Pixmaps -> Pixmaps]
    <3>1. bo' = bo \/ bo' = [bo EXCEPT ![front] = bo[back], ![back] = bo[front]]
      BY <1>1 DEF FlipReturns, FlipAccepted, FlipRefused, FlipHalfDone, Exchange
    <3>2. QED
      BY <2>3, <3>1 DEF Dri2Types
  <2>5. flips' \subseteq Flip
    <3>1. flips' \subseteq flips \cup {FlipEvent(e)}
      BY <1>1 DEF FlipReturns, FlipAccepted, FlipRefused, FlipHalfDone
    <3>2. info[e] \in Info
      BY <2>2 DEF Dri2Types
    <3>3. FlipEvent(e) \in Flip
      BY <2>2, <3>2 DEF Flip, Info, FlipEvent
    <3>4. QED
      BY <3>1, <3>3 DEF Dri2Types
  <2>6. /\ info' \in [Events -> Info] /\ deleted' \in [Events -> Nat]
        /\ refcnt' \in [Buffers -> Int]
    BY <1>1, <2>2, DelTypes DEF FlipReturns, FlipAccepted, FlipRefused, FlipHalfDone
  <2>7. completed' \in [Events -> Nat]
    <3>1. Complete(e) \/ completed' = completed
      BY <1>1 DEF FlipReturns, FlipAccepted, FlipRefused, FlipHalfDone
    <3>2. QED
      BY <2>2, <3>1, CompleteTypes DEF Dri2Types
  <2>8. /\ fb_bo' \in Pixmaps /\ mixed' \in BOOLEAN /\ halfway' \subseteq Events
        /\ dri2_flipping' \in BOOLEAN
    BY <1>1, <2>2 DEF FlipReturns, FlipAccepted, FlipRefused, FlipHalfDone, Dri2Types
  <2>9. UNCHANGED <<clients, windows, winpix, held, created, pixmap, old_bo, scheduled,
                    asked, queue, blocked, closed, nested>>
    BY <1>1 DEF FlipReturns, FlipAccepted, FlipRefused, FlipHalfDone, serverVars
  <2>10. QED
    BY <2>2, <2>4, <2>5, <2>6, <2>7, <2>8, <2>9 DEF Dri2Types
<1>2. ASSUME NEW f \in flips, ms_dri2_flip_handler(f) PROVE Dri2Types'
  <2>1. f.event \in Events
    BY DEF Dri2Types, Flip
  <2>2. completed' \in [Events -> Nat]
    <3>1. Complete(f.event) \/ completed' = completed
      BY <1>2 DEF ms_dri2_flip_handler
    <3>2. QED
      BY <2>1, <3>1, CompleteTypes DEF Dri2Types
  <2>3. flips' \subseteq Flip /\ dri2_flipping' = FALSE
    BY <1>2 DEF ms_dri2_flip_handler, Dri2Types
  <2>4. QED
    BY <1>2, <2>2, <2>3 DEF ms_dri2_flip_handler, Dri2Types, serverVars, bufferVars
<1>3. QED
  BY <1>1, <1>2

\* A frame event that forgets its client or its window remains one.
LEMMA ForgetTypes ==
    ASSUME NEW x \in Info
    PROVE  [x EXCEPT !.client = NULL] \in Info /\ [x EXCEPT !.drawable = NULL] \in Info
  BY DEF Info

\* Clients, windows and the screen go without changing types.
LEMMA GoneTypes ==
    ASSUME Dri2Types,
           \/ \E c \in clients : ClientExits(c)
           \/ \E d \in Windows : WindowDestroyed(d)
           \/ CloseScreen
    PROVE  Dri2Types'
<1> USE Numbers
<1>1. ASSUME NEW c \in clients, ClientExits(c) PROVE Dri2Types'
  <2>1. \A e \in Events : [info[e] EXCEPT !.client = NULL] \in Info
    BY ForgetTypes DEF Dri2Types
  <2>2. info' \in [Events -> Info]
    BY <1>1, <2>1 DEF ClientExits, ms_dri2_frame_event_client_gone, Dri2Types
  <2>3. clients' \subseteq Clients /\ blocked' \subseteq Sleep
    BY <1>1 DEF ClientExits, Dri2Types
  <2>4. QED
    BY <1>1, <2>2, <2>3 DEF ClientExits, Dri2Types, bufferVars, flipVars
<1>2. ASSUME NEW d \in Windows, WindowDestroyed(d) PROVE Dri2Types'
  <2>1. \A e \in Events : [info[e] EXCEPT !.drawable = NULL] \in Info
    BY ForgetTypes DEF Dri2Types
  <2>2. info' \in [Events -> Info]
    BY <1>2, <2>1 DEF WindowDestroyed, ms_dri2_frame_event_drawable_gone, Dri2Types
  <2>3. windows' \subseteq Windows /\ blocked' \subseteq Sleep
    BY <1>2 DEF WindowDestroyed, Dri2DrawableGone, Dri2Types
  <2>4. held' \in [Windows -> [front : Handle, back : Handle]]
    BY <1>2 DEF WindowDestroyed, Dri2DrawableGone, Dri2Types, Handle, NoBuffers
  <2>5. refcnt' \in [Buffers -> Int]
    BY <1>2, ReleasedTypes DEF WindowDestroyed, Dri2DrawableGone
  <2>6. QED
    BY <1>2, <2>2, <2>3, <2>4, <2>5 DEF WindowDestroyed, Dri2Types, flipVars
<1>3. CASE CloseScreen
  <2>1. /\ info' \in [Events -> Info] /\ deleted' \in [Events -> Nat]
        /\ refcnt' \in [Buffers -> Int]
    BY <1>3, DelTypes DEF CloseScreen, Dri2Types
  <2>2. dri2_flipping' \in BOOLEAN
    BY <1>3 DEF CloseScreen, Dri2Types
  <2>3. QED
    BY <1>3, <2>1, <2>2 DEF CloseScreen, Dri2Types, serverVars
<1>4. QED
  BY <1>1, <1>2, <1>3

-----------------------------------------------------------------------------
(* A frame event is where its request is *)

\* Frame events that are not deleted are those that the DRM queue or a running
\* ms_dri2_schedule_flip holds, in one place each; a flip is of an event that is deleted.
EventInv ==
    /\ queue \cup Stacked = {e \in Events : Alive(e)}
    /\ queue \cap Stacked = {}
    /\ Distinct(stack)
    /\ \A e \in Events : e > scheduled => deleted[e] = 0 /\ completed[e] = 0
    /\ \A f \in flips : f.event <= scheduled /\ f.event \notin queue \cup Stacked
    /\ \A f, g \in flips : f.event = g.event => f = g
    /\ closed => queue = {} /\ stack = <<>> /\ flips = {}

\* The effect of ms_dri2_del_frame_event.
LEMMA Deleting ==
    ASSUME Dri2Types, NEW S \in SUBSET Events, DelFrameEvents(S), NEW e \in Events
    PROVE  /\ e \in S => deleted'[e] = deleted[e] + 1 /\ deleted'[e] # 0
                         /\ info'[e] = FreedInfo(info[e].type)
           /\ e \notin S => deleted'[e] = deleted[e] /\ info'[e] = info[e]
<1>1. deleted[e] \in Nat
  BY DEF Dri2Types
<1>2. QED
  BY <1>1 DEF DelFrameEvents

\* Requests that come to their end take their frame events with them.
LEMMA EventsOver ==
    ASSUME Dri2Types, EventInv, NEW S \in SUBSET Events, DelFrameEvents(S),
           queue' \cup Stacked' = (queue \cup Stacked) \ S, scheduled' = scheduled
    PROVE  queue' \cup Stacked' = {e \in Events : Alive(e)'}
<1>1. ASSUME NEW e \in Events PROVE Alive(e)' <=> Alive(e) /\ e \notin S
  BY Deleting DEF Alive
<1>2. queue \cup Stacked = {e \in Events : Alive(e)}
  BY DEF EventInv
<1>3. QED
  BY <1>1, <1>2

\* At start there is none.
LEMMA EventInit == Init => EventInv
<1> SUFFICES ASSUME Init PROVE EventInv
  OBVIOUS
<1>1. Stacked = {} /\ Distinct(stack) /\ queue = {} /\ flips = {} /\ closed = FALSE
  BY NothingSubmitted DEF Init
<1>2. \A e \in Events : ~Alive(e)
  BY Numbers DEF Init, Alive, Events
<1>3. QED
  BY <1>1, <1>2 DEF Init, EventInv

\* Steps that leave the requests alone.
LEMMA EventKept ==
    ASSUME EventInv, UNCHANGED <<queue, stack, scheduled, deleted, completed, flips, closed>>
    PROVE  EventInv'
<1>1. Stacked' = Stacked /\ Distinct(stack)' = Distinct(stack)
  BY DEF Stacked, Distinct
<1>2. \A e \in Events : Alive(e)' = Alive(e)
  BY DEF Alive
<1>3. QED
  BY <1>1, <1>2 DEF EventInv

\* A new request is in the queue, or over at once.
LEMMA EventRequested ==
    ASSUME Dri2Types, EventInv, NEW type, NEW c, NEW d, NEW B, NEW answer \in Answers,
           NewFrameEvent(type, c, d, B, answer), UNCHANGED <<stack, flips, closed>>
    PROVE  EventInv'
<1>0. PICK n \in Events : n = scheduled + 1
  BY DEF NewFrameEvent
<1>1. /\ n \in Events /\ n = scheduled + 1 /\ scheduled \in Nat /\ scheduled' = n
         /\ stack = <<>> /\ ~closed
      /\ Stacked = {} /\ Stacked' = {} /\ Distinct(stack')
  BY <1>0, Numbers, NothingSubmitted DEF NewFrameEvent, MainLoop, Dri2Types, Stacked
<1>2. \A e \in Events : e \in Int /\ deleted[e] \in Nat
  BY Numbers DEF Dri2Types
<1>3. /\ deleted'[n] = Deletions(answer)
      /\ \A e \in Events \ {n} : deleted'[e] = deleted[e] /\ completed'[e] = completed[e]
  BY <1>1 DEF NewFrameEvent, Dri2Types
<1>4. Deletions(answer) = 0 <=> answer = "queued"
  BY DEF Deletions, Answers
<1>5. queue' = IF answer = "queued" THEN queue \cup {n} ELSE queue
  BY <1>1 DEF NewFrameEvent
<1>6. Alive(n)' <=> answer = "queued"
  BY <1>1, <1>3, <1>4 DEF Alive
<1>7. \A e \in Events \ {n} : Alive(e)' <=> Alive(e)
  BY <1>1, <1>2, <1>3 DEF Alive
<1>8. n \notin queue /\ ~Alive(n)
  BY <1>1 DEF EventInv, Alive
<1>9. queue' \cup Stacked' = {e \in Events : Alive(e)'}
  BY <1>1, <1>5, <1>6, <1>7, <1>8 DEF EventInv
<1>10. \A e \in Events : e > scheduled' => deleted'[e] = 0 /\ completed'[e] = 0
  BY <1>1, <1>2, <1>3 DEF EventInv
<1>11. \A f \in flips' : f.event <= scheduled' /\ f.event \notin queue' \cup Stacked'
  <2>1. \A f \in flips : f.event \in Events
    BY DEF Dri2Types, Flip
  <2>2. \A f \in flips : f.event \in Int
    BY <2>1, <1>2
  <2>3. QED
    BY <1>1, <1>5, <2>2 DEF EventInv
<1>12. QED
  BY <1>1, <1>9, <1>10, <1>11 DEF EventInv

\* The frame event handler finishes its event, or passes it on to ms_do_pageflip.
LEMMA EventHandled ==
    ASSUME Dri2Types, EventInv, NEW e \in queue, NEW v,
           FrameAbandoned(e) \/ WaitOver(e) \/ SwapBlits(e, v) \/ FlipSubmitted(e)
    PROVE  EventInv'
<1>1. e \in Events /\ e \notin Stacked /\ Alive(e) /\ queue' = queue \ {e}
  BY DEF Dri2Types, EventInv, FrameAbandoned, WaitOver, SwapBlits, FlipSubmitted
<1>2. ~closed
  BY DEF EventInv
<1>3. scheduled' = scheduled /\ flips' = flips /\ closed' = closed
  BY DEF FrameAbandoned, WaitOver, SwapBlits, FlipSubmitted, eventVars, flipVars
<1>4. CASE FlipSubmitted(e)
  <2>1. Stacked' = Stacked \cup {e} /\ Distinct(stack')
    BY <1>1, <1>4, CallPushes DEF FlipSubmitted, Dri2Types, EventInv
  <2>2. \A x \in Events : Alive(x)' <=> Alive(x)
    BY <1>4 DEF FlipSubmitted, eventVars, Alive
  <2>3. queue' \cup Stacked' = queue \cup Stacked
    BY <1>1, <2>1
  <2>4. deleted' = deleted /\ completed' = completed
    BY <1>4 DEF FlipSubmitted, eventVars
  <2>5. queue' \cap Stacked' = {}
    BY <1>1, <2>1 DEF EventInv
  <2>6. QED
    BY <1>2, <1>3, <2>1, <2>2, <2>3, <2>4, <2>5 DEF EventInv
<1>5. CASE ~FlipSubmitted(e)
  <2>1. DelFrameEvents({e}) /\ stack' = stack
    BY <1>5 DEF FrameAbandoned, WaitOver, SwapBlits, flipVars
  <2>2. Stacked' = Stacked /\ Distinct(stack')
    BY <2>1 DEF Stacked, EventInv
  <2>3. queue' \cup Stacked' = (queue \cup Stacked) \ {e}
    BY <1>1, <2>2
  <2>4. queue' \cup Stacked' = {x \in Events : Alive(x)'}
    BY <1>1, <1>3, <2>1, <2>3, EventsOver
  <2>5. \A x \in Events : x # e => completed'[x] = completed[x]
    BY <1>5 DEF FrameAbandoned, WaitOver, SwapBlits, Complete, Dri2Types
  <2>6. e <= scheduled /\ scheduled \in Int /\ e \in Int
    BY <1>1, Numbers DEF Alive, Dri2Types
  <2>7. \A x \in Events : x > scheduled' => deleted'[x] = 0 /\ completed'[x] = 0
    <3> SUFFICES ASSUME NEW x \in Events, x > scheduled
                 PROVE  deleted'[x] = 0 /\ completed'[x] = 0
      BY <1>3
    <3>1. x # e
      BY <2>6
    <3>2. deleted'[x] = deleted[x]
      BY <1>1, <2>1, <3>1, Deleting
    <3>3. QED
      BY <2>5, <3>1, <3>2 DEF EventInv
  <2>8. QED
    BY <1>1, <1>2, <1>3, <2>2, <2>3, <2>4, <2>7 DEF EventInv
<1>6. QED
  BY <1>4, <1>5

\* ms_do_pageflip returns: the frame event is over, and what is left of it is the flip.
LEMMA EventReturned ==
    ASSUME Dri2Types, EventInv, FlipReturns
    PROVE  EventInv'
<1>1. PICK e \in Events : e = submitting
  BY ReturnPops DEF FlipReturns, FlipAccepted, FlipRefused, FlipHalfDone, Dri2Types, EventInv
<1>2. /\ e \in Stacked /\ Stacked' = Stacked \ {e} /\ Distinct(stack')
      /\ stack # <<>>
  BY <1>1, ReturnPops DEF FlipReturns, FlipAccepted, FlipRefused, FlipHalfDone, Dri2Types, EventInv
<1>3. /\ DelFrameEvents({e}) /\ queue' = queue /\ scheduled' = scheduled /\ closed' = closed
      /\ ~closed
  BY <1>1, <1>2 DEF FlipReturns, FlipAccepted, FlipRefused, FlipHalfDone, EventInv
<1>4. e \notin queue /\ Alive(e) /\ queue' \cup Stacked' = (queue \cup Stacked) \ {e}
  BY <1>1, <1>2, <1>3 DEF EventInv
<1>5. queue' \cup Stacked' = {x \in Events : Alive(x)'}
  BY <1>3, <1>4, EventsOver
<1>6. e <= scheduled /\ scheduled \in Int /\ \A x \in Events : x \in Int
  BY <1>4, Numbers DEF Alive, Dri2Types
<1>7. \A x \in Events : x > scheduled' => deleted'[x] = 0 /\ completed'[x] = 0
  <2> SUFFICES ASSUME NEW x \in Events, x > scheduled
               PROVE  deleted'[x] = 0 /\ completed'[x] = 0
    BY <1>3
  <2>1. x # e
    BY <1>6
  <2>2. completed'[x] = completed[x]
    BY <1>1, <2>1 DEF FlipReturns, FlipAccepted, FlipRefused, FlipHalfDone, Complete, Dri2Types
  <2>3. deleted'[x] = deleted[x]
    BY <1>3, <2>1, Deleting
  <2>4. QED
    BY <2>2, <2>3 DEF EventInv
<1>8. flips' = flips \/ (flips' = flips \cup {FlipEvent(e)} /\ FlipEvent(e).event = e)
  BY <1>1 DEF FlipReturns, FlipAccepted, FlipRefused, FlipHalfDone, FlipEvent
<1>9. /\ \A f \in flips' : f.event <= scheduled' /\ f.event \notin queue' \cup Stacked'
      /\ \A f, g \in flips' : f.event = g.event => f = g
  BY <1>2, <1>3, <1>4, <1>6, <1>8 DEF EventInv
<1>10. queue' \cap Stacked' = {}
  BY <1>2, <1>3 DEF EventInv
<1>11. QED
  BY <1>2, <1>3, <1>5, <1>7, <1>9, <1>10 DEF EventInv

\* The flip is reported.
LEMMA EventFlipped ==
    ASSUME Dri2Types, EventInv, NEW f \in flips, ms_dri2_flip_handler(f)
    PROVE  EventInv'
<1>1. /\ queue' = queue /\ stack' = stack /\ scheduled' = scheduled /\ deleted' = deleted
      /\ closed' = closed /\ flips' \subseteq flips
  BY DEF ms_dri2_flip_handler
<1>2. /\ f \in Flip /\ f.event \in Events /\ f.event <= scheduled
      /\ scheduled \in Int /\ \A x \in Events : x \in Int
  BY Numbers DEF EventInv, Dri2Types, Flip
<1>3. \A x \in Events : x # f.event => completed'[x] = completed[x]
  BY DEF ms_dri2_flip_handler, Complete, Dri2Types
<1>4. \A x \in Events : x > scheduled => completed'[x] = completed[x]
  BY <1>2, <1>3
<1>5. /\ Stacked' = Stacked /\ Distinct(stack') /\ ~closed
      /\ \A x \in Events : Alive(x)' <=> Alive(x)
  BY <1>1 DEF Stacked, EventInv, Alive
<1>6. QED
  BY <1>1, <1>4, <1>5 DEF EventInv

\* CloseScreen aborts all requests.
LEMMA EventClosed ==
    ASSUME Dri2Types, EventInv, CloseScreen
    PROVE  EventInv'
<1>1. /\ stack = <<>> /\ stack' = stack /\ queue' = {} /\ flips' = {} /\ closed'
      /\ scheduled' = scheduled /\ completed' = completed /\ DelFrameEvents(queue)
  BY DEF CloseScreen, MainLoop
<1>2. Stacked = {} /\ Stacked' = {} /\ Distinct(stack')
  BY <1>1, NothingSubmitted DEF Stacked
<1>3. queue \in SUBSET Events
  BY DEF Dri2Types
<1>4. queue' \cup Stacked' = {x \in Events : Alive(x)'}
  BY <1>1, <1>2, <1>3, EventsOver
<1>5. \A x \in Events : x > scheduled => x \notin queue
  <2>1. scheduled \in Int /\ \A x \in Events : x \in Int
    BY Numbers DEF Dri2Types
  <2>2. QED
    BY <2>1 DEF EventInv, Alive
<1>6. \A x \in Events : x > scheduled => deleted'[x] = 0 /\ completed'[x] = 0
  BY <1>1, <1>3, <1>5, Deleting DEF EventInv
<1>7. QED
  BY <1>1, <1>2, <1>4, <1>6 DEF EventInv

\* Every step keeps track of the frame events.
LEMMA EventStep ==
    ASSUME Dri2Types, EventInv, [Next]_vars
    PROVE  EventInv'
<1>1. CASE ServerStep
  <2>1. CASE \E e \in queue : FrameAbandoned(e) \/ WaitOver(e) \/ FlipSubmitted(e)
    BY <2>1, EventHandled
  <2>2. CASE \E e \in queue, v \in {"no", "updated", "yes"} : SwapBlits(e, v)
    BY <2>2, EventHandled
  <2>3. CASE FlipReturns
    BY <2>3, EventReturned
  <2>4. CASE \E f \in flips : ms_dri2_flip_handler(f)
    BY <2>4, EventFlipped
  <2>5. QED
    BY <1>1, <2>1, <2>2, <2>3, <2>4 DEF ServerStep, FlipReturns
<1>2. ASSUME NEW d \in Windows,
             \/ ms_dri2_create_buffer2(d) \/ DestroyDrawable(d)
             \/ Redirection(d) \/ WindowDestroyed(d)
      PROVE  EventInv'
  <2>1. UNCHANGED <<queue, stack, scheduled, deleted, completed, flips, closed>>
    BY <1>2 DEF ms_dri2_create_buffer2, DestroyDrawable, Redirection, WindowDestroyed,
                eventVars, flipVars
  <2>2. QED
    BY <2>1, EventKept
<1>3. ASSUME NEW c, NEW d, NEW v, NEW answer \in Answers,
             ms_dri2_schedule_swap(c, d, v, answer) \/ ms_dri2_schedule_wait_msc(c, d, answer)
      PROVE  EventInv'
  <2>1. \E type, B : NewFrameEvent(type, c, d, B, answer)
    BY <1>3 DEF ms_dri2_schedule_swap, ms_dri2_schedule_wait_msc
  <2>2. UNCHANGED <<stack, flips, closed>>
    BY <1>3 DEF ms_dri2_schedule_swap, ms_dri2_schedule_wait_msc, flipVars
  <2>3. QED
    BY <2>1, <2>2, EventRequested
<1>5. CASE \E c \in clients : ClientExits(c)
  <2>1. UNCHANGED <<queue, stack, scheduled, deleted, completed, flips, closed>>
    BY <1>5 DEF ClientExits, flipVars
  <2>2. QED
    BY <2>1, EventKept
<1>6. CASE CloseScreen
  BY <1>6, EventClosed
<1>7. CASE UNCHANGED vars
  <2>1. UNCHANGED <<queue, stack, scheduled, deleted, completed, flips, closed>>
    BY <1>7 DEF vars, eventVars, flipVars
  <2>2. QED
    BY <2>1, EventKept
<1>8. QED
  BY <1>1, <1>2, <1>3, <1>5, <1>6, <1>7 DEF Next

-----------------------------------------------------------------------------
(* Nothing refers to a client or a window that has gone *)

\* NoDangling, and: a client sleeps on a wait, and only flips are submitted.
ClientInv ==
    /\ \A e \in queue \cup Stacked : /\ info[e].client \in clients \cup {NULL}
                                     /\ info[e].drawable \in windows \cup {NULL}
    /\ \A e \in Stacked : info[e].type = "flip"
    /\ \A w \in blocked : /\ w.event \in queue
                          /\ info[w.event].type = "wait"
                          /\ info[w.event].client = w.client
                          /\ info[w.event].drawable = w.drawable

\* Steps that leave the frame events alone and put nobody to sleep.
LEMMA ClientKept ==
    ASSUME ClientInv, UNCHANGED <<info, queue, stack, clients, windows>>,
           blocked' \subseteq blocked
    PROVE  ClientInv'
<1>1. Stacked' = Stacked
  BY DEF Stacked
<1>2. QED
  BY <1>1 DEF ClientInv

\* Frame events that are over are those that nobody sleeps on any more.
LEMMA ClientOver ==
    ASSUME Dri2Types, ClientInv, NEW S \in SUBSET Events, DelFrameEvents(S),
           queue' = queue \ S, Stacked' = Stacked \ S,
           clients' = clients, windows' = windows, blocked' \subseteq blocked,
           \A w \in blocked' : w.event \notin S
    PROVE  ClientInv'
<1>1. \A e \in queue' \cup Stacked' : e \in queue \cup Stacked /\ e \in Events /\ e \notin S
  <2>1. queue \subseteq Events /\ Stacked \subseteq Events
    BY DEF Dri2Types, Stacked
  <2>2. QED
    BY <2>1
<1>2. \A e \in queue' \cup Stacked' : info'[e] = info[e]
  BY <1>1, Deleting
<1>3. \A w \in blocked' : w.event \in queue'
  BY DEF ClientInv
<1>4. QED
  BY <1>1, <1>2, <1>3 DEF ClientInv

\* At start no client sleeps.
LEMMA ClientInit == Init => ClientInv
<1> SUFFICES ASSUME Init PROVE ClientInv
  OBVIOUS
<1>1. Stacked = {}
  BY NothingSubmitted DEF Init
<1>2. QED
  BY <1>1 DEF Init, ClientInv

\* A new request knows its client and its window, which exist.
LEMMA ClientRequested ==
    ASSUME Dri2Types, EventInv, ClientInv, NEW type, NEW c, NEW d, NEW B, NEW answer,
           NewFrameEvent(type, c, d, B, answer), UNCHANGED <<stack, clients, windows>>,
           \/ blocked' = blocked
           \/ /\ type = "wait" /\ answer = "queued"
              /\ blocked' = blocked \cup {[client |-> c, drawable |-> d,
                  event |-> scheduled + 1]}
    PROVE  ClientInv'
<1>1. PICK n \in Events : n = scheduled + 1
  BY DEF NewFrameEvent
<1>2. Stacked = {} /\ Stacked' = {}
  BY NothingSubmitted DEF NewFrameEvent, MainLoop, Stacked
<1>3. n \notin queue
  BY <1>1, Numbers DEF EventInv, Alive, Dri2Types
<1>4. \A e \in Events \ {n} : info'[e] = info[e]
  BY <1>1 DEF NewFrameEvent, Dri2Types
<1>5. \A e \in queue : e \in Events \ {n}
  BY <1>3 DEF Dri2Types
<1>6. CASE answer = "queued"
  <2>1. queue' = queue \cup {n}
    BY <1>1, <1>6 DEF NewFrameEvent
  <2>2. /\ info'[n].client = c /\ info'[n].drawable = d /\ info'[n].type = type
        /\ c \in clients /\ d \in windows
    BY <1>1, <1>6 DEF NewFrameEvent, Dri2Types
  <2>3. \A w \in blocked' : \/ w \in blocked
                            \/ type = "wait" /\ w = [client |-> c, drawable |-> d, event |-> n]
    BY <1>1
  <2>4. QED
    BY <1>2, <1>4, <1>5, <2>1, <2>2, <2>3 DEF ClientInv
<1>7. CASE answer # "queued"
  <2>1. queue' = queue /\ blocked' = blocked
    BY <1>7 DEF NewFrameEvent
  <2>2. QED
    BY <1>2, <1>4, <1>5, <2>1 DEF ClientInv
<1>8. QED
  BY <1>6, <1>7

\* A handler ends the sleep on its event before it deletes it.
LEMMA ClientHandled ==
    ASSUME Dri2Types, EventInv, ClientInv, NEW e \in queue, NEW v,
           FrameAbandoned(e) \/ WaitOver(e) \/ SwapBlits(e, v) \/ FlipSubmitted(e)
    PROVE  ClientInv'
<1>1. e \in Events /\ {e} \in SUBSET Events /\ e \notin Stacked /\ queue' = queue \ {e}
  BY DEF Dri2Types, EventInv, FrameAbandoned, WaitOver, SwapBlits, FlipSubmitted
<1>2. \A w \in blocked : w.client # NULL /\ w.drawable # NULL
  BY Numbers DEF Dri2Types, Sleep
<1>3. clients' = clients /\ windows' = windows
  BY DEF FrameAbandoned, WaitOver, SwapBlits, FlipSubmitted, serverVars
<1>4. \A w \in blocked' : w \in blocked /\ w.event # e
  <2>1. CASE FrameAbandoned(e)
    BY <1>2, <2>1 DEF FrameAbandoned, ClientInv
  <2>2. CASE WaitOver(e)
    BY <1>2, <2>2 DEF WaitOver, ClientInv
  <2>3. CASE SwapBlits(e, v)
    BY <2>3 DEF SwapBlits, ClientInv
  <2>4. CASE FlipSubmitted(e)
    BY <2>4 DEF FlipSubmitted, ClientInv
  <2>5. QED
    BY <2>1, <2>2, <2>3, <2>4
<1>5. CASE FlipSubmitted(e)
  <2>1. Stacked' = Stacked \cup {e} /\ info' = info /\ info[e].type = "flip"
    BY <1>1, <1>5, CallPushes DEF FlipSubmitted, Dri2Types, eventVars
  <2>2. QED
    BY <1>1, <1>3, <1>4, <2>1 DEF ClientInv
<1>6. CASE ~FlipSubmitted(e)
  <2>1. DelFrameEvents({e}) /\ stack' = stack
    BY <1>6 DEF FrameAbandoned, WaitOver, SwapBlits, flipVars
  <2>2. Stacked' = Stacked \ {e}
    BY <1>1, <2>1 DEF Stacked
  <2>3. QED
    BY <1>1, <1>3, <1>4, <2>1, <2>2, ClientOver
<1>7. QED
  BY <1>5, <1>6

\* When ms_do_pageflip returns, its frame event was a flip, on which nobody sleeps.
LEMMA ClientReturned ==
    ASSUME Dri2Types, EventInv, ClientInv, FlipReturns
    PROVE  ClientInv'
<1>1. PICK e \in Events : e = submitting
  BY ReturnPops DEF FlipReturns, FlipAccepted, FlipRefused, FlipHalfDone, Dri2Types, EventInv
<1>2. e \in Stacked /\ Stacked' = Stacked \ {e}
  BY <1>1, ReturnPops DEF FlipReturns, FlipAccepted, FlipRefused, FlipHalfDone, Dri2Types, EventInv
<1>3. /\ DelFrameEvents({e}) /\ queue' = queue /\ blocked' = blocked
      /\ clients' = clients /\ windows' = windows
  BY <1>1 DEF FlipReturns, FlipAccepted, FlipRefused, FlipHalfDone, serverVars
<1>4. e \notin queue
  BY <1>2 DEF EventInv
<1>5. \A w \in blocked' : w.event # e
  BY <1>3, <1>4 DEF ClientInv
<1>6. queue' = queue \ {e}
  BY <1>3, <1>4
<1>7. QED
  BY <1>2, <1>3, <1>5, <1>6, ClientOver

\* Frame events forget the client that exits, and it sleeps no more.
LEMMA ClientGone ==
    ASSUME Dri2Types, EventInv, ClientInv, NEW c \in clients, ClientExits(c)
    PROVE  ClientInv'
<1>1. queue' = queue /\ Stacked' = Stacked /\ windows' = windows /\ clients' = clients \ {c}
  BY DEF ClientExits, flipVars, Stacked
<1>2. \A e \in queue \cup Stacked :
         e \in Events /\ deleted[e] = 0 /\ info[e] \in Info
  BY DEF EventInv, Alive, Dri2Types
<1>3. \A e \in queue \cup Stacked :
         /\ info'[e].drawable = info[e].drawable /\ info'[e].type = info[e].type
         /\ info'[e].client = IF info[e].client = c THEN NULL ELSE info[e].client
  BY <1>2 DEF ClientExits, ms_dri2_frame_event_client_gone, Info
<1>4. \A w \in blocked' : w \in blocked /\ w.client # c
  BY DEF ClientExits
<1>5. QED
  BY <1>1, <1>3, <1>4 DEF ClientInv

\* Frame events forget the window that is destroyed, and nobody sleeps on it.
LEMMA WindowGone ==
    ASSUME Dri2Types, EventInv, ClientInv, NEW d \in Windows, WindowDestroyed(d)
    PROVE  ClientInv'
<1>1. queue' = queue /\ Stacked' = Stacked /\ windows' = windows \ {d} /\ clients' = clients
  BY DEF WindowDestroyed, flipVars, Stacked
<1>2. \A e \in queue \cup Stacked :
         e \in Events /\ deleted[e] = 0 /\ info[e] \in Info
  BY DEF EventInv, Alive, Dri2Types
<1>3. \A e \in queue \cup Stacked :
         /\ info'[e].client = info[e].client /\ info'[e].type = info[e].type
         /\ info'[e].drawable = IF info[e].drawable = d THEN NULL ELSE info[e].drawable
  BY <1>2 DEF WindowDestroyed, ms_dri2_frame_event_drawable_gone, Info
<1>4. \A w \in blocked' : w \in blocked /\ w.drawable # d
  BY DEF WindowDestroyed, Dri2DrawableGone
<1>5. QED
  BY <1>1, <1>3, <1>4 DEF ClientInv

\* When the screen is closed no client is left that could sleep.
LEMMA ClientClosed ==
    ASSUME Dri2Types, EventInv, ClientInv, CloseScreen
    PROVE  ClientInv'
<1>1. queue' = {} /\ Stacked' = {} /\ blocked' = blocked /\ clients = {}
  BY NothingSubmitted DEF CloseScreen, MainLoop, Stacked
<1>2. blocked = {}
  <2> SUFFICES ASSUME NEW w \in blocked PROVE FALSE
    OBVIOUS
  <2>1. w.client # NULL
    BY Numbers DEF Dri2Types, Sleep
  <2>2. QED
    BY <1>1, <2>1 DEF ClientInv
<1>3. QED
  BY <1>1, <1>2 DEF ClientInv

\* Every step keeps the frame events' clients and windows known to the server.
LEMMA ClientStep ==
    ASSUME Dri2Types, EventInv, ClientInv, [Next]_vars
    PROVE  ClientInv'
<1>1. CASE ServerStep
  <2>1. CASE \E e \in queue : FrameAbandoned(e) \/ WaitOver(e) \/ FlipSubmitted(e)
    BY <2>1, ClientHandled
  <2>2. CASE \E e \in queue, v \in {"no", "updated", "yes"} : SwapBlits(e, v)
    BY <2>2, ClientHandled
  <2>3. CASE FlipReturns
    BY <2>3, ClientReturned
  <2>4. CASE \E f \in flips : ms_dri2_flip_handler(f)
    <3>1. UNCHANGED <<info, queue, stack, clients, windows>> /\ blocked' = blocked
      BY <2>4 DEF ms_dri2_flip_handler, serverVars
    <3>2. QED
      BY <3>1, ClientKept
  <2>5. QED
    BY <1>1, <2>1, <2>2, <2>3, <2>4 DEF ServerStep, FlipReturns
<1>2. ASSUME NEW d \in Windows,
             ms_dri2_create_buffer2(d) \/ DestroyDrawable(d) \/ Redirection(d)
      PROVE  ClientInv'
  <2>1. UNCHANGED <<info, queue, stack, clients, windows>> /\ blocked' \subseteq blocked
    BY <1>2 DEF ms_dri2_create_buffer2, DestroyDrawable, Redirection, Dri2DrawableGone,
                serverVars, eventVars, flipVars
  <2>2. QED
    BY <2>1, ClientKept
<1>3. CASE \E d \in Windows : WindowDestroyed(d)
  BY <1>3, WindowGone
<1>4. ASSUME NEW c, NEW d, NEW v, NEW answer,
             ms_dri2_schedule_swap(c, d, v, answer)
      PROVE  ClientInv'
  <2>1. \E type, B : NewFrameEvent(type, c, d, B, answer)
    BY <1>4 DEF ms_dri2_schedule_swap
  <2>2. UNCHANGED <<stack, clients, windows>> /\ blocked' = blocked
    BY <1>4 DEF ms_dri2_schedule_swap, serverVars, flipVars
  <2>3. QED
    BY <2>1, <2>2, ClientRequested
<1>5. ASSUME NEW c, NEW d, NEW answer, ms_dri2_schedule_wait_msc(c, d, answer)
      PROVE  ClientInv'
  <2>1. NewFrameEvent("wait", c, d, NoBuffers, answer) /\ UNCHANGED <<stack, clients, windows>>
    BY <1>5 DEF ms_dri2_schedule_wait_msc, serverVars, flipVars
  <2>2. \/ blocked' = blocked
        \/ /\ answer = "queued"
           /\ blocked' = blocked \cup {[client |-> c, drawable |-> d, event |-> scheduled + 1]}
    BY <1>5 DEF ms_dri2_schedule_wait_msc
  <2>3. QED
    BY <2>1, <2>2, ClientRequested
<1>7. CASE \E c \in clients : ClientExits(c)
  BY <1>7, ClientGone
<1>8. CASE CloseScreen
  BY <1>8, ClientClosed
<1>9. CASE UNCHANGED vars
  <2>1. UNCHANGED <<info, queue, stack, clients, windows>> /\ blocked' = blocked
    BY <1>9 DEF vars, serverVars, eventVars, flipVars
  <2>2. QED
    BY <2>1, ClientKept
<1>10. QED
  BY <1>1, <1>2, <1>3, <1>4, <1>5, <1>7, <1>8, <1>9 DEF Next

-----------------------------------------------------------------------------
(* Every swap is reported once *)

\* The frame events of which a client may still be told: those that are not over, and
\* those whose flip is under way.
Owed == queue \cup Stacked \cup {f.event : f \in flips}

\* What is owed is told of once more, what is not owed was told as often as it should be, if
\* there is a window; until then the frame event, and then the flip, know the window.
ReportInv ==
    /\ \A e \in Events : completed[e] <= Reports(e)
    /\ \A e \in Owed : completed[e] + 1 = Reports(e)
    /\ \A e \in Events \ Owed :
         e <= scheduled /\ info[e].type # "wait" /\ asked[e] \in windows
           => completed[e] = Reports(e)
    /\ \A e \in queue \cup Stacked : asked[e] \in windows => info[e].drawable = asked[e]
    /\ \A f \in flips : asked[f.event] \in windows => f.drawable = asked[f.event]
    /\ \A e \in halfway : e <= scheduled /\ e \notin queue \cup Stacked

\* What is owed are frame events.
LEMMA OwedEvents ==
    ASSUME Dri2Types
    PROVE  Owed \subseteq Events /\ queue \subseteq Events /\ Stacked \subseteq Events
<1>1. \A f \in flips : f.event \in Events
  BY DEF Dri2Types, Flip
<1>2. queue \subseteq Events /\ Stacked \subseteq Events
  BY DEF Dri2Types, Stacked
<1>3. QED
  BY <1>1, <1>2 DEF Owed

\* At start nothing is owed.
LEMMA ReportInit == Init => ReportInv
<1> SUFFICES ASSUME Init PROVE ReportInv
  OBVIOUS
<1>1. Stacked = {} /\ queue = {} /\ flips = {}
  BY NothingSubmitted DEF Init
<1>2. \A e \in Events : completed[e] = 0 /\ ~(e <= scheduled)
  BY Numbers DEF Init, Events
<1>3. halfway = {} /\ \A e \in Events : Reports(e) = 1
  BY DEF Init, Reports
<1>4. QED
  BY <1>1, <1>2, <1>3 DEF ReportInv, Owed

\* Steps that tell nobody and forget no window that exists.
LEMMA ReportKept ==
    ASSUME Dri2Types, ReportInv,
           UNCHANGED <<queue, stack, flips, completed, asked, scheduled, halfway>>,
           windows' \subseteq windows,
           \A e \in Events : info'[e].type = info[e].type,
           \A e \in queue \cup Stacked :
              \/ info'[e].drawable = info[e].drawable
              \/ info[e].drawable \notin windows'
    PROVE  ReportInv'
<1>1. Stacked' = Stacked
  BY DEF Stacked
<1>2. Owed' = Owed /\ \A e : Reports(e)' = Reports(e)
  BY <1>1 DEF Owed, Reports
<1>3. QED
  BY <1>1, <1>2 DEF ReportInv

\* A new request is owed an answer, or answered at once.
LEMMA ReportRequested ==
    ASSUME Dri2Types, EventInv, ReportInv, NEW type, NEW c, NEW d, NEW B, NEW answer,
           NewFrameEvent(type, c, d, B, answer),
           UNCHANGED <<stack, windows, flips, halfway>>
    PROVE  ReportInv'
<1>1. PICK n \in Events : n = scheduled + 1
  BY DEF NewFrameEvent
<1>2. Stacked = {} /\ Stacked' = {} /\ scheduled' = n
  BY <1>1, NothingSubmitted DEF NewFrameEvent, MainLoop, Stacked
<1>3. scheduled \in Int /\ \A e \in Events : e \in Int
  BY Numbers DEF Dri2Types
<1>4. n \notin Owed /\ n \notin queue
  BY <1>1, <1>3 DEF EventInv, Alive, Owed
<1>5. \A e \in Events \ {n} : /\ info'[e] = info[e] /\ completed'[e] = completed[e]
                              /\ asked'[e] = asked[e] /\ (e <= scheduled' <=> e <= scheduled)
  BY <1>1, <1>2, <1>3 DEF NewFrameEvent, Dri2Types
<1>6. asked'[n] = d
  BY <1>1 DEF NewFrameEvent, Dri2Types
<1>7. Owed \subseteq Events /\ queue \subseteq Events /\ \A f \in flips : f.event \in Owed
  BY OwedEvents DEF Owed
<1>8. /\ \A e : Reports(e)' = Reports(e)
      /\ n \notin halfway /\ Reports(n) = 1
      /\ \A e \in halfway : e # n /\ e <= scheduled' /\ e \notin queue' \cup Stacked'
  <2>1. halfway \subseteq Events /\ \A e \in halfway : e <= scheduled
    BY DEF Dri2Types, ReportInv
  <2>2. \A e \in halfway : e # n
    BY <1>1, <1>3, <2>1
  <2>3. queue' \subseteq queue \cup {n}
    BY <1>1 DEF NewFrameEvent
  <2>4. QED
    BY <1>2, <1>5, <2>1, <2>2, <2>3 DEF Reports, ReportInv
<1>9. CASE answer = "queued"
  <2>1. completed'[n] = 0 /\ info'[n].drawable = d
    BY <1>1, <1>9 DEF NewFrameEvent, Dri2Types
  <2>2. queue' = queue \cup {n} /\ Owed' = Owed \cup {n}
    BY <1>1, <1>2, <1>9 DEF NewFrameEvent, Owed
  <2>3. \A e \in Events : completed'[e] <= Reports(e)
    BY <1>5, <1>8, <2>1 DEF ReportInv
  <2>4. \A e \in Owed' : completed'[e] + 1 = Reports(e)
    BY <1>4, <1>5, <1>7, <1>8, <2>1, <2>2 DEF ReportInv
  <2>5. \A e \in Events \ Owed' :
            e <= scheduled' /\ info'[e].type # "wait" /\ asked'[e] \in windows'
                => completed'[e] = Reports(e)
    BY <1>5, <2>2 DEF ReportInv
  <2>6. \A e \in queue' : asked'[e] \in windows' => info'[e].drawable = asked'[e]
    BY <1>4, <1>5, <1>6, <1>7, <2>1, <2>2 DEF ReportInv
  <2>7. \A f \in flips' : asked'[f.event] \in windows' => f.drawable = asked'[f.event]
    BY <1>4, <1>5, <1>7 DEF ReportInv
  <2>8. QED
    BY <1>2, <1>8, <2>3, <2>4, <2>5, <2>6, <2>7 DEF ReportInv
<1>10. CASE answer # "queued"
  <2>1. completed'[n] = 1
    BY <1>1, <1>10 DEF NewFrameEvent, Dri2Types
  <2>2. queue' = queue /\ Owed' = Owed
    BY <1>1, <1>2, <1>10 DEF NewFrameEvent, Owed
  <2>3. \A e \in Events : completed'[e] <= Reports(e)
    BY <1>5, <1>8, <2>1 DEF ReportInv
  <2>4. \A e \in Owed' : completed'[e] + 1 = Reports(e)
    BY <1>4, <1>5, <1>7, <2>2 DEF ReportInv
  <2>5. \A e \in Events \ Owed' :
            e <= scheduled' /\ info'[e].type # "wait" /\ asked'[e] \in windows'
                => completed'[e] = Reports(e)
    BY <1>5, <1>8, <2>1, <2>2 DEF ReportInv
  <2>6. \A e \in queue' : asked'[e] \in windows' => info'[e].drawable = asked'[e]
    BY <1>4, <1>5, <1>7, <2>2 DEF ReportInv
  <2>7. \A f \in flips' : asked'[f.event] \in windows' => f.drawable = asked'[f.event]
    BY <1>4, <1>5, <1>7 DEF ReportInv
  <2>8. QED
    BY <1>2, <1>8, <2>3, <2>4, <2>5, <2>6, <2>7 DEF ReportInv
<1>11. QED
  BY <1>9, <1>10

\* What is owed no more was told, unless it was a wait or there is no window.
LEMMA ReportOver ==
    ASSUME Dri2Types, ReportInv, NEW e \in Owed, Owed' = Owed \ {e},
           Complete(e) \/ completed' = completed,
           Complete(e) \/ info[e].type = "wait" \/ asked[e] \notin windows,
           UNCHANGED <<asked, scheduled, windows, halfway>>,
           queue' \cup Stacked' \subseteq queue \cup Stacked, flips' \subseteq flips,
           \A x \in Events : info'[x].type = info[x].type,
           \A x \in queue' \cup Stacked' : info'[x] = info[x]
    PROVE  ReportInv'
<1>1. /\ e \in Events /\ completed[e] + 1 = Reports(e) /\ Owed \subseteq Events
      /\ completed[e] \in Nat /\ \A x : Reports(x)' = Reports(x)
  BY OwedEvents DEF ReportInv, Dri2Types, Reports
<1>2. /\ completed'[e] <= Reports(e) /\ (Complete(e) => completed'[e] = Reports(e))
      /\ \A x \in Events : x # e => completed'[x] = completed[x]
  BY <1>1 DEF Complete, Dri2Types, Reports
<1>3. \A x \in Events : completed'[x] <= Reports(x)
  BY <1>2 DEF ReportInv
<1>4. \A x \in Owed' : completed'[x] + 1 = Reports(x)
  BY <1>1, <1>2 DEF ReportInv
<1>5. \A x \in Events \ Owed' :
            x <= scheduled' /\ info'[x].type # "wait" /\ asked'[x] \in windows'
                => completed'[x] = Reports(x)
  BY <1>1, <1>2 DEF ReportInv
<1>6. \A x \in queue' \cup Stacked' : asked'[x] \in windows' => info'[x].drawable = asked'[x]
  BY DEF ReportInv
<1>7. \A f \in flips' : asked'[f.event] \in windows' => f.drawable = asked'[f.event]
  BY DEF ReportInv
<1>8. \A x \in halfway' : x <= scheduled' /\ x \notin queue' \cup Stacked'
  BY DEF ReportInv
<1>9. QED
  BY <1>1, <1>3, <1>4, <1>5, <1>6, <1>7, <1>8 DEF ReportInv

\* A freed frame event is known by its type.
LEMMA DeletingFields ==
    ASSUME Dri2Types, NEW S \in SUBSET Events, DelFrameEvents(S)
    PROVE  /\ \A x \in Events : info'[x].type = info[x].type
           /\ \A x \in Events \ S : info'[x] = info[x]
<1>1. \A t : FreedInfo(t).type = t
  BY DEF FreedInfo, NoInfo
<1>2. QED
  BY <1>1, Deleting

\* The frame event handler tells of the swaps it ends; a submitted flip is owed still.
LEMMA ReportHandled ==
    ASSUME Dri2Types, EventInv, ReportInv, NEW e \in queue, NEW v,
           FrameAbandoned(e) \/ WaitOver(e) \/ SwapBlits(e, v) \/ FlipSubmitted(e)
    PROVE  ReportInv'
<1>1. e \in Events /\ {e} \in SUBSET Events /\ e \notin Stacked /\ queue' = queue \ {e}
  BY DEF Dri2Types, EventInv, FrameAbandoned, WaitOver, SwapBlits, FlipSubmitted
<1>2. /\ e \in Owed /\ \A f \in flips : f.event # e
      /\ queue \subseteq Events /\ Stacked \subseteq Events
  BY OwedEvents DEF Owed, EventInv
<1>3. UNCHANGED <<asked, scheduled, windows, flips, halfway>>
  BY DEF FrameAbandoned, WaitOver, SwapBlits, FlipSubmitted, serverVars, eventVars, flipVars
<1>4. CASE FlipSubmitted(e)
  <2>1. Stacked' = Stacked \cup {e} /\ info' = info /\ completed' = completed
    BY <1>1, <1>4, CallPushes DEF FlipSubmitted, Dri2Types, eventVars
  <2>2. queue' \cup Stacked' = queue \cup Stacked
    BY <1>1, <2>1
  <2>3. Owed' = Owed /\ \A x : Reports(x)' = Reports(x)
    BY <1>3, <2>2 DEF Owed, Reports
  <2>4. QED
    BY <1>3, <2>1, <2>2, <2>3 DEF ReportInv
<1>5. CASE ~FlipSubmitted(e)
  <2>1. DelFrameEvents({e}) /\ stack' = stack
    BY <1>5 DEF FrameAbandoned, WaitOver, SwapBlits, flipVars
  <2>2. Stacked' = Stacked
    BY <2>1 DEF Stacked
  <2>3. queue' \cup Stacked' = (queue \cup Stacked) \ {e}
    BY <1>1, <2>2
  <2>4. Owed' = Owed \ {e}
    BY <1>2, <1>3, <2>3 DEF Owed
  <2>5. /\ \A x \in Events : info'[x].type = info[x].type
        /\ \A x \in Events \ {e} : info'[x] = info[x]
    BY <1>1, <2>1, DeletingFields
  <2>6. \A x \in queue' \cup Stacked' : info'[x] = info[x]
    BY <1>2, <2>3, <2>5
  <2>7. Complete(e) \/ completed' = completed
    BY <1>5 DEF FrameAbandoned, WaitOver, SwapBlits
  <2>8. Complete(e) \/ info[e].type = "wait" \/ asked[e] \notin windows
    <3>1. CASE FrameAbandoned(e)
      <4>1. info[e].drawable = NULL /\ NULL \notin windows
        BY <3>1, Numbers DEF FrameAbandoned, Dri2Types
      <4>2. QED
        BY <4>1 DEF ReportInv
    <3>2. CASE WaitOver(e)
      BY <3>2 DEF WaitOver
    <3>3. CASE SwapBlits(e, v)
      BY <3>3 DEF SwapBlits
    <3>4. QED
      BY <1>5, <3>1, <3>2, <3>3
  <2>9. QED
    BY <1>2, <1>3, <2>3, <2>4, <2>5, <2>6, <2>7, <2>8, ReportOver
<1>6. QED
  BY <1>4, <1>5

\* An accepted flip knows the window of its frame event; a refused one is reported.
LEMMA ReportReturned ==
    ASSUME Dri2Types, EventInv, ReportInv, FlipReturns
    PROVE  ReportInv'
<1>1. PICK e \in Events : e = submitting
  BY ReturnPops DEF FlipReturns, FlipAccepted, FlipRefused, FlipHalfDone, Dri2Types, EventInv
<1>2. e \in Stacked /\ Stacked' = Stacked \ {e} /\ {e} \in SUBSET Events
  BY <1>1, ReturnPops DEF FlipReturns, FlipAccepted, FlipRefused, FlipHalfDone, Dri2Types, EventInv
<1>3. /\ DelFrameEvents({e}) /\ queue' = queue /\ UNCHANGED <<asked, scheduled, windows>>
  BY <1>1 DEF FlipReturns, FlipAccepted, FlipRefused, FlipHalfDone, serverVars
<1>4. /\ e \in Owed /\ e \notin queue /\ \A f \in flips : f.event # e
      /\ queue \subseteq Events /\ Stacked \subseteq Events
  BY <1>2, OwedEvents DEF Owed, EventInv
<1>5. /\ \A x \in Events : info'[x].type = info[x].type
      /\ \A x \in Events \ {e} : info'[x] = info[x]
  BY <1>2, <1>3, DeletingFields
<1>6. queue' \cup Stacked' = (queue \cup Stacked) \ {e}
  BY <1>2, <1>3, <1>4
<1>7. \A x \in queue' \cup Stacked' : info'[x] = info[x]
  BY <1>4, <1>5, <1>6
<1>8. CASE FlipAccepted \/ FlipHalfDone
  <2> DEFINE g == FlipEvent(e)
  <2>1. flips' = flips \cup {g}
    BY <1>1, <1>8 DEF FlipAccepted, FlipHalfDone
  <2>2. g.event = e /\ g.drawable = info[e].drawable
    BY DEF FlipEvent
  <2> HIDE DEF g
  <2>3. Owed' = Owed
    BY <1>2, <1>6, <2>1, <2>2 DEF Owed
  <2>4. \A f \in flips' : asked'[f.event] \in windows' => f.drawable = asked'[f.event]
    BY <1>2, <1>3, <2>1, <2>2 DEF ReportInv
  <2>5. \A x \in queue' \cup Stacked' : asked'[x] \in windows' => info'[x].drawable = asked'[x]
    BY <1>3, <1>6, <1>7 DEF ReportInv
  <2>6. \A x \in halfway' : x <= scheduled' /\ x \notin queue' \cup Stacked'
    <3>1. halfway' \subseteq halfway \cup {e}
      BY <1>1, <1>8 DEF FlipAccepted, FlipHalfDone
    <3>2. e <= scheduled
      BY <1>2 DEF EventInv, Alive
    <3>3. QED
      BY <1>3, <1>6, <3>1, <3>2 DEF ReportInv
  <2>7. \A x \in Events : /\ x # e => completed'[x] = completed[x] /\ Reports(x)' = Reports(x)
                          /\ completed'[e] + 1 = Reports(e)'
    <3>1. CASE FlipAccepted
      BY <1>4, <3>1 DEF FlipAccepted, Reports, ReportInv
    <3>2. CASE FlipHalfDone
      <4>1. halfway' = halfway \cup {e} /\ Complete(e)
        BY <1>1, <3>2 DEF FlipHalfDone
      <4>2. e \notin halfway
        BY <1>2 DEF ReportInv
      <4>3. completed[e] = 0
        BY <1>4, <4>2 DEF ReportInv, Reports, Dri2Types
      <4>4. completed'[e] = 1
        BY <4>1, <4>3 DEF Complete, Dri2Types
      <4>5. QED
        BY <4>1, <4>2, <4>4 DEF Complete, Dri2Types, Reports
    <3>3. QED
      BY <1>8, <3>1, <3>2
  <2>8. \A x \in Events : completed[x] \in Nat /\ completed'[x] <= Reports(x)'
    <3>1. \A x \in Events : completed[x] \in Nat
      BY DEF Dri2Types
    <3>2. completed'[e] <= Reports(e)'
      <4>1. completed'[e] + 1 = Reports(e)' /\ Reports(e)' \in {1, 2}
        BY <2>7 DEF Reports
      <4>2. completed'[e] \in Nat
        BY <1>1, <1>8, CompleteTypes DEF FlipAccepted, FlipHalfDone, Dri2Types
      <4>3. QED
        BY <4>1, <4>2
    <3>3. QED
      BY <2>7, <3>1, <3>2 DEF ReportInv
  <2>9. \A x \in Owed : completed'[x] + 1 = Reports(x)'
    BY <2>7, OwedEvents DEF ReportInv
  <2>10. \A x \in Events \ Owed :
            x <= scheduled' /\ info'[x].type # "wait" /\ asked'[x] \in windows'
                => completed'[x] = Reports(x)'
    BY <1>3, <1>4, <1>5, <2>7 DEF ReportInv
  <2>11. QED
    BY <2>3, <2>4, <2>5, <2>6, <2>8, <2>9, <2>10 DEF ReportInv
<1>9. CASE FlipRefused
  <2>1. flips' = flips /\ Complete(e) /\ halfway' = halfway
    BY <1>1, <1>9 DEF FlipRefused
  <2>2. Owed' = Owed \ {e}
    BY <1>4, <1>6, <2>1 DEF Owed
  <2>3. QED
    BY <1>3, <1>4, <1>5, <1>6, <1>7, <2>1, <2>2, ReportOver
<1>10. QED
  BY <1>8, <1>9 DEF FlipReturns

\* The flip that is reported is owed no more.
LEMMA ReportFlipped ==
    ASSUME Dri2Types, EventInv, ReportInv, NEW f \in flips, ms_dri2_flip_handler(f)
    PROVE  ReportInv'
<1>1. UNCHANGED <<asked, scheduled, windows, info, queue, stack, halfway>>
  BY DEF ms_dri2_flip_handler, serverVars
<1>2. Stacked' = Stacked
  BY <1>1 DEF Stacked
<1> DEFINE e == f.event
<1>3. e \in Owed /\ e \notin queue \cup Stacked /\ flips' = flips \ {f}
  BY DEF Owed, EventInv, ms_dri2_flip_handler
<1>4. \A g \in flips : g.event = e <=> g = f
  BY DEF EventInv
<1>5. Owed' = Owed \ {e}
  BY <1>1, <1>2, <1>3, <1>4 DEF Owed
<1>6. Complete(e) \/ completed' = completed
  BY DEF ms_dri2_flip_handler
<1>7. Complete(e) \/ asked[e] \notin windows
  BY DEF ms_dri2_flip_handler, ReportInv
<1>8. /\ UNCHANGED <<asked, scheduled, windows, halfway>>
      /\ queue' \cup Stacked' \subseteq queue \cup Stacked /\ flips' \subseteq flips
      /\ \A x \in Events : info'[x].type = info[x].type
      /\ \A x \in queue' \cup Stacked' : info'[x] = info[x]
  BY <1>1, <1>2, <1>3
<1> HIDE DEF e
<1>9. QED
  BY <1>3, <1>5, <1>6, <1>7, <1>8, ReportOver

\* Clients that exit and windows that are destroyed are owed nothing.
LEMMA ReportGone ==
    ASSUME Dri2Types, EventInv, ReportInv,
           \/ \E c \in clients : ClientExits(c)
           \/ \E d \in Windows : WindowDestroyed(d)
    PROVE  ReportInv'
<1>1. \A e \in Events : info[e] \in Info
  BY DEF Dri2Types
<1>2. CASE \E c \in clients : ClientExits(c)
  <2>1. \A e \in Events : info'[e].type = info[e].type /\ info'[e].drawable = info[e].drawable
    BY <1>1, <1>2 DEF ClientExits, ms_dri2_frame_event_client_gone, Info
  <2>2. UNCHANGED <<queue, stack, flips, completed, asked, scheduled, windows, halfway>>
    BY <1>2 DEF ClientExits, flipVars
  <2>3. QED
    BY <2>1, <2>2, OwedEvents, ReportKept
<1>3. ASSUME NEW d \in Windows, WindowDestroyed(d) PROVE ReportInv'
  <2>1. \A e \in Events : /\ info'[e].type = info[e].type
                          /\ \/ info'[e].drawable = info[e].drawable
                             \/ info[e].drawable = d
    BY <1>1, <1>3 DEF WindowDestroyed, ms_dri2_frame_event_drawable_gone, Info
  <2>2. UNCHANGED <<queue, stack, flips, completed, asked, scheduled, halfway>>
        /\ windows' = windows \ {d}
    BY <1>3 DEF WindowDestroyed, flipVars
  <2>3. queue \subseteq Events /\ Stacked \subseteq Events
    BY OwedEvents
  <2>4. \A e \in queue \cup Stacked : \/ info'[e].drawable = info[e].drawable
                                      \/ info[e].drawable \notin windows'
    BY <2>1, <2>2, <2>3
  <2>5. QED
    BY <2>1, <2>2, <2>4, ReportKept
<1>4. QED
  BY <1>2, <1>3

\* When the screen is closed there is no window left to report about.
LEMMA ReportClosed ==
    ASSUME Dri2Types, EventInv, ReportInv, CloseScreen
    PROVE  ReportInv'
<1>1. /\ queue' = {} /\ Stacked' = {} /\ flips' = {} /\ windows' = {}
      /\ UNCHANGED <<completed, scheduled, halfway>>
  BY NothingSubmitted DEF CloseScreen, MainLoop, Stacked, serverVars
<1>2. Owed' = {} /\ \A e : Reports(e)' = Reports(e)
  BY <1>1 DEF Owed, Reports
<1>3. QED
  BY <1>1, <1>2 DEF ReportInv

\* Every step reports what it ends.
LEMMA ReportStep ==
    ASSUME Dri2Types, EventInv, ReportInv, [Next]_vars
    PROVE  ReportInv'
<1>1. CASE ServerStep
  <2>1. CASE \E e \in queue : FrameAbandoned(e) \/ WaitOver(e) \/ FlipSubmitted(e)
    BY <2>1, ReportHandled
  <2>2. CASE \E e \in queue, v \in {"no", "updated", "yes"} : SwapBlits(e, v)
    BY <2>2, ReportHandled
  <2>3. CASE FlipReturns
    BY <2>3, ReportReturned
  <2>4. CASE \E f \in flips : ms_dri2_flip_handler(f)
    BY <2>4, ReportFlipped
  <2>5. QED
    BY <1>1, <2>1, <2>2, <2>3, <2>4 DEF ServerStep, FlipReturns
<1>2. ASSUME NEW d \in Windows,
             ms_dri2_create_buffer2(d) \/ DestroyDrawable(d) \/ Redirection(d)
      PROVE  ReportInv'
  <2>1. UNCHANGED <<queue, stack, flips, completed, asked, scheduled, windows, info,
                    halfway>>
    BY <1>2 DEF ms_dri2_create_buffer2, DestroyDrawable, Redirection,
                serverVars, eventVars, flipVars
  <2>2. QED
    BY <2>1, ReportKept
<1>3. CASE \/ \E c \in clients : ClientExits(c)
           \/ \E d \in Windows : WindowDestroyed(d)
  BY <1>3, ReportGone
<1>4. ASSUME NEW c, NEW d, NEW v, NEW answer,
             ms_dri2_schedule_swap(c, d, v, answer) \/ ms_dri2_schedule_wait_msc(c, d, answer)
      PROVE  ReportInv'
  <2>1. \E type, B : NewFrameEvent(type, c, d, B, answer)
    BY <1>4 DEF ms_dri2_schedule_swap, ms_dri2_schedule_wait_msc
  <2>2. UNCHANGED <<stack, windows, flips, halfway>>
    BY <1>4 DEF ms_dri2_schedule_swap, ms_dri2_schedule_wait_msc, serverVars, flipVars
  <2>3. QED
    BY <2>1, <2>2, ReportRequested
<1>6. CASE CloseScreen
  BY <1>6, ReportClosed
<1>7. CASE UNCHANGED vars
  <2>1. UNCHANGED <<queue, stack, flips, completed, asked, scheduled, windows, info,
                    halfway>>
    BY <1>7 DEF vars, serverVars, eventVars, flipVars
  <2>2. QED
    BY <2>1, ReportKept
<1>8. QED
  BY <1>1, <1>2, <1>3, <1>4, <1>6, <1>7 DEF Next

-----------------------------------------------------------------------------
(* Front buffers are not back buffers *)

\* The front and back buffer in F, if there are any, were created, and by the pixmaps P
\* one can tell one from the other: the back buffer has the one that was made for it.
PairInv(F, P, n) ==
    /\ F.front = NULL <=> F.back = NULL
    /\ F.front # NULL => /\ F.front <= n /\ F.back <= n
                         /\ P[F.front] \notin Buffers /\ P[F.back] = F.back

\* Windows and requests that are not over have such pairs, and a swap has buffers.
BufferInv ==
    /\ \A d \in Windows : PairInv(held[d], pixmap, created)
    /\ \A e \in queue \cup Stacked : /\ PairInv(info[e], pixmap, created)
                                     /\ info[e].type # "wait" => info[e].front # NULL

\* Only front buffers get another pixmap, and not that of a back buffer.
OnlyFronts ==
    \A b \in Buffers : \/ pixmap'[b] = pixmap[b]
                       \/ /\ pixmap[b] \notin Buffers
                          /\ pixmap'[b] \notin Buffers

\* A pair of buffers stays one when only front buffers get other pixmaps.
LEMMA PairKept ==
    ASSUME NEW F, F.front \in Handle, F.back \in Handle, OnlyFronts, NEW n, PairInv(F,
           pixmap, n)
    PROVE  PairInv(F, pixmap', n)
<1>1. F.front # NULL => F.front \in Buffers /\ F.back \in Buffers
  BY DEF Handle, PairInv
<1>2. QED
  BY <1>1 DEF PairInv, OnlyFronts

\* What update_front does.
LEMMA UpdateIsOfFront ==
    ASSUME Dri2Types, NEW b \in Buffers, NEW v, NEW d \in Windows, pixmap[b] \notin Buffers,
           pixmap' = UpdatedFront(v, b, d)
    PROVE  /\ OnlyFronts
           /\ v \in Verdicts(d) => \A x \in Buffers : pixmap'[x] = pixmap[x]
               \/ pixmap'[x] = Root
<1>1. winpix[d] \in Pixmaps \ Buffers
  BY DEF Dri2Types
<1>2. \A x \in Buffers : pixmap'[x] = pixmap[x] \/ (x = b /\ v # "no" /\ pixmap'[x] = winpix[d])
  BY DEF UpdatedFront, Dri2Types
<1>3. v \in Verdicts(d) /\ v # "no" => winpix[d] = Root
  BY DEF Verdicts
<1>4. QED
  BY <1>1, <1>2, <1>3 DEF OnlyFronts

\* The buffers known to windows and frame events.
LEMMA Handles ==
    ASSUME Dri2Types
    PROVE  /\ \A d \in Windows : held[d].front \in Handle /\ held[d].back \in Handle
           /\ \A e \in Events : info[e].front \in Handle /\ info[e].back \in Handle
           /\ queue \subseteq Events /\ Stacked \subseteq Events
<1>1. \A d \in Windows : held[d] \in [front : Handle, back : Handle]
  BY DEF Dri2Types
<1>2. \A e \in Events : info[e] \in Info
  BY DEF Dri2Types
<1>3. QED
  BY <1>1, <1>2, OwedEvents DEF Info

\* At start there are no buffers.
LEMMA BufferInit == Init => BufferInv
<1> SUFFICES ASSUME Init PROVE BufferInv
  OBVIOUS
<1>1. Stacked = {} /\ queue = {}
  BY NothingSubmitted DEF Init
<1>2. \A d \in Windows : held[d] = NoBuffers
  BY DEF Init
<1>3. QED
  BY <1>1, <1>2 DEF BufferInv, PairInv, NoBuffers

\* Steps that create no buffers and no frame event.
LEMMA BufferKept ==
    ASSUME Dri2Types, BufferInv, created' = created, OnlyFronts,
           \A d \in Windows : held'[d] = held[d] \/ held'[d] = NoBuffers,
           queue' \cup Stacked' \subseteq queue \cup Stacked,
           \A e \in queue' \cup Stacked' :
              /\ info'[e].front = info[e].front /\ info'[e].back = info[e].back
              /\ info'[e].type = info[e].type
    PROVE  BufferInv'
<1>1. ASSUME NEW d \in Windows PROVE PairInv(held'[d], pixmap', created)
  <2>1. held'[d] = NoBuffers => PairInv(held'[d], pixmap', created)
    BY DEF PairInv, NoBuffers
  <2>2. PairInv(held[d], pixmap', created)
    BY Handles, PairKept DEF BufferInv
  <2>3. QED
    BY <2>1, <2>2
<1>2. ASSUME NEW e \in queue' \cup Stacked'
      PROVE  PairInv(info'[e], pixmap', created) /\ (info'[e].type # "wait"
             => info'[e].front # NULL)
  <2>1. e \in queue \cup Stacked /\ e \in Events
    BY Handles
  <2>2. info[e].front \in Handle /\ info[e].back \in Handle
    BY <2>1, Handles
  <2>3. PairInv(info[e], pixmap, created) /\ (info[e].type # "wait" => info[e].front # NULL)
    BY <2>1 DEF BufferInv
  <2>4. PairInv(info[e], pixmap', created)
    BY <2>2, <2>3, PairKept
  <2>5. QED
    BY <2>3, <2>4 DEF PairInv
<1>3. QED
  BY <1>1, <1>2 DEF BufferInv

\* New buffers have numbers that no window and no frame event knows.
LEMMA BufferCreated ==
    ASSUME Dri2Types, BufferInv, NEW d \in Windows, ms_dri2_create_buffer2(d)
    PROVE  BufferInv'
<1>1. PICK f \in Buffers, b \in Buffers : f = created + 1 /\ b = created + 2
  BY Numbers DEF ms_dri2_create_buffer2, Dri2Types, Buffers
<1>2. created \in Nat /\ created' = b /\ Handle \subseteq Nat /\ f # NULL /\ b # NULL
  BY <1>1, Numbers DEF ms_dri2_create_buffer2, Dri2Types, Handle, NULL
<1>3. /\ pixmap'[f] = winpix[d] /\ pixmap'[b] = b /\ winpix[d] \notin Buffers
      /\ \A x \in Buffers : x <= created => pixmap'[x] = pixmap[x]
  BY <1>1, <1>2 DEF ms_dri2_create_buffer2, Dri2Types
<1>4. ASSUME NEW F, F.front \in Handle, F.back \in Handle, PairInv(F, pixmap, created)
      PROVE  PairInv(F, pixmap', b)
  <2>1. F.front # NULL => F.front \in Buffers /\ F.back \in Buffers
    BY <1>4 DEF Handle, PairInv
  <2>2. F.front \in Nat /\ F.back \in Nat
    BY <1>2, <1>4
  <2>3. QED
    BY <1>1, <1>2, <1>3, <1>4, <2>1, <2>2 DEF PairInv
<1>5. held' = [held EXCEPT ![d] = [front |-> f, back |-> b]]
  BY <1>1 DEF ms_dri2_create_buffer2
<1>6. PairInv([front |-> f, back |-> b], pixmap', b)
  BY <1>1, <1>2, <1>3 DEF PairInv
<1>7. \A x \in Windows : PairInv(held'[x], pixmap', b)
  BY <1>4, <1>5, <1>6, Handles DEF BufferInv, Dri2Types
<1>8. queue' = queue /\ Stacked' = Stacked /\ info' = info
  BY DEF ms_dri2_create_buffer2, eventVars, flipVars, Stacked
<1>9. ASSUME NEW e \in queue' \cup Stacked'
      PROVE  PairInv(info'[e], pixmap', b) /\ (info'[e].type # "wait" => info'[e].front # NULL)
  <2>1. e \in queue \cup Stacked /\ e \in Events
    BY <1>8, Handles
  <2>2. info[e].front \in Handle /\ info[e].back \in Handle
    BY <2>1, Handles
  <2>3. PairInv(info[e], pixmap, created) /\ (info[e].type # "wait" => info[e].front # NULL)
    BY <2>1 DEF BufferInv
  <2>4. QED
    BY <1>4, <1>8, <2>2, <2>3
<1>10. QED
  BY <1>2, <1>7, <1>9 DEF BufferInv

\* A new swap has the buffers of its window.
LEMMA BufferRequested ==
    ASSUME Dri2Types, EventInv, BufferInv, OnlyFronts, NEW type, NEW c, NEW d, NEW answer,
           NEW B, B.front \in Handle, B.back \in Handle, PairInv(B, pixmap, created),
           type # "wait" => B.front # NULL,
           NewFrameEvent(type, c, d, B, answer), UNCHANGED <<stack, created, held>>
    PROVE  BufferInv'
<1>1. PICK n \in Events : n = scheduled + 1
  BY DEF NewFrameEvent
<1>2. Stacked = {} /\ Stacked' = {}
  BY NothingSubmitted DEF NewFrameEvent, MainLoop, Stacked
<1>3. n \notin queue
  BY <1>1, Numbers DEF EventInv, Alive, Dri2Types
<1>4. \A e \in Events \ {n} : info'[e] = info[e]
  BY <1>1 DEF NewFrameEvent, Dri2Types
<1>5. \A d2 \in Windows : PairInv(held'[d2], pixmap', created)
  BY Handles, PairKept DEF BufferInv
<1>6. ASSUME NEW e \in queue
      PROVE  PairInv(info'[e], pixmap', created) /\ (info'[e].type # "wait"
             => info'[e].front # NULL)
  <2>1. info'[e] = info[e] /\ info[e].front \in Handle /\ info[e].back \in Handle
    BY <1>3, <1>4, Handles
  <2>2. PairInv(info[e], pixmap, created) /\ (info[e].type # "wait" => info[e].front # NULL)
    BY DEF BufferInv
  <2>3. QED
    BY <2>1, <2>2, PairKept
<1>7. queue' = queue \/ (queue' = queue \cup {n} /\ answer = "queued")
  BY <1>1 DEF NewFrameEvent
<1>8. ASSUME answer = "queued"
      PROVE  PairInv(info'[n], pixmap', created) /\ (info'[n].type # "wait"
             => info'[n].front # NULL)
  <2>1. info'[n].front = B.front /\ info'[n].back = B.back /\ info'[n].type = type
    BY <1>1, <1>8 DEF NewFrameEvent, Dri2Types
  <2>2. PairInv(B, pixmap', created)
    BY PairKept
  <2>3. QED
    BY <2>1, <2>2 DEF PairInv
<1>9. QED
  BY <1>2, <1>5, <1>6, <1>7, <1>8 DEF BufferInv

\* A running request keeps its buffers, and update_front moves its front buffer.
LEMMA BufferHandled ==
    ASSUME Dri2Types, EventInv, BufferInv, NEW e \in queue, NEW v,
           FrameAbandoned(e) \/ WaitOver(e) \/ SwapBlits(e, v) \/ FlipSubmitted(e)
    PROVE  /\ BufferInv'
           /\ \A b \in Buffers : pixmap'[b] = pixmap[b] \/ pixmap'[b] = Root
<1>1. e \in Events /\ {e} \in SUBSET Events /\ e \notin Stacked /\ queue' = queue \ {e}
  BY DEF Dri2Types, EventInv, FrameAbandoned, WaitOver, SwapBlits, FlipSubmitted
<1>2. created' = created /\ held' = held
  BY DEF FrameAbandoned, WaitOver, SwapBlits, FlipSubmitted
<1>3. OnlyFronts /\ \A b \in Buffers : pixmap'[b] = pixmap[b] \/ pixmap'[b] = Root
  <2>1. CASE FrameAbandoned(e) \/ WaitOver(e)
    BY <2>1 DEF FrameAbandoned, WaitOver, OnlyFronts
  <2>2. CASE SwapBlits(e, v) \/ FlipSubmitted(e)
    <3> DEFINE w == IF SwapBlits(e, v) THEN v ELSE "yes"
    <3>1. /\ info[e].type # "wait" /\ info[e].drawable # NULL
             /\ w \in Verdicts(info[e].drawable)
          /\ pixmap' = UpdatedFront(w, info[e].front, info[e].drawable)
      BY <2>2 DEF SwapBlits, FlipSubmitted
    <3>2. info[e].drawable \in Windows /\ info[e].front \in Handle
      BY <1>1, <3>1 DEF Dri2Types, Info
    <3>3. info[e].front \in Buffers /\ pixmap[info[e].front] \notin Buffers
      BY <3>1, <3>2 DEF BufferInv, PairInv, Handle
    <3> HIDE DEF w
    <3>4. QED
      BY <3>1, <3>2, <3>3, UpdateIsOfFront
  <2>3. QED
    BY <2>1, <2>2
<1>4. CASE FlipSubmitted(e)
  <2>1. Stacked' = Stacked \cup {e} /\ info' = info
    BY <1>1, <1>4, CallPushes DEF FlipSubmitted, Dri2Types, eventVars
  <2>2. queue' \cup Stacked' = queue \cup Stacked
    BY <1>1, <2>1
  <2>3. BufferInv'
    BY <1>2, <1>3, <2>1, <2>2, BufferKept
  <2>4. QED
    BY <1>3, <2>3
<1>5. CASE ~FlipSubmitted(e)
  <2>1. DelFrameEvents({e}) /\ stack' = stack
    BY <1>5 DEF FrameAbandoned, WaitOver, SwapBlits, flipVars
  <2>2. Stacked' = Stacked
    BY <2>1 DEF Stacked
  <2>3. queue' \cup Stacked' = (queue \cup Stacked) \ {e}
    BY <1>1, <2>2
  <2>4. \A x \in queue' \cup Stacked' : info'[x] = info[x]
    BY <1>1, <2>1, <2>3, Handles, DeletingFields
  <2>5. BufferInv'
    BY <1>2, <1>3, <2>3, <2>4, BufferKept
  <2>6. QED
    BY <1>3, <2>5
<1>6. QED
  BY <1>4, <1>5

\* When ms_do_pageflip returns, frame events are gone and nothing new is there.
LEMMA BufferReturned ==
    ASSUME Dri2Types, EventInv, BufferInv, FlipReturns
    PROVE  BufferInv'
<1>1. PICK e \in Events : e = submitting
  BY ReturnPops DEF FlipReturns, FlipAccepted, FlipRefused, FlipHalfDone, Dri2Types, EventInv
<1>2. e \in Stacked /\ Stacked' = Stacked \ {e} /\ {e} \in SUBSET Events
  BY <1>1, ReturnPops DEF FlipReturns, FlipAccepted, FlipRefused, FlipHalfDone, Dri2Types, EventInv
<1>3. /\ DelFrameEvents({e}) /\ queue' = queue /\ UNCHANGED <<created, held, pixmap>>
  BY <1>1 DEF FlipReturns, FlipAccepted, FlipRefused, FlipHalfDone
<1>4. e \notin queue /\ queue' \cup Stacked' = (queue \cup Stacked) \ {e}
  BY <1>2, <1>3 DEF EventInv
<1>5. \A x \in queue' \cup Stacked' : info'[x] = info[x]
  BY <1>2, <1>3, <1>4, Handles, DeletingFields
<1>6. OnlyFronts
  BY <1>3 DEF OnlyFronts
<1>7. QED
  BY <1>3, <1>4, <1>5, <1>6, BufferKept

\* Every step keeps front buffers apart from back buffers.
LEMMA BufferStep ==
    ASSUME Dri2Types, EventInv, BufferInv, [Next]_vars
    PROVE  BufferInv'
<1>0. ASSUME UNCHANGED <<queue, stack, created, pixmap>>,
             \A d \in Windows : held'[d] = held[d] \/ held'[d] = NoBuffers,
             \A e \in Events : /\ info'[e].front = info[e].front /\ info'[e].back = info[e].back
                               /\ info'[e].type = info[e].type
      PROVE  BufferInv'
  <2>1. Stacked' = Stacked /\ OnlyFronts
    BY <1>0 DEF Stacked, OnlyFronts
  <2>2. QED
    BY <1>0, <2>1, Handles, BufferKept
<1>1. CASE ServerStep
  <2>1. CASE \E e \in queue : FrameAbandoned(e) \/ WaitOver(e) \/ FlipSubmitted(e)
    BY <2>1, BufferHandled
  <2>2. CASE \E e \in queue, v \in {"no", "updated", "yes"} : SwapBlits(e, v)
    BY <2>2, BufferHandled
  <2>3. CASE FlipReturns
    BY <2>3, BufferReturned
  <2>4. CASE \E f \in flips : ms_dri2_flip_handler(f)
    <3>1. UNCHANGED <<queue, stack, created, pixmap, held, info>>
      BY <2>4 DEF ms_dri2_flip_handler, bufferVars
    <3>2. QED
      BY <1>0, <3>1
  <2>5. QED
    BY <1>1, <2>1, <2>2, <2>3, <2>4 DEF ServerStep, FlipReturns
<1>2. CASE \E d \in Windows : ms_dri2_create_buffer2(d)
  BY <1>2, BufferCreated
<1>3. ASSUME NEW d \in Windows, DestroyDrawable(d) \/ Redirection(d) \/ WindowDestroyed(d)
      PROVE  BufferInv'
  <2>1. UNCHANGED <<queue, stack, created, pixmap>>
    BY <1>3 DEF DestroyDrawable, Redirection, WindowDestroyed, flipVars, bufferVars
  <2>2. \A x \in Windows : held'[x] = held[x] \/ held'[x] = NoBuffers
    BY <1>3 DEF DestroyDrawable, Redirection, WindowDestroyed, Dri2DrawableGone, bufferVars,
                Dri2Types
  <2>3. \A e \in Events : /\ info'[e].front = info[e].front /\ info'[e].back = info[e].back
                          /\ info'[e].type = info[e].type
    <3>1. \A e \in Events : info[e] \in Info
      BY DEF Dri2Types
    <3>2. info' = info \/ ms_dri2_frame_event_drawable_gone(d)
      BY <1>3 DEF DestroyDrawable, Redirection, WindowDestroyed, eventVars
    <3>3. QED
      BY <3>1, <3>2 DEF ms_dri2_frame_event_drawable_gone, Info
  <2>4. QED
    BY <1>0, <2>1, <2>2, <2>3
<1>4. ASSUME NEW c, NEW d \in Windows, NEW v, NEW answer, ms_dri2_schedule_swap(c, d, v, answer)
      PROVE  BufferInv'
  <2>1. /\ NewFrameEvent(IF v = "yes" THEN "flip" ELSE "swap", c, d, held[d], answer)
        /\ UNCHANGED <<stack, created, held>> /\ held[d] # NoBuffers
        /\ pixmap' = UpdatedFront(v, held[d].front, d)
    BY <1>4 DEF ms_dri2_schedule_swap, flipVars
  <2>2. /\ held[d].front \in Handle /\ held[d].back \in Handle /\ PairInv(held[d], pixmap,
           created)
        /\ held[d] \in [front : Handle, back : Handle]
    BY Handles DEF BufferInv, Dri2Types
  <2>3. held[d].front # NULL
    BY <2>1, <2>2 DEF NoBuffers, PairInv
  <2>4. held[d].front \in Buffers /\ pixmap[held[d].front] \notin Buffers
    BY <2>2, <2>3 DEF PairInv, Handle
  <2>5. OnlyFronts
    BY <2>1, <2>4, UpdateIsOfFront
  <2>6. QED
    BY <2>1, <2>2, <2>3, <2>5, BufferRequested
<1>5. ASSUME NEW c, NEW d, NEW answer, ms_dri2_schedule_wait_msc(c, d, answer)
      PROVE  BufferInv'
  <2>1. /\ NewFrameEvent("wait", c, d, NoBuffers, answer)
        /\ UNCHANGED <<stack, created, held>> /\ pixmap' = pixmap
    BY <1>5 DEF ms_dri2_schedule_wait_msc, flipVars
  <2>2. /\ NoBuffers.front \in Handle /\ NoBuffers.back \in Handle
        /\ PairInv(NoBuffers, pixmap, created) /\ OnlyFronts
    BY <2>1 DEF NoBuffers, Handle, PairInv, OnlyFronts
  <2>3. QED
    BY <2>1, <2>2, BufferRequested
<1>7. ASSUME NEW c, ClientExits(c) PROVE BufferInv'
  <2>1. UNCHANGED <<queue, stack, created, pixmap, held>>
    BY <1>7 DEF ClientExits, flipVars, bufferVars
  <2>2. \A e \in Events : /\ info'[e].front = info[e].front /\ info'[e].back = info[e].back
                          /\ info'[e].type = info[e].type
    <3>1. \A e \in Events : info[e] \in Info
      BY DEF Dri2Types
    <3>2. QED
      BY <1>7, <3>1 DEF ClientExits, ms_dri2_frame_event_client_gone, Info
  <2>3. QED
    BY <1>0, <2>1, <2>2
<1>8. CASE CloseScreen
  <2>1. queue' = {} /\ Stacked' = {} /\ UNCHANGED <<created, pixmap, held>>
    BY <1>8, NothingSubmitted DEF CloseScreen, MainLoop, Stacked
  <2>2. OnlyFronts
    BY <2>1 DEF OnlyFronts
  <2>3. QED
    BY <2>1, <2>2, BufferKept
<1>9. CASE UNCHANGED vars
  <2>1. UNCHANGED <<queue, stack, created, pixmap, held, info>>
    BY <1>9 DEF vars, bufferVars, eventVars, flipVars
  <2>2. QED
    BY <1>0, <2>1
<1>10. \A d \in windows : d \in Windows
  BY DEF Dri2Types
<1>11. QED
  BY <1>1, <1>2, <1>3, <1>4, <1>5, <1>7, <1>8, <1>9, <1>10 DEF Next

-----------------------------------------------------------------------------
(* What is displayed *)

\* A swap that is being submitted will exchange the buffer of the screen's pixmap; if no other
\* was submitted within it, the framebuffer is that of its back buffer, and the one before was
\* that of the screen's pixmap.
FrontInv ==
    /\ \A e \in Stacked : pixmap[info[e].front] = Root
    /\ stack = <<>> /\ ~mixed => fb_bo = bo[Root]
    /\ stack # <<>> /\ ~nested =>
         /\ Len(stack) = 1
         /\ fb_bo = bo[info[submitting].back]
         /\ ~mixed => old_bo[submitting] = bo[Root]
    /\ dri2_flipping => flips # {}

\* At start the framebuffer is of the BO of the screen's pixmap.
LEMMA FrontInit == Init => FrontInv
<1> SUFFICES ASSUME Init PROVE FrontInv
  OBVIOUS
<1>1. Stacked = {} /\ flips = {} /\ dri2_flipping = FALSE
  BY NothingSubmitted DEF Init
<1>2. fb_bo = Root /\ bo[Root] = Root /\ stack = <<>>
  BY Numbers DEF Init
<1>3. QED
  BY <1>1, <1>2 DEF FrontInv

\* Flips are submitted of a front and a back buffer.
LEMMA SubmittedBuffers ==
    ASSUME Dri2Types, ClientInv, BufferInv, NEW e \in Stacked
    PROVE  /\ e \in Events /\ info[e].front \in Buffers /\ info[e].back \in Buffers
           /\ pixmap[info[e].back] = info[e].back
<1>1. e \in Events /\ info[e].front \in Handle /\ info[e].back \in Handle
  BY Handles
<1>2. info[e].type = "flip"
  BY DEF ClientInv
<1>3. PairInv(info[e], pixmap, created) /\ info[e].front # NULL
  BY <1>2 DEF BufferInv
<1>4. QED
  BY <1>1, <1>3 DEF PairInv, Handle

\* Steps that submit nothing and exchange nothing.
LEMMA FrontKept ==
    ASSUME Dri2Types, FrontInv,
           UNCHANGED <<fb_bo, old_bo, stack, bo, nested, mixed>>,
           dri2_flipping' => flips' # {},
           \A e \in Stacked : /\ info'[e].front = info[e].front /\ info'[e].back = info[e].back
                              /\ pixmap'[info[e].front] = Root
    PROVE  FrontInv'
<1>1. Stacked' = Stacked /\ submitting' = submitting
  BY DEF Stacked, submitting
<1>2. stack # <<>> => submitting \in Stacked
  <2>1. stack \in Seq(Events)
    BY DEF Dri2Types
  <2>2. stack # <<>> => Len(stack) \in 1..Len(stack)
    BY <2>1
  <2>3. QED
    BY <2>2 DEF submitting, Stacked
<1>3. QED
  BY <1>1, <1>2 DEF FrontInv

\* Whatever window is handled, its front buffer gets the screen's pixmap, if any other.
LEMMA FrontHandled ==
    ASSUME Dri2Types, EventInv, ClientInv, BufferInv, FrontInv, NEW e \in queue, NEW v,
           FrameAbandoned(e) \/ WaitOver(e) \/ SwapBlits(e, v) \/ FlipSubmitted(e)
    PROVE  FrontInv'
<1>1. e \in Events /\ {e} \in SUBSET Events /\ e \notin Stacked
  BY DEF Dri2Types, EventInv
<1>2. UNCHANGED <<flips, bo, dri2_flipping, mixed>>
  BY DEF FrameAbandoned, WaitOver, SwapBlits, FlipSubmitted, flipVars
<1>3. \A b \in Buffers : pixmap'[b] = pixmap[b] \/ pixmap'[b] = Root
  BY BufferHandled
<1>4. \A x \in Stacked : pixmap'[info[x].front] = Root
  BY <1>3, SubmittedBuffers DEF FrontInv
<1>5. CASE FlipSubmitted(e)
  <2>1. /\ Stacked' = Stacked \cup {e} /\ info' = info /\ stack' = Append(stack, e)
        /\ stack \in Seq(Events)
    BY <1>1, <1>5, CallPushes DEF FlipSubmitted, Dri2Types, eventVars
  <2>2. /\ info[e].type = "flip" /\ winpix[info[e].drawable] = Root
        /\ pixmap' = [pixmap EXCEPT ![info[e].front] = Root]
    BY <1>5 DEF FlipSubmitted, Verdicts, UpdatedFront
  <2>3. info[e].front \in Buffers
    BY <1>1, <2>2, Handles DEF BufferInv, Handle
  <2>4. pixmap'[info[e].front] = Root
    BY <2>2, <2>3 DEF Dri2Types
  <2>5. pixmap[info[e].back] = info[e].back
    BY <2>2, <2>3, Numbers DEF BufferInv, PairInv
  <2>6. /\ fb_bo' = bo[info[e].back] /\ nested' = (stack # <<>>)
        /\ old_bo'[e] = fb_bo
    BY <1>1, <1>5, <2>5 DEF FlipSubmitted, Dri2Types
  <2>7. stack' # <<>>
    BY <2>1
  <2>8. ASSUME ~nested'
        PROVE  /\ Len(stack') = 1 /\ fb_bo' = bo'[info'[submitting'].back]
               /\ ~mixed' => old_bo'[submitting'] = bo'[Root]
    <3>1. stack = <<>>
      BY <2>6, <2>8
    <3>2. Len(stack') = 1 /\ submitting' = e
      BY <1>1, <2>1, <3>1 DEF submitting
    <3>3. QED
      BY <1>2, <2>1, <2>6, <3>1, <3>2 DEF FrontInv
  <2>9. QED
    BY <1>2, <1>4, <2>1, <2>4, <2>7, <2>8 DEF FrontInv
<1>6. CASE ~FlipSubmitted(e)
  <2>1. DelFrameEvents({e}) /\ UNCHANGED <<stack, fb_bo, old_bo, nested>>
    BY <1>6 DEF FrameAbandoned, WaitOver, SwapBlits, flipVars
  <2>2. \A x \in Stacked : info'[x] = info[x]
    BY <1>1, <2>1, Handles, DeletingFields
  <2>3. dri2_flipping' => flips' # {}
    BY <1>2 DEF FrontInv
  <2>4. QED
    BY <1>2, <1>4, <2>1, <2>2, <2>3, FrontKept
<1>7. QED
  BY <1>5, <1>6

\* An accepted flip puts the back buffer's BO into the screen's pixmap, a refused one gives the
\* framebuffer back that was there before.
LEMMA FrontReturned ==
    ASSUME Dri2Types, EventInv, ClientInv, BufferInv, FrontInv, FlipReturns
    PROVE  FrontInv'
<1>1. PICK e \in Events : e = submitting
  BY ReturnPops DEF FlipReturns, FlipAccepted, FlipRefused, FlipHalfDone, Dri2Types, EventInv
<1>2. /\ e \in Stacked /\ Stacked' = Stacked \ {e} /\ {e} \in SUBSET Events
      /\ stack # <<>> /\ (Len(stack) = 1 => stack' = <<>>)
  BY <1>1, ReturnPops DEF FlipReturns, FlipAccepted, FlipRefused, FlipHalfDone, Dri2Types,
     EventInv
<1>3. DelFrameEvents({e}) /\ UNCHANGED <<pixmap, nested>>
  BY <1>1 DEF FlipReturns, FlipAccepted, FlipRefused, FlipHalfDone
<1>4. \A x \in Stacked' : x \in Stacked /\ info'[x] = info[x]
  BY <1>2, <1>3, Handles, DeletingFields
<1>5. \A x \in Stacked' : pixmap'[info'[x].front] = Root
  BY <1>3, <1>4 DEF FrontInv
<1>6. ~nested => stack' = <<>>
  BY <1>2 DEF FrontInv
<1>7. nested => mixed'
  BY DEF FlipReturns, FlipAccepted, FlipRefused, FlipHalfDone
<1>8. ASSUME ~mixed' PROVE fb_bo' = bo'[Root]
  <2>1. ~nested /\ fb_bo = bo[info[e].back] /\ (~mixed => old_bo[e] = bo[Root])
    BY <1>1, <1>2, <1>7, <1>8 DEF FrontInv
  <2>2. CASE FlipAccepted
    <3>1. /\ pixmap[info[e].front] = Root /\ info[e].back \in Buffers
          /\ pixmap[info[e].back] = info[e].back
      BY <1>1, <1>2, SubmittedBuffers DEF FrontInv
    <3>2. bo' = [bo EXCEPT ![Root] = bo[info[e].back], ![info[e].back] = bo[Root]]
      BY <1>1, <2>2, <3>1 DEF FlipAccepted, Exchange
    <3>3. info[e].back # Root /\ Root \in Pixmaps
      BY <3>1, Numbers
    <3>4. bo'[Root] = bo[info[e].back]
      BY <3>2, <3>3 DEF Dri2Types
    <3>5. QED
      BY <2>1, <2>2, <3>4 DEF FlipAccepted
  <2>3. CASE FlipRefused
    BY <1>1, <1>8, <2>1, <2>3 DEF FlipRefused
  <2>4. CASE FlipHalfDone
    BY <1>8, <2>4 DEF FlipHalfDone
  <2>5. QED
    BY <2>2, <2>3, <2>4 DEF FlipReturns
<1>9. dri2_flipping' => flips' # {}
  BY DEF FlipReturns, FlipAccepted, FlipRefused, FlipHalfDone, FrontInv
<1>10. QED
  BY <1>3, <1>5, <1>6, <1>8, <1>9 DEF FrontInv

\* Every step keeps the framebuffer of the BO of the screen's pixmap, or about to be.
LEMMA FrontStep ==
    ASSUME Dri2Types, EventInv, ClientInv, BufferInv, FrontInv, [Next]_vars
    PROVE  FrontInv'
<1>1. CASE ServerStep
  <2>1. CASE \E e \in queue : FrameAbandoned(e) \/ WaitOver(e) \/ FlipSubmitted(e)
    BY <2>1, FrontHandled
  <2>2. CASE \E e \in queue, v \in {"no", "updated", "yes"} : SwapBlits(e, v)
    BY <2>2, FrontHandled
  <2>3. CASE FlipReturns
    BY <2>3, FrontReturned
  <2>4. CASE \E f \in flips : ms_dri2_flip_handler(f)
    <3>1. /\ UNCHANGED <<fb_bo, old_bo, stack, bo, nested, mixed, info, pixmap>>
          /\ dri2_flipping' = FALSE
      BY <2>4 DEF ms_dri2_flip_handler, bufferVars
    <3>2. QED
      BY <3>1, FrontKept DEF FrontInv
  <2>5. QED
    BY <1>1, <2>1, <2>2, <2>3, <2>4 DEF ServerStep, FlipReturns
<1>2. CASE CloseScreen
  <2>1. /\ stack = <<>> /\ UNCHANGED <<fb_bo, old_bo, stack, bo, nested, mixed>>
        /\ (dri2_flipping' => flips = {} /\ dri2_flipping)
    BY <1>2 DEF CloseScreen, MainLoop
  <2>2. Stacked = {} /\ (dri2_flipping' => flips' # {})
    BY <2>1, NothingSubmitted DEF FrontInv
  <2>3. QED
    BY <2>1, <2>2, FrontKept
<1>3. ASSUME \/ \E d \in Windows : \/ ms_dri2_create_buffer2(d) \/ DestroyDrawable(d)
                                   \/ Redirection(d) \/ WindowDestroyed(d)
             \/ \E c \in clients : ClientExits(c)
             \/ \E c, d, v, answer : ms_dri2_schedule_swap(c, d, v, answer)
             \/ \E c, d, answer : ms_dri2_schedule_wait_msc(c, d, answer)
      PROVE  FrontInv'
  <2> DEFINE Kept == /\ stack = <<>>
                     /\ UNCHANGED <<fb_bo, old_bo, stack, flips, bo, dri2_flipping, nested, mixed>>
  <2>1. Kept
    <3>1. ASSUME NEW d \in Windows, ms_dri2_create_buffer2(d)
          PROVE  Kept
      BY <3>1 DEF ms_dri2_create_buffer2, MainLoop, flipVars
    <3>2. ASSUME NEW d \in Windows, DestroyDrawable(d)
          PROVE  Kept
      BY <3>2 DEF DestroyDrawable, MainLoop, flipVars
    <3>3. ASSUME NEW d \in Windows, Redirection(d)
          PROVE  Kept
      BY <3>3 DEF Redirection, MainLoop, flipVars, bufferVars
    <3>4. ASSUME NEW d \in Windows, WindowDestroyed(d)
          PROVE  Kept
      BY <3>4 DEF WindowDestroyed, MainLoop, flipVars
    <3>5. ASSUME NEW c \in clients, ClientExits(c)
          PROVE  Kept
      BY <3>5 DEF ClientExits, MainLoop, flipVars, bufferVars
    <3>6. ASSUME NEW c, NEW d, NEW v, NEW answer, ms_dri2_schedule_swap(c, d, v, answer)
          PROVE  Kept
      BY <3>6 DEF ms_dri2_schedule_swap, NewFrameEvent, MainLoop, flipVars, bufferVars
    <3>7. ASSUME NEW c, NEW d, NEW answer, ms_dri2_schedule_wait_msc(c, d, answer)
          PROVE  Kept
      BY <3>7 DEF ms_dri2_schedule_wait_msc, NewFrameEvent, MainLoop, flipVars, bufferVars
    <3>8. QED
      BY <1>3, <3>1, <3>2, <3>3, <3>4, <3>5, <3>6, <3>7
  <2>2. Stacked = {} /\ (dri2_flipping' => flips' # {})
    BY <2>1, NothingSubmitted DEF FrontInv
  <2>3. QED
    BY <2>1, <2>2, FrontKept
<1>4. CASE UNCHANGED vars
  <2>1. UNCHANGED <<info, stack, pixmap, fb_bo, old_bo, flips, bo, dri2_flipping, nested, mixed>>
    BY <1>4 DEF vars, bufferVars, eventVars, flipVars
  <2>2. QED
    BY <2>1, FrontKept DEF FrontInv
<1>5. QED
  BY <1>1, <1>2, <1>3, <1>4 DEF Next

-----------------------------------------------------------------------------
(* The references to a buffer are counted, if no queued request is refused *)

\* The windows that b is a buffer of, and the frame events that use it.
Holders(b) == {d \in Windows : b \in HeldFor(d)}
Users(b)   == {e \in queue \cup Stacked : b \in BuffersOf(e)}

\* BufferRefs, and: a frame event was deleted at most once.
RefInv ==
    /\ \A b \in Buffers : refcnt[b] = Cardinality(Holders(b)) + Cardinality(Users(b))
    /\ \A e \in Events : deleted[e] <= 1

\* Windows and frame events can be counted.
LEMMA RefSets ==
    ASSUME Dri2Types, NEW b
    PROVE  /\ Holders(b) \subseteq Windows /\ IsFiniteSet(Holders(b))
           /\ Cardinality(Holders(b)) \in Nat
           /\ Users(b) \subseteq Events /\ IsFiniteSet(Users(b))
               /\ Cardinality(Users(b)) \in Nat
<1>1. Holders(b) \subseteq Windows /\ IsFiniteSet(Windows)
  BY Numbers DEF Holders
<1>2. IsFiniteSet(Holders(b)) /\ Cardinality(Holders(b)) \in Nat
  BY <1>1, FS_Subset, FS_CardinalityType
<1>3. Users(b) \subseteq Events
  BY Handles DEF Users
<1>4. IsFiniteSet(Users(b)) /\ Cardinality(Users(b)) \in Nat
  BY <1>3, EventsCount
<1>5. QED
  BY <1>1, <1>2, <1>3, <1>4

\* At start nothing is referred to.
LEMMA RefInit == Init => RefInv
<1> SUFFICES ASSUME Init PROVE RefInv
  OBVIOUS
<1>1. Stacked = {} /\ queue = {}
  BY NothingSubmitted DEF Init
<1>2. ASSUME NEW b \in Buffers PROVE Holders(b) = {} /\ Users(b) = {} /\ refcnt[b] = 0
  <2>1. b # NULL
    BY Numbers
  <2>2. QED
    BY <1>1, <2>1 DEF Init, Holders, HeldFor, NoBuffers, Users
<1>3. Cardinality({}) = 0
  BY FS_EmptySet
<1>4. \A e \in Events : deleted[e] = 0
  BY DEF Init
<1>5. QED
  BY <1>2, <1>3, <1>4 DEF RefInv

\* Steps that hold and use the buffers as before.
LEMMA RefKept ==
    ASSUME Dri2Types, RefInv, UNCHANGED <<refcnt, held, deleted>>,
           queue' \cup Stacked' = queue \cup Stacked,
           \A e \in Events : info'[e].front = info[e].front /\ info'[e].back = info[e].back
    PROVE  RefInv'
<1>1. ASSUME NEW b PROVE Holders(b)' = Holders(b) /\ Users(b)' = Users(b)
  <2>1. Holders(b)' = Holders(b)
    BY DEF Holders, HeldFor
  <2>2. Users(b)' = Users(b)
    BY Handles DEF Users, BuffersOf
  <2>3. QED
    BY <2>1, <2>2
<1>2. QED
  BY <1>1 DEF RefInv

\* DRI2 gives the buffers of window d back.
LEMMA RefReleased ==
    ASSUME Dri2Types, RefInv, NEW d \in Windows,
           held' = [held EXCEPT ![d] = NoBuffers], refcnt' = Released(HeldFor(d)),
           deleted' = deleted, queue' \cup Stacked' = queue \cup Stacked,
           \A e \in Events : info'[e].front = info[e].front /\ info'[e].back = info[e].back
    PROVE  RefInv'
<1>1. ASSUME NEW b \in Buffers
      PROVE  refcnt'[b] = Cardinality(Holders(b)') + Cardinality(Users(b)')
  <2>1. Users(b)' = Users(b)
    BY Handles DEF Users, BuffersOf
  <2>2. Holders(b)' = Holders(b) \ {d}
    <3>1. b # NULL
      BY Numbers
    <3>2. \A x \in Windows : held'[x] = IF x = d THEN NoBuffers ELSE held[x]
      BY DEF Dri2Types
    <3>3. QED
      BY <3>1, <3>2 DEF Holders, HeldFor, NoBuffers
  <2>3. refcnt'[b] = IF b \in HeldFor(d) THEN refcnt[b] - 1 ELSE refcnt[b]
    BY DEF Released
  <2>4. d \in Holders(b) <=> b \in HeldFor(d)
    BY DEF Holders
  <2>5. /\ refcnt[b] = Cardinality(Holders(b)) + Cardinality(Users(b))
        /\ IsFiniteSet(Holders(b)) /\ Cardinality(Holders(b)) \in Nat
        /\ Cardinality(Users(b)) \in Nat
    BY RefSets DEF RefInv
  <2>6. CASE d \in Holders(b)
    <3>1. Cardinality(Holders(b) \ {d}) = Cardinality(Holders(b)) - 1
      BY <2>5, <2>6, FS_RemoveElement
    <3>2. QED
      BY <2>1, <2>2, <2>3, <2>4, <2>5, <2>6, <3>1
  <2>7. CASE d \notin Holders(b)
    <3>1. Holders(b)' = Holders(b)
      BY <2>2, <2>7
    <3>2. QED
      BY <2>1, <2>3, <2>4, <2>5, <2>7, <3>1
  <2>8. QED
    BY <2>6, <2>7
<1>2. QED
  BY <1>1 DEF RefInv

\* New buffers have the one reference of their window, which gives back its old ones.
LEMMA RefCreated ==
    ASSUME Dri2Types, BufferInv, RefInv, NEW d \in Windows, ms_dri2_create_buffer2(d)
    PROVE  RefInv'
<1>1. PICK f \in Buffers, g \in Buffers : f = created + 1 /\ g = created + 2
  BY Numbers DEF ms_dri2_create_buffer2, Dri2Types, Buffers
<1>2. /\ held' = [held EXCEPT ![d] = [front |-> f, back |-> g]]
      /\ refcnt' = [Released(HeldFor(d)) EXCEPT ![f] = 1, ![g] = 1]
      /\ deleted' = deleted /\ queue' = queue /\ Stacked' = Stacked /\ info' = info
  BY <1>1 DEF ms_dri2_create_buffer2, eventVars, flipVars, Stacked
<1>3. created \in Nat /\ f # g /\ Handle \subseteq Nat
  BY <1>1, Numbers DEF Dri2Types, Handle, NULL
<1>4. \A x \in Windows : held'[x] = IF x = d THEN [front |-> f, back |-> g] ELSE held[x]
  BY <1>2 DEF Dri2Types
<1>5. ASSUME NEW F, F.front \in Handle, F.back \in Handle, PairInv(F, pixmap, created)
      PROVE  F.front \notin {f, g} /\ F.back \notin {f, g}
  <2>1. F.front \in Nat /\ F.back \in Nat
    BY <1>3, <1>5
  <2>2. QED
    BY <1>1, <1>3, <1>5, <2>1, Numbers DEF PairInv
<1>6. ASSUME NEW b \in Buffers
      PROVE  refcnt'[b] = Cardinality(Holders(b)') + Cardinality(Users(b)')
  <2>1. Users(b)' = Users(b)
    BY <1>2 DEF Users, BuffersOf
  <2>2. /\ refcnt[b] = Cardinality(Holders(b)) + Cardinality(Users(b))
        /\ IsFiniteSet(Holders(b)) /\ Cardinality(Holders(b)) \in Nat
        /\ Cardinality(Users(b)) \in Nat
    BY RefSets DEF RefInv
  <2>3. CASE b \in {f, g}
    <3>1. \A x \in Windows : b \notin HeldFor(x)
      BY <1>5, <2>3, Handles DEF BufferInv, HeldFor
    <3>2. \A e \in queue \cup Stacked : e \in Events /\ info[e].front # b /\ info[e].back # b
      <4> SUFFICES ASSUME NEW e \in queue \cup Stacked
                   PROVE  e \in Events /\ info[e].front # b /\ info[e].back # b
        OBVIOUS
      <4>1. e \in Events /\ info[e].front \in Handle /\ info[e].back \in Handle
        BY Handles
      <4>2. PairInv(info[e], pixmap, created)
        BY DEF BufferInv
      <4>3. QED
        BY <1>5, <2>3, <4>1, <4>2
    <3>3. Users(b) = {}
      BY <3>2 DEF Users, BuffersOf
    <3>4. Holders(b)' = {d}
      BY <1>4, <2>3, <3>1 DEF Holders, HeldFor
    <3>5. Cardinality({}) = 0 /\ Cardinality({d}) = 1
      BY FS_EmptySet, FS_Singleton
    <3>6. refcnt'[b] = 1
      <4>1. DOMAIN Released(HeldFor(d)) = Buffers
        BY DEF Released
      <4>2. QED
        BY <1>1, <1>2, <2>3, <4>1
    <3>7. QED
      BY <2>1, <3>3, <3>4, <3>5, <3>6
  <2>4. CASE b \notin {f, g}
    <3>1. Holders(b)' = Holders(b) \ {d}
      BY <1>4, <2>4 DEF Holders, HeldFor
    <3>2. refcnt'[b] = IF b \in HeldFor(d) THEN refcnt[b] - 1 ELSE refcnt[b]
      BY <1>2, <2>4 DEF Released
    <3>3. d \in Holders(b) <=> b \in HeldFor(d)
      BY DEF Holders
    <3>4. CASE d \in Holders(b)
      <4>1. Cardinality(Holders(b) \ {d}) = Cardinality(Holders(b)) - 1
        BY <2>2, <3>4, FS_RemoveElement
      <4>2. QED
        BY <2>1, <2>2, <3>1, <3>2, <3>3, <3>4, <4>1
    <3>5. CASE d \notin Holders(b)
      <4>1. Holders(b)' = Holders(b)
        BY <3>1, <3>5
      <4>2. QED
        BY <2>1, <2>2, <3>2, <3>3, <3>5, <4>1
    <3>6. QED
      BY <3>4, <3>5
  <2>5. QED
    BY <2>3, <2>4
<1>7. QED
  BY <1>2, <1>6 DEF RefInv

\* Frame events that are over give back the references they have.
LEMMA RefOver ==
    ASSUME Dri2Types, EventInv, RefInv, NEW S \in SUBSET Events, S \subseteq queue \cup Stacked,
           DelFrameEvents(S), held' = held,
           queue' \cup Stacked' = (queue \cup Stacked) \ S
    PROVE  RefInv'
<1>1. ASSUME NEW b \in Buffers
      PROVE  refcnt'[b] = Cardinality(Holders(b)') + Cardinality(Users(b)')
  <2> DEFINE U == {e \in S : b \in BuffersOf(e)}
  <2>1. refcnt'[b] = refcnt[b] - Cardinality(U)
    BY DEF DelFrameEvents
  <2>2. Holders(b)' = Holders(b)
    BY DEF Holders, HeldFor
  <2>3. \A e \in queue' \cup Stacked' : info'[e] = info[e]
    BY Handles, DeletingFields
  <2>4. Users(b)' = Users(b) \ U
    BY <2>3 DEF Users, BuffersOf
  <2>5. Users(b) \cap U = U /\ U \subseteq Events
    BY DEF Users
  <2> HIDE DEF U
  <2>6. Cardinality(Users(b) \ U) = Cardinality(Users(b)) - Cardinality(U)
    BY <2>5, RefSets, FS_Difference
  <2>7. /\ refcnt[b] = Cardinality(Holders(b)) + Cardinality(Users(b))
        /\ Cardinality(Holders(b)) \in Nat /\ Cardinality(Users(b)) \in Nat
        /\ Cardinality(U) \in Nat
    BY <2>5, RefSets, EventsCount DEF RefInv
  <2>8. QED
    BY <2>1, <2>2, <2>4, <2>6, <2>7
<1>2. ASSUME NEW e \in Events PROVE deleted'[e] <= 1
  <2>1. CASE e \in S
    <3>1. deleted[e] = 0
      BY <2>1 DEF EventInv, Alive
    <3>2. QED
      BY <2>1, <3>1, Deleting
  <2>2. CASE e \notin S
    BY <2>2, Deleting DEF RefInv
  <2>3. QED
    BY <2>1, <2>2
<1>3. QED
  BY <1>1, <1>2 DEF RefInv

\* A new request takes its references, or gives them back at once, if it is not refused.
LEMMA RefRequested ==
    ASSUME Dri2Types, EventInv, RefInv, NEW type, NEW c, NEW d, NEW B,
           NEW answer \in {"queued", "unqueued"}, NewFrameEvent(type, c, d, B, answer),
           UNCHANGED <<stack, held>>
    PROVE  RefInv'
<1>1. PICK n \in Events : n = scheduled + 1
  BY DEF NewFrameEvent
<1>2. Stacked = {} /\ Stacked' = {}
  BY NothingSubmitted DEF NewFrameEvent, MainLoop, Stacked
<1>3. n \notin queue
  BY <1>1, Numbers DEF EventInv, Alive, Dri2Types
<1>4. \A e \in Events \ {n} : info'[e] = info[e] /\ deleted'[e] = deleted[e]
  BY <1>1 DEF NewFrameEvent, Dri2Types
<1>5. deleted'[n] = IF answer = "queued" THEN 0 ELSE 1
  BY <1>1 DEF NewFrameEvent, Deletions, Dri2Types
<1>6. \A e \in Events : deleted'[e] <= 1
  BY <1>4, <1>5 DEF RefInv
<1>7. ASSUME NEW b \in Buffers
      PROVE  refcnt'[b] = Cardinality(Holders(b)') + Cardinality(Users(b)')
  <2>1. Holders(b)' = Holders(b)
    BY DEF Holders, HeldFor
  <2>2. /\ refcnt[b] = Cardinality(Holders(b)) + Cardinality(Users(b))
        /\ IsFiniteSet(Users(b)) /\ Cardinality(Holders(b)) \in Nat
        /\ Cardinality(Users(b)) \in Nat /\ Users(b) \subseteq queue
    BY <1>2, RefSets DEF RefInv, Users
  <2>3. \A e \in queue : info'[e] = info[e]
    BY <1>3, <1>4, Handles
  <2>4. CASE answer = "queued" /\ b \in {B.front, B.back}
    <3>1. info'[n].front = B.front /\ info'[n].back = B.back /\ queue' = queue \cup {n}
      BY <1>1, <2>4 DEF NewFrameEvent, Dri2Types
    <3>2. Users(b)' = Users(b) \cup {n}
      BY <1>2, <2>3, <2>4, <3>1 DEF Users, BuffersOf
    <3>3. Cardinality(Users(b) \cup {n}) = Cardinality(Users(b)) + 1
      BY <1>3, <2>2, FS_AddElement
    <3>4. refcnt'[b] = refcnt[b] + 1
      BY <2>2, <2>4 DEF NewFrameEvent, Deletions
    <3>5. QED
      BY <2>1, <2>2, <3>2, <3>3, <3>4
  <2>5. CASE answer = "queued" /\ b \notin {B.front, B.back}
    <3>1. info'[n].front = B.front /\ info'[n].back = B.back /\ queue' = queue \cup {n}
      BY <1>1, <2>5 DEF NewFrameEvent, Dri2Types
    <3>2. Users(b)' = Users(b)
      BY <1>2, <2>3, <2>5, <3>1 DEF Users, BuffersOf
    <3>3. refcnt'[b] = refcnt[b]
      BY <2>5 DEF NewFrameEvent
    <3>4. QED
      BY <2>1, <2>2, <3>2, <3>3
  <2>6. CASE answer = "unqueued"
    <3>1. Users(b)' = Users(b)
      BY <1>2, <2>3, <2>6 DEF Users, BuffersOf, NewFrameEvent
    <3>2. refcnt'[b] = refcnt[b]
      BY <2>2, <2>6 DEF NewFrameEvent, Deletions
    <3>3. QED
      BY <2>1, <2>2, <3>1, <3>2
  <2>7. QED
    BY <2>4, <2>5, <2>6
<1>8. QED
  BY <1>6, <1>7 DEF RefInv

\* Every step counts the references right, if no request is refused.
LEMMA RefStep ==
    ASSUME QueueFails = FALSE, Dri2Types, EventInv, BufferInv, RefInv, [Next]_vars
    PROVE  RefInv'
<1>1. ASSUME NEW e \in queue, NEW v,
             FrameAbandoned(e) \/ WaitOver(e) \/ SwapBlits(e, v) \/ FlipSubmitted(e)
      PROVE  RefInv'
  <2>1. e \in Events /\ {e} \in SUBSET Events /\ e \notin Stacked /\ queue' = queue \ {e}
    BY <1>1 DEF Dri2Types, EventInv, FrameAbandoned, WaitOver, SwapBlits, FlipSubmitted
  <2>2. CASE FlipSubmitted(e)
    <3>1. Stacked' = Stacked \cup {e} /\ UNCHANGED <<info, refcnt, held, deleted>>
      BY <2>1, <2>2, CallPushes DEF FlipSubmitted, Dri2Types, eventVars
    <3>2. queue' \cup Stacked' = queue \cup Stacked
      BY <2>1, <3>1
    <3>3. QED
      BY <3>1, <3>2, RefKept
  <2>3. CASE ~FlipSubmitted(e)
    <3>1. DelFrameEvents({e}) /\ stack' = stack /\ held' = held
      BY <1>1, <2>3 DEF FrameAbandoned, WaitOver, SwapBlits, flipVars
    <3>2. queue' \cup Stacked' = (queue \cup Stacked) \ {e}
      BY <2>1, <3>1 DEF Stacked
    <3>3. QED
      BY <2>1, <3>1, <3>2, RefOver
  <2>4. QED
    BY <2>2, <2>3
<1>2. CASE FlipReturns
  <2>1. PICK e \in Events : e = submitting
    BY <1>2, ReturnPops DEF FlipReturns, FlipAccepted, FlipRefused, FlipHalfDone, Dri2Types, EventInv
  <2>2. e \in Stacked /\ Stacked' = Stacked \ {e} /\ {e} \in SUBSET Events
    BY <1>2, <2>1, ReturnPops DEF FlipReturns, FlipAccepted, FlipRefused, FlipHalfDone, Dri2Types, EventInv
  <2>3. DelFrameEvents({e}) /\ queue' = queue /\ held' = held
    BY <1>2, <2>1 DEF FlipReturns, FlipAccepted, FlipRefused, FlipHalfDone
  <2>4. queue' \cup Stacked' = (queue \cup Stacked) \ {e}
    BY <2>2, <2>3 DEF EventInv
  <2>5. QED
    BY <2>2, <2>3, <2>4, RefOver
<1>3. CASE \E d \in Windows : ms_dri2_create_buffer2(d)
  BY <1>3, RefCreated
<1>4. ASSUME NEW d \in Windows, DestroyDrawable(d) \/ WindowDestroyed(d) PROVE RefInv'
  <2>1. /\ held' = [held EXCEPT ![d] = NoBuffers] /\ refcnt' = Released(HeldFor(d))
        /\ deleted' = deleted /\ queue' = queue /\ Stacked' = Stacked
    BY <1>4 DEF DestroyDrawable, WindowDestroyed, Dri2DrawableGone, eventVars, flipVars, Stacked
  <2>2. \A e \in Events : info'[e].front = info[e].front /\ info'[e].back = info[e].back
    <3>1. \A e \in Events : info[e] \in Info
      BY DEF Dri2Types
    <3>2. info' = info \/ ms_dri2_frame_event_drawable_gone(d)
      BY <1>4 DEF DestroyDrawable, WindowDestroyed, eventVars
    <3>3. QED
      BY <3>1, <3>2 DEF ms_dri2_frame_event_drawable_gone, Info
  <2>3. QED
    BY <2>1, <2>2, RefReleased
<1>5. ASSUME NEW c, NEW d, NEW v, NEW answer \in Answers,
             ms_dri2_schedule_swap(c, d, v, answer) \/ ms_dri2_schedule_wait_msc(c, d, answer)
      PROVE  RefInv'
  <2>1. \E type, B : NewFrameEvent(type, c, d, B, answer)
    BY <1>5 DEF ms_dri2_schedule_swap, ms_dri2_schedule_wait_msc
  <2>2. UNCHANGED <<stack, held>> /\ answer \in {"queued", "unqueued"}
    BY <1>5 DEF ms_dri2_schedule_swap, ms_dri2_schedule_wait_msc, flipVars, Answers
  <2>3. QED
    BY <2>1, <2>2, RefRequested
<1>6. CASE \E c \in clients : ClientExits(c)
  <2>1. UNCHANGED <<queue, stack, refcnt, held, deleted>>
    BY <1>6 DEF ClientExits, flipVars, bufferVars
  <2>2. Stacked' = Stacked
    BY <2>1 DEF Stacked
  <2>3. \A e \in Events : info'[e].front = info[e].front /\ info'[e].back = info[e].back
    <3>1. \A e \in Events : info[e] \in Info
      BY DEF Dri2Types
    <3>2. QED
      BY <1>6, <3>1 DEF ClientExits, ms_dri2_frame_event_client_gone, Info
  <2>4. QED
    BY <2>1, <2>2, <2>3, RefKept
<1>7. CASE CloseScreen
  <2>1. queue' = {} /\ Stacked = {} /\ Stacked' = {} /\ DelFrameEvents(queue) /\ held' = held
    BY <1>7, NothingSubmitted DEF CloseScreen, MainLoop, Stacked
  <2>2. queue \in SUBSET Events /\ queue' \cup Stacked' = (queue \cup Stacked) \ queue
    BY <2>1 DEF Dri2Types
  <2>3. QED
    BY <2>1, <2>2, RefOver
<1>8. ASSUME \/ \E f \in flips : ms_dri2_flip_handler(f)
             \/ \E d \in Windows : Redirection(d)
             \/ UNCHANGED vars
      PROVE  RefInv'
  <2>1. UNCHANGED <<queue, stack, info, refcnt, held, deleted>>
    BY <1>8 DEF ms_dri2_flip_handler, Redirection, vars, bufferVars, eventVars,
        flipVars
  <2>2. Stacked' = Stacked
    BY <2>1 DEF Stacked
  <2>3. QED
    BY <2>1, <2>2, RefKept
<1>9. CASE ServerStep
  BY <1>1, <1>2, <1>8, <1>9 DEF ServerStep, FlipReturns
<1>10. QED
  BY <1>3, <1>4, <1>5, <1>6, <1>7, <1>8, <1>9 DEF Next

-----------------------------------------------------------------------------
(* The theorems *)

\* All of it but the references, which are right only if no request is refused.
Dri2Inv == Dri2Types /\ EventInv /\ ClientInv /\ ReportInv /\ BufferInv /\ FrontInv

\* Every step keeps the types.
LEMMA TypesStep ==
    ASSUME Dri2Types, EventInv, ClientInv, BufferInv, [Next]_vars
    PROVE  Dri2Types'
<1>0. \A e \in queue : info[e].type = "flip" => info[e].back \in Buffers
  BY Handles DEF BufferInv, PairInv, Handle
<1>1. CASE \E e \in queue : FrameAbandoned(e) \/ WaitOver(e) \/ FlipSubmitted(e)
  BY <1>0, <1>1, HandlerTypes
<1>2. CASE \E e \in queue, v \in {"no", "updated", "yes"} : SwapBlits(e, v)
  BY <1>0, <1>2, HandlerTypes
<1>3. CASE FlipReturns
           \/ \E f \in flips : ms_dri2_flip_handler(f)
  <2>1. Distinct(stack) /\ \A e \in Stacked : info[e].front \in Buffers
        /\ info[e].back \in Buffers
    BY SubmittedBuffers DEF EventInv
  <2>2. QED
    BY <1>3, <2>1, FlipTypes
<1>4. CASE \E d \in Windows : ms_dri2_create_buffer2(d) \/ DestroyDrawable(d) \/ Redirection(d)
  BY <1>4, BufferStepTypes
<1>5. ASSUME NEW c, NEW d, NEW v, NEW answer \in Answers,
             ms_dri2_schedule_swap(c, d, v, answer) \/ ms_dri2_schedule_wait_msc(c, d, answer)
      PROVE  Dri2Types'
  BY <1>5, ScheduleTypes
<1>6. CASE \/ \E c \in clients : ClientExits(c)
           \/ \E d \in Windows : WindowDestroyed(d)
           \/ CloseScreen
  BY <1>6, GoneTypes
<1>7. CASE UNCHANGED vars
  BY <1>7 DEF vars, serverVars, bufferVars, eventVars, flipVars, Dri2Types
<1>8. QED
  BY <1>1, <1>2, <1>3, <1>4, <1>5, <1>6, <1>7 DEF Next, ServerStep, FlipReturns

\* The inductive invariant: each request and each buffer is where the code takes it to be.
THEOREM Dri2Correct == Spec => []Dri2Inv
<1>1. Init => Dri2Inv
  BY TypesInit, EventInit, ClientInit, ReportInit, BufferInit, FrontInit DEF Dri2Inv
<1>2. Dri2Inv /\ [Next]_vars => Dri2Inv'
  BY TypesStep, EventStep, ClientStep, ReportStep, BufferStep, FrontStep DEF Dri2Inv
<1>3. QED
  BY <1>1, <1>2, PTL DEF Spec

\* Clients and windows that have gone are known to no frame event, and a client sleeps only
\* on a wait that will be answered (ms_dri2_client_state_changed,
\* ms_dri2_frame_event_drawable_gone), also if requests are refused.
THEOREM NothingDangles == Spec => []NoDangling
<1>1. Dri2Inv => NoDangling
  <2> SUFFICES ASSUME Dri2Inv PROVE NoDangling
    OBVIOUS
  <2>1. \A e \in Events : Alive(e) => e \in queue \cup Stacked
    BY DEF Dri2Inv, EventInv
  <2>2. QED
    BY <2>1 DEF Dri2Inv, ClientInv, NoDangling
<1>2. QED
  BY <1>1, Dri2Correct, PTL

\* Every swap is reported exactly once while its window exists, whichever branch of
\* ms_dri2_schedule_swap or of the frame event handler ends it, also if requests are refused;
\* but once more, and never twice more, if its flip was refused with a CRTC flipped
\* (pageflip.c:360-366, dri2.c:670-674).
THEOREM SwapsReportedOnce == Spec => []SwapReported
<1>1. Dri2Inv => SwapReported
  <2> SUFFICES ASSUME Dri2Inv PROVE SwapReported
    OBVIOUS
  <2>1. \A e \in Events : e \in Owed <=> Alive(e) \/ \E f \in flips : f.event = e
    BY DEF Dri2Inv, EventInv, Owed
  <2>2. ASSUME NEW e \in Events, e \in Owed
        PROVE  completed[e] = Reports(e) - 1
    <3>1. completed[e] \in Nat /\ completed[e] + 1 = Reports(e)
      BY <2>2 DEF Dri2Inv, Dri2Types, ReportInv
    <3>2. QED
      BY <3>1
  <2>3. ASSUME NEW e \in Events, e \notin Owed,
               e <= scheduled /\ info[e].type # "wait" /\ asked[e] \in windows
        PROVE  completed[e] = Reports(e)
    BY <2>3 DEF Dri2Inv, ReportInv
  <2>4. \A e \in Events : completed[e] <= Reports(e)
    BY DEF Dri2Inv, ReportInv
  <2>5. QED
    BY <2>1, <2>2, <2>3, <2>4 DEF SwapReported
<1>2. QED
  BY <1>1, Dri2Correct, PTL

\* With no flip being submitted the driver's framebuffer is of the BO of the screen's pixmap
\* (ms_dri2_exchange_buffers after each flip), from a flip that was accepted with none within it
\* to one that is left half done or has another submitted within it; and dri2_flipping does not
\* outlast the last flip.
THEOREM FrontHasFramebuffer == Spec => []FrontIsFramebuffer
<1>1. Dri2Inv => FrontIsFramebuffer
  BY DEF Dri2Inv, FrontInv, FrontIsFramebuffer
<1>2. QED
  BY <1>1, Dri2Correct, PTL

\* The reference counts of buffers (ms_dri2_reference_buffer, ms_dri2_destroy_buffer) are
\* right, if ms_queue_vblank refuses no request.
THEOREM BuffersCounted ==
    ASSUME QueueFails = FALSE
    PROVE  Spec => []BufferRefs
<1>1. Init => Dri2Inv /\ RefInv
  BY TypesInit, EventInit, ClientInit, ReportInit, BufferInit, FrontInit, RefInit DEF Dri2Inv
<1>2. (Dri2Inv /\ RefInv) /\ [Next]_vars => (Dri2Inv /\ RefInv)'
  BY TypesStep, EventStep, ClientStep, ReportStep, BufferStep, FrontStep, RefStep DEF Dri2Inv
<1>3. Dri2Inv /\ RefInv => BufferRefs
  <2> SUFFICES ASSUME Dri2Inv, RefInv, NEW b \in Buffers
               PROVE  refcnt[b] = Cardinality({d \in Windows : b \in HeldFor(d)})
                         + Cardinality({e \in Events : Alive(e) /\ b \in BuffersOf(e)})
    BY DEF BufferRefs
  <2>1. queue \cup Stacked = {e \in Events : Alive(e)}
    BY DEF Dri2Inv, EventInv
  <2>2. Users(b) = {e \in Events : Alive(e) /\ b \in BuffersOf(e)}
    BY <2>1 DEF Users
  <2>3. QED
    BY <2>2 DEF RefInv, Holders
<1>4. QED
  BY <1>1, <1>2, <1>3, PTL DEF Spec

\* A frame event is freed once (ms_dri2_del_frame_event), and not while it is used, if no
\* request is refused: the double deletion of a refused request is the only one.
THEOREM FreedOnceUnlessRefused ==
    ASSUME QueueFails = FALSE
    PROVE  Spec => []FreedOnce
<1>1. Init => Dri2Inv /\ RefInv
  BY TypesInit, EventInit, ClientInit, ReportInit, BufferInit, FrontInit, RefInit DEF Dri2Inv
<1>2. (Dri2Inv /\ RefInv) /\ [Next]_vars => (Dri2Inv /\ RefInv)'
  BY TypesStep, EventStep, ClientStep, ReportStep, BufferStep, FrontStep, RefStep DEF Dri2Inv
<1>3. Dri2Inv /\ RefInv => FreedOnce
  <2> SUFFICES ASSUME Dri2Inv, RefInv PROVE FreedOnce
    OBVIOUS
  <2>1. \A e \in Events : Alive(e) <=> e \in queue \/ e \in Stacked
    BY DEF Dri2Inv, EventInv
  <2>2. \A e : e \in Stacked <=> \E i \in 1..Len(stack) : stack[i] = e
    BY DEF Stacked
  <2>3. QED
    BY <2>1, <2>2 DEF RefInv, FreedOnce
<1>4. QED
  BY <1>1, <1>2, <1>3, PTL DEF Spec
=============================================================================
