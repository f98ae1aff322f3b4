--------------------------- MODULE ScanoutProofs ---------------------------
(***************************************************************************)
(* Proofs about module Scanout, for any number of CRTCs, of windows and of *)
(* flips that nest or overlap.                                             *)
(*                                                                         *)
(* CallInv.  What is being submitted, and where a loop is: the calls that  *)
(* run are of different flips, and only the loop of an unflip runs within  *)
(* a submission.                                                           *)
(*                                                                         *)
(* FlagInv.  The flags by which Present and DRI2 keep out of each other's  *)
(* way.  FlippingFlags is not inductive: the strengthening says how the    *)
(* state of Present follows its one flip, and that without overlap there   *)
(* is one flip only.                                                       *)
(*                                                                         *)
(* OwnInv.  Every framebuffer has one owner.  Counting owners is no base   *)
(* for an induction; the strengthening says that what the owners hold is   *)
(* pairwise different (Owned), and that a framebuffer exists if and only   *)
(* if one of them holds it.  An id is always left for a new framebuffer,   *)
(* by the pigeonhole principle.                                            *)
(*                                                                         *)
(* ScreenInv, LitInv.  What is drawn is seen, and what is on is lit, are   *)
(* promised in the main loop only; the strengthenings say what holds       *)
(* within a loop for the CRTCs that it has served, and within a submission *)
(* for those whose turn has come and for those whose has not.              *)
(***************************************************************************)
EXTENDS Scanout, FiniteSetTheorems, SequenceTheorems, WellFoundedInduction, TLAPS

-----------------------------------------------------------------------------
(* Submissions and loops *)

Kinds == {"none", "flip", "unflip", "dri2", "late flip", "late unflip"}
Loops == {"none", "dpms", "enter", "resize", "unflip"}

Distinct(q) == \A i, j \in 1..Len(q) : q[i] = q[j] => i = j

\* The loop under way is a record with its fields, so that a step of it keeps the others.
WorkIsRecord == work = [op |-> work.op, crtc |-> work.crtc, old_fb |-> work.old_fb]

CallInv ==
    /\ stack \in Seq(Slots) /\ Distinct(stack)
    /\ kind \in [Slots -> Kinds] /\ buf \in [Slots -> Int] /\ next \in [Slots -> Int]
    /\ old_bo \in [Slots -> Int]
    /\ \A s \in Submitted : kind[s] \in {"flip", "unflip", "dri2"}
    /\ WorkIsRecord
    /\ work.op \in Loops
    /\ ~Idle => work.crtc \in 1..(NumCrtcs + 1)
    /\ stack # <<>> => work.op \in {"none", "unflip"}

-----------------------------------------------------------------------------
(* The flags of Present and DRI2 *)

OfPresent(s) == kind[s] \in {"flip", "unflip"}

\* Present has one flip at a time, and its state follows it.
PresentInv ==
    /\ \A s, t \in Slots : OfPresent(s) /\ OfPresent(t) => s = t
    /\ \A s \in Slots : kind[s] = "unflip" => present = "unflip"
    /\ \A s \in Slots : kind[s] = "flip" =>
          IF s \in Submitted THEN present \in {"idle", "flipping"} ELSE present = "flip"
    /\ work.op = "unflip" => present = "unflip" /\ \A s \in Slots : ~OfPresent(s)

\* Without overlap there is one flip only, and Present is idle while it is one of DRI2.
AloneInv ==
    ~overlap => /\ \A s, t \in Slots : kind[s] # "none" /\ kind[t] # "none" => s = t
                /\ \A s \in Slots : kind[s] \in {"none", "flip", "unflip", "dri2"}
                /\ \A s \in Slots : kind[s] = "dri2" => present = "idle"

FlagInv ==
    /\ present_flipping \in BOOLEAN /\ dri2_flipping \in BOOLEAN /\ overlap \in BOOLEAN
    /\ FlippingFlags
    /\ PresentInv
    /\ AloneInv

-----------------------------------------------------------------------------
(* What is drawn is seen *)

\* A framebuffer id of buffer b is of the screen pixmap's buffer, or that is not the front BO.
Right(id, b) == id = 0 \/ b = screen_bo \/ screen_bo # Front

\* Present will leave the framebuffer to the screen, without a flip that is yet to be submitted.
Leaves == present = "idle" \/ \E s \in Slots : Pending(s) /\ kind[s] = "unflip"

\* A flip that no other began within.
AloneRight ==
    /\ fb_bo = buf[submitting]
    /\ kind[submitting] = "unflip" => buf[submitting] = screen_bo
    /\ Leaves /\ ~astray => Right(old[submitting], old_bo[submitting])

ScreenInv ==
    /\ nested \in BOOLEAN
    /\ stack = <<>> => ~nested
    /\ stack # <<>> /\ (Len(stack) # 1 \/ ~Idle) => nested
    /\ stack = <<>> /\ work.op # "unflip" /\ Leaves /\ ~astray => Right(fb_id, fb_bo)
    /\ stack # <<>> /\ ~nested => AloneRight
    /\ work.op = "unflip" =>
         \/ fb_id = 0 \/ fb_bo = Front
         \/ \A d \in Crtcs : d < work.crtc => ~enabled[d]

-----------------------------------------------------------------------------
(* What is on is lit *)

\* CRTC c displays the framebuffer it should, of R and id, by B.
LitBy(B, R, id, c) == B[c] # Dark /\ B[c] = IF R[c] # 0 THEN R[c] ELSE id

\* The CRTC displays the framebuffer before that of a flip, since its turn has not come in that
\* submission nor in those within it, or will not as it is off.
Behind(c) ==
    /\ Idle /\ rotate_fb_id[c] = 0 /\ bound[c] # Dark
    /\ \E i \in 1..Len(stack) :
          /\ bound[c] = old[stack[i]]
          /\ \A j \in i..Len(stack) : next[stack[j]] <= c \/ ~dpms_mode[c]

Shows(c)   == /\ LitBy(bound, rotate_fb_id, fb_id, c) \/ Behind(c)
              /\ dpms_mode[c] => active[c]

\* The promise is not given for the CRTC.
Excused(c) == ~enabled[c] \/ need_modeset[c] \/ blame[c] # "none"

Fine(c) == Excused(c) \/ Shows(c)

\* The loop under way, if any, has served the CRTC.
Served(c)  == work.op \in {"none", "dpms"} \/ c < work.crtc

LitInv ==
    /\ enabled \in [Crtcs -> BOOLEAN] /\ dpms_mode \in [Crtcs -> BOOLEAN]
    /\ need_modeset \in [Crtcs -> BOOLEAN] /\ active \in [Crtcs -> BOOLEAN]
    /\ blame \in [Crtcs -> {"none", "dark"}]
    /\ vtSema => \A c \in Crtcs : Served(c) => Fine(c)
    /\ work.op = "unflip" =>
         \A c \in Crtcs : c < work.crtc /\ enabled[c] /\ ~dpms_mode[c] => need_modeset[c]

-----------------------------------------------------------------------------
(* The calls under way *)

\* A call of ms_do_pageflip puts its flip on the stack.
LEMMA CallPushes ==
    ASSUME stack \in Seq(Slots), Distinct(stack), NEW s \in Slots, s \notin Submitted,
           stack' = Append(stack, s)
    PROVE  /\ stack' \in Seq(Slots) /\ Distinct(stack')
           /\ Len(stack) \in Nat /\ Len(stack') = Len(stack) + 1
           /\ \A i \in 1..Len(stack) : stack'[i] = stack[i]
           /\ stack'[Len(stack')] = s
           /\ Submitted' = Submitted \cup {s}
<1>1. Len(stack) \in Nat /\ stack' \in Seq(Slots) /\ Len(stack') = Len(stack) + 1
  OBVIOUS
<1>2. \A i \in 1..Len(stack) : stack'[i] = stack[i]
  OBVIOUS
<1>3. stack'[Len(stack) + 1] = s
  OBVIOUS
<1>4. 1..Len(stack') = 1..Len(stack) \cup {Len(stack) + 1}
  BY <1>1
<1>5. Submitted' = Submitted \cup {s}
  BY <1>2, <1>3, <1>4 DEF Submitted
<1>6. \A i \in 1..Len(stack) : stack[i] # s
  BY DEF Submitted
<1>7. Distinct(stack')
  BY <1>1, <1>2, <1>3, <1>4, <1>6 DEF Distinct
<1>8. QED
  BY <1>1, <1>2, <1>3, <1>5, <1>7

\* A return takes it off, and it was on the stack only once.
LEMMA ReturnPops ==
    ASSUME stack \in Seq(Slots), stack # <<>>, Distinct(stack), stack' = Pop
    PROVE  /\ submitting \in Submitted /\ submitting \in Slots
           /\ stack' \in Seq(Slots) /\ Distinct(stack')
           /\ Len(stack) \in Nat \ {0} /\ Len(stack') = Len(stack) - 1
           /\ \A i \in 1..Len(stack') : stack'[i] = stack[i]
           /\ Submitted' = Submitted \ {submitting}
           /\ \A i \in 1..Len(stack') : stack[i] # submitting
<1>1. Len(stack) \in Nat /\ Len(stack) >= 1
  OBVIOUS
<1> DEFINE n == Len(stack) - 1
<1>2. stack' \in Seq(Slots) /\ Len(stack') = Len(stack) - 1
  <2>1. stack' = SubSeq(stack, 1, n) /\ n \in Int
    BY <1>1 DEF Pop
  <2>2. \A i \in 1..n : stack[i] \in Slots
    BY <1>1
  <2>3. SubSeq(stack, 1, n) \in Seq(Slots) /\ Len(SubSeq(stack, 1,
        n)) = IF 1 <= n THEN n - 1 + 1 ELSE 0
    BY ONLY <2>1, <2>2, SubSeqProperties, 1 \in Int
  <2>4. (IF 1 <= n THEN n - 1 + 1 ELSE 0) = Len(stack) - 1
    <3>1. \A m \in Nat : m >= 1 => (IF 1 <= m - 1 THEN m - 1 - 1 + 1 ELSE 0) = m - 1
      OBVIOUS
    <3>2. QED
      BY <1>1, <3>1
  <2>5. stack' \in Seq(Slots) /\ Len(stack') = IF 1 <= n THEN n - 1 + 1 ELSE 0
    BY <2>1, <2>3, Zenon
  <2>6. QED
    BY <2>4, <2>5, Zenon
<1>3. \A i \in 1..(Len(stack) - 1) : stack'[i] = stack[i]
  BY <1>1 DEF Pop
<1>4. 1..Len(stack) = 1..(Len(stack) - 1) \cup {Len(stack)}
      /\ Len(stack) \notin 1..(Len(stack) - 1)
  BY <1>1
<1>5. submitting \in Submitted /\ submitting \in Slots
  BY <1>1 DEF submitting, Submitted
<1>6. \A i \in 1..(Len(stack) - 1) : stack[i] # submitting
  BY <1>1, <1>4 DEF submitting, Distinct
<1>7. Submitted' = {stack[i] : i \in 1..(Len(stack) - 1)}
  BY <1>2, <1>3 DEF Submitted
<1>8. Submitted' = Submitted \ {submitting}
  BY <1>4, <1>6, <1>7 DEF Submitted, submitting
<1>9. Distinct(stack')
  BY <1>2, <1>3, <1>4 DEF Distinct
<1>10. QED
  BY <1>1, <1>2, <1>3, <1>5, <1>6, <1>8, <1>9

\* With nothing on the stack no flip is being submitted.
LEMMA NothingSubmitted == stack = <<>> => Submitted = {} /\ Distinct(stack)
<1> SUFFICES ASSUME stack = <<>> PROVE Submitted = {} /\ Distinct(stack)
  OBVIOUS
<1>1. 1..Len(stack) = {}
  OBVIOUS
<1>2. QED
  BY <1>1 DEF Submitted, Distinct

\* The first step of a flip: its slot, and what it holds.
LEMMA FlipBegins ==
    ASSUME CallInv, NEW b \in Int, NEW k \in {"flip", "unflip", "dri2"}, ms_do_pageflip(b, k)
    PROVE  \E s \in Slots :
             /\ kind[s] = "none" /\ s \notin Submitted
             /\ stack' \in Seq(Slots) /\ Distinct(stack')
             /\ Submitted' = Submitted \cup {s}
             /\ Len(stack) \in Nat /\ Len(stack') = Len(stack) + 1
             /\ \A i \in 1..Len(stack) : stack'[i] = stack[i]
             /\ stack' # <<>> /\ submitting' = s /\ stack'[Len(stack')] = s
             /\ kind' = [kind EXCEPT ![s] = k]
             /\ buf' = [buf EXCEPT ![s] = b]
             /\ next' = [next EXCEPT ![s] = 1]
             /\ old' = [old EXCEPT ![s] = fb_id]
             /\ old_bo' = [old_bo EXCEPT ![s] = fb_bo]
<1>1. PICK s \in Slots :
         /\ kind[s] = "none" /\ stack' = Append(stack, s)
         /\ kind' = [kind EXCEPT ![s] = k]
         /\ buf' = [buf EXCEPT ![s] = b]
         /\ next' = [next EXCEPT ![s] = 1]
         /\ old' = [old EXCEPT ![s] = fb_id]
         /\ old_bo' = [old_bo EXCEPT ![s] = fb_bo]
  BY DEF ms_do_pageflip
<1>2. s \notin Submitted
  BY <1>1 DEF CallInv
<1>3. /\ stack' \in Seq(Slots) /\ Distinct(stack')
      /\ Len(stack) \in Nat /\ Len(stack') = Len(stack) + 1
      /\ \A i \in 1..Len(stack) : stack'[i] = stack[i]
      /\ stack'[Len(stack')] = s
      /\ Submitted' = Submitted \cup {s}
  BY <1>1, <1>2, CallPushes DEF CallInv
<1>4. submitting' = s /\ stack' # <<>>
  BY <1>3 DEF submitting
<1>5. QED
  BY <1>1, <1>2, <1>3, <1>4

\* The return of ms_do_pageflip.
LEMMA FlipReturns ==
    ASSUME CallInv, NEW k, NEW o, Returns(k, o)
    PROVE  /\ submitting \in Submitted /\ submitting \in Slots
           /\ kind[submitting] \in {"flip", "unflip", "dri2"}
           /\ stack \in Seq(Slots) /\ stack' \in Seq(Slots) /\ Distinct(stack')
           /\ Len(stack) \in Nat \ {0} /\ Len(stack') = Len(stack) - 1
           /\ \A i \in 1..Len(stack') : stack'[i] = stack[i] /\ stack[i] # submitting
           /\ Submitted' = Submitted \ {submitting}
           /\ kind' = [kind EXCEPT ![submitting] = k]
           /\ old' = [old EXCEPT ![submitting] = o]
           /\ Idle
<1>1. stack # <<>> /\ stack' = Pop /\ Idle
  BY DEF Returns
<1>2. stack \in Seq(Slots) /\ Distinct(stack)
  BY DEF CallInv
<1>3. /\ submitting \in Submitted /\ submitting \in Slots
      /\ stack' \in Seq(Slots) /\ Distinct(stack')
      /\ Len(stack) \in Nat \ {0} /\ Len(stack') = Len(stack) - 1
      /\ \A i \in 1..Len(stack') : stack'[i] = stack[i]
      /\ Submitted' = Submitted \ {submitting}
      /\ \A i \in 1..Len(stack') : stack[i] # submitting
  BY <1>1, <1>2, ReturnPops
<1>4. QED
  BY <1>1, <1>2, <1>3 DEF Returns, CallInv

-----------------------------------------------------------------------------

LEMMA CallInit == Init => CallInv
<1> SUFFICES ASSUME Init PROVE CallInv
  OBVIOUS
<1>1. work = [op |-> "none", crtc |-> 0, old_fb |-> 0] /\ stack = <<>>
  BY DEF Init, NoWork
<1>2. Submitted = {} /\ Distinct(stack)
  BY <1>1, NothingSubmitted
<1>3. /\ kind \in [Slots -> Kinds] /\ buf \in [Slots -> Int] /\ next \in [Slots -> Int]
      /\ old_bo \in [Slots -> Int]
  BY DEF Init, Kinds, NoBo
<1>4. QED
  BY <1>1, <1>2, <1>3 DEF CallInv, WorkIsRecord, Loops, Idle

\* A step that leaves the calls and the loop alone.
LEMMA CallsAlone ==
    ASSUME CallInv, UNCHANGED callVars, UNCHANGED work
    PROVE  CallInv'
BY DEF CallInv, Submitted, WorkIsRecord, Idle, callVars

\* A loop starts, at the first CRTC.
LEMMA LoopStarts ==
    ASSUME CallInv, UNCHANGED callVars, NEW op \in Loops,
           work' = [op |-> op, crtc |-> 1, old_fb |-> work'.old_fb],
           stack # <<>> => op = "unflip"
    PROVE  CallInv'
<1>1. WorkIsRecord' /\ work'.op = op /\ work'.crtc = 1
  BY DEF WorkIsRecord
<1>2. 1 \in 1..(NumCrtcs + 1)
  BY ScanoutAssumption
<1>3. QED
  BY <1>1, <1>2 DEF CallInv, Submitted, callVars

\* It serves a CRTC, and all before that it would not skip are served.
LEMMA LoopServes ==
    ASSUME CallInv, NEW op, op # "none", NEW c \in Crtcs, Serves(op, c)
    PROVE  /\ CallInv'
           /\ work.op = op /\ work'.op = op /\ work'.crtc = c + 1 /\ work'.old_fb = work.old_fb
           /\ work.crtc \in Int /\ work.crtc <= c
           /\ op # "enter" => enabled[c]
           /\ \A d \in Crtcs : work.crtc <= d /\ d < c =>
                op # "enter" /\ (~enabled[d] \/ (op = "dpms" /\ ~need_modeset[d]))
           /\ UNCHANGED <<atomic_modeset, vtSema, screen_bo, flipVars>>
<1>1. /\ work' = [op |-> op, crtc |-> c + 1, old_fb |-> work.old_fb]
      /\ work.op = op /\ UNCHANGED <<atomic_modeset, vtSema, screen_bo, flipVars>>
      /\ c \in Due /\ \A d \in Due : c <= d
  BY DEF Serves, CallInv, WorkIsRecord
<1>2. work.crtc \in 1..(NumCrtcs + 1) /\ NumCrtcs \in Nat /\ c \in 1..NumCrtcs
  BY <1>1, ScanoutAssumption DEF CallInv, Idle, Crtcs
<1>3. CallInv'
  <2>1. WorkIsRecord' /\ work'.op = work.op /\ work'.crtc = c + 1 /\ UNCHANGED callVars
    BY <1>1 DEF WorkIsRecord, flipVars
  <2>2. c + 1 \in 1..(NumCrtcs + 1)
    BY <1>2
  <2>3. QED
    BY <2>1, <2>2 DEF CallInv, Submitted, callVars, Idle
<1>4. work.crtc <= c
  BY <1>1, <1>2 DEF Due
<1>5. op # "enter" => enabled[c]
  BY <1>1 DEF Due
<1>6. ASSUME NEW d \in Crtcs, work.crtc <= d, d < c
      PROVE  op # "enter" /\ (~enabled[d] \/ (op = "dpms" /\ ~need_modeset[d]))
  <2>1. d \in work.crtc..NumCrtcs /\ ~(c <= d)
    BY <1>2, <1>6 DEF Crtcs
  <2>2. d \notin Due
    BY <1>1, <2>1
  <2>3. QED
    BY <1>1, <2>1, <2>2 DEF Due
<1>7. QED
  BY <1>1, <1>2, <1>3, <1>4, <1>5, <1>6

\* A loop ends when there is no CRTC left that it would not skip.
LEMMA LoopIsOver ==
    ASSUME CallInv, ~Idle, Due = {}
    PROVE  /\ work.crtc \in Int
           /\ \A d \in Crtcs : work.crtc <= d =>
                work.op # "enter" /\ (~enabled[d] \/ (work.op = "dpms" /\ ~need_modeset[d]))
<1>1. work.crtc \in 1..(NumCrtcs + 1) /\ NumCrtcs \in Nat
  BY ScanoutAssumption DEF CallInv
<1>2. ASSUME NEW d \in Crtcs, work.crtc <= d
      PROVE  work.op # "enter" /\ (~enabled[d] \/ (work.op = "dpms" /\ ~need_modeset[d]))
  <2>1. d \in work.crtc..NumCrtcs
    BY <1>1, <1>2 DEF Crtcs
  <2>2. d \notin Due
    OBVIOUS
  <2>3. QED
    BY <2>1, <2>2 DEF Due
<1>3. QED
  BY <1>1, <1>2

\* The first step of a flip keeps the calls in order,
LEMMA BeginCalls ==
    ASSUME CallInv, NEW b \in Int, NEW k \in {"flip", "unflip", "dri2"}, ms_do_pageflip(b, k),
           fb_bo \in Int, UNCHANGED work
    PROVE  CallInv'
<1>1. PICK s \in Slots :
         /\ kind[s] = "none" /\ stack' \in Seq(Slots) /\ Distinct(stack')
         /\ Submitted' = Submitted \cup {s}
         /\ kind' = [kind EXCEPT ![s] = k]
         /\ buf' = [buf EXCEPT ![s] = b]
         /\ next' = [next EXCEPT ![s] = 1]
         /\ old_bo' = [old_bo EXCEPT ![s] = fb_bo]
  BY FlipBegins
<1>2. Idle
  BY DEF ms_do_pageflip
<1>3. /\ kind' \in [Slots -> Kinds] /\ buf' \in [Slots -> Int] /\ next' \in [Slots -> Int]
      /\ old_bo' \in [Slots -> Int]
  <2>1. /\ kind \in [Slots -> Kinds] /\ buf \in [Slots -> Int] /\ next \in [Slots -> Int]
        /\ old_bo \in [Slots -> Int]
    BY DEF CallInv
  <2>2. k \in Kinds
    BY DEF Kinds
  <2>3. kind' \in [Slots -> Kinds]
    BY <1>1, <2>1, <2>2
  <2>4. buf' \in [Slots -> Int] /\ next' \in [Slots -> Int] /\ old_bo' \in [Slots -> Int]
    BY <1>1, <2>1
  <2>5. QED
    BY <2>3, <2>4
<1>4. \A t \in Submitted' : kind'[t] \in {"flip", "unflip", "dri2"}
  BY <1>1 DEF CallInv
<1>5. QED
  BY <1>1, <1>2, <1>3, <1>4 DEF CallInv, WorkIsRecord, Idle, Loops

\* and so does the return, also if the loop of an unflip follows.
LEMMA ReturnCalls ==
    ASSUME CallInv, NEW k \in Kinds, NEW o, Returns(k, o), FallBack(kind[submitting]) \/ UNCHANGED work
    PROVE  CallInv'
<1>1. /\ submitting \in Slots /\ Submitted' = Submitted \ {submitting}
      /\ stack' \in Seq(Slots) /\ Distinct(stack')
      /\ kind' = [kind EXCEPT ![submitting] = k] /\ Idle
  BY FlipReturns
<1>2. /\ buf' = [buf EXCEPT ![submitting] = NoBo] /\ next' = [next EXCEPT ![submitting] = 0]
      /\ old_bo' = [old_bo EXCEPT ![submitting] = NoBo]
  BY DEF Returns
<1>3. /\ kind' \in [Slots -> Kinds] /\ buf' \in [Slots -> Int] /\ next' \in [Slots -> Int]
      /\ old_bo' \in [Slots -> Int]
  BY <1>1, <1>2 DEF CallInv, NoBo
<1>4. \A t \in Submitted' : kind'[t] \in {"flip", "unflip", "dri2"}
  BY <1>1 DEF CallInv
<1>5. CASE UNCHANGED work
  BY <1>1, <1>3, <1>4, <1>5 DEF CallInv, WorkIsRecord, Idle, Loops
<1>6. CASE work' = [op |-> "unflip", crtc |-> 1, old_fb |-> 0]
  <2>1. WorkIsRecord' /\ work'.op = "unflip" /\ work'.crtc = 1 /\ 1 \in 1..(NumCrtcs + 1)
    BY <1>6, ScanoutAssumption DEF WorkIsRecord
  <2>2. QED
    BY <1>1, <1>3, <1>4, <2>1 DEF CallInv, Loops
<1>7. UNCHANGED work \/ work' = [op |-> "unflip", crtc |-> 1, old_fb |-> 0]
  BY DEF FallBack, NoWork
<1>8. QED
  BY <1>5, <1>6, <1>7

\* An event takes its flip away, and none that is being submitted.
LEMMA EventCalls ==
    ASSUME CallInv, NEW s \in Slots, OldGoes(s)
    PROVE  /\ CallInv' /\ Idle /\ s \notin Submitted /\ Submitted' = Submitted
           /\ kind' = [kind EXCEPT ![s] = "none"]
<1>1. /\ kind' = [kind EXCEPT ![s] = "none"] /\ s \notin Submitted /\ Idle
      /\ UNCHANGED <<stack, buf, next, old_bo, work>>
  BY DEF OldGoes, Pending
<1>2. Submitted' = Submitted
  BY <1>1 DEF Submitted
<1>3. kind' \in [Slots -> Kinds] /\ \A t \in Submitted : kind'[t] \in {"flip", "unflip", "dri2"}
  <2>1. kind \in [Slots -> Kinds] /\ "none" \in Kinds
    BY DEF CallInv, Kinds
  <2>2. kind' \in [Slots -> Kinds]
    BY <1>1, <2>1
  <2>3. ASSUME NEW t \in Submitted PROVE kind'[t] \in {"flip", "unflip", "dri2"}
    <3>1. t \in Slots
      BY DEF CallInv, Submitted
    <3>2. t # s /\ kind[t] \in {"flip", "unflip", "dri2"}
      BY <1>1 DEF CallInv
    <3>3. QED
      BY <1>1, <2>1, <3>1, <3>2
  <2>4. QED
    BY <2>2, <2>3
<1>4. QED
  BY <1>1, <1>2, <1>3 DEF CallInv, WorkIsRecord, Idle

\* Whatever a step does, the calls and the loop stay in order.
LEMMA CallStep == CallInv /\ fb_bo \in Int /\ screen_bo \in Int /\ [Next]_vars => CallInv'
<1> SUFFICES ASSUME CallInv, fb_bo \in Int, screen_bo \in Int, [Next]_vars PROVE CallInv'
  OBVIOUS
<1> USE DEF flipVars
<1>1. ASSUME NEW c \in Crtcs, NEW r \in BOOLEAN, NEW out \in Outcomes, RandRSet(c, r, out)
      PROVE  CallInv'
  BY <1>1, CallsAlone DEF RandRSet
<1>2. ASSUME NEW c \in Crtcs, RandRDisable(c) PROVE CallInv'
  BY <1>2, CallsAlone DEF RandRDisable
<1>3. CASE DpmsOff \/ LeaveVT
  BY <1>3, CallsAlone DEF DpmsOff, LeaveVT
<1>4. CASE drmmode_set_dpms \/ DpmsOnLegacy
  <2>1. work' = [op |-> "dpms", crtc |-> 1, old_fb |-> 0] /\ UNCHANGED callVars /\ stack = <<>>
    BY <1>4 DEF drmmode_set_dpms, DpmsOnLegacy, xf86DPMSSet, NoWork, MainLoop
  <2>2. QED
    BY <2>1, LoopStarts DEF Loops
<1>5. ASSUME NEW c \in Crtcs, NEW op \in Loops, op # "none", Serves(op, c) PROVE CallInv'
  BY <1>5, LoopServes
<1>6. ASSUME NEW c \in Crtcs, \/ drmmode_output_dpms(c) \/ drmmode_set_desired_modes(c)
                              \/ ResizeCrtc(c) \/ UnflipCrtc(c)
      PROVE  CallInv'
  BY <1>5, <1>6 DEF drmmode_output_dpms, drmmode_set_desired_modes, ResizeCrtc, UnflipCrtc, Loops
<1>7. CASE LoopEnds
  <2>1. work' = [op |-> "none", crtc |-> 0, old_fb |-> 0] /\ UNCHANGED callVars
    BY <1>7 DEF LoopEnds, LoopTells, NoWork
  <2>2. QED
    BY <2>1 DEF CallInv, Submitted, WorkIsRecord, Loops, Idle, callVars
<1>8. CASE drmmode_xf86crtc_resize
  <2>1. work' = [op |-> "resize", crtc |-> 1, old_fb |-> fb_id] /\ UNCHANGED callVars
        /\ stack = <<>>
    BY <1>8 DEF drmmode_xf86crtc_resize, MainLoop
  <2>2. QED
    BY <2>1, LoopStarts DEF Loops
<1>9. CASE EnterVT
  <2>1. work' = [op |-> "enter", crtc |-> 1, old_fb |-> 0] /\ UNCHANGED callVars /\ stack = <<>>
    BY <1>9 DEF EnterVT, NoWork, MainLoop
  <2>2. QED
    BY <2>1, LoopStarts DEF Loops
<1>10. CASE ms_present_flip
  <2>1. Pixmap \in Int
    BY ScanoutAssumption DEF Pixmap
  <2>2. QED
    BY <1>10, <2>1, BeginCalls DEF ms_present_flip
<1>11. CASE ms_present_unflip
  <2>1. CASE ms_do_pageflip(screen_bo, "unflip") /\ UNCHANGED work
    BY <2>1, BeginCalls
  <2>2. CASE FallBack("unflip") /\ UNCHANGED callVars
    <3>1. work' = [op |-> "unflip", crtc |-> 1, old_fb |-> 0]
      BY <2>2 DEF FallBack, NoWork
    <3>2. QED
      BY <2>2, <3>1, LoopStarts DEF Loops
  <2>3. QED
    BY <1>11, <2>1, <2>2 DEF ms_present_unflip
<1>12. CASE ms_dri2_schedule_flip
  <2>1. PICK b \in BackBos : ms_do_pageflip(b, "dri2")
    BY <1>12 DEF ms_dri2_schedule_flip
  <2>2. b \in Int
    BY ScanoutAssumption DEF BackBos, Windows, Front
  <2>3. QED
    BY <1>12, <2>1, <2>2, BeginCalls DEF ms_dri2_schedule_flip
<1>13. ASSUME NEW c \in Crtcs, queue_flip_on_crtc(c) PROVE CallInv'
  <2>1. next' = [next EXCEPT ![submitting] = c + 1]
        /\ UNCHANGED <<stack, kind, buf, old_bo, work>>
    BY <1>13 DEF queue_flip_on_crtc
  <2>2. next' \in [Slots -> Int]
    <3>1. next \in [Slots -> Int] /\ c \in Int
      BY ScanoutAssumption DEF CallInv, Crtcs
    <3>2. c + 1 \in Int
      BY <3>1
    <3>3. QED
      BY <2>1, <3>1, <3>2
  <2>3. QED
    BY <2>1, <2>2 DEF CallInv, Submitted, WorkIsRecord, Idle
<1>14. CASE FlipAccepted
  <2>1. Returns(kind[submitting], old[submitting]) /\ UNCHANGED work
    BY <1>14 DEF FlipAccepted
  <2>2. kind[submitting] \in Kinds
    BY <2>1, FlipReturns DEF Kinds
  <2>3. QED
    BY <2>1, <2>2, ReturnCalls
<1>15. CASE FlipRefused
  BY <1>15, ReturnCalls DEF FlipRefused, Kinds
<1>16. ASSUME NEW c \in Crtcs, FlipHalfDone(c) PROVE CallInv'
  <2>1. Returns(Late(kind[submitting]), old[submitting]) /\ FallBack(kind[submitting])
    BY <1>16 DEF FlipHalfDone
  <2>2. Late(kind[submitting]) \in Kinds
    BY <2>1, FlipReturns DEF Late, Kinds
  <2>3. QED
    BY <2>1, <2>2, ReturnCalls
<1>17. ASSUME NEW s \in Slots, FlipDone(s) PROVE CallInv'
  BY <1>17, EventCalls DEF FlipDone
<1>18. CASE UNCHANGED vars
  BY <1>18, CallsAlone DEF vars
<1>19. QED
  BY <1>1, <1>2, <1>3, <1>4, <1>6, <1>7, <1>8, <1>9, <1>10, <1>11, <1>12, <1>13,
     <1>14, <1>15, <1>16, <1>17, <1>18 DEF Next

-----------------------------------------------------------------------------

LEMMA FlagInit == Init => FlagInv
<1> SUFFICES ASSUME Init PROVE FlagInv
  OBVIOUS
<1>1. /\ \A s \in Slots : kind[s] = "none"
      /\ present = "idle" /\ ~present_flipping /\ ~dri2_flipping /\ ~overlap
      /\ present_flipping \in BOOLEAN /\ dri2_flipping \in BOOLEAN /\ overlap \in BOOLEAN
      /\ work.op = "none"
  BY DEF Init, NoWork
<1>2. QED
  BY <1>1 DEF FlagInv, FlippingFlags, PresentInv, AloneInv, OfPresent, Pending

\* A step that leaves flags and flips alone, and in which no unflip begins its loop.
LEMMA FlagsAlone ==
    ASSUME FlagInv, UNCHANGED <<flagVars, stack, kind>>,
           work'.op = work.op \/ work'.op # "unflip"
    PROVE  FlagInv'
<1>1. Submitted' = Submitted
  BY DEF Submitted
<1>2. QED
  BY <1>1 DEF FlagInv, FlippingFlags, PresentInv, AloneInv, OfPresent, Pending, flagVars

\* The first step of a flip: what it does to kind and Submitted.
LEMMA FlagBegins ==
    ASSUME CallInv, NEW b \in Int, NEW k \in {"flip", "unflip", "dri2"}, ms_do_pageflip(b, k)
    PROVE  \E s \in Slots :
             /\ kind[s] = "none" /\ kind'[s] = k
             /\ \A t \in Slots : t # s => kind'[t] = kind[t] /\ (t \in Submitted' <=> t \in Submitted)
             /\ s \in Submitted'
             /\ overlap' = (overlap \/ ~NoFlip) /\ work.op = "none"
<1>1. PICK s \in Slots : /\ kind[s] = "none" /\ Submitted' = Submitted \cup {s}
                         /\ kind' = [kind EXCEPT ![s] = k]
  BY FlipBegins
<1>2. kind \in [Slots -> Kinds]
  BY DEF CallInv
<1>3. overlap' = (overlap \/ ~NoFlip) /\ work.op = "none"
  BY DEF ms_do_pageflip, Idle
<1>4. QED
  BY <1>1, <1>2, <1>3

\* Present flips: it has no other flip, and there is none of DRI2 on display.
LEMMA FlagPresentFlip == CallInv /\ FlagInv /\ ms_present_flip => FlagInv'
<1> SUFFICES ASSUME CallInv, FlagInv, ms_present_flip PROVE FlagInv'
  OBVIOUS
<1>1. /\ present \in {"idle", "flipping"} /\ ~dri2_flipping
      /\ \A s \in Submitted : kind[s] = "dri2"
      /\ ms_do_pageflip(Pixmap, "flip")
      /\ UNCHANGED <<present, present_flipping, dri2_flipping, work>>
  BY DEF ms_present_flip, ms_present_check_unflip, PresentFree
<1>2. Pixmap \in Int
  BY ScanoutAssumption DEF Pixmap
<1>3. PICK s \in Slots :
         /\ kind[s] = "none" /\ kind'[s] = "flip"
         /\ \A t \in Slots : t # s => kind'[t] = kind[t] /\ (t \in Submitted' <=> t \in Submitted)
         /\ s \in Submitted'
         /\ overlap' = (overlap \/ ~NoFlip) /\ work.op = "none"
  BY <1>1, <1>2, FlagBegins
<1>4. \A t \in Slots : ~OfPresent(t)
  BY <1>1 DEF FlagInv, PresentInv, OfPresent
<1>5. PresentInv'
  BY <1>1, <1>3, <1>4 DEF PresentInv, OfPresent
<1>6. ~overlap' => ~overlap /\ \A t \in Slots : kind[t] = "none"
  BY <1>3 DEF FlagInv, NoFlip
<1>7. AloneInv'
  BY <1>3, <1>6 DEF AloneInv
<1>8. FlippingFlags'
  BY <1>1, <1>3, <1>6 DEF FlagInv, FlippingFlags, Pending
<1>9. QED
  BY <1>1, <1>3, <1>5, <1>7, <1>8 DEF FlagInv, NoFlip

\* Present unflips.
LEMMA FlagPresentUnflip ==
    CallInv /\ screen_bo \in Int /\ FlagInv /\ ms_present_unflip => FlagInv'
<1> SUFFICES ASSUME CallInv, screen_bo \in Int, FlagInv, ms_present_unflip PROVE FlagInv'
  OBVIOUS
<1>1. /\ present = "flipping" /\ present' = "unflip"
      /\ \A s \in Submitted : kind[s] = "dri2"
      /\ UNCHANGED <<present_flipping, dri2_flipping>>
  BY DEF ms_present_unflip, PresentFree
<1>2. \A t \in Slots : ~OfPresent(t)
  BY <1>1 DEF FlagInv, PresentInv, OfPresent
<1>3. CASE ~dri2_flipping /\ ms_do_pageflip(screen_bo, "unflip") /\ UNCHANGED work
  <2>1. PICK s \in Slots :
         /\ kind[s] = "none" /\ kind'[s] = "unflip"
         /\ \A t \in Slots : t # s => kind'[t] = kind[t] /\ (t \in Submitted' <=> t \in Submitted)
         /\ s \in Submitted'
         /\ overlap' = (overlap \/ ~NoFlip) /\ work.op = "none"
    BY <1>3, FlagBegins
  <2>2. PresentInv'
    BY <1>1, <1>2, <1>3, <2>1 DEF PresentInv, OfPresent
  <2>3. ~overlap' => ~overlap /\ \A t \in Slots : kind[t] = "none"
    BY <2>1 DEF FlagInv, NoFlip
  <2>4. AloneInv'
    BY <2>1, <2>3 DEF AloneInv
  <2>5. FlippingFlags'
    BY <1>1, <1>3, <2>1, <2>3 DEF FlagInv, FlippingFlags, Pending
  <2>6. QED
    BY <1>1, <2>1, <2>2, <2>4, <2>5 DEF FlagInv, NoFlip
<1>4. CASE FallBack("unflip") /\ UNCHANGED <<callVars, overlap>>
  <2>1. UNCHANGED <<kind, stack>> /\ Submitted' = Submitted
    BY <1>4 DEF callVars, Submitted
  <2>2. PresentInv'
    BY <1>1, <1>2, <2>1 DEF PresentInv, OfPresent
  <2>3. AloneInv'
    BY <1>1, <1>2, <1>4, <2>1 DEF FlagInv, AloneInv
  <2>4. FlippingFlags'
    BY <1>1, <1>4, <2>1 DEF FlagInv, FlippingFlags, Pending
  <2>5. QED
    BY <1>1, <1>4, <2>2, <2>3, <2>4 DEF FlagInv
<1>5. QED
  BY <1>3, <1>4 DEF ms_present_unflip, ms_present_check_unflip

\* DRI2 flips while Present does not.
LEMMA FlagDri2Flip == CallInv /\ FlagInv /\ ms_dri2_schedule_flip => FlagInv'
<1> SUFFICES ASSUME CallInv, FlagInv, ms_dri2_schedule_flip PROVE FlagInv'
  OBVIOUS
<1>1. PICK b \in BackBos : ms_do_pageflip(b, "dri2")
  BY DEF ms_dri2_schedule_flip
<1>2. b \in Int
  BY ScanoutAssumption DEF BackBos, Windows, Front
<1>3. ~present_flipping /\ UNCHANGED <<present, present_flipping, dri2_flipping, work>>
  BY DEF ms_dri2_schedule_flip, can_flip
<1>4. PICK s \in Slots :
         /\ kind[s] = "none" /\ kind'[s] = "dri2"
         /\ \A t \in Slots : t # s => kind'[t] = kind[t] /\ (t \in Submitted' <=> t \in Submitted)
         /\ s \in Submitted'
         /\ overlap' = (overlap \/ ~NoFlip) /\ work.op = "none"
  BY <1>1, <1>2, FlagBegins
<1>5. PresentInv'
  BY <1>3, <1>4 DEF FlagInv, PresentInv, OfPresent
<1>6. ~overlap' => ~overlap /\ \A t \in Slots : kind[t] = "none"
  BY <1>4 DEF FlagInv, NoFlip
<1>7. AloneInv'
  BY <1>3, <1>4, <1>6 DEF FlagInv, FlippingFlags, AloneInv
<1>8. FlippingFlags'
  BY <1>3, <1>4, <1>6 DEF FlagInv, FlippingFlags, Pending
<1>9. QED
  BY <1>3, <1>4, <1>5, <1>7, <1>8 DEF FlagInv, NoFlip

\* What the return of a flip does to kind and Submitted.
LEMMA FlagReturns ==
    ASSUME CallInv, NEW k \in Kinds, NEW o, Returns(k, o)
    PROVE  /\ submitting \in Submitted /\ submitting \in Slots
           /\ kind[submitting] \in {"flip", "unflip", "dri2"}
           /\ kind'[submitting] = k /\ submitting \notin Submitted'
           /\ \A t \in Slots : t # submitting =>
                kind'[t] = kind[t] /\ (t \in Submitted' <=> t \in Submitted)
           /\ work.op = "none"
<1>1. /\ submitting \in Submitted /\ submitting \in Slots
      /\ kind[submitting] \in {"flip", "unflip", "dri2"}
      /\ Submitted' = Submitted \ {submitting}
      /\ kind' = [kind EXCEPT ![submitting] = k]
      /\ Idle
  BY FlipReturns
<1>2. kind \in [Slots -> Kinds]
  BY DEF CallInv
<1>3. QED
  BY <1>1, <1>2 DEF Idle

\* A flip is accepted: from now on its extension keeps the other one away.
LEMMA FlagAccepted == CallInv /\ FlagInv /\ FlipAccepted => FlagInv'
<1> SUFFICES ASSUME CallInv, FlagInv, FlipAccepted PROVE FlagInv'
  OBVIOUS
<1> DEFINE s == submitting
<1>1. /\ Returns(kind[s], old[s])
      /\ present' = IF kind[s] = "flip" THEN "flip" ELSE present
      /\ present_flipping' = (present_flipping \/ kind[s] = "flip")
      /\ dri2_flipping' = (dri2_flipping \/ kind[s] = "dri2")
      /\ UNCHANGED <<overlap, work>>
  BY DEF FlipAccepted
<1>2. kind[s] \in Kinds
  BY <1>1, FlipReturns DEF Kinds
<1>3. /\ s \in Submitted /\ s \in Slots /\ s \notin Submitted'
      /\ kind[s] \in {"flip", "unflip", "dri2"}
      /\ kind'[s] = kind[s]
      /\ \A t \in Slots : t # s => kind'[t] = kind[t] /\ (t \in Submitted' <=> t \in Submitted)
      /\ work.op = "none"
  BY <1>1, <1>2, FlagReturns
<1> HIDE DEF s
<1>4. PresentInv'
  <2>1. CASE kind[s] = "flip"
    BY <1>1, <1>3, <2>1 DEF FlagInv, PresentInv, OfPresent
  <2>2. CASE kind[s] # "flip"
    BY <1>1, <1>3, <2>2 DEF FlagInv, PresentInv, OfPresent
  <2>3. QED
    BY <2>1, <2>2
<1>5. AloneInv'
  BY <1>1, <1>3 DEF FlagInv, AloneInv
<1>6. FlippingFlags'
  <2>1. present_flipping' => present' # "idle"
    BY <1>1, <1>3 DEF FlagInv, FlippingFlags
  <2>2. dri2_flipping' => \E t \in Slots : Pending(t)' /\ kind'[t] = "dri2"
    BY <1>1, <1>3 DEF FlagInv, FlippingFlags, Pending
  <2>3. ASSUME ~overlap'
        PROVE  /\ ~(present_flipping' /\ dri2_flipping')
               /\ present_flipping' <=> present' # "idle"
               /\ dri2_flipping' <=> \E t \in Slots : Pending(t)' /\ kind'[t] = "dri2"
    <3>1. \A t \in Slots : t # s => kind[t] = "none" /\ kind'[t] = "none"
      BY <1>1, <1>3, <2>3 DEF FlagInv, AloneInv
    <3>2. ~dri2_flipping
      BY <1>3, <3>1 DEF FlagInv, FlippingFlags, Pending
    <3>3. kind[s] = "dri2" => present = "idle" /\ ~present_flipping
      BY <1>1, <1>3, <2>3 DEF FlagInv, AloneInv, FlippingFlags
    <3>4. present_flipping <=> present # "idle"
      BY <1>1, <2>3 DEF FlagInv, FlippingFlags
    <3>5. dri2_flipping' <=> \E t \in Slots : Pending(t)' /\ kind'[t] = "dri2"
      BY <1>1, <1>3, <2>2, <3>1 DEF Pending
    <3>6. QED
      BY <1>1, <1>3, <3>2, <3>3, <3>4, <3>5
  <2>4. QED
    BY <2>1, <2>2, <2>3 DEF FlippingFlags
<1>7. present_flipping' \in BOOLEAN /\ dri2_flipping' \in BOOLEAN /\ overlap' \in BOOLEAN
  BY <1>1 DEF FlagInv
<1>8. QED
  BY <1>4, <1>5, <1>6, <1>7 DEF FlagInv

\* A flip is refused, or left half done: the flags are as they were.
LEMMA FlagFails ==
    ASSUME CallInv, FlagInv, NEW k \in Kinds, NEW o, Returns(k, o),
           k \in {"none", Late(kind[submitting])},
           FallBack(kind[submitting]),
           UNCHANGED <<present, present_flipping, dri2_flipping>>,
           (overlap' = overlap /\ k = "none") \/ overlap' = TRUE
    PROVE  FlagInv'
<1> DEFINE s == submitting
<1>1. /\ s \in Submitted /\ s \in Slots /\ s \notin Submitted'
      /\ kind[s] \in {"flip", "unflip", "dri2"}
      /\ kind'[s] = k
      /\ \A t \in Slots : t # s => kind'[t] = kind[t] /\ (t \in Submitted' <=> t \in Submitted)
      /\ work.op = "none"
  BY FlagReturns
<1>2. kind'[s] \notin {"flip", "unflip"}
  BY <1>1 DEF Late
<1>3. work'.op = "unflip" => kind[s] = "unflip"
  BY <1>1 DEF FallBack
<1> HIDE DEF s
<1>4. PresentInv'
  BY <1>1, <1>2, <1>3 DEF FlagInv, PresentInv, OfPresent
<1>5. AloneInv'
  <2>1. CASE overlap' = TRUE
    BY <2>1 DEF AloneInv
  <2>2. CASE overlap' = overlap /\ kind'[s] = "none"
    BY <1>1, <2>2 DEF FlagInv, AloneInv
  <2>3. QED
    BY <1>1, <2>1, <2>2
<1>6. FlippingFlags'
  <2>1. dri2_flipping' => \E t \in Slots : Pending(t)' /\ kind'[t] = "dri2"
    BY <1>1 DEF FlagInv, FlippingFlags, Pending
  <2>2. CASE overlap' = TRUE
    BY <2>1, <2>2 DEF FlagInv, FlippingFlags
  <2>3. CASE overlap' = overlap /\ kind'[s] = "none"
    <3>1. \A t \in Slots : Pending(t)' /\ kind'[t] = "dri2" => Pending(t) /\ kind[t] = "dri2"
      BY <1>1, <2>3 DEF Pending
    <3>2. QED
      BY <2>1, <2>3, <3>1 DEF FlagInv, FlippingFlags
  <2>4. QED
    BY <1>1, <2>2, <2>3
<1>7. present_flipping' \in BOOLEAN /\ dri2_flipping' \in BOOLEAN /\ overlap' \in BOOLEAN
  BY DEF FlagInv
<1>8. QED
  BY <1>4, <1>5, <1>6, <1>7 DEF FlagInv

\* The event of a flip: its flag goes, and the others' flags need not be right any more.
LEMMA FlagDone == ASSUME CallInv, FlagInv, NEW s \in Slots, FlipDone(s) PROVE FlagInv'
<1>1. /\ Submitted' = Submitted /\ s \notin Submitted /\ kind[s] # "none" /\ work.op = "none"
      /\ kind'[s] = "none" /\ \A t \in Slots : t # s => kind'[t] = kind[t]
  <2>1. /\ Submitted' = Submitted /\ s \notin Submitted /\ kind[s] # "none" /\ Idle
        /\ kind' = [kind EXCEPT ![s] = "none"]
    BY EventCalls DEF FlipDone, OldGoes, Pending
  <2>2. kind \in [Slots -> Kinds]
    BY DEF CallInv
  <2>3. QED
    BY <2>1, <2>2 DEF Idle
<1>2. /\ present' = CASE kind[s] = "flip"   -> "flipping"
                      [] kind[s] = "unflip" -> "idle"
                      [] OTHER              -> present
      /\ present_flipping' = (present_flipping /\ kind[s] \notin {"unflip", "late unflip"})
      /\ overlap' = (overlap /\ ~(present' = "idle" /\ \A t \in Slots \ {s} : kind[t] = "none"))
      /\ dri2_flipping' = (dri2_flipping /\ kind[s] # "dri2")
      /\ UNCHANGED work
  BY DEF FlipDone, Handled, OldGoes
<1>3. present_flipping' => present' # "idle"
  BY <1>2 DEF FlagInv, FlippingFlags
<1>4. dri2_flipping' => \E t \in Slots : Pending(t)' /\ kind'[t] = "dri2"
  BY <1>1, <1>2 DEF FlagInv, FlippingFlags, Pending
<1>5. ~overlap' => \A t \in Slots : kind'[t] = "none"
  <2>1. CASE ~overlap
    BY <1>1, <2>1 DEF FlagInv, AloneInv
  <2>2. CASE \A t \in Slots \ {s} : kind[t] = "none"
    BY <1>1, <2>2
  <2>3. QED
    BY <1>2, <2>1, <2>2 DEF FlagInv
<1>6. ~overlap' => (present_flipping' <=> present' # "idle")
  <2>1. CASE ~overlap
    <3>1. /\ kind[s] \in {"flip", "unflip", "dri2"}
          /\ present_flipping <=> present # "idle"
      BY <1>1, <2>1 DEF FlagInv, AloneInv, FlippingFlags
    <3>2. kind[s] = "flip" => present = "flip"
      BY <1>1 DEF FlagInv, PresentInv
    <3>3. QED
      BY <1>2, <3>1, <3>2
  <2>2. CASE present' = "idle"
    BY <1>3, <2>2 
  <2>3. QED
    BY <1>2, <2>1, <2>2 DEF FlagInv
<1>7. FlippingFlags'
  <2>1. ~overlap' => ~dri2_flipping' /\ ~\E t \in Slots : Pending(t)' /\ kind'[t] = "dri2"
    BY <1>4, <1>5 DEF Pending
  <2>2. QED
    BY <1>3, <1>4, <1>6, <2>1 DEF FlippingFlags
<1>8. AloneInv'
  BY <1>5 DEF AloneInv
<1>9. PresentInv'
  <2>1. CASE kind[s] \in {"flip", "unflip"}
    BY <1>1, <1>2, <2>1 DEF FlagInv, PresentInv, OfPresent
  <2>2. CASE kind[s] \notin {"flip", "unflip"}
    BY <1>1, <1>2, <2>2 DEF FlagInv, PresentInv, OfPresent
  <2>3. QED
    BY <2>1, <2>2
<1>10. present_flipping' \in BOOLEAN /\ dri2_flipping' \in BOOLEAN /\ overlap' \in BOOLEAN
  BY <1>2 DEF FlagInv
<1>11. QED
  BY <1>7, <1>8, <1>9, <1>10 DEF FlagInv

\* The end of a loop; that of an unflip tells Present.
LEMMA FlagLoopEnds == FlagInv /\ LoopEnds => FlagInv'
<1> SUFFICES ASSUME FlagInv, LoopEnds PROVE FlagInv'
  OBVIOUS
<1>1. UNCHANGED <<kind, stack, dri2_flipping>> /\ work'.op = "none"
  BY DEF LoopEnds, LoopTells, callVars, NoWork
<1>2. Submitted' = Submitted
  BY <1>1 DEF Submitted
<1>3. CASE work.op # "unflip"
  <2>1. UNCHANGED <<present, present_flipping, overlap>>
    BY <1>3 DEF LoopEnds, LoopTells
  <2>2. QED
    BY <1>1, <2>1, FlagsAlone DEF flagVars
<1>4. CASE work.op = "unflip"
  <2>1. present' = "idle" /\ ~present_flipping' /\ overlap' = (overlap /\ ~NoFlip)
        /\ present_flipping' = FALSE
    BY <1>4 DEF LoopEnds, LoopTells
  <2>2. PresentInv'
    BY <1>1, <1>4 DEF FlagInv, PresentInv, OfPresent
  <2>3. AloneInv'
    BY <1>1, <2>1 DEF FlagInv, AloneInv, NoFlip
  <2>4. FlippingFlags'
    BY <1>1, <1>2, <2>1 DEF FlagInv, FlippingFlags, Pending, NoFlip
  <2>5. QED
    BY <1>1, <2>1, <2>2, <2>3, <2>4 DEF FlagInv
<1>5. QED
  BY <1>3, <1>4

\* Whatever a step does, the flags stay right.
LEMMA FlagStep == CallInv /\ screen_bo \in Int /\ FlagInv /\ [Next]_vars => FlagInv'
<1> SUFFICES ASSUME CallInv, screen_bo \in Int, FlagInv, [Next]_vars PROVE FlagInv'
  OBVIOUS
<1> USE DEF flipVars, callVars
<1>1. ASSUME NEW c \in Crtcs, NEW r \in BOOLEAN, NEW out \in Outcomes, RandRSet(c, r, out)
      PROVE  FlagInv'
  BY <1>1, FlagsAlone DEF RandRSet
<1>2. ASSUME NEW c \in Crtcs, RandRDisable(c) PROVE FlagInv'
  BY <1>2, FlagsAlone DEF RandRDisable
<1>3. CASE DpmsOff \/ LeaveVT
  BY <1>3, FlagsAlone DEF DpmsOff, LeaveVT
<1>4. CASE drmmode_set_dpms \/ DpmsOnLegacy \/ EnterVT \/ drmmode_xf86crtc_resize
  <2>1. work'.op # "unflip"
    <3>1. xf86DPMSSet \/ EnterVT \/ drmmode_xf86crtc_resize
      BY <1>4 DEF drmmode_set_dpms, DpmsOnLegacy
    <3>2. \E op \in {"dpms", "enter", "resize"}, f \in {0, fb_id} :
             work' = [op |-> op, crtc |-> 1, old_fb |-> f]
      BY <3>1 DEF xf86DPMSSet, EnterVT, drmmode_xf86crtc_resize, NoWork
    <3>3. QED
      BY <3>2
  <2>2. UNCHANGED <<flagVars, stack, kind>>
    BY <1>4 DEF drmmode_set_dpms, DpmsOnLegacy, EnterVT, drmmode_xf86crtc_resize
  <2>3. QED
    BY <2>1, <2>2, FlagsAlone
<1>5. ASSUME NEW c \in Crtcs, NEW op \in Loops, op # "none", Serves(op, c) PROVE FlagInv'
  <2>1. work.op = op /\ work'.op = op /\ UNCHANGED flipVars
    BY <1>5, LoopServes
  <2>2. QED
    BY <2>1, FlagsAlone
<1>6. ASSUME NEW c \in Crtcs, \/ drmmode_output_dpms(c) \/ drmmode_set_desired_modes(c)
                              \/ ResizeCrtc(c) \/ UnflipCrtc(c)
      PROVE  FlagInv'
  BY <1>5, <1>6 DEF drmmode_output_dpms, drmmode_set_desired_modes, ResizeCrtc, UnflipCrtc, Loops
<1>7. CASE ms_present_flip \/ ms_present_unflip \/ ms_dri2_schedule_flip
  BY <1>7, FlagPresentFlip, FlagPresentUnflip, FlagDri2Flip
<1>8. ASSUME NEW c \in Crtcs, queue_flip_on_crtc(c) PROVE FlagInv'
  BY <1>8, FlagsAlone DEF queue_flip_on_crtc
<1>9. CASE FlipRefused
  <2>1. Returns("none", 0) /\ FallBack(kind[submitting])
        /\ UNCHANGED <<present, present_flipping, dri2_flipping, overlap>> /\ "none" \in Kinds
    BY <1>9 DEF FlipRefused, flagVars, Kinds
  <2>2. QED
    BY <2>1, FlagFails DEF FlagInv
<1>10. ASSUME NEW c \in Crtcs, FlipHalfDone(c) PROVE FlagInv'
  <2>1. Returns(Late(kind[submitting]), old[submitting]) /\ FallBack(kind[submitting])
        /\ UNCHANGED <<present, present_flipping, dri2_flipping>> /\ overlap' = TRUE
    BY <1>10 DEF FlipHalfDone
  <2>2. Late(kind[submitting]) \in Kinds
    BY <2>1, FlipReturns DEF Late, Kinds
  <2>3. QED
    BY <2>1, <2>2, FlagFails
<1>11. CASE UNCHANGED vars
  BY <1>11, FlagsAlone DEF vars
<1>12. QED
  BY <1>1, <1>2, <1>3, <1>4, <1>6, <1>7, <1>8, <1>9, <1>10, <1>11, FlagAccepted, FlagDone,
     FlagLoopEnds DEF Next

-----------------------------------------------------------------------------
(* The framebuffers and their owners *)

\* What an owner holds: a framebuffer, or none.
Ids == FbIds \cup {0}

\* There are as many places that may hold a framebuffer as there are ids: a CRTC's
\* rotate_fb_id, a flip's old_fb_id, fb_id, and the old_fb_id of a resize.
Places    == 1..(NumCrtcs + MaxFlips + 2)
FlipAt(s) == NumCrtcs + s
FbAt      == NumCrtcs + MaxFlips + 1
ResizeAt  == NumCrtcs + MaxFlips + 2

Holds(R, o, id, w) ==
    [p \in Places |-> IF p \in Crtcs THEN R[p]
                      ELSE IF p = FbAt THEN id
                      ELSE IF p = ResizeAt THEN w
                      ELSE o[p - NumCrtcs]]

\* The kernel's framebuffers F are held in the places H, each in one of them.
Placed(F, H) ==
    /\ F \subseteq FbIds /\ H \in [Places -> Ids]
    /\ \A p, q \in Places : H[p] # 0 /\ H[p] = H[q] => p = q
    /\ \A f \in FbIds : f \in F <=> \E p \in Places : H[p] = f

\* They are held by rotate_fb_id, the flips, fb_id and the resize, being R, o, id and w.
Owned(F, R, o, id, w) ==
    /\ R \in [Crtcs -> Ids] /\ o \in [Slots -> Ids] /\ id \in Ids /\ w \in Ids
    /\ Placed(F, Holds(R, o, id, w))

OwnInv ==
    /\ rotation \in [Crtcs -> BOOLEAN]
    /\ bound \in [Crtcs -> Int]
    /\ fb_bo \in Int /\ screen_bo \in Int
    /\ Owned(fbs, rotate_fb_id, old, fb_id, work.old_fb)
    /\ \A s \in Slots : kind[s] = "none" => old[s] = 0
    /\ work.op # "resize" => work.old_fb = 0

-----------------------------------------------------------------------------

LEMMA IdFacts == /\ FbIds \subseteq Nat \ {0} /\ Ids \subseteq Int /\ 0 \in Ids /\ 0 \notin FbIds
                 /\ FbIds \subseteq Ids /\ Dark = 0 /\ Foreign \in Int
                 /\ Dark \in Int /\ Front \in Int /\ NoBo \in Int
BY ScanoutAssumption DEF FbIds, Ids, Dark, Foreign, Front, NoBo

\* The places are there, different, and there is no other.
LEMMA PlacesApart ==
    /\ Crtcs \subseteq Places /\ FbAt \in Places \ Crtcs /\ ResizeAt \in Places \ Crtcs
    /\ FbAt # ResizeAt
    /\ \A s \in Slots : /\ FlipAt(s) \in Places \ Crtcs /\ FlipAt(s) \notin {FbAt, ResizeAt}
                        /\ FlipAt(s) - NumCrtcs = s
    /\ \A p \in Places : p \notin Crtcs /\ p # FbAt /\ p # ResizeAt =>
          p - NumCrtcs \in Slots /\ FlipAt(p - NumCrtcs) = p
<1>1. NumCrtcs \in Nat /\ MaxFlips \in Nat
  BY ScanoutAssumption
<1>2. QED
  BY <1>1 DEF Places, Crtcs, Slots, FbAt, ResizeAt, FlipAt

\* What is where.
LEMMA HoldsAt ==
    ASSUME NEW R \in [Crtcs -> Ids], NEW o \in [Slots -> Ids], NEW id \in Ids, NEW w \in Ids
    PROVE  /\ Holds(R, o, id, w) \in [Places -> Ids]
           /\ \A c \in Crtcs : Holds(R, o, id, w)[c] = R[c]
           /\ \A s \in Slots : Holds(R, o, id, w)[FlipAt(s)] = o[s]
           /\ Holds(R, o, id, w)[FbAt] = id
           /\ Holds(R, o, id, w)[ResizeAt] = w
BY PlacesApart DEF Holds

\* A place that is of a flip and not of slot s is of another slot.
LEMMA HoldsFlip ==
    ASSUME NEW R, NEW o \in [Slots -> Ids], NEW id, NEW w, NEW s \in Slots, NEW f \in Ids,
           NEW q \in [Slots -> Ids], \A t \in Slots : q[t] = IF t = s THEN f ELSE o[t]
    PROVE  \A u \in Places : Holds(R, q, id, w)[u] = IF u = FlipAt(s) THEN f
                                                    ELSE Holds(R, o, id, w)[u]
<1>1. /\ FlipAt(s) \in Places \ Crtcs /\ FlipAt(s) \notin {FbAt, ResizeAt}
      /\ FlipAt(s) - NumCrtcs = s
  BY PlacesApart
<1>2. ASSUME NEW u \in Places
      PROVE  Holds(R, q, id, w)[u] = IF u = FlipAt(s) THEN f ELSE Holds(R, o, id, w)[u]
  <2>1. CASE u \in Crtcs \/ u = FbAt \/ u = ResizeAt
    BY <1>1, <2>1 DEF Holds
  <2>2. CASE u \notin Crtcs /\ u # FbAt /\ u # ResizeAt
    <3>1. u - NumCrtcs \in Slots /\ FlipAt(u - NumCrtcs) = u
      BY <2>2, PlacesApart
    <3>2. u = FlipAt(s) <=> u - NumCrtcs = s
      BY <1>1, <3>1
    <3>3. Holds(R, q, id, w)[u] = q[u - NumCrtcs] /\ Holds(R, o, id, w)[u] = o[u - NumCrtcs]
      BY <2>2 DEF Holds
    <3>4. QED
      BY <3>1, <3>2, <3>3
  <2>3. QED
    BY <2>1, <2>2
<1>3. QED
  BY <1>2

-----------------------------------------------------------------------------

\* A set of ids that is not empty has a least member.
LEMMA LeastId ==
    ASSUME NEW S \in SUBSET FbIds, S # {}
    PROVE  \E f \in S : \A g \in S : f <= g
<1> DEFINE R == {p \in Nat \X Nat : p[1] < p[2]}
<1>1. IsWellFoundedOn(R, Nat)
  BY NatLessThanWellFounded DEF OpToRel
<1>2. S \subseteq Nat
  BY IdFacts
<1>3. PICK f \in S : \A g \in S : ~(<<g, f>> \in R)
  <2> HIDE DEF R
  <2>1. QED
    BY <1>1, <1>2, WFMin
<1>4. ASSUME NEW g \in S PROVE f <= g
  <2>1. f \in Nat /\ g \in Nat
    BY <1>2
  <2>2. <<g, f>> \in R <=> g < f
    BY <2>1
  <2>3. QED
    BY <1>3, <2>1, <2>2
<1>5. QED
  BY <1>4

\* There are as many ids as places, so an id is free as long as a place is.
LEMMA IdIsLeft ==
    ASSUME NEW F, NEW H, Placed(F, H), NEW e \in Places, H[e] = 0
    PROVE  FbIds \ F # {}
<1>1. SUFFICES ASSUME FbIds \subseteq F PROVE FALSE
  OBVIOUS
<1>2. \A f \in FbIds : f # 0 /\ \E p \in Places \ {e} : H[p] = f
  BY <1>1, IdFacts DEF Placed
<1> DEFINE g == [f \in FbIds |-> CHOOSE p \in Places \ {e} : H[p] = f]
<1>3. \A f \in FbIds : g[f] \in Places \ {e} /\ H[g[f]] = f
  BY <1>2
<1>4. g \in [FbIds -> Places \ {e}]
  BY <1>3
<1> HIDE DEF g
<1>5. /\ IsFiniteSet(FbIds) /\ IsFiniteSet(Places \ {e})
      /\ Cardinality(Places \ {e}) < Cardinality(FbIds)
  <2>1. FbIds = Places
    BY DEF FbIds, Places
  <2>2. IsFiniteSet(Places) /\ Cardinality(Places) \in Nat
    <3>1. 1 \in Int /\ NumCrtcs + MaxFlips + 2 \in Int
      BY ScanoutAssumption
    <3>2. IsFiniteSet(Places)
      BY <3>1, FS_Interval DEF Places
    <3>3. QED
      BY <3>2, FS_CardinalityType
  <2>3. IsFiniteSet(Places \ {e}) /\ Cardinality(Places \ {e}) = Cardinality(Places) - 1
    BY <2>2, FS_RemoveElement
  <2>4. QED
    BY <2>1, <2>2, <2>3
<1>6. PICK p, q \in FbIds : p # q /\ g[p] = g[q]
  BY <1>4, <1>5, FS_PigeonHole
<1>7. QED
  BY <1>3, <1>6

\* The kernel finds a free id when a place is free,
LEMMA NewFbIsFree ==
    ASSUME NEW F, NEW H, Placed(F, H), NEW p \in Places, H[p] = 0
    PROVE  NewFb(F) \in FbIds /\ NewFb(F) \notin F
<1>1. FbIds \ F \in SUBSET FbIds /\ FbIds \ F # {}
  BY IdIsLeft
<1>2. \E f \in FbIds \ F : \A g \in FbIds \ F : f <= g
  BY <1>1, LeastId
<1>3. QED
  BY <1>2 DEF NewFb

\* and the new framebuffer is held there.
LEMMA AddPlaced ==
    ASSUME NEW F, NEW H, Placed(F, H), NEW p \in Places, H[p] = 0, NEW n \in FbIds, n \notin F,
           NEW K \in [Places -> Ids], \A u \in Places : K[u] = IF u = p THEN n ELSE H[u]
    PROVE  Placed(F \cup {n}, K)
<1>1. \A u \in Places : H[u] # n
  BY DEF Placed
<1>2. n # 0 /\ F \cup {n} \subseteq FbIds
  BY IdFacts DEF Placed
<1>3. \A u, v \in Places : K[u] # 0 /\ K[u] = K[v] => u = v
  BY <1>1 DEF Placed
<1>4. \A f \in FbIds : f \in F \cup {n} <=> \E u \in Places : K[u] = f
  BY <1>1, IdFacts DEF Placed
<1>5. QED
  BY <1>2, <1>3, <1>4 DEF Placed

\* A framebuffer is removed by the one that holds it.
LEMMA RemovePlaced ==
    ASSUME NEW F, NEW H, Placed(F, H), NEW p \in Places,
           NEW K \in [Places -> Ids], \A u \in Places : K[u] = IF u = p THEN 0 ELSE H[u]
    PROVE  Placed(RmFB(F, H[p]), K)
<1>1. \A u, v \in Places : K[u] # 0 /\ K[u] = K[v] => u = v
  BY DEF Placed
<1>2. ASSUME NEW f \in FbIds PROVE f \in F \ {H[p]} <=> \E u \in Places : K[u] = f
  BY IdFacts DEF Placed
<1>3. QED
  BY <1>1, <1>2 DEF Placed, RmFB

\* It passes to a place that is free.
LEMMA MovePlaced ==
    ASSUME NEW F, NEW H, Placed(F, H), NEW p \in Places, NEW q \in Places, p # q, H[q] = 0,
           NEW K \in [Places -> Ids],
           \A u \in Places : K[u] = IF u = p THEN 0 ELSE IF u = q THEN H[p] ELSE H[u]
    PROVE  Placed(F, K)
<1>1. \A u, v \in Places : K[u] # 0 /\ K[u] = K[v] => u = v
  BY DEF Placed
<1>2. ASSUME NEW f \in FbIds PROVE f \in F <=> \E u \in Places : K[u] = f
  <2>1. ASSUME NEW u \in Places, H[u] = f PROVE \E v \in Places : K[v] = f
    BY <2>1, IdFacts
  <2>2. ASSUME NEW u \in Places, K[u] = f PROVE \E v \in Places : H[v] = f
    BY <2>2, IdFacts
  <2>3. QED
    BY <2>1, <2>2 DEF Placed
<1>3. QED
  BY <1>1, <1>2 DEF Placed

-----------------------------------------------------------------------------

\* The shadow of a CRTC goes,
LEMMA ShadowGoes ==
    ASSUME NEW F, NEW R, NEW o, NEW id, NEW w, Owned(F, R, o, id, w), NEW c \in Crtcs
    PROVE  Owned(RmFB(F, R[c]), [R EXCEPT ![c] = 0], o, id, w)
<1> DEFINE Q == [R EXCEPT ![c] = 0]
           H == Holds(R, o, id, w)
           K == Holds(Q, o, id, w)
<1>1. /\ R \in [Crtcs -> Ids] /\ o \in [Slots -> Ids] /\ id \in Ids /\ w \in Ids
      /\ Placed(F, H) /\ Q \in [Crtcs -> Ids]
  BY IdFacts DEF Owned
<1>2. c \in Places /\ H[c] = R[c]
  BY <1>1, PlacesApart, HoldsAt
<1>3. \A u \in Places : K[u] = IF u = c THEN 0 ELSE H[u]
  BY <1>1, PlacesApart DEF Holds
<1> HIDE DEF Q
<1>4. K \in [Places -> Ids]
  BY <1>1, HoldsAt
<1> HIDE DEF H, K
<1>5. Placed(RmFB(F, H[c]), K)
  BY <1>1, <1>2, <1>3, <1>4, RemovePlaced
<1>6. Owned(RmFB(F, R[c]), Q, o, id, w)
  BY <1>1, <1>2, <1>5 DEF Owned, K
<1>7. QED
  BY <1>6 DEF Q

\* or comes.
LEMMA ShadowComes ==
    ASSUME NEW F, NEW R, NEW o, NEW id, NEW w, Owned(F, R, o, id, w),
           NEW c \in Crtcs, R[c] = 0
    PROVE  /\ NewFb(F) \in FbIds /\ NewFb(F) \notin F
           /\ Owned(F \cup {NewFb(F)}, [R EXCEPT ![c] = NewFb(F)], o, id, w)
<1> DEFINE n == NewFb(F)
           Q == [R EXCEPT ![c] = n]
           H == Holds(R, o, id, w)
           K == Holds(Q, o, id, w)
<1>1. /\ R \in [Crtcs -> Ids] /\ o \in [Slots -> Ids] /\ id \in Ids /\ w \in Ids
      /\ Placed(F, H)
  BY DEF Owned
<1>2. c \in Places /\ H[c] = 0
  BY <1>1, PlacesApart, HoldsAt
<1>3. n \in FbIds /\ n \notin F
  <2> HIDE DEF H
  <2>1. QED
    BY <1>1, <1>2, NewFbIsFree
<1> HIDE DEF n
<1>4. Q \in [Crtcs -> Ids]
  BY <1>1, <1>3, IdFacts
<1>5. \A u \in Places : K[u] = IF u = c THEN n ELSE H[u]
  BY <1>1, PlacesApart DEF Holds
<1> HIDE DEF Q
<1>6. K \in [Places -> Ids]
  BY <1>1, <1>4, HoldsAt
<1> HIDE DEF H, K
<1>7. Placed(F \cup {n}, K)
  BY <1>1, <1>2, <1>3, <1>5, <1>6, AddPlaced
<1>8. Owned(F \cup {n}, Q, o, id, w)
  BY <1>1, <1>4, <1>7 DEF Owned, K
<1>9. QED
  BY <1>3, <1>8 DEF n, Q

\* fb_id is imported,
LEMMA FrontComes ==
    ASSUME NEW F, NEW R, NEW o, NEW w, Owned(F, R, o, 0, w)
    PROVE  /\ NewFb(F) \in FbIds /\ NewFb(F) \notin F
           /\ Owned(F \cup {NewFb(F)}, R, o, NewFb(F), w)
<1> DEFINE n == NewFb(F)
           H == Holds(R, o, 0, w)
           K == Holds(R, o, n, w)
<1>1. /\ R \in [Crtcs -> Ids] /\ o \in [Slots -> Ids] /\ 0 \in Ids /\ w \in Ids
      /\ Placed(F, H)
  BY DEF Owned
<1>2. FbAt \in Places /\ H[FbAt] = 0
  BY <1>1, PlacesApart, HoldsAt
<1>3. n \in FbIds /\ n \notin F
  <2> HIDE DEF H
  <2>1. QED
    BY <1>1, <1>2, NewFbIsFree
<1> HIDE DEF n
<1>4. \A u \in Places : K[u] = IF u = FbAt THEN n ELSE H[u]
  BY PlacesApart DEF Holds
<1>5. n \in Ids
  BY <1>3, IdFacts
<1>6. K \in [Places -> Ids]
  BY <1>1, <1>5, HoldsAt
<1> HIDE DEF H, K
<1>7. Placed(F \cup {n}, K)
  BY <1>1, <1>2, <1>3, <1>4, <1>6, AddPlaced
<1>8. Owned(F \cup {n}, R, o, n, w)
  BY <1>1, <1>5, <1>7 DEF Owned, K
<1>9. QED
  BY <1>3, <1>8 DEF n

\* or removed.
LEMMA FrontGoes ==
    ASSUME NEW F, NEW R, NEW o, NEW id, NEW w, Owned(F, R, o, id, w)
    PROVE  Owned(RmFB(F, id), R, o, 0, w)
<1> DEFINE H == Holds(R, o, id, w)
           K == Holds(R, o, 0, w)
<1>1. /\ R \in [Crtcs -> Ids] /\ o \in [Slots -> Ids] /\ id \in Ids /\ w \in Ids /\ 0 \in Ids
      /\ Placed(F, H)
  BY IdFacts DEF Owned
<1>2. FbAt \in Places /\ H[FbAt] = id
  BY <1>1, PlacesApart, HoldsAt
<1>3. \A u \in Places : K[u] = IF u = FbAt THEN 0 ELSE H[u]
  BY PlacesApart DEF Holds
<1>4. K \in [Places -> Ids]
  BY <1>1, HoldsAt
<1> HIDE DEF H, K
<1>5. Placed(RmFB(F, H[FbAt]), K)
  BY <1>1, <1>2, <1>3, <1>4, RemovePlaced
<1>6. QED
  BY <1>1, <1>2, <1>5 DEF Owned, K

\* It passes to a flip as the old framebuffer,
LEMMA FrontToFlip ==
    ASSUME NEW F, NEW R, NEW o, NEW id, NEW w, Owned(F, R, o, id, w), NEW s \in Slots, o[s] = 0
    PROVE  Owned(F, R, [o EXCEPT ![s] = id], 0, w)
<1> DEFINE q == [o EXCEPT ![s] = id]
           H == Holds(R, o, id, w)
           K == Holds(R, q, 0, w)
<1>1. /\ R \in [Crtcs -> Ids] /\ o \in [Slots -> Ids] /\ id \in Ids /\ w \in Ids /\ 0 \in Ids
      /\ Placed(F, H) /\ q \in [Slots -> Ids]
      /\ \A t \in Slots : q[t] = IF t = s THEN id ELSE o[t]
  BY IdFacts DEF Owned
<1>2. /\ FbAt \in Places /\ FlipAt(s) \in Places /\ FbAt # FlipAt(s)
      /\ H[FbAt] = id /\ H[FlipAt(s)] = 0
  BY <1>1, PlacesApart, HoldsAt
<1> HIDE DEF q
<1>3. \A u \in Places : Holds(R, q, id, w)[u] = IF u = FlipAt(s) THEN id ELSE H[u]
  <2> HIDE DEF K
  <2>1. /\ o \in [Slots -> Ids] /\ id \in Ids /\ q \in [Slots -> Ids]
        /\ \A t \in Slots : q[t] = IF t = s THEN id ELSE o[t]
    BY <1>1
  <2>2. \A u \in Places : Holds(R, q, id, w)[u]
                            = IF u = FlipAt(s) THEN id ELSE Holds(R, o, id, w)[u]
    <3> HIDE DEF H
    <3>1. QED
      BY ONLY <2>1, s \in Slots, HoldsFlip
  <2>3. QED
    BY <2>2
<1>4. \A u \in Places : K[u] = IF u = FbAt THEN 0 ELSE Holds(R, q, id, w)[u]
  BY PlacesApart DEF Holds
<1>5. K \in [Places -> Ids]
  BY <1>1, <1>3, HoldsAt
<1> HIDE DEF H, K
<1>6. \A u \in Places : K[u] = IF u = FbAt THEN 0 ELSE IF u = FlipAt(s) THEN H[FbAt] ELSE H[u]
  BY <1>2, <1>3, <1>4
<1>7. Placed(F, K)
  BY <1>1, <1>2, <1>5, <1>6, MovePlaced
<1>8. Owned(F, R, q, 0, w)
  BY <1>1, <1>7 DEF Owned, K
<1>9. QED
  BY <1>8 DEF q

\* and back,
LEMMA FlipToFront ==
    ASSUME NEW F, NEW R, NEW o, NEW w, Owned(F, R, o, 0, w), NEW s \in Slots
    PROVE  Owned(F, R, [o EXCEPT ![s] = 0], o[s], w)
<1> DEFINE q == [o EXCEPT ![s] = 0]
           H == Holds(R, o, 0, w)
           K == Holds(R, q, o[s], w)
<1>1. /\ R \in [Crtcs -> Ids] /\ o \in [Slots -> Ids] /\ o[s] \in Ids /\ w \in Ids /\ 0 \in Ids
      /\ Placed(F, H) /\ q \in [Slots -> Ids]
      /\ \A t \in Slots : q[t] = IF t = s THEN 0 ELSE o[t]
  BY IdFacts DEF Owned
<1>2. /\ FbAt \in Places /\ FlipAt(s) \in Places /\ FbAt # FlipAt(s)
      /\ H[FbAt] = 0 /\ H[FlipAt(s)] = o[s]
  BY <1>1, PlacesApart, HoldsAt
<1> HIDE DEF q
<1>3. \A u \in Places : Holds(R, q, 0, w)[u] = IF u = FlipAt(s) THEN 0 ELSE H[u]
  <2> HIDE DEF K
  <2>1. /\ o \in [Slots -> Ids] /\ 0 \in Ids /\ q \in [Slots -> Ids]
        /\ \A t \in Slots : q[t] = IF t = s THEN 0 ELSE o[t]
    BY <1>1
  <2>2. QED
    BY <2>1, HoldsFlip
<1>4. \A u \in Places : K[u] = IF u = FbAt THEN o[s] ELSE Holds(R, q, 0, w)[u]
  BY PlacesApart DEF Holds
<1>5. K \in [Places -> Ids]
  BY <1>1, <1>3, HoldsAt
<1> HIDE DEF H, K
<1>6. \A u \in Places : K[u] = IF u = FlipAt(s) THEN 0 ELSE IF u = FbAt THEN H[FlipAt(s)] ELSE H[u]
  BY <1>2, <1>3, <1>4
<1>7. Placed(F, K)
  BY <1>1, <1>2, <1>5, <1>6, MovePlaced
<1>8. Owned(F, R, q, o[s], w)
  BY <1>1, <1>3, <1>7 DEF Owned, K
<1>9. QED
  BY <1>8 DEF q

\* or is removed with it;
LEMMA OldGoesOwned ==
    ASSUME NEW F, NEW R, NEW o, NEW id, NEW w, Owned(F, R, o, id, w), NEW s \in Slots
    PROVE  Owned(RmFB(F, o[s]), R, [o EXCEPT ![s] = 0], id, w)
<1> DEFINE q == [o EXCEPT ![s] = 0]
           H == Holds(R, o, id, w)
           K == Holds(R, q, id, w)
<1>1. /\ R \in [Crtcs -> Ids] /\ o \in [Slots -> Ids] /\ id \in Ids /\ w \in Ids /\ 0 \in Ids
      /\ Placed(F, H) /\ q \in [Slots -> Ids]
      /\ \A t \in Slots : q[t] = IF t = s THEN 0 ELSE o[t]
  BY IdFacts DEF Owned
<1>2. FlipAt(s) \in Places /\ H[FlipAt(s)] = o[s]
  BY <1>1, PlacesApart, HoldsAt
<1> HIDE DEF q
<1>3. \A u \in Places : K[u] = IF u = FlipAt(s) THEN 0 ELSE H[u]
  BY <1>1, HoldsFlip
<1>4. K \in [Places -> Ids]
  BY <1>1, <1>3, HoldsAt
<1> HIDE DEF H, K
<1>5. Placed(RmFB(F, H[FlipAt(s)]), K)
  BY <1>1, <1>2, <1>3, <1>4, RemovePlaced
<1>6. Owned(RmFB(F, o[s]), R, q, id, w)
  BY <1>1, <1>2, <1>3, <1>5 DEF Owned, K
<1>7. QED
  BY <1>6 DEF q

\* or to a resize,
LEMMA FrontToResize ==
    ASSUME NEW F, NEW R, NEW o, NEW id, Owned(F, R, o, id, 0)
    PROVE  Owned(F, R, o, 0, id)
<1> DEFINE H == Holds(R, o, id, 0)
           K == Holds(R, o, 0, id)
<1>1. /\ R \in [Crtcs -> Ids] /\ o \in [Slots -> Ids] /\ id \in Ids /\ 0 \in Ids
      /\ Placed(F, H)
  BY DEF Owned
<1>2. /\ FbAt \in Places /\ ResizeAt \in Places /\ FbAt # ResizeAt
      /\ H[FbAt] = id /\ H[ResizeAt] = 0
  BY <1>1, PlacesApart, HoldsAt
<1>3. \A u \in Places : K[u] = IF u = FbAt THEN 0 ELSE IF u = ResizeAt THEN id ELSE H[u]
  BY PlacesApart DEF Holds
<1>4. K \in [Places -> Ids]
  BY <1>1, HoldsAt
<1> HIDE DEF H, K
<1>5. Placed(F, K)
  BY <1>1, <1>2, <1>3, <1>4, MovePlaced
<1>6. QED
  BY <1>1, <1>5 DEF Owned, K

\* and is removed with that.
LEMMA ResizeGoesOwned ==
    ASSUME NEW F, NEW R, NEW o, NEW id, NEW w, Owned(F, R, o, id, w)
    PROVE  Owned(RmFB(F, w), R, o, id, 0)
<1> DEFINE H == Holds(R, o, id, w)
           K == Holds(R, o, id, 0)
<1>1. /\ R \in [Crtcs -> Ids] /\ o \in [Slots -> Ids] /\ id \in Ids /\ w \in Ids /\ 0 \in Ids
      /\ Placed(F, H)
  BY IdFacts DEF Owned
<1>2. ResizeAt \in Places /\ H[ResizeAt] = w
  BY <1>1, PlacesApart, HoldsAt
<1>3. \A u \in Places : K[u] = IF u = ResizeAt THEN 0 ELSE H[u]
  BY PlacesApart DEF Holds
<1>4. K \in [Places -> Ids]
  BY <1>1, HoldsAt
<1> HIDE DEF H, K
<1>5. Placed(RmFB(F, H[ResizeAt]), K)
  BY <1>1, <1>2, <1>3, <1>4, RemovePlaced
<1>6. QED
  BY <1>1, <1>2, <1>5 DEF Owned, K

-----------------------------------------------------------------------------
(* The set of a mode *)

\* The shadow that a CRTC has no use for goes, the one that it needs comes, and fb_id is imported.
LEMMA SetModeOwned ==
    ASSUME NEW id, NEW o, NEW w, NEW F, NEW B, Owned(F, rotate_fb_id, o, id, w),
           NEW c \in Crtcs, NEW r \in BOOLEAN, NEW out \in Outcomes,
           SetModeFrom(F, B, id, c, r, out)
    PROVE  Owned(fbs', rotate_fb_id', o, fb_id', w) /\ (id # 0 => fb_id' = id)
<1> DEFINE gone   == drmmode_shadow_destroy(c, r)
           fbs1   == RmFB(F, gone)
           shadow == drmmode_shadow_create(fbs1, c, r, out)
           fbs2   == IF shadow \in {0, rotate_fb_id[c]} THEN fbs1 ELSE fbs1 \cup {shadow}
           needs  == NeedsImport(id, shadow, out) /\ out # "no framebuffer"
           front  == IF needs THEN NewFb(fbs2) ELSE id
           R1     == [rotate_fb_id EXCEPT ![c] = IF r THEN rotate_fb_id[c] ELSE 0]
           R2     == [rotate_fb_id EXCEPT ![c] = shadow]
<1>1. /\ rotate_fb_id' = R2 /\ fb_id' = front
      /\ fbs' = IF front # id THEN fbs2 \cup {front} ELSE fbs2
      /\ out = "no shadow" => r /\ rotate_fb_id[c] = 0
  BY DEF SetModeFrom
<1>2. rotate_fb_id \in [Crtcs -> Ids] /\ F \subseteq FbIds
  BY DEF Owned, Placed
<1>3. R1 \in [Crtcs -> Ids] /\ R1[c] = (IF r THEN rotate_fb_id[c] ELSE 0)
  BY <1>2, IdFacts
<1>4. Owned(fbs1, R1, o, id, w)
  <2>1. CASE r
    <3>1. R1 = rotate_fb_id /\ gone = 0
      BY <1>2, <2>1 DEF drmmode_shadow_destroy
    <3>2. fbs1 = F
      BY <1>2, <3>1, IdFacts DEF RmFB
    <3>3. QED
      BY <3>1, <3>2
  <2>2. CASE ~r
    <3>1. gone = rotate_fb_id[c] /\ R1 = [rotate_fb_id EXCEPT ![c] = 0]
      BY <2>2 DEF drmmode_shadow_destroy
    <3>2. Owned(RmFB(F, rotate_fb_id[c]), [rotate_fb_id EXCEPT ![c] = 0], o, id, w)
      BY ShadowGoes
    <3>3. QED
      BY <3>1, <3>2, Zenon
  <2>3. QED
    BY <2>1, <2>2
<1>5. shadow = R1[c] \/ (shadow = NewFb(fbs1) /\ r /\ rotate_fb_id[c] = 0 /\ R1[c] = 0)
  BY <1>1, <1>3 DEF drmmode_shadow_create
<1> HIDE DEF gone, shadow, fbs1
<1>6. Owned(fbs2, R2, o, id, w)
  <2>1. CASE shadow = R1[c]
    <3>1. R2 = R1 /\ fbs2 = fbs1
      BY <1>3, <2>1
    <3>2. QED
      BY <1>4, <3>1, Zenon
  <2>2. CASE shadow = NewFb(fbs1) /\ r /\ rotate_fb_id[c] = 0 /\ R1[c] = 0
    <3> HIDE DEF R1
    <3>1. /\ NewFb(fbs1) \in FbIds
          /\ Owned(fbs1 \cup {NewFb(fbs1)}, [R1 EXCEPT ![c] = NewFb(fbs1)], o, id, w)
      BY <1>4, <2>2, ShadowComes
    <3>2. R2 = [R1 EXCEPT ![c] = NewFb(fbs1)]
      BY <2>2 DEF R1
    <3>3. fbs2 = fbs1 \cup {NewFb(fbs1)}
      BY <2>2, <3>1, IdFacts
    <3>4. QED
      BY <3>1, <3>2, <3>3, Zenon
  <2>3. QED
    BY <1>5, <2>1, <2>2
<1> HIDE DEF R1, R2, fbs2
<1>7. Owned(fbs', R2, o, front, w) /\ (id # 0 => front = id)
  <2>1. CASE needs
    <3>1. id = 0 /\ front = NewFb(fbs2)
      BY <2>1 DEF NeedsImport
    <3>2. Owned(fbs2, R2, o, 0, w)
      BY <1>6, <3>1, Zenon
    <3>3. NewFb(fbs2) \in FbIds /\ Owned(fbs2 \cup {NewFb(fbs2)}, R2, o, NewFb(fbs2), w)
      BY <3>2, FrontComes
    <3>4. front # id /\ fbs' = fbs2 \cup {NewFb(fbs2)}
      BY <1>1, <3>1, <3>3, IdFacts
    <3>5. QED
      BY <3>1, <3>3, <3>4
  <2>2. CASE ~needs
    <3>1. front = id
      BY <2>2
    <3>2. QED
      BY <1>1, <1>6, <3>1
  <2>3. QED
    BY <2>1, <2>2
<1>8. QED
  BY <1>1, <1>7, Zenon

\* The CRTC displays its framebuffer if the mode was set; the others lose what they
\* display only if it was the shadow that went.
LEMMA SetModeBound ==
    ASSUME NEW F, NEW B \in [Crtcs -> Int], NEW id \in Ids, rotate_fb_id \in [Crtcs -> Ids],
           fb_id' \in Ids, rotate_fb_id' \in [Crtcs -> Ids],
           NEW c \in Crtcs, NEW r \in BOOLEAN, NEW out \in Outcomes,
           SetModeFrom(F, B, id, c, r, out)
    PROVE  /\ bound' \in [Crtcs -> Int]
           /\ out = "set" => bound'[c] = IF rotate_fb_id'[c] # 0 THEN rotate_fb_id'[c] ELSE fb_id'
           /\ \A d \in Crtcs \ {c} :
                bound'[d] = B[d] \/ (B[d] # Dark /\ B[d] = rotate_fb_id[c])
           /\ \A d \in Crtcs \ {c} : rotate_fb_id'[d] = rotate_fb_id[d]
<1> DEFINE gone   == drmmode_shadow_destroy(c, r)
           shadow == drmmode_shadow_create(RmFB(F, gone), c, r, out)
<1>1. /\ rotate_fb_id' = [rotate_fb_id EXCEPT ![c] = shadow]
      /\ bound' = IF out = "set"
                  THEN [Without(B, gone) EXCEPT ![c] = IF shadow # 0 THEN shadow ELSE fb_id']
                  ELSE Without(B, gone)
  BY DEF SetModeFrom
<1>2. rotate_fb_id'[c] = shadow /\ \A d \in Crtcs \ {c} : rotate_fb_id'[d] = rotate_fb_id[d]
  BY <1>1
<1>3. shadow \in Ids
  BY <1>2
<1>4. gone \in {0, rotate_fb_id[c]}
  BY DEF drmmode_shadow_destroy
<1> HIDE DEF gone, shadow
<1>5. /\ Without(B, gone) \in [Crtcs -> Int]
      /\ \A d \in Crtcs : Without(B, gone)[d] = B[d] \/ (B[d] = gone /\ gone # 0)
  BY IdFacts DEF Without
<1>6. bound' \in [Crtcs -> Int]
  <2>1. (IF shadow # 0 THEN shadow ELSE fb_id') \in Int
    BY <1>3, IdFacts
  <2>2. QED
    BY <1>1, <1>5, <2>1
<1>7. \A d \in Crtcs \ {c} : bound'[d] = Without(B, gone)[d]
  BY <1>1, <1>5
<1>8. out = "set" => bound'[c] = IF shadow # 0 THEN shadow ELSE fb_id'
  BY <1>1, <1>5
<1>9. QED
  BY <1>2, <1>4, <1>5, <1>6, <1>7, <1>8 DEF Dark

\* fb_id is of the buffer that it was of, or of the front BO if it is new.
LEMMA SetModeBuffer ==
    ASSUME fb_bo \in Int, NEW F, NEW B, NEW id, NEW c, NEW r, NEW out,
           SetModeFrom(F, B, id, c, r, out)
    PROVE  /\ fb_bo' \in Int
           /\ id # 0 => fb_bo' = fb_bo
           /\ id = 0 /\ fb_id' # 0 => fb_bo' = Front
<1>1. PICK front : /\ fb_id' = front
                   /\ front = id \/ id = 0
                   /\ fb_bo' = IF front # id THEN Front ELSE IF id = 0 THEN NoBo ELSE fb_bo
  BY DEF SetModeFrom, NeedsImport
<1>2. CASE front # id
  BY <1>1, <1>2, IdFacts
<1>3. CASE front = id
  BY <1>1, <1>3, IdFacts
<1>4. QED
  BY <1>2, <1>3

-----------------------------------------------------------------------------
(* Every framebuffer has one owner *)

\* At start fb_id owns the only framebuffer, drmmode_create_initial_bos made it.
LEMMA OwnInit == Init => OwnInv
<1> SUFFICES ASSUME Init PROVE OwnInv
  OBVIOUS
<1>1. work.op = "none" /\ work.old_fb = 0
  BY DEF Init, NoWork
<1>2. fb_id = 1 /\ fbs = {1} /\ 1 \in FbIds /\ 1 \in Ids
  BY ScanoutAssumption DEF Init, FbIds, Ids
<1>3. /\ rotate_fb_id \in [Crtcs -> Ids] /\ \A c \in Crtcs : rotate_fb_id[c] = 0
      /\ old \in [Slots -> Ids] /\ \A s \in Slots : old[s] = 0
  BY IdFacts DEF Init
<1> DEFINE H == Holds(rotate_fb_id, old, 1, 0)
<1>4. \A p \in Places : H[p] = IF p = FbAt THEN 1 ELSE 0
  BY <1>3, PlacesApart DEF Holds
<1>5. H \in [Places -> Ids]
  BY <1>2, <1>3, IdFacts, HoldsAt
<1> HIDE DEF H
<1>6. Placed({1}, H)
  BY <1>2, <1>4, <1>5, IdFacts, PlacesApart DEF Placed
<1>7. Owned(fbs, rotate_fb_id, old, fb_id, work.old_fb)
  BY <1>1, <1>2, <1>3, <1>6, IdFacts DEF Owned, H
<1>8. rotation \in [Crtcs -> BOOLEAN] /\ bound \in [Crtcs -> Int]
  BY IdFacts DEF Init
<1>9. fb_bo \in Int /\ screen_bo \in Int
  BY IdFacts DEF Init
<1>10. QED
  BY <1>1, <1>3, <1>7, <1>8, <1>9 DEF OwnInv

\* A step that leaves the framebuffers and their owners alone keeps the invariant, whatever
\* the CRTCs display.
LEMMA OwnersAlone ==
    ASSUME OwnInv, UNCHANGED <<rotation, fbs, rotate_fb_id, fbVars, old>>,
           bound' \in [Crtcs -> Int], screen_bo' \in Int, work'.old_fb = work.old_fb,
           work'.op = work.op \/ work.old_fb = 0,
           \A s \in Slots : kind'[s] = "none" => kind[s] = "none"
    PROVE  OwnInv'
BY DEF OwnInv, fbVars

\* A set of a mode keeps the invariant, from the framebuffers there are.
LEMMA SetModeKeepsOwners ==
    ASSUME OwnInv, NEW c \in Crtcs, NEW r \in BOOLEAN, NEW out \in Outcomes,
           NEW F, NEW B \in [Crtcs -> Int], NEW id,
           Owned(F, rotate_fb_id, old, id, work.old_fb),
           SetModeFrom(F, B, id, c, r, out),
           UNCHANGED <<screen_bo, old, kind>>, work'.old_fb = work.old_fb, work'.op = work.op
    PROVE  OwnInv'
<1>1. Owned(fbs', rotate_fb_id', old, fb_id', work.old_fb)
  BY SetModeOwned
<1>2. bound' \in [Crtcs -> Int] /\ fb_bo' \in Int
  <2>1. /\ id \in Ids /\ fb_id' \in Ids
        /\ rotate_fb_id \in [Crtcs -> Ids] /\ rotate_fb_id' \in [Crtcs -> Ids]
    BY <1>1 DEF Owned
  <2>2. bound' \in [Crtcs -> Int]
    BY <2>1, SetModeBound
  <2>3. QED
    BY <2>2, SetModeBuffer DEF OwnInv
<1>3. rotation' \in [Crtcs -> BOOLEAN]
  BY DEF SetModeFrom, OwnInv
<1>4. QED
  BY <1>1, <1>2, <1>3 DEF OwnInv

\* What a CRTC displays after a framebuffer has gone.
LEMMA WithoutBound ==
    ASSUME NEW B \in [Crtcs -> Int], NEW f
    PROVE  Without(B, f) \in [Crtcs -> Int]
BY IdFacts DEF Without

\* The first step of a flip: its slot holds the old framebuffer, and fb_id a new one.
LEMMA FlipKeepsOwners ==
    ASSUME CallInv, OwnInv, NEW b \in Int, NEW k \in {"flip", "unflip", "dri2"},
           ms_do_pageflip(b, k),
           UNCHANGED <<rotation, rotate_fb_id, screen_bo, bound, work>>
    PROVE  OwnInv' /\ fb_id' \in FbIds /\ fb_id' \notin fbs
<1>1. PICK s \in Slots :
         /\ kind[s] = "none" /\ kind' = [kind EXCEPT ![s] = k] /\ old' = [old EXCEPT ![s] = fb_id]
  BY FlipBegins
<1> DEFINE new == NewFb(fbs)
<1>2. fb_id' = new /\ fb_bo' = b /\ fbs' = fbs \cup {new}
  BY DEF ms_do_pageflip
<1>3. Owned(fbs, rotate_fb_id, old, fb_id, work.old_fb) /\ old[s] = 0
  BY <1>1 DEF OwnInv
<1>4. Owned(fbs, rotate_fb_id, [old EXCEPT ![s] = fb_id], 0, work.old_fb)
  BY <1>3, FrontToFlip
<1>5. Owned(fbs, rotate_fb_id, old', 0, work.old_fb)
  BY <1>1, <1>4, Zenon
<1>6. new \in FbIds /\ new \notin fbs /\ Owned(fbs \cup {new}, rotate_fb_id, old', new, work.old_fb)
  BY <1>5, FrontComes
<1>7. \A t \in Slots : kind'[t] = "none" => old'[t] = 0
  <2>1. /\ kind \in [Slots -> Kinds] /\ old \in [Slots -> Ids] /\ k # "none"
        /\ \A t \in Slots : kind[t] = "none" => old[t] = 0
    BY <1>3 DEF CallInv, OwnInv, Owned
  <2>2. QED
    BY <1>1, <2>1
<1> HIDE DEF new
<1>8. OwnInv'
  BY <1>2, <1>6, <1>7 DEF OwnInv
<1>9. QED
  BY <1>2, <1>6, <1>8

\* The return of a flip: that of a flip that is refused gives fb_id the old framebuffer back.
LEMMA ReturnKeepsOwners ==
    ASSUME CallInv, OwnInv, NEW k \in Kinds \ {"none"}, Returns(k, old[submitting]),
           UNCHANGED <<rotation, rotate_fb_id, fbVars, fbs, bound>>, screen_bo' \in Int,
           FallBack(kind[submitting]) \/ UNCHANGED work
    PROVE  OwnInv'
<1>1. submitting \in Slots /\ kind' = [kind EXCEPT ![submitting] = k] /\ Idle
      /\ old' = [old EXCEPT ![submitting] = old[submitting]]
  BY FlipReturns
<1>2. old' = old /\ \A s \in Slots : kind'[s] = "none" => kind[s] = "none"
  <2>1. kind \in [Slots -> Kinds] /\ old \in [Slots -> Ids]
    BY DEF CallInv, OwnInv, Owned
  <2>2. QED
    BY <1>1, <2>1
<1>3. work.op = "none" /\ work.old_fb = 0
  BY <1>1 DEF OwnInv, Idle
<1>4. work'.old_fb = 0
  <2>1. work' = [op |-> "unflip", crtc |-> 1, old_fb |-> 0] \/ work' = work
    BY DEF FallBack, NoWork
  <2>2. QED
    BY <1>3, <2>1
<1>5. bound' \in [Crtcs -> Int]
  BY DEF OwnInv
<1>6. QED
  BY <1>2, <1>3, <1>4, <1>5, OwnersAlone

LEMMA RefusalKeepsOwners ==
    ASSUME CallInv, OwnInv, FlipRefused
    PROVE  OwnInv'
<1> DEFINE s == submitting
<1>1. /\ s \in Slots /\ kind' = [kind EXCEPT ![s] = "none"] /\ Idle
      /\ old' = [old EXCEPT ![s] = 0]
  BY FlipReturns DEF FlipRefused
<1>2. /\ fbs' = RmFB(fbs, fb_id) /\ bound' = Without(bound, fb_id)
      /\ fb_id' = old[s] /\ fb_bo' = old_bo[s]
      /\ UNCHANGED <<rotation, rotate_fb_id, screen_bo>>
      /\ FallBack(kind[s])
  BY DEF FlipRefused, Returns, crtcVars
<1> HIDE DEF s
<1>3. Owned(fbs, rotate_fb_id, old, fb_id, work.old_fb)
  BY DEF OwnInv
<1>4. Owned(RmFB(fbs, fb_id), rotate_fb_id, old, 0, work.old_fb)
  BY <1>3, FrontGoes
<1>5. Owned(RmFB(fbs, fb_id), rotate_fb_id, [old EXCEPT ![s] = 0], old[s], work.old_fb)
  BY <1>1, <1>4, FlipToFront
<1>6. Owned(fbs', rotate_fb_id', old', fb_id', work.old_fb)
  BY <1>1, <1>2, <1>5, Zenon
<1>7. work.op = "none" /\ work.old_fb = 0
  BY <1>1 DEF OwnInv, Idle
<1>8. work'.old_fb = 0
  <2>1. work' = [op |-> "unflip", crtc |-> 1, old_fb |-> 0] \/ work' = work
    BY <1>2 DEF FallBack, NoWork
  <2>2. QED
    BY <1>7, <2>1
<1>9. bound' \in [Crtcs -> Int]
  BY <1>2, WithoutBound DEF OwnInv
<1>10. fb_bo' \in Int
  BY <1>1, <1>2 DEF CallInv
<1>11. \A t \in Slots : kind'[t] = "none" => old'[t] = 0
  <2>1. /\ kind \in [Slots -> Kinds] /\ old \in [Slots -> Ids]
        /\ \A t \in Slots : kind[t] = "none" => old[t] = 0
    BY <1>3 DEF CallInv, OwnInv, Owned
  <2>2. QED
    BY <1>1, <2>1
<1>12. QED
  BY <1>2, <1>6, <1>7, <1>8, <1>9, <1>10, <1>11 DEF OwnInv

-----------------------------------------------------------------------------

\* Every step keeps one owner for each framebuffer.
LEMMA OwnStep == CallInv /\ OwnInv /\ [Next]_vars => OwnInv'
<1> SUFFICES ASSUME CallInv, OwnInv, [Next]_vars PROVE OwnInv'
  OBVIOUS
<1> USE DEF flipVars, callVars
<1>a. /\ Owned(fbs, rotate_fb_id, old, fb_id, work.old_fb) /\ bound \in [Crtcs -> Int]
      /\ rotate_fb_id \in [Crtcs -> Ids] /\ fb_id \in Ids /\ screen_bo \in Int
  BY DEF OwnInv, Owned
<1>b. \A c \in Crtcs : rotation[c] \in BOOLEAN
  BY DEF OwnInv
<1>1. ASSUME NEW c \in Crtcs, NEW r \in BOOLEAN, NEW out \in Outcomes, RandRSet(c, r, out)
      PROVE  OwnInv'
  <2>1. SetModeFrom(fbs, bound, fb_id, c, r, out) /\ UNCHANGED <<screen_bo, old, kind, work>>
    BY <1>1 DEF RandRSet, SetMode
  <2>2. QED
    BY <1>a, <2>1, SetModeKeepsOwners
<1>2. ASSUME NEW c \in Crtcs, RandRDisable(c) PROVE OwnInv'
  <2>1. Owned(RmFB(fbs, rotate_fb_id[c]), [rotate_fb_id EXCEPT ![c] = 0], old, fb_id, work.old_fb)
    BY <1>a, ShadowGoes
  <2>2. /\ fbs' = RmFB(fbs, rotate_fb_id[c]) /\ rotate_fb_id' = [rotate_fb_id EXCEPT ![c] = 0]
        /\ bound' = IF vtSema THEN [bound EXCEPT ![c] = Dark] ELSE Without(bound, rotate_fb_id[c])
        /\ UNCHANGED <<rotation, fbVars, old, kind, screen_bo, work>>
    BY <1>2 DEF RandRDisable
  <2>3. Owned(fbs', rotate_fb_id', old, fb_id, work.old_fb)
    BY <2>1, <2>2, Zenon
  <2>4. bound' \in [Crtcs -> Int]
    BY <1>a, <2>2, WithoutBound, IdFacts
  <2>5. QED
    BY <2>2, <2>3, <2>4 DEF OwnInv, fbVars
<1>3. CASE DpmsOff
  BY <1>3, <1>a, OwnersAlone DEF DpmsOff
<1>4. CASE drmmode_set_dpms
  <2> DEFINE todo       == {c \in Crtcs : enabled[c] /\ need_modeset[c]}
             front(bad) == IF Importers(todo) \ bad # {} THEN NewFb(fbs) ELSE fb_id
  <2>0. PICK bad \in SUBSET Crtcs, done \in BOOLEAN :
          /\ fb_id' = front(bad)
          /\ fb_bo' = IF front(bad) # fb_id THEN Front ELSE fb_bo
          /\ fbs' = IF front(bad) # fb_id THEN fbs \cup {front(bad)} ELSE fbs
          /\ bound' = [c \in Crtcs |-> IF done /\ c \in todo \ bad
                          THEN IF rotate_fb_id[c] # 0 THEN rotate_fb_id[c] ELSE front(bad)
                          ELSE bound[c]]
    BY <1>4 DEF drmmode_set_dpms
  <2> DEFINE new == front(bad)
  <2>1. /\ new = IF Importers(todo) \ bad # {} THEN NewFb(fbs) ELSE fb_id
        /\ fb_id' = new
        /\ fb_bo' = IF new # fb_id THEN Front ELSE fb_bo
        /\ fbs' = IF new # fb_id THEN fbs \cup {new} ELSE fbs
        /\ bound' = [c \in Crtcs |-> IF done /\ c \in todo \ bad
                        THEN IF rotate_fb_id[c] # 0 THEN rotate_fb_id[c] ELSE new
                        ELSE bound[c]]
    BY <2>0
  <2> HIDE DEF new, front, todo
  <2>2. UNCHANGED <<rotation, rotate_fb_id, screen_bo, kind, old>> /\ xf86DPMSSet /\ Idle
    BY <1>4 DEF drmmode_set_dpms, MainLoop
  <2>3. work' = [op |-> "dpms", crtc |-> 1, old_fb |-> 0] /\ work.old_fb = 0
    BY <2>2 DEF xf86DPMSSet, NoWork, OwnInv, Idle
  <2>4. Owned(fbs', rotate_fb_id, old, new, 0)
    <3>1. CASE Importers(todo) \ bad # {}
      <4>1. fb_id = 0 /\ new = NewFb(fbs)
        BY <2>1, <3>1 DEF Importers
      <4>2. Owned(fbs, rotate_fb_id, old, 0, 0)
        BY <1>a, <2>3, <4>1, Zenon
      <4>3. /\ NewFb(fbs) \in FbIds
            /\ Owned(fbs \cup {NewFb(fbs)}, rotate_fb_id, old, NewFb(fbs), 0)
        BY <4>2, FrontComes
      <4>4. fbs' = fbs \cup {NewFb(fbs)}
        BY <2>1, <4>1, <4>3, IdFacts
      <4>5. QED
        BY <4>1, <4>3, <4>4
    <3>2. CASE Importers(todo) \ bad = {}
      <4>1. new = fb_id /\ fbs' = fbs
        BY <2>1, <3>2
      <4>2. QED
        BY <1>a, <2>3, <4>1
    <3>3. QED
      BY <3>1, <3>2
  <2>5. bound' \in [Crtcs -> Int]
    <3>1. new \in Int /\ \A c \in Crtcs : rotate_fb_id[c] \in Int
      BY <1>a, <2>4, IdFacts DEF Owned
    <3>2. QED
      BY <1>a, <2>1, <3>1
  <2>6. fb_bo' \in Int
    BY <2>1, IdFacts DEF OwnInv
  <2>7. Owned(fbs', rotate_fb_id', old', fb_id', work'.old_fb) /\ work'.op = "dpms"
    BY <2>1, <2>2, <2>3, <2>4
  <2>8. QED
    BY <2>2, <2>3, <2>5, <2>6, <2>7 DEF OwnInv
<1>5. ASSUME NEW op \in {"dpms", "enter", "unflip"}, work' = [op |-> op, crtc |-> 1, old_fb |-> 0], Idle,
             UNCHANGED <<rotation, fbs, rotate_fb_id, fbVars, old, bound, screen_bo, kind>>
      PROVE  OwnInv'
  <2>1. work'.old_fb = 0 /\ work.old_fb = 0
    BY <1>5 DEF OwnInv, Idle
  <2>2. QED
    BY <1>5, <1>a, <2>1, OwnersAlone
<1>6. CASE DpmsOnLegacy \/ EnterVT
  <2>1. \E op \in {"dpms", "enter", "unflip"} : work' = [op |-> op, crtc |-> 1, old_fb |-> 0]
    BY <1>6 DEF DpmsOnLegacy, EnterVT, xf86DPMSSet, NoWork
  <2>2. Idle /\ UNCHANGED <<rotation, fbs, rotate_fb_id, fbVars, old, bound, screen_bo, kind>>
    BY <1>6 DEF DpmsOnLegacy, EnterVT, MainLoop, crtcVars, kernelVars
  <2>3. QED
    BY <2>1, <2>2, <1>5
<1>7. ASSUME NEW op \in Loops, op # "none", NEW c \in Crtcs, Serves(op, c)
      PROVE  work'.op = work.op /\ work'.old_fb = work.old_fb /\ UNCHANGED <<screen_bo, old, kind>>
  BY <1>7, LoopServes
<1>8. ASSUME NEW op \in Loops, op # "none", NEW c \in Crtcs, Serves(op, c), SetAgain(c)
      PROVE  OwnInv'
  <2>1. PICK out \in Outcomes : SetModeFrom(fbs, bound, fb_id, c, rotation[c], out)
    BY <1>8 DEF SetAgain, SetMode
  <2>2. QED
    BY <1>7, <1>8, <1>a, <1>b, <2>1, SetModeKeepsOwners
<1>9. ASSUME NEW c \in Crtcs, drmmode_output_dpms(c) \/ ResizeCrtc(c) PROVE OwnInv'
  BY <1>8, <1>9 DEF drmmode_output_dpms, ResizeCrtc, Loops
<1>10. ASSUME NEW c \in Crtcs, drmmode_set_desired_modes(c) PROVE OwnInv'
  <2>1. Serves("enter", c) /\ "enter" \in Loops
    BY <1>10 DEF drmmode_set_desired_modes, Loops
  <2>2. CASE \E out \in Outcomes : SetModeFrom(fbs, bound, fb_id, c, rotation[c], out)
    BY <1>7, <1>a, <1>b, <2>1, <2>2, SetModeKeepsOwners
  <2>3. CASE bound' = [bound EXCEPT ![c] = Dark] /\ UNCHANGED <<crtcVars, fbVars, fbs>>
    <3>1. bound' \in [Crtcs -> Int]
      BY <1>a, <2>3, IdFacts
    <3>2. work'.op = work.op /\ work'.old_fb = work.old_fb /\ UNCHANGED <<screen_bo, old, kind>>
      BY <1>7, <2>1
    <3>3. QED
      BY <1>a, <2>3, <3>1, <3>2, OwnersAlone DEF crtcVars
  <2>4. QED
    BY <1>10, <2>2, <2>3 DEF drmmode_set_desired_modes, SetMode
<1>11. ASSUME NEW c \in Crtcs, UnflipCrtc(c) PROVE OwnInv'
  <2>1. Serves("unflip", c) /\ "unflip" \in Loops
    BY <1>11 DEF UnflipCrtc, Loops
  <2>2. Owned(RmFB(fbs, fb_id), rotate_fb_id, old, 0, work.old_fb)
    BY <1>a, FrontGoes
  <2>3. Without(bound, fb_id) \in [Crtcs -> Int]
    BY <1>a, WithoutBound
  <2>4. CASE UnflipOn(c)
    <3>1. PICK out \in Outcomes :
            SetModeFrom(RmFB(fbs, fb_id), Without(bound, fb_id), 0, c, rotation[c], out)
      BY <2>4 DEF UnflipOn
    <3>2. QED
      BY <1>7, <1>b, <2>1, <2>2, <2>3, <3>1, SetModeKeepsOwners
  <2>5. CASE UnflipOff(c)
    <3>1. /\ fb_id' = 0 /\ fb_bo' = NoBo /\ fbs' = RmFB(fbs, fb_id) /\ bound' = Without(bound, fb_id)
          /\ UNCHANGED <<rotation, rotate_fb_id>>
      BY <2>5 DEF UnflipOff
    <3>2. work'.op = work.op /\ work'.old_fb = work.old_fb /\ UNCHANGED <<screen_bo, old, kind>>
      BY <1>7, <2>1
    <3>3. QED
      BY <2>2, <2>3, <3>1, <3>2, IdFacts DEF OwnInv
  <2>6. QED
    BY <1>11, <2>4, <2>5 DEF UnflipCrtc
<1>12. CASE LoopEnds
  <2>1. /\ fbs' = RmFB(fbs, work.old_fb) /\ bound' = Without(bound, work.old_fb)
        /\ work'.op = "none" /\ work'.old_fb = 0
        /\ UNCHANGED <<rotation, rotate_fb_id, fbVars, screen_bo, old, kind>>
    BY <1>12 DEF LoopEnds, LoopTells, NoWork, crtcVars
  <2>2. Owned(RmFB(fbs, work.old_fb), rotate_fb_id, old, fb_id, 0)
    BY <1>a, ResizeGoesOwned
  <2>3. bound' \in [Crtcs -> Int]
    BY <1>a, <2>1, WithoutBound
  <2>4. QED
    BY <2>1, <2>2, <2>3 DEF OwnInv, fbVars
<1>13. CASE drmmode_xf86crtc_resize
  <2>1. /\ screen_bo' = Front /\ fb_id' = 0 /\ fb_bo' = NoBo
        /\ work' = [op |-> "resize", crtc |-> 1, old_fb |-> fb_id] /\ work.op = "none"
        /\ UNCHANGED <<rotation, rotate_fb_id, fbs, bound, old, kind>>
    BY <1>13 DEF drmmode_xf86crtc_resize, MainLoop, Idle, crtcVars, kernelVars
  <2>2. Owned(fbs, rotate_fb_id, old, fb_id, 0)
    BY <1>a, <2>1 DEF OwnInv
  <2>3. Owned(fbs, rotate_fb_id, old, 0, fb_id)
    BY <2>2, FrontToResize
  <2>4. work'.op = "resize" /\ work'.old_fb = fb_id
    BY <2>1
  <2>5. QED
    BY <2>1, <2>3, <2>4, IdFacts DEF OwnInv
<1>14. CASE LeaveVT
  <2>1. bound' \in [Crtcs -> Int]
    BY <1>14, IdFacts DEF LeaveVT
  <2>2. QED
    BY <1>14, <1>a, <2>1, OwnersAlone DEF LeaveVT, crtcVars
<1>15. CASE ms_present_flip
  <2>1. Pixmap \in Int
    BY ScanoutAssumption DEF Pixmap
  <2>2. /\ ms_do_pageflip(Pixmap, "flip")
        /\ UNCHANGED <<rotation, rotate_fb_id, screen_bo, bound, work>>
    BY <1>15 DEF ms_present_flip, crtcVars
  <2>3. QED
    BY <2>1, <2>2, FlipKeepsOwners
<1>16. CASE ms_present_unflip
  <2>1. Idle /\ UNCHANGED <<rotation, rotate_fb_id, screen_bo, bound>>
    BY <1>16 DEF ms_present_unflip, crtcVars
  <2>2. CASE ms_do_pageflip(screen_bo, "unflip") /\ UNCHANGED work
    BY <1>a, <2>1, <2>2, FlipKeepsOwners
  <2>3. CASE FallBack("unflip") /\ UNCHANGED <<fbs, fbVars, callVars>>
    <3>1. work' = [op |-> "unflip", crtc |-> 1, old_fb |-> 0]
      BY <2>3 DEF FallBack, NoWork
    <3>2. QED
      BY <1>5, <2>1, <2>3, <3>1
  <2>4. QED
    BY <1>16, <2>2, <2>3 DEF ms_present_unflip
<1>17. CASE ms_dri2_schedule_flip
  <2>1. PICK b \in BackBos : ms_do_pageflip(b, "dri2")
    BY <1>17 DEF ms_dri2_schedule_flip
  <2>2. b \in Int
    BY ScanoutAssumption DEF BackBos, Windows, Front
  <2>3. UNCHANGED <<rotation, rotate_fb_id, screen_bo, bound, work>>
    BY <1>17 DEF ms_dri2_schedule_flip, crtcVars
  <2>4. QED
    BY <2>1, <2>2, <2>3, FlipKeepsOwners
<1>18. ASSUME NEW c \in Crtcs, queue_flip_on_crtc(c) PROVE OwnInv'
  <2>1. bound' = [bound EXCEPT ![c] = fb_id]
        /\ UNCHANGED <<rotation, rotate_fb_id, fbVars, screen_bo, fbs, kind, old, work>>
    BY <1>18 DEF queue_flip_on_crtc, crtcVars
  <2>2. bound' \in [Crtcs -> Int]
    BY <1>a, <2>1, IdFacts
  <2>3. QED
    BY <1>a, <2>1, <2>2, OwnersAlone
<1>19. CASE FlipAccepted
  <2>1. /\ Returns(kind[submitting], old[submitting])
        /\ UNCHANGED <<rotation, rotate_fb_id, fbVars, fbs, bound, work>>
        /\ screen_bo' \in {screen_bo, buf[submitting]}
    BY <1>19 DEF FlipAccepted, Returns, crtcVars
  <2>2. submitting \in Slots /\ kind[submitting] \in Kinds \ {"none"}
    BY <2>1, FlipReturns DEF Kinds
  <2>3. screen_bo' \in Int
    BY <1>a, <2>1, <2>2 DEF CallInv
  <2>4. QED
    BY <2>1, <2>2, <2>3, ReturnKeepsOwners
<1>20. CASE FlipRefused
  BY <1>20, RefusalKeepsOwners
<1>21. ASSUME NEW c \in Crtcs, FlipHalfDone(c) PROVE OwnInv'
  <2>1. /\ Returns(Late(kind[submitting]), old[submitting]) /\ FallBack(kind[submitting])
        /\ UNCHANGED <<rotation, rotate_fb_id, fbVars, fbs, bound, screen_bo>>
    BY <1>21 DEF FlipHalfDone, Returns, crtcVars
  <2>2. Late(kind[submitting]) \in Kinds \ {"none"}
    BY <2>1, FlipReturns DEF Late, Kinds
  <2>3. screen_bo' \in Int
    BY <1>a, <2>1
  <2>4. QED
    BY <2>1, <2>2, <2>3, ReturnKeepsOwners
<1>22. ASSUME NEW s \in Slots, FlipDone(s) PROVE OwnInv'
  <2>1. /\ fbs' = RmFB(fbs, old[s]) /\ bound' = Without(bound, old[s])
        /\ old' = [old EXCEPT ![s] = 0]
        /\ UNCHANGED <<rotation, rotate_fb_id, fbVars, screen_bo, work>>
    BY <1>22 DEF FlipDone, OldGoes, crtcVars
  <2>2. kind' = [kind EXCEPT ![s] = "none"]
    BY <1>22, EventCalls DEF FlipDone
  <2>3. Owned(RmFB(fbs, old[s]), rotate_fb_id, [old EXCEPT ![s] = 0], fb_id, work.old_fb)
    BY <1>a, OldGoesOwned
  <2>4. Owned(fbs', rotate_fb_id', old', fb_id', work'.old_fb)
    BY <2>1, <2>3 DEF fbVars
  <2>5. bound' \in [Crtcs -> Int]
    BY <1>a, <2>1, WithoutBound
  <2>6. \A t \in Slots : kind'[t] = "none" => old'[t] = 0
    <3>1. /\ kind \in [Slots -> Kinds] /\ old \in [Slots -> Ids]
          /\ \A t \in Slots : kind[t] = "none" => old[t] = 0
      BY DEF CallInv, OwnInv, Owned
    <3>2. QED
      BY <2>1, <2>2, <3>1
  <2>7. QED
    BY <2>1, <2>4, <2>5, <2>6 DEF OwnInv, fbVars
<1>23. CASE UNCHANGED vars
  BY <1>23, <1>a, OwnersAlone DEF vars, crtcVars, kernelVars
<1>24. QED
  BY <1>1, <1>2, <1>3, <1>4, <1>6, <1>9, <1>10, <1>11, <1>12, <1>13, <1>14, <1>15, <1>16,
     <1>17, <1>18, <1>19, <1>20, <1>21, <1>22, <1>23 DEF Next

-----------------------------------------------------------------------------

\* Of those that hold what only one of them may hold there is one or none.
LEMMA OneOrNone ==
    ASSUME NEW S, \A x, y \in S : x = y
    PROVE  Cardinality(S) = IF S = {} THEN 0 ELSE 1
<1>1. CASE S = {}
  BY <1>1, FS_EmptySet
<1>2. CASE S # {}
  <2>1. PICK x \in S : S = {x}
    BY <1>2
  <2>2. QED
    BY <1>2, <2>1, FS_Singleton
<1>3. QED
  BY <1>1, <1>2

\* A framebuffer has one owner if it exists, and none if it does not.
LEMMA OwnersCount ==
    ASSUME OwnInv, NEW f \in FbIds
    PROVE  Owners(f) = IF f \in fbs THEN 1 ELSE 0
<1> DEFINE S == {c \in Crtcs : rotate_fb_id[c] = f}
           T == {s \in Slots : old[s] = f}
           H == Holds(rotate_fb_id, old, fb_id, work.old_fb)
<1>1. /\ rotate_fb_id \in [Crtcs -> Ids] /\ old \in [Slots -> Ids]
      /\ fb_id \in Ids /\ work.old_fb \in Ids /\ Placed(fbs, H) /\ f # 0
  BY IdFacts DEF OwnInv, Owned
<1>2. /\ \A c \in Crtcs : c \in Places /\ H[c] = rotate_fb_id[c]
      /\ \A s \in Slots : FlipAt(s) \in Places \ Crtcs /\ H[FlipAt(s)] = old[s]
                          /\ FlipAt(s) \notin {FbAt, ResizeAt} /\ FlipAt(s) - NumCrtcs = s
      /\ FbAt \in Places \ Crtcs /\ H[FbAt] = fb_id
      /\ ResizeAt \in Places \ Crtcs /\ H[ResizeAt] = work.old_fb /\ FbAt # ResizeAt
  BY <1>1, PlacesApart, HoldsAt
<1>3. \A p \in Places : p \in Crtcs \/ p = FbAt \/ p = ResizeAt \/ \E s \in Slots : p = FlipAt(s)
  BY PlacesApart
<1> HIDE DEF H
<1>4. /\ \A p, q \in Places : H[p] = f /\ H[q] = f => p = q
      /\ f \in fbs <=> \E p \in Places : H[p] = f
  BY <1>1 DEF Placed
<1>5. \A c, d \in S : c = d
  BY <1>2, <1>4
<1>6. \A s, t \in T : s = t
  <2> SUFFICES ASSUME NEW s \in T, NEW t \in T PROVE s = t
    OBVIOUS
  <2>1. FlipAt(s) = FlipAt(t)
    BY <1>2, <1>4
  <2>2. QED
    BY <1>2, <2>1
<1> DEFINE i == IF fb_id = f THEN 1 ELSE 0
           j == IF S = {} THEN 0 ELSE 1
           k == IF T = {} THEN 0 ELSE 1
           l == IF work.old_fb = f THEN 1 ELSE 0
<1>7. Owners(f) = i + j + k + l
  <2>1. Cardinality(S) = j /\ Cardinality(T) = k
    BY <1>5, <1>6, OneOrNone
  <2>2. QED
    BY <2>1 DEF Owners
<1>8. CASE f \notin fbs
  <2>1. i = 0 /\ j = 0 /\ k = 0 /\ l = 0
    BY <1>2, <1>4, <1>8
  <2>2. QED
    BY <1>7, <1>8, <2>1
<1>9. CASE f \in fbs
  <2>1. PICK p \in Places : H[p] = f
    BY <1>4, <1>9
  <2>2. CASE p \in Crtcs
    <3>1. i = 0 /\ j = 1 /\ k = 0 /\ l = 0
      BY <1>2, <1>4, <2>1, <2>2
    <3>2. QED
      BY <1>7, <1>9, <3>1
  <2>3. CASE p = FbAt
    <3>1. i = 1 /\ j = 0 /\ k = 0 /\ l = 0
      BY <1>2, <1>4, <2>1, <2>3
    <3>2. QED
      BY <1>7, <1>9, <3>1
  <2>4. CASE p = ResizeAt
    <3>1. i = 0 /\ j = 0 /\ k = 0 /\ l = 1
      BY <1>2, <1>4, <2>1, <2>4
    <3>2. QED
      BY <1>7, <1>9, <3>1
  <2>5. CASE \E s \in Slots : p = FlipAt(s)
    <3>1. i = 0 /\ j = 0 /\ k = 1 /\ l = 0
      BY <1>2, <1>4, <2>1, <2>5
    <3>2. QED
      BY <1>7, <1>9, <3>1
  <2>6. QED
    BY <1>3, <2>2, <2>3, <2>4, <2>5
<1>10. QED
  BY <1>8, <1>9

\* Every framebuffer of the kernel has exactly one owner that will remove it, whatever
\* becomes of modes, shadows, flips that nest, overlap, or fail, also half way, resizes and
\* VT switches: none leaks, and no owner holds an id that the kernel may have given to another.
THEOREM EveryFramebufferHasOneOwner == Spec => []OneOwner
<1>1. OwnInv => OneOwner
  BY OwnersCount DEF OneOwner
<1>2. OwnInv => fb_bo \in Int /\ screen_bo \in Int
  BY DEF OwnInv
<1>3. CallInv /\ OwnInv /\ [Next]_vars => CallInv' /\ OwnInv'
  BY <1>2, CallStep, OwnStep
<1>4. QED
  BY <1>1, <1>3, CallInit, OwnInit, PTL DEF Spec

\* No flag outlives the flips it stands for, whatever the extensions do and however flips end;
\* and as long as no two flips overlap and none is left half done, each flag says exactly that
\* its extension is flipping, and Present and DRI2 never flip at once.
THEOREM FlagsAreRight == Spec => []FlippingFlags
<1>1. FlagInv => FlippingFlags
  BY DEF FlagInv
<1>2. OwnInv => fb_bo \in Int /\ screen_bo \in Int
  BY DEF OwnInv
<1>3. CallInv /\ OwnInv /\ FlagInv /\ [Next]_vars => CallInv' /\ OwnInv' /\ FlagInv'
  BY <1>2, CallStep, OwnStep, FlagStep
<1>4. QED
  BY <1>1, <1>3, CallInit, OwnInit, FlagInit, PTL DEF Spec

-----------------------------------------------------------------------------
(* What is drawn is seen *)

\* The innermost flip is one of those that are being submitted.
LEMMA SubmittingIsOne ==
    ASSUME CallInv, stack # <<>>
    PROVE  submitting \in Submitted /\ submitting \in Slots
<1>1. stack \in Seq(Slots)
  BY DEF CallInv
<1>2. Len(stack) \in Nat /\ Len(stack) >= 1
  BY <1>1
<1>3. QED
  BY <1>1, <1>2 DEF submitting, Submitted

LEMMA ScreenInit == Init => ScreenInv
<1> SUFFICES ASSUME Init PROVE ScreenInv
  OBVIOUS
<1>1. /\ stack = <<>> /\ nested = FALSE /\ work.op = "none"
      /\ fb_bo = screen_bo
  BY DEF Init, NoWork
<1>2. QED
  BY <1>1 DEF ScreenInv, Right

\* A step of the main loop or of a loop that is not an unflip's: fb_id stays, is cleared, or
\* comes to be of the front BO.
LEMMA ScreenAlone ==
    ASSUME ScreenInv, stack = <<>>, work.op # "unflip", work'.op # "unflip",
           UNCHANGED <<stack, kind, nested, screen_bo, present, astray>>,
           fb_id' = 0 \/ fb_bo' = Front \/ UNCHANGED fbVars
    PROVE  ScreenInv'
<1>1. Submitted' = Submitted
  BY DEF Submitted
<1>2. Leaves' => Leaves
  BY <1>1 DEF Leaves, Pending
<1>3. Right(fb_id, fb_bo) => Right(fb_id, fb_bo)'
  BY DEF Right, fbVars
<1>4. fb_id' = 0 \/ fb_bo' = Front => Right(fb_id, fb_bo)'
  BY DEF Right
<1>5. stack' = <<>> /\ work'.op # "unflip" /\ Leaves' /\ ~astray' => Right(fb_id, fb_bo)'
  <2>1. CASE UNCHANGED fbVars
    <3>1. Right(fb_id, fb_bo)' <=> Right(fb_id, fb_bo)
      BY <2>1 DEF Right, fbVars
    <3>2. QED
      BY <1>2, <3>1 DEF ScreenInv
  <2>2. QED
    BY <1>4, <2>1
<1>6. QED
  BY <1>5 DEF ScreenInv

\* The mode of a CRTC is set.
LEMMA SetModeScreen ==
    ASSUME OwnInv, ScreenInv, stack = <<>>, work.op # "unflip", work'.op # "unflip",
           UNCHANGED <<stack, kind, nested, screen_bo, present, astray>>,
           NEW c, NEW r, NEW out, SetMode(c, r, out)
    PROVE  ScreenInv'
<1>1. fb_id' = 0 \/ fb_bo' = Front \/ UNCHANGED fbVars
  <2>1. PICK front : /\ fb_id' = front
                     /\ front = fb_id \/ fb_id = 0
                     /\ fb_bo' = IF front # fb_id THEN Front ELSE IF fb_id = 0 THEN NoBo ELSE fb_bo
    BY DEF SetMode, SetModeFrom, NeedsImport
  <2>2. QED
    BY <2>1 DEF fbVars
<1>2. QED
  BY <1>1, ScreenAlone

\* The first step of a flip: what it holds is what fb_id was.
LEMMA ScreenBegins ==
    ASSUME CallInv, ScreenInv, NEW b \in Int, NEW k \in {"flip", "unflip", "dri2"},
           ms_do_pageflip(b, k), old \in [Slots -> Ids],
           k = "unflip" => b = screen_bo,
           UNCHANGED <<screen_bo, astray, work>>,
           present' = "idle" => present = "idle"
    PROVE  ScreenInv'
<1>1. PICK s \in Slots :
         /\ kind[s] = "none" /\ s \notin Submitted
         /\ Submitted' = Submitted \cup {s}
         /\ stack' # <<>> /\ submitting' = s /\ stack' \in Seq(Slots)
         /\ Len(stack) \in Nat /\ Len(stack') = Len(stack) + 1
         /\ kind' = [kind EXCEPT ![s] = k]
         /\ buf' = [buf EXCEPT ![s] = b]
         /\ old' = [old EXCEPT ![s] = fb_id]
         /\ old_bo' = [old_bo EXCEPT ![s] = fb_bo]
  BY FlipBegins
<1>2. Idle /\ nested' = (stack # <<>>) /\ fb_bo' = b
  BY DEF ms_do_pageflip
<1>3. /\ kind \in [Slots -> Kinds] /\ buf \in [Slots -> Int] /\ old_bo \in [Slots -> Int]
      /\ stack \in Seq(Slots)
  BY DEF CallInv
<1>4. Len(stack') # 1 => nested'
  <2>1. stack = <<>> => Len(stack) = 0
    OBVIOUS
  <2>2. ASSUME stack = <<>> PROVE Len(stack') = 1
    <3>1. Len(stack) = 0
      BY <2>1, <2>2
    <3>2. QED
      BY <1>1, <3>1
  <2>3. QED
    BY <1>2, <2>2
<1>5. Leaves' => Leaves
  <2>1. ASSUME NEW t \in Slots, Pending(t)', kind'[t] = "unflip"
        PROVE  Pending(t) /\ kind[t] = "unflip"
    <3>1. t # s /\ t \notin Submitted
      BY <1>1, <2>1 DEF Pending
    <3>2. kind'[t] = kind[t]
      BY <1>1, <1>3, <3>1
    <3>3. QED
      BY <2>1, <3>1, <3>2 DEF Pending
  <2>2. QED
    BY <2>1 DEF Leaves
<1>6. ASSUME ~nested' PROVE AloneRight'
  <2>1. stack = <<>> /\ work.op # "unflip"
    BY <1>2, <1>6 DEF Idle
  <2>2. buf'[s] = b /\ kind'[s] = k /\ old'[s] = fb_id /\ old_bo'[s] = fb_bo
    BY <1>1, <1>3
  <2>3. Leaves' /\ ~astray' => Right(fb_id, fb_bo)
    BY <1>5, <2>1 DEF ScreenInv
  <2>4. Right(old[submitting], old_bo[submitting])' <=> Right(fb_id, fb_bo)
    BY <1>1, <2>2 DEF Right
  <2>5. QED
    BY <1>1, <1>2, <2>2, <2>3, <2>4 DEF AloneRight
<1>7. QED
  BY <1>1, <1>2, <1>4, <1>6 DEF ScreenInv, Idle

\* A return: within another flip all that matters is that it is nested.
LEMMA ScreenReturns ==
    ASSUME CallInv, ScreenInv, NEW k, NEW o, Returns(k, o),
           FallBack(kind[submitting]) \/ UNCHANGED work,
           stack' = <<>> /\ work'.op # "unflip" /\ Leaves' /\ ~astray' => Right(fb_id, fb_bo)'
    PROVE  ScreenInv'
<1>1. /\ stack \in Seq(Slots) /\ stack' \in Seq(Slots)
      /\ Len(stack) \in Nat \ {0} /\ Len(stack') = Len(stack) - 1 /\ Idle
  BY FlipReturns
<1>2. nested' = (nested /\ stack' # <<>>)
  BY DEF Returns
<1>3. stack' # <<>> => nested'
  <2>1. ASSUME stack' # <<>> PROVE Len(stack) # 1 /\ stack # <<>>
    <3>1. Len(stack') # 0
      BY <1>1, <2>1, EmptySeq
    <3>2. QED
      BY <1>1, <3>1
  <2>2. QED
    BY <1>2, <2>1 DEF ScreenInv
<1>4. work'.op = "unflip" => work'.crtc = 1
  <2>1. work' = [op |-> "unflip", crtc |-> 1, old_fb |-> 0] \/ work' = work
    BY DEF FallBack, NoWork
  <2>2. QED
    BY <1>1, <2>1 DEF Idle
<1>5. work'.op = "unflip" => \A d \in Crtcs : ~(d < work'.crtc)
  BY <1>4, ScanoutAssumption DEF Crtcs
<1>6. QED
  BY <1>2, <1>3, <1>5 DEF ScreenInv

\* A flip is accepted: it is one of Present, or of the buffer of the screen pixmap.
LEMMA ScreenAccepted == CallInv /\ FlagInv /\ ScreenInv /\ FlipAccepted => ScreenInv'
<1> SUFFICES ASSUME CallInv, FlagInv, ScreenInv, FlipAccepted PROVE ScreenInv'
  OBVIOUS
<1> DEFINE s == submitting
<1>1. /\ Returns(kind[s], old[s])
      /\ present' = IF kind[s] = "flip" THEN "flip" ELSE present
      /\ screen_bo' = IF kind[s] = "dri2" THEN buf[s] ELSE screen_bo
      /\ astray' = nested /\ UNCHANGED <<fbVars, work>>
  BY DEF FlipAccepted
<1>2. kind[s] \in Kinds /\ stack # <<>>
  BY <1>1, FlipReturns DEF Kinds, Returns
<1>3. /\ s \in Submitted /\ s \in Slots
      /\ kind[s] \in {"flip", "unflip", "dri2"}
      /\ kind'[s] = kind[s]
      /\ \A t \in Slots : t # s => kind'[t] = kind[t]
  BY <1>1, <1>2, FlagReturns
<1>4. ASSUME ~nested, Leaves' PROVE Right(fb_id, fb_bo)'
  <2>1. fb_bo = buf[s] /\ (kind[s] = "unflip" => buf[s] = screen_bo)
    BY <1>2, <1>4 DEF ScreenInv, AloneRight
  <2>2. kind[s] # "flip"
    <3>1. SUFFICES ASSUME kind[s] = "flip" PROVE FALSE
      OBVIOUS
    <3>2. present' # "idle"
      BY <1>1, <3>1
    <3>3. PICK t \in Slots : kind'[t] = "unflip"
      BY <1>4, <3>2 DEF Leaves
    <3>4. t # s /\ kind[t] = "unflip"
      BY <1>3, <3>1, <3>3
    <3>5. QED
      BY <1>3, <3>1, <3>4 DEF FlagInv, PresentInv, OfPresent
  <2>3. fb_bo' = screen_bo'
    BY <1>1, <1>3, <2>1, <2>2 DEF fbVars
  <2>4. QED
    BY <2>3 DEF Right
<1>5. ~astray' => ~nested
  BY <1>1
<1>6. QED
  BY <1>1, <1>4, <1>5, ScreenReturns

\* A flip is refused, and fb_id is what it was before.
LEMMA ScreenRefused == CallInv /\ ScreenInv /\ FlipRefused => ScreenInv'
<1> SUFFICES ASSUME CallInv, ScreenInv, FlipRefused PROVE ScreenInv'
  OBVIOUS
<1> DEFINE s == submitting
<1>1. /\ Returns("none", 0) /\ FallBack(kind[s])
      /\ fb_id' = old[s] /\ fb_bo' = old_bo[s]
      /\ astray' = (astray \/ nested) /\ UNCHANGED <<screen_bo, present>>
      /\ stack # <<>> /\ "none" \in Kinds
  BY DEF FlipRefused, flagVars, Returns, Kinds
<1>2. /\ kind'[s] = "none"
      /\ \A t \in Slots : t # s => kind'[t] = kind[t] /\ (t \in Submitted' <=> t \in Submitted)
  BY <1>1, FlagReturns
<1>3. Leaves' => Leaves
  BY <1>1, <1>2 DEF Leaves, Pending
<1>4. Right(fb_id, fb_bo)' <=> Right(old[s], old_bo[s])
  BY <1>1 DEF Right
<1>5. ~astray' => ~astray /\ ~nested
  BY <1>1
<1>6. Leaves' /\ ~astray' => Right(fb_id, fb_bo)'
  BY <1>1, <1>3, <1>4, <1>5 DEF ScreenInv, AloneRight
<1>7. QED
  BY <1>1, <1>6, ScreenReturns

\* The event of a flip: that of an unflip leaves the framebuffer to the screen.
LEMMA ScreenDone ==
    ASSUME CallInv, ScreenInv, old \in [Slots -> Ids], NEW s \in Slots, FlipDone(s)
    PROVE  ScreenInv'
<1>1. /\ Submitted' = Submitted /\ s \notin Submitted /\ Pending(s) /\ Idle
      /\ kind' = [kind EXCEPT ![s] = "none"] /\ kind \in [Slots -> Kinds]
  BY EventCalls DEF FlipDone, OldGoes, CallInv
<1>2. /\ present' = CASE kind[s] = "flip"   -> "flipping"
                      [] kind[s] = "unflip" -> "idle"
                      [] OTHER              -> present
      /\ old' = [old EXCEPT ![s] = 0]
      /\ UNCHANGED <<stack, buf, old_bo, fbVars, screen_bo, nested, work, astray>>
  BY DEF FlipDone, Handled, OldGoes
<1>3. Leaves' => Leaves
  <2>1. ASSUME NEW t \in Slots, Pending(t)', kind'[t] = "unflip"
        PROVE  Pending(t) /\ kind[t] = "unflip"
    BY <1>1, <2>1 DEF Pending
  <2>2. present' = "idle" => present = "idle" \/ kind[s] = "unflip"
    BY <1>2
  <2>3. QED
    BY <1>1, <2>1, <2>2 DEF Leaves
<1>4. Right(fb_id, fb_bo)' <=> Right(fb_id, fb_bo)
  BY <1>2 DEF Right, fbVars
<1>5. ASSUME stack # <<>>, ~nested PROVE AloneRight'
  <2>1. submitting \in Slots /\ submitting # s /\ submitting' = submitting
    BY <1>1, <1>2, <1>5, SubmittingIsOne DEF submitting
  <2>2. old'[submitting] = old[submitting] /\ kind'[submitting] = kind[submitting]
    BY <1>1, <1>2, <2>1
  <2>3. Right(old[submitting], old_bo[submitting])' <=> Right(old[submitting], old_bo[submitting])
    BY <1>2, <2>1, <2>2 DEF Right
  <2>4. AloneRight
    BY <1>5 DEF ScreenInv
  <2>5. QED
    BY <1>2, <1>3, <2>1, <2>2, <2>3, <2>4 DEF AloneRight, fbVars
<1>6. QED
  BY <1>1, <1>2, <1>3, <1>4, <1>5 DEF ScreenInv, Idle

\* A CRTC is served by the loop of an unflip: fb_id is gone, or of the front BO.
LEMMA ScreenUnflip ==
    ASSUME CallInv, OwnInv, ScreenInv, NEW c \in Crtcs, UnflipCrtc(c)
    PROVE  ScreenInv'
<1>1. /\ work.op = "unflip" /\ work'.op = "unflip"
      /\ UNCHANGED <<stack, nested>>
  <2>1. Serves("unflip", c)
    BY DEF UnflipCrtc
  <2>2. QED
    BY <2>1, LoopServes DEF flipVars, callVars
<1>2. fb_id' = 0 \/ fb_bo' = Front
  <2>1. CASE UnflipOn(c)
    <3>1. PICK out \in Outcomes :
            SetModeFrom(RmFB(fbs, fb_id), Without(bound, fb_id), 0, c, rotation[c], out)
      BY <2>1 DEF UnflipOn
    <3>2. QED
      BY <3>1, SetModeBuffer DEF OwnInv
  <2>2. CASE UnflipOff(c)
    BY <2>2 DEF UnflipOff
  <2>3. QED
    BY <2>1, <2>2 DEF UnflipCrtc
<1>3. stack # <<>> => nested
  BY <1>1 DEF ScreenInv, Idle
<1>4. QED
  BY <1>1, <1>2, <1>3 DEF ScreenInv

\* The loop of an unflip is over: it served a CRTC, or there was none, or none is enabled.
LEMMA ScreenLoopEnds == CallInv /\ ScreenInv /\ LoopEnds => ScreenInv'
<1> SUFFICES ASSUME CallInv, ScreenInv, LoopEnds PROVE ScreenInv'
  OBVIOUS
<1>1. /\ ~Idle /\ Due = {} /\ work'.op = "none"
      /\ UNCHANGED <<fbVars, screen_bo, stack, kind, nested>>
      /\ astray' = (astray \/ (work.op = "unflip" /\ fb_id # 0 /\ \A c \in Crtcs : ~enabled[c]))
  BY DEF LoopEnds, LoopTells, callVars, NoWork
<1>2. CASE work.op # "unflip"
  <2>1. stack = <<>>
    BY <1>1, <1>2 DEF CallInv, Idle
  <2>2. UNCHANGED present /\ (astray' <=> astray)
    BY <1>1, <1>2 DEF LoopEnds, LoopTells
  <2>3. Submitted' = Submitted
    BY <1>1 DEF Submitted
  <2>4. Leaves' => Leaves
    BY <1>1, <2>2, <2>3 DEF Leaves, Pending
  <2>5. Right(fb_id, fb_bo)' <=> Right(fb_id, fb_bo)
    BY <1>1 DEF Right, fbVars
  <2>6. QED
    BY <1>1, <1>2, <2>1, <2>2, <2>4, <2>5 DEF ScreenInv
<1>3. CASE work.op = "unflip"
  <2>1. fb_id = 0 \/ fb_bo = Front \/ \A d \in Crtcs : ~enabled[d]
    <3>1. \A d \in Crtcs : work.crtc <= d => ~enabled[d]
      BY <1>1, <1>3, LoopIsOver
    <3>2. \A d \in Crtcs : d < work.crtc \/ work.crtc <= d
      <4>1. work.crtc \in Int
        BY <1>1, LoopIsOver
      <4>2. QED
        BY <4>1, ScanoutAssumption DEF Crtcs
    <3>3. QED
      BY <1>3, <3>1, <3>2 DEF ScreenInv
  <2>2. ~astray' => Right(fb_id, fb_bo)'
    BY <1>1, <1>3, <2>1 DEF Right, fbVars
  <2>3. stack # <<>> => nested
    BY <1>1, <1>3 DEF ScreenInv
  <2>4. QED
    BY <1>1, <2>2, <2>3 DEF ScreenInv
<1>4. QED
  BY <1>2, <1>3

\* Whatever a step does, what is drawn is seen.
LEMMA ScreenStep == CallInv /\ FlagInv /\ OwnInv /\ ScreenInv /\ [Next]_vars => ScreenInv'
<1> SUFFICES ASSUME CallInv, FlagInv, OwnInv, ScreenInv, [Next]_vars PROVE ScreenInv'
  OBVIOUS
<1> USE DEF flipVars, callVars, flagVars
<1>a. old \in [Slots -> Ids] /\ screen_bo \in Int
  BY DEF OwnInv, Owned
<1>1. ASSUME NEW c \in Crtcs, NEW r \in BOOLEAN, NEW out \in Outcomes, RandRSet(c, r, out)
      PROVE  ScreenInv'
  <2>1. /\ stack = <<>> /\ work.op = "none" /\ SetMode(c, r, out)
        /\ UNCHANGED <<stack, kind, nested, screen_bo, present, astray, work>>
    BY <1>1 DEF RandRSet, MainLoop, Idle
  <2>2. QED
    BY <2>1, SetModeScreen
<1>2. CASE (\E c \in Crtcs : RandRDisable(c)) \/ DpmsOff \/ LeaveVT
  <2>1. /\ stack = <<>> /\ work.op = "none"
        /\ UNCHANGED <<stack, kind, nested, screen_bo, present, astray, work, fbVars>>
    BY <1>2 DEF RandRDisable, DpmsOff, LeaveVT, MainLoop, Idle
  <2>2. QED
    BY <2>1, ScreenAlone
<1>3. CASE DpmsOnLegacy \/ EnterVT
  <2>1. /\ stack = <<>> /\ work.op = "none"
        /\ UNCHANGED <<stack, kind, nested, screen_bo, present, astray, fbVars>>
    BY <1>3 DEF DpmsOnLegacy, EnterVT, MainLoop, Idle
  <2>2. \E op \in {"dpms", "enter"} : work' = [op |-> op, crtc |-> 1, old_fb |-> 0]
    BY <1>3 DEF DpmsOnLegacy, EnterVT, xf86DPMSSet, NoWork
  <2>3. work'.op # "unflip"
    BY <2>2
  <2>4. QED
    BY <2>1, <2>3, ScreenAlone
<1>4. CASE drmmode_set_dpms
  <2>1. /\ stack = <<>> /\ work.op = "none" /\ xf86DPMSSet
        /\ UNCHANGED <<stack, kind, nested, screen_bo, present, astray>>
    BY <1>4 DEF drmmode_set_dpms, MainLoop, Idle
  <2>2. work' = [op |-> "dpms", crtc |-> 1, old_fb |-> 0]
    BY <2>1 DEF xf86DPMSSet, NoWork
  <2>3. fb_id' = 0 \/ fb_bo' = Front \/ UNCHANGED fbVars
    <3>1. PICK front : fb_id' = front /\ fb_bo' = IF front # fb_id THEN Front ELSE fb_bo
      BY <1>4 DEF drmmode_set_dpms
    <3>2. QED
      BY <3>1 DEF fbVars
  <2>4. work'.op # "unflip"
    BY <2>2
  <2>5. QED
    BY <2>1, <2>3, <2>4, ScreenAlone
<1>5. ASSUME NEW op \in {"dpms", "enter", "resize"}, NEW c \in Crtcs, Serves(op, c)
      PROVE  /\ stack = <<>> /\ work.op # "unflip" /\ work'.op # "unflip"
             /\ UNCHANGED <<stack, kind, nested, screen_bo, present>>
  <2>1. /\ work.op = op /\ work'.op = op
        /\ UNCHANGED <<stack, kind, nested, screen_bo, present>>
    BY <1>5, LoopServes
  <2>2. QED
    BY <2>1 DEF CallInv
<1>6. ASSUME NEW c \in Crtcs, drmmode_output_dpms(c) \/ ResizeCrtc(c) PROVE ScreenInv'
  <2>1. PICK op \in {"dpms", "resize"} : Serves(op, c) /\ SetAgain(c)
    BY <1>6 DEF drmmode_output_dpms, ResizeCrtc
  <2>2. PICK out \in Outcomes : SetMode(c, rotation[c], out) /\ UNCHANGED astray
    BY <2>1 DEF SetAgain
  <2>3. QED
    BY <1>5, <2>1, <2>2, SetModeScreen
<1>7. ASSUME NEW c \in Crtcs, drmmode_set_desired_modes(c) PROVE ScreenInv'
  <2>1. Serves("enter", c) /\ UNCHANGED astray
    BY <1>7 DEF drmmode_set_desired_modes
  <2>2. CASE \E out \in Outcomes : SetMode(c, rotation[c], out)
    BY <1>5, <2>1, <2>2, SetModeScreen
  <2>3. CASE UNCHANGED fbVars
    BY <1>5, <2>1, <2>3, ScreenAlone
  <2>4. QED
    BY <1>7, <2>2, <2>3 DEF drmmode_set_desired_modes
<1>8. CASE drmmode_xf86crtc_resize
  <2>1. /\ stack' = <<>> /\ UNCHANGED nested /\ fb_id' = 0 /\ stack = <<>>
        /\ work' = [op |-> "resize", crtc |-> 1, old_fb |-> fb_id]
    BY <1>8 DEF drmmode_xf86crtc_resize, MainLoop
  <2>2. work'.op = "resize"
    BY <2>1
  <2>3. QED
    BY <2>1, <2>2 DEF ScreenInv, Right
<1>9. CASE ms_present_flip
  <2>1. Pixmap \in Int
    BY ScanoutAssumption DEF Pixmap
  <2>2. ms_do_pageflip(Pixmap, "flip") /\ UNCHANGED <<screen_bo, astray, work, present>>
    BY <1>9 DEF ms_present_flip
  <2>3. QED
    BY <1>a, <2>1, <2>2, ScreenBegins
<1>10. CASE ms_present_unflip
  <2>1. Idle /\ present' = "unflip" /\ UNCHANGED <<screen_bo, astray>>
    BY <1>10 DEF ms_present_unflip
  <2>2. CASE ms_do_pageflip(screen_bo, "unflip") /\ UNCHANGED work
    BY <1>a, <2>1, <2>2, ScreenBegins
  <2>3. CASE FallBack("unflip") /\ nested' = (stack # <<>>) /\ UNCHANGED <<fbVars, callVars>>
    <3>1. work' = [op |-> "unflip", crtc |-> 1, old_fb |-> 0]
      BY <2>3 DEF FallBack, NoWork
    <3>2. work'.op = "unflip" /\ \A d \in Crtcs : ~(d < work'.crtc)
      BY <3>1, ScanoutAssumption DEF Crtcs
    <3>3. QED
      BY <2>3, <3>2 DEF ScreenInv
  <2>4. QED
    BY <1>10, <2>2, <2>3 DEF ms_present_unflip
<1>11. CASE ms_dri2_schedule_flip
  <2>1. PICK b \in BackBos : ms_do_pageflip(b, "dri2")
    BY <1>11 DEF ms_dri2_schedule_flip
  <2>2. b \in Int
    BY ScanoutAssumption DEF BackBos, Windows, Front
  <2>3. UNCHANGED <<screen_bo, astray, work, present>>
    BY <1>11 DEF ms_dri2_schedule_flip
  <2>4. QED
    BY <1>a, <2>1, <2>2, <2>3, ScreenBegins
<1>12. ASSUME UNCHANGED <<stack, kind, buf, old, old_bo, nested, screen_bo, present, astray,
                          fbVars, work, enabled>>
       PROVE  ScreenInv'
  BY <1>12 DEF ScreenInv, AloneRight, Leaves, Right, Pending, Submitted, submitting, Idle, fbVars
<1>13. ASSUME NEW c \in Crtcs, queue_flip_on_crtc(c) PROVE ScreenInv'
  BY <1>12, <1>13 DEF queue_flip_on_crtc, crtcVars
<1>14. ASSUME NEW c \in Crtcs, FlipHalfDone(c) PROVE ScreenInv'
  BY <1>14, ScreenReturns DEF FlipHalfDone
<1>15. CASE UNCHANGED vars
  BY <1>12, <1>15 DEF vars, crtcVars
<1>16. ASSUME NEW s \in Slots, FlipDone(s) PROVE ScreenInv'
  BY <1>a, <1>16, ScreenDone
<1>17. QED
  BY <1>1, <1>2, <1>3, <1>4, <1>6, <1>7, <1>8, <1>9, <1>10, <1>11, <1>13, <1>14, <1>15, <1>16,
     ScreenAccepted, ScreenRefused, ScreenUnflip, ScreenLoopEnds DEF Next

\* When Present is idle, fb_id is a framebuffer of the screen pixmap's buffer, unless DRI2 has
\* exchanged that buffer or fb_id went astray, which a flip, unflip or resize puts right: whether
\* flips were accepted, refused or left half done, one within the other or side by side.
THEOREM UnflipRestoresScreen == Spec => []UnflipShowsScreen
<1>1. ScreenInv => UnflipShowsScreen
  BY DEF ScreenInv, UnflipShowsScreen, Leaves, Right, MainLoop, Idle
<1>2. OwnInv => fb_bo \in Int /\ screen_bo \in Int
  BY DEF OwnInv
<1>3. CallInv /\ OwnInv /\ FlagInv /\ ScreenInv /\ [Next]_vars
        => CallInv' /\ OwnInv' /\ FlagInv' /\ ScreenInv'
  BY <1>2, CallStep, OwnStep, FlagStep, ScreenStep
<1>4. QED
  BY <1>1, <1>3, CallInit, OwnInit, FlagInit, ScreenInit, PTL DEF Spec

-----------------------------------------------------------------------------
(* What is on is lit *)

\* What the owners hold is pairwise different.
LEMMA OwnersDiffer ==
    ASSUME NEW F, NEW R, NEW o, NEW id, NEW w, Owned(F, R, o, id, w)
    PROVE  /\ F \subseteq FbIds /\ R \in [Crtcs -> Ids] /\ o \in [Slots -> Ids] /\ id \in Ids
           /\ \A c \in Crtcs : R[c] # 0 =>
                /\ R[c] \in F /\ R[c] # id /\ R[c] # w
                /\ \A d \in Crtcs \ {c} : R[d] # R[c]
                /\ \A s \in Slots : o[s] # R[c]
           /\ id # 0 => id \in F /\ id # w /\ \A s \in Slots : o[s] # id
           /\ \A s \in Slots : o[s] # 0 => \A t \in Slots \ {s} : o[t] # o[s]
<1> DEFINE H == Holds(R, o, id, w)
<1>1. /\ R \in [Crtcs -> Ids] /\ o \in [Slots -> Ids] /\ id \in Ids /\ w \in Ids
      /\ Placed(F, H)
  BY DEF Owned
<1>2. /\ \A c \in Crtcs : c \in Places /\ H[c] = R[c]
      /\ \A s \in Slots : FlipAt(s) \in Places \ Crtcs /\ H[FlipAt(s)] = o[s]
                          /\ FlipAt(s) \notin {FbAt, ResizeAt} /\ FlipAt(s) - NumCrtcs = s
      /\ FbAt \in Places \ Crtcs /\ H[FbAt] = id
      /\ ResizeAt \in Places \ Crtcs /\ H[ResizeAt] = w /\ FbAt # ResizeAt
  BY <1>1, PlacesApart, HoldsAt
<1> HIDE DEF H
<1>3. /\ F \subseteq FbIds
      /\ \A p, q \in Places : H[p] # 0 /\ H[p] = H[q] => p = q
      /\ \A p \in Places : H[p] # 0 => H[p] \in F
  BY <1>1 DEF Placed, Ids
<1>4. ASSUME NEW c \in Crtcs, R[c] # 0
      PROVE  /\ R[c] \in F /\ R[c] # id /\ R[c] # w
             /\ \A d \in Crtcs \ {c} : R[d] # R[c]
             /\ \A s \in Slots : o[s] # R[c]
  BY <1>2, <1>3, <1>4
<1>5. ASSUME id # 0 PROVE id \in F /\ id # w /\ \A s \in Slots : o[s] # id
  BY <1>2, <1>3, <1>5
<1>6. ASSUME NEW s \in Slots, o[s] # 0, NEW t \in Slots \ {s} PROVE o[t] # o[s]
  <2>1. FlipAt(t) # FlipAt(s)
    BY <1>2
  <2>2. QED
    BY <1>2, <1>3, <1>6, <2>1
<1>7. QED
  BY <1>1, <1>3, <1>4, <1>5, <1>6

\* Nothing is behind but while a flip is being submitted.
LEMMA NotBehind ==
    ASSUME stack = <<>> \/ ~Idle, NEW c
    PROVE  ~Behind(c)
<1>1. stack = <<>> => 1..Len(stack) = {}
  OBVIOUS
<1>2. QED
  BY <1>1 DEF Behind

LEMMA LitInit == Init => LitInv
<1> SUFFICES ASSUME Init PROVE LitInv
  OBVIOUS
<1>1. work.op = "none" /\ enabled \in [Crtcs -> BOOLEAN]
  BY DEF Init, NoWork
<1>2. \A c \in Crtcs : enabled[c] => LitBy(bound, rotate_fb_id, fb_id, c) /\ active[c]
  BY DEF Init, LitBy, Dark
<1>3. /\ dpms_mode = enabled /\ active = enabled
      /\ need_modeset = [c \in Crtcs |-> FALSE] /\ blame = [c \in Crtcs |-> "none"]
  BY DEF Init
<1>4. QED
  BY <1>1, <1>2, <1>3 DEF LitInv, Fine, Excused, Shows

\* The set of a mode leaves the other CRTCs lit, and lights its own if all goes well.
LEMMA SetModeLit ==
    ASSUME NEW F, NEW B \in [Crtcs -> Int], NEW id, NEW o, NEW w,
           Owned(F, rotate_fb_id, o, id, w),
           NEW c \in Crtcs, NEW r \in BOOLEAN, NEW out \in Outcomes,
           SetModeFrom(F, B, id, c, r, out)
    PROVE  /\ out = "set" => LitBy(bound', rotate_fb_id', fb_id', c)
           /\ \A d \in Crtcs \ {c} :
                LitBy(B, rotate_fb_id, id, d) => LitBy(bound', rotate_fb_id', fb_id', d)
<1>1. Owned(fbs', rotate_fb_id', o, fb_id', w) /\ (id # 0 => fb_id' = id)
  BY SetModeOwned
<1>2. /\ id \in Ids /\ rotate_fb_id \in [Crtcs -> Ids] /\ fb_id' \in Ids
      /\ rotate_fb_id' \in [Crtcs -> Ids]
  BY <1>1 DEF Owned
<1>3. /\ out = "set" => bound'[c] = IF rotate_fb_id'[c] # 0 THEN rotate_fb_id'[c] ELSE fb_id'
      /\ \A d \in Crtcs \ {c} : bound'[d] = B[d] \/ (B[d] # Dark /\ B[d] = rotate_fb_id[c])
      /\ \A d \in Crtcs \ {c} : rotate_fb_id'[d] = rotate_fb_id[d]
  BY <1>2, SetModeBound
<1>4. out = "set" /\ rotate_fb_id'[c] = 0 => fb_id' # 0
  <2> SUFFICES ASSUME out = "set", rotate_fb_id'[c] = 0, id = 0, fb_id' = 0 PROVE FALSE
    BY <1>1
  <2> DEFINE gone   == drmmode_shadow_destroy(c, r)
             fbs1   == RmFB(F, gone)
             shadow == drmmode_shadow_create(fbs1, c, r, out)
             fbs2   == IF shadow \in {0, rotate_fb_id[c]} THEN fbs1 ELSE fbs1 \cup {shadow}
  <2>1. /\ rotate_fb_id' = [rotate_fb_id EXCEPT ![c] = shadow]
        /\ NeedsImport(id, shadow, out) => fb_id' = NewFb(fbs2)
        /\ fbs' = IF fb_id' # id THEN fbs2 \cup {fb_id'} ELSE fbs2
    BY DEF SetModeFrom
  <2> HIDE DEF gone, fbs1, shadow, fbs2
  <2>2. shadow = 0
    BY <1>2, <2>1
  <2>3. fb_id' = NewFb(fbs2) /\ fbs' = fbs2
    BY <2>1, <2>2 DEF NeedsImport
  <2>4. Owned(fbs', rotate_fb_id', o, 0, w)
    BY <1>1
  <2>5. NewFb(fbs') \in FbIds
    BY <2>4, FrontComes
  <2>6. QED
    BY <2>3, <2>5, IdFacts
<1>5. ASSUME NEW d \in Crtcs \ {c}, LitBy(B, rotate_fb_id, id, d)
      PROVE  LitBy(bound', rotate_fb_id', fb_id', d)
  <2>1. B[d] # rotate_fb_id[c]
    <3>1. rotate_fb_id[c] # 0 => rotate_fb_id[c] # id /\ rotate_fb_id[d] # rotate_fb_id[c]
      BY OwnersDiffer
    <3>2. QED
      BY <1>5, <3>1 DEF LitBy, Dark
  <2>2. bound'[d] = B[d] /\ rotate_fb_id'[d] = rotate_fb_id[d]
    BY <1>3, <2>1
  <2>3. rotate_fb_id[d] = 0 => fb_id' = id
    BY <1>1, <1>5 DEF LitBy, Dark
  <2>4. QED
    BY <1>5, <2>2, <2>3 DEF LitBy
<1>6. out = "set" => LitBy(bound', rotate_fb_id', fb_id', c)
  BY <1>3, <1>4 DEF LitBy, Dark
<1>7. QED
  BY <1>5, <1>6

\* What a set of a mode does to the attributes of the CRTCs.
LEMMA SetModeAttributes ==
    ASSUME LitInv, NEW F, NEW B, NEW id, NEW c \in Crtcs, NEW r, NEW out,
           SetModeFrom(F, B, id, c, r, out)
    PROVE  /\ dpms_mode' \in [Crtcs -> BOOLEAN] /\ need_modeset' \in [Crtcs -> BOOLEAN]
           /\ active' \in [Crtcs -> BOOLEAN]
           /\ \A d \in Crtcs \ {c} : /\ need_modeset'[d] = need_modeset[d]
                                     /\ dpms_mode'[d] = dpms_mode[d] /\ active'[d] = active[d]
           /\ dpms_mode[c] => dpms_mode'[c]
           /\ out = "set" => active'[c]
<1>1. /\ dpms_mode' = [dpms_mode EXCEPT ![c] = dpms_mode[c] \/ Tried(out)]
      /\ need_modeset' = [need_modeset EXCEPT ![c] = need_modeset[c] /\ ~Tried(out)]
      /\ active' = [active EXCEPT ![c] = active[c] \/ out = "set"]
  BY DEF SetModeFrom
<1>2. /\ dpms_mode \in [Crtcs -> BOOLEAN] /\ need_modeset \in [Crtcs -> BOOLEAN]
      /\ active \in [Crtcs -> BOOLEAN]
  BY DEF LitInv
<1>3. Tried(out) \in BOOLEAN
  BY DEF Tried
<1>4. QED
  BY <1>1, <1>2, <1>3

\* The reason a set of a mode leaves with its CRTC.
LEMMA BlamedFor ==
    ASSUME LitInv, NEW c \in Crtcs, NEW out, blame' = Blamed(c, out)
    PROVE  /\ blame' \in [Crtcs -> {"none", "dark"}]
           /\ out # "set" => blame'[c] # "none"
           /\ \A d \in Crtcs \ {c} : blame'[d] = blame[d]
BY DEF LitInv, Blamed

\* The mode of CRTC c is set, outside of a submission or in a loop.
LEMMA SetModeFine ==
    ASSUME LitInv, NEW F, NEW B \in [Crtcs -> Int], NEW id, NEW o, NEW w,
           Owned(F, rotate_fb_id, o, id, w),
           NEW c \in Crtcs, NEW r \in BOOLEAN, NEW out \in Outcomes,
           SetModeFrom(F, B, id, c, r, out),
           out # "set" => blame'[c] # "none",
           \A d \in Crtcs \ {c} : enabled'[d] = enabled[d]
    PROVE  /\ Fine(c)'
           /\ \A d \in Crtcs \ {c} :
                /\ ~enabled[d] \/ need_modeset[d] \/ blame'[d] # "none"
                   \/ (LitBy(B, rotate_fb_id, id, d) /\ (dpms_mode[d] => active[d]))
                => Fine(d)'
<1>1. /\ \A d \in Crtcs \ {c} : /\ need_modeset'[d] = need_modeset[d]
                                /\ dpms_mode'[d] = dpms_mode[d] /\ active'[d] = active[d]
      /\ out = "set" => active'[c]
  BY SetModeAttributes
<1>2. /\ out = "set" => LitBy(bound', rotate_fb_id', fb_id', c)
      /\ \A d \in Crtcs \ {c} :
           LitBy(B, rotate_fb_id, id, d) => LitBy(bound', rotate_fb_id', fb_id', d)
  BY SetModeLit
<1>3. QED
  BY <1>1, <1>2 DEF Fine, Excused, Shows

\* What is fine outside of a submission, or in a loop, is lit.
LEMMA FineIsLit ==
    ASSUME stack = <<>> \/ ~Idle, NEW c, Fine(c)
    PROVE  \/ Excused(c)
           \/ (LitBy(bound, rotate_fb_id, fb_id, c) /\ (dpms_mode[c] => active[c]))
BY NotBehind DEF Fine, Shows

-----------------------------------------------------------------------------

\* One CRTC of a loop: it is fine, and those served before stay so.
LEMMA LitServes ==
    ASSUME CallInv, LitInv, NEW op \in Loops, op # "none", NEW c \in Crtcs, Serves(op, c),
           UNCHANGED enabled,
           dpms_mode' \in [Crtcs -> BOOLEAN], need_modeset' \in [Crtcs -> BOOLEAN],
           active' \in [Crtcs -> BOOLEAN], blame' \in [Crtcs -> {"none", "dark"}],
           \A d \in Crtcs \ {c} : need_modeset'[d] = need_modeset[d]
                                  /\ dpms_mode'[d] = dpms_mode[d],
           vtSema => Fine(c)',
           vtSema => \A d \in Crtcs \ {c} : Served(d) /\ Fine(d) => Fine(d)',
           op = "unflip" /\ ~dpms_mode'[c] => need_modeset'[c]
    PROVE  LitInv'
<1>1. /\ work.op = op /\ work'.op = op /\ work'.crtc = c + 1
      /\ work.crtc \in Int /\ work.crtc <= c
      /\ \A d \in Crtcs : work.crtc <= d /\ d < c => ~enabled[d] \/ op = "dpms"
      /\ UNCHANGED vtSema
  BY LoopServes
<1>2. \A d \in Crtcs : d \in Int
  BY ScanoutAssumption DEF Crtcs
<1>3. ASSUME vtSema, NEW d \in Crtcs, Served(d)' PROVE Fine(d)'
  <2>1. CASE d = c
    BY <1>3, <2>1
  <2>2. CASE d # c /\ ~enabled[d]
    BY <2>2 DEF Fine, Excused
  <2>3. CASE d # c /\ enabled[d]
    <3>1. Served(d)
      BY <1>1, <1>2, <1>3, <2>3 DEF Served
    <3>2. QED
      BY <1>3, <2>3, <3>1 DEF LitInv
  <2>4. QED
    BY <2>1, <2>2, <2>3
<1>4. ASSUME op = "unflip", NEW d \in Crtcs, d < work'.crtc, enabled[d], ~dpms_mode'[d]
      PROVE  need_modeset'[d]
  <2>1. CASE d = c
    BY <1>4, <2>1
  <2>2. CASE d # c
    <3>1. d < work.crtc
      BY <1>1, <1>2, <1>4, <2>2
    <3>2. QED
      BY <1>1, <1>4, <2>2, <3>1 DEF LitInv
  <2>3. QED
    BY <2>1, <2>2
<1>5. QED
  BY <1>1, <1>3, <1>4 DEF LitInv

\* The mode of the CRTC of a loop is set again.
LEMMA SetAgainLit ==
    ASSUME CallInv, OwnInv, LitInv, NEW op \in {"dpms", "enter", "resize"}, NEW c \in Crtcs,
           Serves(op, c), NEW out \in Outcomes, SetMode(c, rotation[c], out),
           blame' = Blamed(c, out), UNCHANGED enabled
    PROVE  LitInv'
<1>1. /\ bound \in [Crtcs -> Int] /\ rotation[c] \in BOOLEAN
      /\ Owned(fbs, rotate_fb_id, old, fb_id, work.old_fb)
  BY DEF OwnInv
<1>2. PICK r \in BOOLEAN : SetModeFrom(fbs, bound, fb_id, c, r, out)
  BY <1>1 DEF SetMode
<1>3. /\ dpms_mode' \in [Crtcs -> BOOLEAN] /\ need_modeset' \in [Crtcs -> BOOLEAN]
      /\ active' \in [Crtcs -> BOOLEAN]
      /\ \A d \in Crtcs \ {c} : need_modeset'[d] = need_modeset[d]
                                /\ dpms_mode'[d] = dpms_mode[d]
  BY <1>2, SetModeAttributes
<1>4. /\ blame' \in [Crtcs -> {"none", "dark"}]
      /\ out # "set" => blame'[c] # "none"
      /\ \A d \in Crtcs \ {c} : blame'[d] = blame[d]
  BY BlamedFor
<1>5. /\ Fine(c)'
      /\ \A d \in Crtcs \ {c} :
           /\ ~enabled[d] \/ need_modeset[d] \/ blame'[d] # "none"
              \/ (LitBy(bound, rotate_fb_id, fb_id, d) /\ (dpms_mode[d] => active[d]))
           => Fine(d)'
  BY <1>1, <1>2, <1>4, SetModeFine
<1>6. ASSUME NEW d \in Crtcs \ {c}, Fine(d) PROVE Fine(d)'
  <2>1. ~Idle
    BY LoopServes DEF Idle
  <2>2. Excused(d) \/ (LitBy(bound, rotate_fb_id, fb_id, d) /\ (dpms_mode[d] => active[d]))
    BY <1>6, <2>1, FineIsLit
  <2>3. QED
    BY <1>4, <1>5, <2>2 DEF Excused
<1>7. op \in Loops /\ op # "none" /\ op # "unflip"
  BY DEF Loops
<1>8. QED
  BY <1>3, <1>4, <1>5, <1>6, <1>7, LitServes

\* The loop of an unflip at CRTC k: the framebuffer of fb_id goes.  A CRTC served before
\* that displays it is undone if it is on, and waits for its mode if it is off.
LEMMA UnflipLit ==
    ASSUME CallInv, OwnInv, LitInv, NEW k \in Crtcs, Serves("unflip", k),
           NEW c \in Crtcs, Served(c), Fine(c)
    PROVE  \/ ~enabled[c] \/ need_modeset[c] \/ Relabelled(k)[c] # "none"
           \/ (LitBy(Without(bound, fb_id), rotate_fb_id, 0, c) /\ (dpms_mode[c] => active[c]))
<1>1. work.op = "unflip" /\ work.crtc \in Int /\ work.crtc <= k
  BY LoopServes
<1>2. c \in 1..(k - 1) /\ c < work.crtc
  BY <1>1, ScanoutAssumption DEF Served, Crtcs
<1>3. Relabelled(k)[c] = IF c \in Undone(k) THEN "dark" ELSE blame[c]
  BY DEF Relabelled
<1>4. ~Idle
  BY <1>1 DEF Idle
<1>5. CASE Excused(c)
  BY <1>3, <1>5 DEF Excused
<1>6. CASE ~Excused(c)
  <2>1. LitBy(bound, rotate_fb_id, fb_id, c) /\ (dpms_mode[c] => active[c])
    BY <1>4, <1>6, FineIsLit
  <2>2. CASE rotate_fb_id[c] # 0
    <3>1. bound[c] = rotate_fb_id[c] /\ bound[c] # fb_id
      BY <2>1, <2>2, OwnersDiffer DEF LitBy, OwnInv
    <3>2. QED
      BY <2>1, <2>2, <3>1 DEF LitBy, Without, Dark
  <2>3. CASE rotate_fb_id[c] = 0
    <3>1. bound[c] = fb_id /\ fb_id # 0
      BY <2>1, <2>3 DEF LitBy, Dark
    <3>2. dpms_mode[c] /\ enabled[c]
      BY <1>1, <1>2, <1>6 DEF LitInv, Excused
    <3>3. c \in Undone(k)
      BY <1>2, <3>1, <3>2 DEF Undone, ms_crtc_on
    <3>4. QED
      BY <1>3, <3>3
  <2>4. QED
    BY <2>2, <2>3
<1>7. QED
  BY <1>5, <1>6

\* ms_present_unflip sets the mode of a CRTC that is on.
LEMMA UnflipOnLit ==
    ASSUME CallInv, OwnInv, LitInv, NEW c \in Crtcs, Serves("unflip", c), UnflipOn(c),
           dpms_mode[c]
    PROVE  LitInv'
<1> DEFINE F == RmFB(fbs, fb_id)
           B == Without(bound, fb_id)
<1>1. PICK out \in Outcomes :
         /\ SetModeFrom(F, B, 0, c, rotation[c], out)
         /\ blame' = [Relabelled(c) EXCEPT ![c] = IF out = "set" THEN "none" ELSE "dark"]
  BY DEF UnflipOn
<1>2. UNCHANGED enabled
  BY DEF UnflipOn
<1>3. /\ rotation[c] \in BOOLEAN /\ B \in [Crtcs -> Int]
      /\ Owned(F, rotate_fb_id, old, 0, work.old_fb)
  BY FrontGoes, WithoutBound DEF OwnInv
<1>4. ASSUME NEW d \in Crtcs, Served(d), Fine(d)
      PROVE  \/ ~enabled[d] \/ need_modeset[d] \/ Relabelled(c)[d] # "none"
             \/ (LitBy(B, rotate_fb_id, 0, d) /\ (dpms_mode[d] => active[d]))
  BY <1>4, UnflipLit
<1> HIDE DEF F, B
<1>5. PICK r \in BOOLEAN : SetModeFrom(F, B, 0, c, r, out)
  BY <1>1, <1>3
<1>6. /\ dpms_mode' \in [Crtcs -> BOOLEAN] /\ need_modeset' \in [Crtcs -> BOOLEAN]
      /\ active' \in [Crtcs -> BOOLEAN]
      /\ \A d \in Crtcs \ {c} : need_modeset'[d] = need_modeset[d]
                                /\ dpms_mode'[d] = dpms_mode[d]
      /\ dpms_mode'[c]
  BY <1>5, SetModeAttributes
<1>7. /\ blame' \in [Crtcs -> {"none", "dark"}]
      /\ out # "set" => blame'[c] # "none"
      /\ \A d \in Crtcs \ {c} : blame'[d] = Relabelled(c)[d]
  <2>1. Relabelled(c) \in [Crtcs -> {"none", "dark"}]
    BY DEF LitInv, Relabelled
  <2>2. QED
    BY <1>1, <2>1
<1>8. /\ Fine(c)'
      /\ \A d \in Crtcs \ {c} :
           /\ ~enabled[d] \/ need_modeset[d] \/ blame'[d] # "none"
              \/ (LitBy(B, rotate_fb_id, 0, d) /\ (dpms_mode[d] => active[d]))
           => Fine(d)'
  BY <1>2, <1>3, <1>5, <1>7, SetModeFine
<1>9. \A d \in Crtcs \ {c} : Served(d) /\ Fine(d) => Fine(d)'
  BY <1>4, <1>7, <1>8
<1>10. "unflip" \in Loops
  BY DEF Loops
<1>11. QED
  BY <1>2, <1>6, <1>7, <1>8, <1>9, <1>10, LitServes

\* It marks one that is off.
LEMMA UnflipOffLit ==
    ASSUME CallInv, OwnInv, LitInv, NEW c \in Crtcs, Serves("unflip", c), UnflipOff(c)
    PROVE  LitInv'
<1>1. /\ fb_id' = 0 /\ bound' = Without(bound, fb_id) /\ blame' = Relabelled(c)
      /\ need_modeset' = [need_modeset EXCEPT ![c] = TRUE]
      /\ UNCHANGED <<enabled, dpms_mode, rotate_fb_id, active>>
  BY DEF UnflipOff
<1>2. need_modeset \in [Crtcs -> BOOLEAN] /\ dpms_mode \in [Crtcs -> BOOLEAN]
      /\ active \in [Crtcs -> BOOLEAN]
  BY DEF LitInv
<1>3. /\ need_modeset' \in [Crtcs -> BOOLEAN] /\ need_modeset'[c]
      /\ \A d \in Crtcs \ {c} : need_modeset'[d] = need_modeset[d]
  BY <1>1, <1>2
<1>4. blame' \in [Crtcs -> {"none", "dark"}]
  BY <1>1 DEF LitInv, Relabelled
<1>5. ASSUME NEW d \in Crtcs \ {c}, Served(d), Fine(d) PROVE Fine(d)'
  <2>1. \/ ~enabled[d] \/ need_modeset[d] \/ Relabelled(c)[d] # "none"
        \/ (LitBy(Without(bound, fb_id), rotate_fb_id, 0, d) /\ (dpms_mode[d] => active[d]))
    BY <1>5, UnflipLit
  <2>2. LitBy(Without(bound, fb_id), rotate_fb_id, 0, d)
          => LitBy(bound', rotate_fb_id', fb_id', d)
    BY <1>1 DEF LitBy
  <2>3. QED
    BY <1>1, <1>3, <2>1, <2>2 DEF Fine, Excused, Shows
<1>6. Fine(c)'
  BY <1>3 DEF Fine, Excused
<1>7. "unflip" \in Loops
  BY DEF Loops
<1>8. QED
  BY <1>1, <1>2, <1>3, <1>4, <1>5, <1>6, <1>7, LitServes

\* The end of a loop: those it did not serve are off, and the framebuffer that goes was displayed
\* by none that is fine.
LEMMA LoopEndsLit ==
    ASSUME CallInv, OwnInv, LitInv, LoopEnds
    PROVE  LitInv'
<1>1. /\ ~Idle /\ Due = {} /\ bound' = Without(bound, work.old_fb) /\ work' = NoWork
      /\ UNCHANGED <<vtSema, enabled, dpms_mode, need_modeset, rotate_fb_id, fb_id, active, blame>>
  BY DEF LoopEnds, LoopTells, crtcVars, fbVars
<1>2. work.crtc \in Int /\ \A d \in Crtcs : d \in Int
  BY <1>1, LoopIsOver, ScanoutAssumption DEF Crtcs
<1>3. ASSUME vtSema, NEW c \in Crtcs PROVE Fine(c)'
  <2>1. CASE ~Served(c)
    <3>1. work.crtc <= c
      BY <1>2, <2>1 DEF Served
    <3>2. ~enabled[c]
      BY <1>1, <2>1, <3>1, LoopIsOver DEF Served
    <3>3. QED
      BY <1>1, <3>2 DEF Fine, Excused
  <2>2. CASE Served(c)
    <3>1. Fine(c)
      BY <1>3, <2>2 DEF LitInv
    <3>2. Excused(c) \/ (LitBy(bound, rotate_fb_id, fb_id, c) /\ (dpms_mode[c] => active[c]))
      BY <1>1, <3>1, FineIsLit
    <3>3. CASE Excused(c)
      BY <1>1, <3>3 DEF Fine, Excused
    <3>4. CASE LitBy(bound, rotate_fb_id, fb_id, c) /\ (dpms_mode[c] => active[c])
      <4>1. bound[c] # work.old_fb
        BY <3>4, OwnersDiffer DEF LitBy, OwnInv, Dark
      <4>2. LitBy(bound', rotate_fb_id', fb_id', c)
        BY <1>1, <3>4, <4>1 DEF LitBy, Without
      <4>3. QED
        BY <1>1, <3>4, <4>2 DEF Fine, Shows
    <3>5. QED
      BY <3>2, <3>3, <3>4
  <2>3. QED
    BY <2>1, <2>2
<1>4. work'.op = "none"
  BY <1>1 DEF NoWork
<1>5. QED
  BY <1>1, <1>3, <1>4 DEF LitInv

-----------------------------------------------------------------------------

\* A step outside the loops, which may be the first of one.
LEMMA LitIdle ==
    ASSUME LitInv,
           enabled' \in [Crtcs -> BOOLEAN], dpms_mode' \in [Crtcs -> BOOLEAN],
           need_modeset' \in [Crtcs -> BOOLEAN], active' \in [Crtcs -> BOOLEAN],
           blame' \in [Crtcs -> {"none", "dark"}],
           \/ work'.op \in {"none", "dpms"} /\ (vtSema' => \A c \in Crtcs : Fine(c)')
           \/ work'.op \in {"enter", "resize", "unflip"} /\ work'.crtc = 1
    PROVE  LitInv'
<1>1. CASE work'.op \in {"none", "dpms"} /\ (vtSema' => \A c \in Crtcs : Fine(c)')
  BY <1>1 DEF LitInv
<1>2. CASE work'.op \in {"enter", "resize", "unflip"} /\ work'.crtc = 1
  <2>1. \A c \in Crtcs : ~(c < work'.crtc)
    BY <1>2, ScanoutAssumption DEF Crtcs
  <2>2. \A c \in Crtcs : ~Served(c)'
    BY <1>2, <2>1 DEF Served
  <2>3. QED
    BY <2>1, <2>2 DEF LitInv
<1>3. QED
  BY <1>1, <1>2

\* Outside the loops every CRTC is fine.
LEMMA IdleIsFine ==
    ASSUME LitInv, Idle, vtSema, NEW c \in Crtcs
    PROVE  Fine(c)
BY DEF LitInv, Served, Idle

\* A loop of its own if it is an unflip that was refused.
LEMMA FallBackStarts ==
    ASSUME NEW k, FallBack(k), Idle
    PROVE  work' = work \/ (work'.op = "unflip" /\ work'.crtc = 1)
<1>1. work' = [op |-> "unflip", crtc |-> 1, old_fb |-> 0] \/ work' = work
  BY DEF FallBack, NoWork
<1>2. QED
  BY <1>1

\* A flip begins: every CRTC that shows its framebuffer is behind now, with those that were.
LEMMA FlipBeginsLit ==
    ASSUME CallInv, OwnInv, LitInv, NEW b \in Int, NEW k \in {"flip", "unflip", "dri2"},
           ms_do_pageflip(b, k), CanScanOut, Idle,
           UNCHANGED <<vtSema, crtcVars, bound, active, work, blame>>
    PROVE  LitInv'
<1>1. PICK s \in Slots :
         /\ s \notin Submitted /\ stack' \in Seq(Slots)
         /\ Len(stack) \in Nat /\ Len(stack') = Len(stack) + 1
         /\ \A i \in 1..Len(stack) : stack'[i] = stack[i]
         /\ stack'[Len(stack')] = s
         /\ next' = [next EXCEPT ![s] = 1]
         /\ old' = [old EXCEPT ![s] = fb_id]
  BY FlipBegins
<1>2. next \in [Slots -> Int] /\ old \in [Slots -> Ids] /\ stack \in Seq(Slots)
  BY DEF CallInv, OwnInv, Owned
<1>3. /\ next'[s] = 1 /\ \A t \in Slots \ {s} : next'[t] = next[t]
      /\ old'[s] = fb_id /\ \A t \in Slots \ {s} : old'[t] = old[t]
  BY <1>1, <1>2
<1>4. \A i \in 1..Len(stack) : stack[i] \in Slots \ {s}
  BY <1>1, <1>2 DEF Submitted
<1>5. Idle' /\ UNCHANGED <<enabled, dpms_mode, need_modeset, rotate_fb_id>>
  BY DEF Idle, crtcVars
<1>6. ASSUME vtSema, NEW c \in Crtcs PROVE Fine(c)'
  <2>0. c >= 1
    BY ScanoutAssumption DEF Crtcs
  <2>1. Fine(c)
    BY <1>6, IdleIsFine
  <2>2. CASE Excused(c)
    BY <1>5, <2>2 DEF Fine, Excused
  <2>3. CASE Shows(c)
    <3>1. rotate_fb_id[c] = 0
      BY DEF CanScanOut
    <3>2. CASE LitBy(bound, rotate_fb_id, fb_id, c)
      <4>1. bound[c] # Dark /\ bound[c] = fb_id
        BY <3>1, <3>2 DEF LitBy
      <4> DEFINE n == Len(stack')
      <4>2. n \in 1..n /\ n..n = {n}
        BY <1>1
      <4>3. bound'[c] = old'[stack'[n]] /\ \A j \in n..n : next'[stack'[j]] <= c
        BY <1>1, <1>3, <2>0, <4>1, <4>2
      <4>4. Behind(c)'
        BY <1>5, <3>1, <4>1, <4>2, <4>3 DEF Behind
      <4>5. QED
        BY <1>5, <2>3, <4>4 DEF Fine, Shows
    <3>3. CASE Behind(c)
      <4>1. PICK i \in 1..Len(stack) :
              /\ bound[c] = old[stack[i]]
              /\ \A j \in i..Len(stack) : next[stack[j]] <= c \/ ~dpms_mode[c]
        BY <3>3 DEF Behind
      <4>2. i \in 1..Len(stack') /\ i..Len(stack') = i..Len(stack) \cup {Len(stack')}
        BY <1>1
      <4>3. bound'[c] = old'[stack'[i]]
        BY <1>1, <1>3, <1>4, <4>1
      <4>4. ASSUME NEW j \in i..Len(stack') PROVE next'[stack'[j]] <= c \/ ~dpms_mode'[c]
        <5>1. CASE j = Len(stack')
          BY <1>1, <1>3, <2>0, <5>1
        <5>2. CASE j \in i..Len(stack)
          <6>1. j \in 1..Len(stack)
            BY <1>1, <5>2
          <6>2. next'[stack'[j]] = next[stack[j]]
            BY <1>1, <1>3, <1>4, <6>1
          <6>3. QED
            BY <1>5, <4>1, <5>2, <6>2
        <5>3. QED
          BY <4>2, <5>1, <5>2
      <4>5. Behind(c)'
        BY <1>5, <3>1, <3>3, <4>2, <4>3, <4>4 DEF Behind
      <4>6. QED
        BY <1>5, <2>3, <4>5 DEF Fine, Shows
    <3>4. QED
      BY <2>3, <3>2, <3>3 DEF Shows
  <2>4. QED
    BY <2>1, <2>2, <2>3 DEF Fine
<1>7. /\ enabled' \in [Crtcs -> BOOLEAN] /\ dpms_mode' \in [Crtcs -> BOOLEAN]
      /\ need_modeset' \in [Crtcs -> BOOLEAN] /\ active' \in [Crtcs -> BOOLEAN]
      /\ blame' \in [Crtcs -> {"none", "dark"}]
  BY <1>5 DEF LitInv
<1>8. work'.op = "none"
  BY DEF Idle
<1>9. QED
  BY <1>6, <1>7, <1>8, LitIdle

\* One CRTC takes the flip; those whose turn is past and that are on took it, or one within it.
LEMMA FlipQueuedLit ==
    ASSUME CallInv, OwnInv, LitInv, NEW c \in Crtcs, queue_flip_on_crtc(c)
    PROVE  LitInv'
<1>1. /\ Turn(c) /\ Accepts(c) /\ Idle
      /\ next' = [next EXCEPT ![submitting] = c + 1]
      /\ bound' = [bound EXCEPT ![c] = fb_id]
      /\ blame' = [blame EXCEPT ![c] = IF rotate_fb_id[c] = 0 THEN "none" ELSE "dark"]
      /\ UNCHANGED <<vtSema, crtcVars, fb_id, active, stack, old, work>>
  BY DEF queue_flip_on_crtc, Turn, fbVars
<1>2. /\ next \in [Slots -> Int] /\ bound \in [Crtcs -> Int]
      /\ blame \in [Crtcs -> {"none", "dark"}] /\ stack \in Seq(Slots)
  BY DEF CallInv, OwnInv, LitInv
<1>3. Len(stack) \in Nat \ {0} /\ submitting = stack[Len(stack)] /\ submitting \in Slots
  <2>1. stack # <<>>
    BY <1>1 DEF Turn
  <2>2. QED
    BY <1>2, <2>1 DEF submitting
<1>4. \A i \in 1..Len(stack) : stack[i] \in Slots /\ (i # Len(stack) => stack[i] # submitting)
  BY <1>2, <1>3 DEF CallInv, Distinct
<1>5. /\ next'[submitting] = c + 1 /\ \A t \in Slots \ {submitting} : next'[t] = next[t]
      /\ bound'[c] = fb_id /\ \A d \in Crtcs \ {c} : bound'[d] = bound[d]
      /\ blame'[c] = (IF rotate_fb_id[c] = 0 THEN "none" ELSE "dark")
      /\ \A d \in Crtcs \ {c} : blame'[d] = blame[d]
  BY <1>1, <1>2, <1>3
<1>6. /\ Idle' /\ UNCHANGED <<enabled, dpms_mode, need_modeset, rotate_fb_id>>
      /\ fb_id # 0 /\ active[c]
  BY <1>1 DEF Idle, crtcVars, Accepts
<1>7. \A d \in Crtcs : d \in 1..NumCrtcs
  BY DEF Crtcs
<1>8. ASSUME vtSema, NEW d \in Crtcs PROVE Fine(d)'
  <2>1. CASE d = c
    <3>1. CASE rotate_fb_id[c] = 0
      <4>1. LitBy(bound', rotate_fb_id', fb_id', c)
        BY <1>1, <1>5, <1>6, <3>1 DEF LitBy, Dark
      <4>2. QED
        BY <1>1, <1>6, <2>1, <4>1 DEF Fine, Shows
    <3>2. CASE rotate_fb_id[c] # 0
      BY <1>5, <2>1, <3>2 DEF Fine, Excused
    <3>3. QED
      BY <3>1, <3>2
  <2>2. CASE d # c
    <3>1. Fine(d)
      BY <1>1, <1>8, IdleIsFine
    <3>2. CASE Excused(d)
      BY <1>5, <1>6, <2>2, <3>2 DEF Fine, Excused
    <3>3. CASE ~Excused(d) /\ LitBy(bound, rotate_fb_id, fb_id, d)
      <4>1. LitBy(bound', rotate_fb_id', fb_id', d)
        BY <1>1, <1>5, <1>6, <2>2, <3>3 DEF LitBy
      <4>2. QED
        BY <1>1, <1>6, <3>1, <3>3, <4>1 DEF Fine, Shows
    <3>4. CASE ~Excused(d) /\ Behind(d)
      <4>1. PICK i \in 1..Len(stack) :
              /\ bound[d] = old[stack[i]]
              /\ \A j \in i..Len(stack) : next[stack[j]] <= d \/ ~dpms_mode[d]
        BY <3>4 DEF Behind
      <4>2. enabled[d]
        BY <3>4 DEF Excused
      <4>3. c + 1 <= d \/ ~dpms_mode[d]
        <5>1. SUFFICES ASSUME dpms_mode[d] PROVE c < d
          BY <1>7
        <5>2. next[submitting] <= d /\ next[submitting] \in Int
          BY <1>2, <1>3, <4>1, <5>1
        <5>3. d \in Awaiting
          BY <1>7, <4>2, <5>1, <5>2 DEF Awaiting, ms_crtc_on
        <5>4. c <= d
          BY <1>1, <5>3 DEF Turn
        <5>5. QED
          BY <1>7, <2>2, <5>4
      <4>4. ASSUME NEW j \in i..Len(stack) PROVE next'[stack'[j]] <= d \/ ~dpms_mode'[d]
        <5>1. j \in 1..Len(stack) /\ stack' = stack
          BY <1>1, <1>3
        <5>2. CASE j = Len(stack)
          BY <1>3, <1>5, <1>6, <4>3, <5>1, <5>2
        <5>3. CASE j # Len(stack)
          BY <1>4, <1>5, <1>6, <4>1, <5>1, <5>3
        <5>4. QED
          BY <5>2, <5>3
      <4>5. Behind(d)'
        BY <1>1, <1>5, <1>6, <2>2, <3>4, <4>1, <4>4 DEF Behind
      <4>6. QED
        BY <1>1, <1>6, <3>1, <3>4, <4>5 DEF Fine, Shows
    <3>5. QED
      BY <3>1, <3>2, <3>3, <3>4 DEF Fine, Shows
  <2>3. QED
    BY <2>1, <2>2
<1>9. /\ enabled' \in [Crtcs -> BOOLEAN] /\ dpms_mode' \in [Crtcs -> BOOLEAN]
      /\ need_modeset' \in [Crtcs -> BOOLEAN] /\ active' \in [Crtcs -> BOOLEAN]
      /\ blame' \in [Crtcs -> {"none", "dark"}]
  BY <1>1, <1>2, <1>6 DEF LitInv
<1>10. work'.op = "none" /\ UNCHANGED vtSema
  BY <1>1 DEF Idle
<1>11. QED
  BY <1>8, <1>9, <1>10, LitIdle

\* What was behind when a flip returns is behind an outer one, or displays the framebuffer before
\* that of the flip that returns; its turn is past, unless it is off.
LEMMA BehindReturns ==
    ASSUME CallInv, OwnInv, NEW k, NEW o, Returns(k, o), NEW c \in Crtcs, Behind(c)
    PROVE  /\ bound[c] # Dark /\ rotate_fb_id[c] = 0
           /\ next[submitting] <= c \/ ~dpms_mode[c]
           /\ \/ bound[c] = old[submitting]
              \/ UNCHANGED <<work, rotate_fb_id, dpms_mode>> /\ bound'[c] = bound[c] => Behind(c)'
<1>1. /\ submitting \in Slots /\ Len(stack) \in Nat \ {0} /\ Len(stack') = Len(stack) - 1
      /\ \A i \in 1..Len(stack') : stack'[i] = stack[i] /\ stack[i] # submitting
      /\ stack \in Seq(Slots)
      /\ old' = [old EXCEPT ![submitting] = o]
      /\ next' = [next EXCEPT ![submitting] = 0]
      /\ submitting = stack[Len(stack)] /\ Idle
  BY FlipReturns DEF Returns, submitting
<1>2. next \in [Slots -> Int] /\ old \in [Slots -> Ids]
  BY DEF CallInv, OwnInv, Owned
<1>3. PICK i \in 1..Len(stack) :
        /\ bound[c] = old[stack[i]]
        /\ \A j \in i..Len(stack) : next[stack[j]] <= c \/ ~dpms_mode[c]
  BY DEF Behind
<1>4. next[submitting] <= c \/ ~dpms_mode[c]
  BY <1>1, <1>3
<1>5. CASE i = Len(stack)
  BY <1>1, <1>3, <1>4, <1>5 DEF Behind
<1>6. ASSUME i # Len(stack), UNCHANGED <<work, rotate_fb_id, dpms_mode>>, bound'[c] = bound[c]
      PROVE  Behind(c)'
  <2>1. i \in 1..Len(stack') /\ i..Len(stack') \subseteq 1..Len(stack')
        /\ i..Len(stack') \subseteq i..Len(stack)
    BY <1>1, <1>6
  <2>2. \A j \in 1..Len(stack') : stack'[j] \in Slots /\ stack'[j] # submitting
    BY <1>1
  <2>3. \A j \in 1..Len(stack') : /\ next'[stack'[j]] = next[stack[j]]
                                  /\ old'[stack'[j]] = old[stack[j]]
    BY <1>1, <1>2, <2>2
  <2>4. bound'[c] = old'[stack'[i]]
    BY <1>3, <1>6, <2>1, <2>3
  <2>5. \A j \in i..Len(stack') : next'[stack'[j]] <= c \/ ~dpms_mode'[c]
    BY <1>3, <1>6, <2>1, <2>3
  <2>6. QED
    BY <1>1, <1>6, <2>1, <2>4, <2>5 DEF Behind, Idle
<1>7. QED
  BY <1>4, <1>5, <1>6 DEF Behind

\* A flip returns, and blames the CRTCs that are behind and on but not past their turn or off.
LEMMA ReturnsLit ==
    ASSUME CallInv, OwnInv, LitInv, NEW k, NEW o, Returns(k, o),
           UNCHANGED <<fb_id, bound>>,
           work' = work \/ FallBack(kind[submitting]),
           blame' \in [Crtcs -> {"none", "dark"}],
           \A c \in Crtcs : blame[c] # "none" => blame'[c] # "none",
           \A c \in Crtcs : Fine(c) /\ Behind(c) => Fine(c)' \/ work' # work
    PROVE  LitInv'
<1>1. Idle /\ UNCHANGED <<vtSema, enabled, dpms_mode, need_modeset, rotate_fb_id, active>>
  BY DEF Returns, crtcVars
<1>2. work' = work \/ (work'.op = "unflip" /\ work'.crtc = 1)
  BY <1>1, FallBackStarts
<1>3. ASSUME work' = work, vtSema, NEW c \in Crtcs PROVE Fine(c)'
  <2>1. Fine(c)
    BY <1>1, <1>3, IdleIsFine
  <2>2. CASE Behind(c)
    BY <1>3, <2>1, <2>2
  <2>3. CASE ~Behind(c)
    BY <1>1, <2>1, <2>3 DEF Fine, Excused, Shows, LitBy
  <2>4. QED
    BY <2>2, <2>3
<1>4. /\ enabled' \in [Crtcs -> BOOLEAN] /\ dpms_mode' \in [Crtcs -> BOOLEAN]
      /\ need_modeset' \in [Crtcs -> BOOLEAN] /\ active' \in [Crtcs -> BOOLEAN]
  BY <1>1 DEF LitInv
<1>5. work' = work => work'.op = "none"
  BY <1>1 DEF Idle
<1>6. QED
  BY <1>1, <1>2, <1>3, <1>4, <1>5, LitIdle

\* A CRTC that is on, past its turn and below all that are to be flipped has been flipped.
LEMMA PastIsFlipped ==
    ASSUME CallInv, NEW c \in Crtcs, ms_crtc_on(c), submitting \in Slots, c \notin Awaiting
    PROVE  ~(next[submitting] <= c)
<1>1. next[submitting] \in Int /\ c \in 1..NumCrtcs
  BY DEF CallInv, Crtcs
<1>2. QED
  BY <1>1 DEF Awaiting

LEMMA FlipAcceptedLit ==
    ASSUME CallInv, OwnInv, LitInv, FlipAccepted
    PROVE  LitInv'
<1>1. /\ Returns(kind[submitting], old[submitting]) /\ Awaiting = {}
      /\ blame' = [c \in Crtcs |-> IF enabled[c] /\ ~dpms_mode[c] THEN "dark" ELSE blame[c]]
      /\ UNCHANGED <<fb_id, bound, work>>
  BY DEF FlipAccepted, fbVars
<1>2. UNCHANGED <<enabled, dpms_mode, need_modeset, rotate_fb_id, active>>
  BY <1>1 DEF Returns, crtcVars
<1>3. blame \in [Crtcs -> {"none", "dark"}]
  BY DEF LitInv
<1>4. /\ blame' \in [Crtcs -> {"none", "dark"}]
      /\ \A c \in Crtcs : blame[c] # "none" => blame'[c] # "none"
  BY <1>1, <1>3
<1>5. submitting \in Slots
  BY <1>1, FlipReturns
<1>6. ASSUME NEW c \in Crtcs, Fine(c), Behind(c) PROVE Fine(c)'
  <2>1. CASE Excused(c) \/ ~enabled[c] \/ ~dpms_mode[c]
    BY <1>1, <1>2, <1>4, <2>1 DEF Fine, Excused
  <2>2. CASE enabled[c] /\ dpms_mode[c]
    <3>1. next[submitting] <= c
      BY <1>1, <1>6, <2>2, BehindReturns
    <3>2. QED
      BY <1>1, <1>5, <2>2, <3>1, PastIsFlipped DEF ms_crtc_on
  <2>3. QED
    BY <2>1, <2>2
<1>7. QED
  BY <1>1, <1>4, <1>6, ReturnsLit

LEMMA FlipHalfDoneLit ==
    ASSUME CallInv, OwnInv, LitInv, NEW d \in Crtcs, FlipHalfDone(d)
    PROVE  LitInv'
<1>1. /\ Returns(Late(kind[submitting]), old[submitting]) /\ Turn(d)
      /\ blame' = [c \in Crtcs |-> IF enabled[c] /\ (c >= d \/ ~dpms_mode[c]) THEN "dark"
                                   ELSE blame[c]]
      /\ FallBack(kind[submitting])
      /\ UNCHANGED <<fb_id, bound>>
  BY DEF FlipHalfDone, fbVars
<1>2. UNCHANGED <<enabled, dpms_mode, need_modeset, rotate_fb_id, active>>
  BY <1>1 DEF Returns, crtcVars
<1>3. blame \in [Crtcs -> {"none", "dark"}]
  BY DEF LitInv
<1>4. /\ blame' \in [Crtcs -> {"none", "dark"}]
      /\ \A c \in Crtcs : blame[c] # "none" => blame'[c] # "none"
  BY <1>1, <1>3
<1>5. submitting \in Slots
  BY <1>1, FlipReturns
<1>6. ASSUME NEW c \in Crtcs, Fine(c), Behind(c) PROVE Fine(c)'
  <2>1. CASE Excused(c) \/ ~enabled[c] \/ ~dpms_mode[c] \/ c >= d
    BY <1>1, <1>2, <1>4, <2>1 DEF Fine, Excused
  <2>2. CASE enabled[c] /\ dpms_mode[c] /\ ~(c >= d)
    <3>1. next[submitting] <= c
      BY <1>1, <1>6, <2>2, BehindReturns
    <3>2. c \in Awaiting
      BY <1>5, <2>2, <3>1, PastIsFlipped DEF ms_crtc_on
    <3>3. d <= c
      BY <1>1, <3>2 DEF Turn
    <3>4. QED
      BY <2>2, <3>3 DEF Crtcs
  <2>3. QED
    BY <2>1, <2>2
<1>7. QED
  BY <1>1, <1>4, <1>6, ReturnsLit

\* The framebuffer of a flip that is refused goes: the CRTCs that show it are blamed, those behind
\* it show the one that fb_id has again.
LEMMA FlipRefusedLit ==
    ASSUME CallInv, OwnInv, LitInv, FlipRefused
    PROVE  LitInv'
<1> DEFINE s == submitting
<1>1. /\ Returns("none", 0) /\ Idle /\ s \in Slots
      /\ bound' = Without(bound, fb_id)
      /\ blame' = [c \in Crtcs |-> IF fb_id # 0 /\ bound[c] = fb_id THEN "dark" ELSE blame[c]]
      /\ fb_id' = old[s] /\ FallBack(kind[s])
  BY FlipReturns DEF FlipRefused, Returns
<1> HIDE DEF s
<1>2. UNCHANGED <<vtSema, enabled, dpms_mode, need_modeset, rotate_fb_id, active>>
  BY <1>1 DEF Returns, crtcVars
<1>3. blame \in [Crtcs -> {"none", "dark"}]
  BY DEF LitInv
<1>4. blame' \in [Crtcs -> {"none", "dark"}]
  BY <1>1, <1>3
<1>5. Owned(fbs, rotate_fb_id, old, fb_id, work.old_fb) /\ bound \in [Crtcs -> Int]
  BY DEF OwnInv
<1>6. ASSUME work' = work, vtSema, NEW c \in Crtcs PROVE Fine(c)'
  <2>1. Fine(c)
    BY <1>1, <1>6, IdleIsFine
  <2>2. CASE fb_id # 0 /\ bound[c] = fb_id
    BY <1>1, <2>2 DEF Fine, Excused
  <2>3. CASE ~(fb_id # 0 /\ bound[c] = fb_id)
    <3>1. bound'[c] = bound[c] /\ blame'[c] = blame[c]
      BY <1>1, <2>3 DEF Without
    <3>2. CASE Excused(c)
      BY <1>2, <3>1, <3>2 DEF Fine, Excused
    <3>3. CASE LitBy(bound, rotate_fb_id, fb_id, c) /\ (dpms_mode[c] => active[c])
      <4>1. rotate_fb_id[c] # 0
        BY <2>3, <3>3 DEF LitBy, Dark
      <4>2. LitBy(bound', rotate_fb_id', fb_id', c)
        BY <1>2, <3>1, <3>3, <4>1 DEF LitBy
      <4>3. QED
        BY <1>2, <3>3, <4>2 DEF Fine, Shows
    <3>4. CASE Behind(c) /\ (dpms_mode[c] => active[c])
      <4>1. /\ bound[c] # Dark /\ rotate_fb_id[c] = 0
            /\ \/ bound[c] = old[s]
               \/ UNCHANGED <<work, rotate_fb_id, dpms_mode>> /\ bound'[c] = bound[c]
                    => Behind(c)'
        BY <1>1, <3>4, BehindReturns DEF s
      <4>2. CASE bound[c] = old[s]
        <5>1. LitBy(bound', rotate_fb_id', fb_id', c)
          BY <1>1, <1>2, <3>1, <4>1, <4>2 DEF LitBy
        <5>2. QED
          BY <1>2, <3>4, <5>1 DEF Fine, Shows
      <4>3. CASE Behind(c)'
        BY <1>2, <3>4, <4>3 DEF Fine, Shows
      <4>4. QED
        BY <1>2, <1>6, <3>1, <4>1, <4>2, <4>3
    <3>5. QED
      BY <2>1, <3>2, <3>3, <3>4 DEF Fine, Shows
  <2>4. QED
    BY <2>2, <2>3
<1>7. work' = work \/ (work'.op = "unflip" /\ work'.crtc = 1)
  BY <1>1, FallBackStarts
<1>8. work' = work => work'.op = "none"
  BY <1>1 DEF Idle
<1>9. /\ enabled' \in [Crtcs -> BOOLEAN] /\ dpms_mode' \in [Crtcs -> BOOLEAN]
      /\ need_modeset' \in [Crtcs -> BOOLEAN] /\ active' \in [Crtcs -> BOOLEAN]
  BY <1>2 DEF LitInv
<1>10. QED
  BY <1>2, <1>4, <1>6, <1>7, <1>8, <1>9, LitIdle

\* The old framebuffer of a flip goes: it was displayed by none that is fine.
LEMMA FlipDoneLit ==
    ASSUME CallInv, OwnInv, LitInv, NEW s \in Slots, FlipDone(s)
    PROVE  LitInv'
<1>1. /\ Idle /\ s \notin Submitted
      /\ bound' = Without(bound, old[s]) /\ old' = [old EXCEPT ![s] = 0]
      /\ UNCHANGED <<vtSema, enabled, dpms_mode, need_modeset, rotate_fb_id, fb_id, active, stack,
                     next, work, blame>>
  BY DEF FlipDone, OldGoes, Pending, crtcVars, fbVars
<1>2. /\ Owned(fbs, rotate_fb_id, old, fb_id, work.old_fb) /\ bound \in [Crtcs -> Int]
      /\ old \in [Slots -> Ids] /\ stack \in Seq(Slots)
  BY DEF OwnInv, Owned, CallInv
<1>3. ASSUME vtSema, NEW c \in Crtcs PROVE Fine(c)'
  <2>1. Fine(c)
    BY <1>1, <1>3, IdleIsFine
  <2>2. CASE Excused(c)
    BY <1>1, <2>2 DEF Fine, Excused
  <2>3. CASE LitBy(bound, rotate_fb_id, fb_id, c) /\ (dpms_mode[c] => active[c])
    <3>1. bound[c] # old[s]
      BY <1>2, <2>3, OwnersDiffer DEF LitBy, Dark
    <3>2. LitBy(bound', rotate_fb_id', fb_id', c)
      BY <1>1, <2>3, <3>1 DEF LitBy, Without
    <3>3. QED
      BY <1>1, <2>3, <3>2 DEF Fine, Shows
  <2>4. CASE Behind(c) /\ (dpms_mode[c] => active[c])
    <3>1. PICK i \in 1..Len(stack) :
            /\ bound[c] = old[stack[i]]
            /\ \A j \in i..Len(stack) : next[stack[j]] <= c \/ ~dpms_mode[c]
      BY <2>4 DEF Behind
    <3>2. stack[i] \in Slots /\ stack[i] # s
      BY <1>1, <1>2, <3>1 DEF Submitted
    <3>3. bound[c] # Dark /\ rotate_fb_id[c] = 0
      BY <2>4 DEF Behind
    <3>4. old[stack[i]] # 0 => old[s] # old[stack[i]]
      BY <1>2, <3>2, OwnersDiffer
    <3>5. bound'[c] = bound[c] /\ old'[stack[i]] = old[stack[i]]
      BY <1>1, <1>2, <3>1, <3>2, <3>3, <3>4 DEF Without, Dark
    <3>6. Behind(c)'
      BY <1>1, <3>1, <3>3, <3>5 DEF Behind, Idle
    <3>7. QED
      BY <1>1, <2>4, <3>6 DEF Fine, Shows
  <2>5. QED
    BY <2>1, <2>2, <2>3, <2>4 DEF Fine, Shows
<1>4. /\ enabled' \in [Crtcs -> BOOLEAN] /\ dpms_mode' \in [Crtcs -> BOOLEAN]
      /\ need_modeset' \in [Crtcs -> BOOLEAN] /\ active' \in [Crtcs -> BOOLEAN]
      /\ blame' \in [Crtcs -> {"none", "dark"}] /\ work'.op = "none"
  BY <1>1 DEF LitInv, Idle
<1>5. QED
  BY <1>1, <1>3, <1>4, LitIdle

-----------------------------------------------------------------------------

\* RandR sets the mode of a CRTC.
LEMMA RandRSetLit ==
    ASSUME OwnInv, LitInv, NEW c \in Crtcs, NEW r \in BOOLEAN, NEW out \in Outcomes,
           RandRSet(c, r, out)
    PROVE  LitInv'
<1>1. /\ SetModeFrom(fbs, bound, fb_id, c, r, out) /\ blame' = Blamed(c, out)
      /\ Idle /\ stack = <<>>
      /\ enabled' = [enabled EXCEPT ![c] = enabled[c] \/ Success(out)]
      /\ UNCHANGED <<work, vtSema>>
  BY DEF RandRSet, SetMode, MainLoop
<1>2. enabled' \in [Crtcs -> BOOLEAN] /\ \A d \in Crtcs \ {c} : enabled'[d] = enabled[d]
  <2>1. enabled \in [Crtcs -> BOOLEAN] /\ Success(out) \in BOOLEAN
    BY DEF LitInv, Success, Tried
  <2>2. QED
    BY <1>1, <2>1
<1>3. /\ dpms_mode' \in [Crtcs -> BOOLEAN] /\ need_modeset' \in [Crtcs -> BOOLEAN]
      /\ active' \in [Crtcs -> BOOLEAN]
  BY <1>1, SetModeAttributes
<1>4. /\ blame' \in [Crtcs -> {"none", "dark"}]
      /\ out # "set" => blame'[c] # "none"
      /\ \A d \in Crtcs \ {c} : blame'[d] = blame[d]
  BY <1>1, BlamedFor
<1>5. /\ Owned(fbs, rotate_fb_id, old, fb_id, work.old_fb) /\ bound \in [Crtcs -> Int]
      /\ SetModeFrom(fbs, bound, fb_id, c, r, out)
      /\ \A d \in Crtcs \ {c} : enabled'[d] = enabled[d]
      /\ out # "set" => blame'[c] # "none"
  BY <1>1, <1>2, <1>4 DEF OwnInv
<1>6. /\ Fine(c)'
      /\ \A d \in Crtcs \ {c} :
           /\ ~enabled[d] \/ need_modeset[d] \/ blame'[d] # "none"
              \/ (LitBy(bound, rotate_fb_id, fb_id, d) /\ (dpms_mode[d] => active[d]))
           => Fine(d)'
  BY <1>5, SetModeFine
<1>7. ASSUME vtSema, NEW d \in Crtcs \ {c} PROVE Fine(d)'
  <2>1. Fine(d)
    BY <1>1, <1>7, IdleIsFine
  <2>2. Excused(d) \/ (LitBy(bound, rotate_fb_id, fb_id, d) /\ (dpms_mode[d] => active[d]))
    BY <1>1, <2>1, FineIsLit
  <2>3. QED
    BY <1>4, <1>6, <2>2 DEF Excused
<1>8. work'.op = "none"
  BY <1>1 DEF Idle
<1>9. QED
  BY <1>1, <1>2, <1>3, <1>4, <1>6, <1>7, <1>8, LitIdle

\* RandR turns a CRTC off.
LEMMA RandRDisableLit ==
    ASSUME OwnInv, LitInv, NEW c \in Crtcs, RandRDisable(c)
    PROVE  LitInv'
<1>1. /\ Idle /\ stack = <<>> /\ UNCHANGED <<work, vtSema, need_modeset, fb_id>>
      /\ enabled' = [enabled EXCEPT ![c] = FALSE]
      /\ dpms_mode' = [dpms_mode EXCEPT ![c] = FALSE]
      /\ rotate_fb_id' = [rotate_fb_id EXCEPT ![c] = 0]
      /\ vtSema => bound' = [bound EXCEPT ![c] = Dark]
      /\ active' = [active EXCEPT ![c] = active[c] /\ ~vtSema]
      /\ blame' = [blame EXCEPT ![c] = "none"]
  BY DEF RandRDisable, MainLoop, fbVars
<1>2. /\ enabled \in [Crtcs -> BOOLEAN] /\ dpms_mode \in [Crtcs -> BOOLEAN]
      /\ active \in [Crtcs -> BOOLEAN] /\ blame \in [Crtcs -> {"none", "dark"}]
      /\ need_modeset \in [Crtcs -> BOOLEAN]
      /\ rotate_fb_id \in [Crtcs -> Ids] /\ bound \in [Crtcs -> Int]
  BY DEF LitInv, OwnInv, Owned
<1>3. /\ enabled' \in [Crtcs -> BOOLEAN] /\ ~enabled'[c] /\ dpms_mode' \in [Crtcs -> BOOLEAN]
      /\ blame' \in [Crtcs -> {"none", "dark"}]
      /\ \A d \in Crtcs \ {c} : /\ enabled'[d] = enabled[d] /\ blame'[d] = blame[d]
                                /\ dpms_mode'[d] = dpms_mode[d] /\ active'[d] = active[d]
                                /\ rotate_fb_id'[d] = rotate_fb_id[d]
                                /\ vtSema => bound'[d] = bound[d]
  BY <1>1, <1>2
<1>4. active' \in [Crtcs -> BOOLEAN]
  <2>1. (active[c] /\ ~vtSema) \in BOOLEAN
    OBVIOUS
  <2>2. QED
    BY <1>1, <1>2, <2>1
<1>5. ASSUME vtSema, NEW d \in Crtcs PROVE Fine(d)'
  <2>1. CASE d = c
    BY <1>3, <2>1 DEF Fine, Excused
  <2>2. CASE d # c
    <3>1. Fine(d)
      BY <1>1, <1>5, IdleIsFine
    <3>2. Excused(d) \/ (LitBy(bound, rotate_fb_id, fb_id, d) /\ (dpms_mode[d] => active[d]))
      BY <1>1, <3>1, FineIsLit
    <3>3. QED
      BY <1>1, <1>3, <1>5, <2>2, <3>2 DEF Fine, Excused, Shows, LitBy
  <2>3. QED
    BY <2>1, <2>2
<1>6. work'.op = "none" /\ need_modeset' \in [Crtcs -> BOOLEAN]
  BY <1>1, <1>2 DEF Idle
<1>7. QED
  BY <1>1, <1>3, <1>4, <1>5, <1>6, LitIdle

\* DPMS of the CRTCs alone, at the start of its loop or without one.
LEMMA DpmsLit ==
    ASSUME LitInv, Idle, stack = <<>>,
           UNCHANGED <<vtSema, enabled, need_modeset, rotate_fb_id, fb_id, bound, blame>>,
           dpms_mode' \in [Crtcs -> BOOLEAN], active' \in [Crtcs -> BOOLEAN],
           \A c \in Crtcs : enabled[c] /\ dpms_mode'[c] => active'[c],
           work'.op \in {"none", "dpms"}
    PROVE  LitInv'
<1>1. ASSUME vtSema, NEW c \in Crtcs PROVE Fine(c)'
  <2>1. Fine(c)
    BY <1>1, IdleIsFine
  <2>2. Excused(c) \/ LitBy(bound, rotate_fb_id, fb_id, c)
    BY <2>1, FineIsLit
  <2>3. QED
    BY <2>2 DEF Fine, Excused, Shows, LitBy
<1>2. /\ enabled' \in [Crtcs -> BOOLEAN] /\ need_modeset' \in [Crtcs -> BOOLEAN]
      /\ blame' \in [Crtcs -> {"none", "dark"}]
  BY DEF LitInv
<1>3. QED
  BY <1>1, <1>2, LitIdle

\* DPMS with atomic mode setting: a CRTC whose framebuffer was not imported waits for its mode, and
\* every one is blamed for a commit that failed.
LEMMA SetDpmsLit ==
    ASSUME CallInv, OwnInv, LitInv, drmmode_set_dpms
    PROVE  LitInv'
<1> DEFINE todo       == {c \in Crtcs : enabled[c] /\ need_modeset[c]}
           front(bad) == IF Importers(todo) \ bad # {} THEN NewFb(fbs) ELSE fb_id
<1>0. PICK bad \in SUBSET Crtcs, done \in BOOLEAN :
        /\ fb_id' = front(bad)
        /\ need_modeset' = [c \in Crtcs |-> need_modeset[c] /\ c \notin todo \ bad]
        /\ active' = [c \in Crtcs |-> active[c] \/ (done /\ enabled[c])]
        /\ bound' = [c \in Crtcs |-> IF done /\ c \in todo \ bad
                        THEN IF rotate_fb_id[c] # 0 THEN rotate_fb_id[c] ELSE front(bad)
                        ELSE bound[c]]
        /\ blame' = [c \in Crtcs |-> IF done /\ c \in todo \ bad THEN "none"
                                     ELSE IF ~done /\ enabled[c] THEN "dark"
                                     ELSE blame[c]]
  BY DEF drmmode_set_dpms
<1> DEFINE ready == todo \ bad
           new   == front(bad)
<1>1. /\ fb_id' = new
      /\ \A c \in Crtcs : need_modeset'[c] = (need_modeset[c] /\ c \notin ready)
      /\ \A c \in Crtcs : active'[c] = (active[c] \/ (done /\ enabled[c]))
      /\ \A c \in Crtcs : bound'[c] = IF done /\ c \in ready
                                      THEN IF rotate_fb_id[c] # 0 THEN rotate_fb_id[c] ELSE new
                                      ELSE bound[c]
      /\ \A c \in Crtcs : blame'[c] = IF done /\ c \in ready THEN "none"
                                      ELSE IF ~done /\ enabled[c] THEN "dark" ELSE blame[c]
      /\ \A c \in ready : enabled[c] /\ need_modeset[c]
      /\ \A c \in Crtcs \ ready : enabled[c] /\ need_modeset[c] => need_modeset'[c]
  BY <1>0
<1>2. /\ need_modeset' \in [Crtcs -> BOOLEAN] /\ active' \in [Crtcs -> BOOLEAN]
      /\ blame' \in [Crtcs -> {"none", "dark"}]
  BY <1>0 DEF LitInv
<1>3. fb_id # 0 => new = fb_id
  BY DEF Importers
<1>4. \A c \in ready : rotate_fb_id[c] # 0 \/ new # 0
  <2> SUFFICES ASSUME NEW c \in ready, rotate_fb_id[c] = 0, fb_id = 0 PROVE new # 0
    BY <1>3
  <2>1. c \in Importers(todo) \ bad
    BY DEF Importers
  <2>2. Owned(fbs, rotate_fb_id, old, 0, work.old_fb)
    BY DEF OwnInv
  <2>3. NewFb(fbs) \in FbIds
    BY <2>2, FrontComes
  <2>4. QED
    BY <2>1, <2>3, IdFacts
<1> HIDE DEF todo, front, ready, new
<1>5. /\ Idle /\ stack = <<>> /\ vtSema /\ UNCHANGED <<vtSema, enabled, rotate_fb_id>>
      /\ dpms_mode' = [c \in Crtcs |-> dpms_mode[c] \/ enabled[c]]
      /\ work' = [op |-> "dpms", crtc |-> 1, old_fb |-> 0]
  BY DEF drmmode_set_dpms, MainLoop, xf86DPMSSet, NoWork
<1>6. dpms_mode' \in [Crtcs -> BOOLEAN] /\ enabled' \in [Crtcs -> BOOLEAN] /\ work'.op = "dpms"
  BY <1>5 DEF LitInv
<1>7. ASSUME NEW c \in Crtcs PROVE Fine(c)'
  <2>1. CASE ~enabled[c] \/ ~done
    BY <1>1, <1>5, <2>1 DEF Fine, Excused
  <2>2. CASE enabled[c] /\ done /\ c \in ready
    <3>1. LitBy(bound', rotate_fb_id', fb_id', c)
      BY <1>1, <1>4, <1>5, <2>2 DEF LitBy, Dark
    <3>2. QED
      BY <1>1, <2>2, <3>1 DEF Fine, Shows
  <2>3. CASE enabled[c] /\ done /\ c \notin ready
    <3>1. Fine(c)
      BY <1>5, IdleIsFine
    <3>2. CASE Excused(c)
      BY <1>1, <1>5, <2>3, <3>2 DEF Fine, Excused
    <3>3. CASE LitBy(bound, rotate_fb_id, fb_id, c)
      <4>1. LitBy(bound', rotate_fb_id', fb_id', c)
        BY <1>1, <1>3, <1>5, <2>3, <3>3 DEF LitBy, Dark
      <4>2. QED
        BY <1>1, <2>3, <4>1 DEF Fine, Shows
    <3>4. QED
      BY <1>5, <3>1, <3>2, <3>3, FineIsLit
  <2>4. QED
    BY <2>1, <2>2, <2>3
<1>8. QED
  BY <1>2, <1>6, <1>7, LitIdle

-----------------------------------------------------------------------------

\* Whatever a step does, what is on is lit, but for the CRTCs that are blamed.
LEMMA LitStep == CallInv /\ OwnInv /\ LitInv /\ [Next]_vars => LitInv'
<1> SUFFICES ASSUME CallInv, OwnInv, LitInv, [Next]_vars PROVE LitInv'
  OBVIOUS
<1>a. /\ enabled \in [Crtcs -> BOOLEAN] /\ dpms_mode \in [Crtcs -> BOOLEAN]
      /\ need_modeset \in [Crtcs -> BOOLEAN] /\ active \in [Crtcs -> BOOLEAN]
      /\ blame \in [Crtcs -> {"none", "dark"}] /\ bound \in [Crtcs -> Int] /\ screen_bo \in Int
  BY DEF LitInv, OwnInv
<1>1. ASSUME NEW c \in Crtcs, NEW r \in BOOLEAN, NEW out \in Outcomes, RandRSet(c, r, out)
      PROVE  LitInv'
  BY <1>1, RandRSetLit
<1>2. ASSUME NEW c \in Crtcs, RandRDisable(c) PROVE LitInv'
  BY <1>2, RandRDisableLit
<1>3. CASE DpmsOff
  <2>1. PICK done \in BOOLEAN :
          active' = [c \in Crtcs |-> active[c] /\ ~(done /\ enabled[c])]
    BY <1>3 DEF DpmsOff
  <2>2. /\ Idle /\ stack = <<>>
        /\ dpms_mode' = [c \in Crtcs |-> dpms_mode[c] /\ ~enabled[c]]
        /\ UNCHANGED <<vtSema, enabled, need_modeset, rotate_fb_id, fb_id, bound, blame, work>>
    BY <1>3 DEF DpmsOff, MainLoop, fbVars
  <2>3. dpms_mode' \in [Crtcs -> BOOLEAN] /\ active' \in [Crtcs -> BOOLEAN]
        /\ \A c \in Crtcs : enabled[c] => ~dpms_mode'[c]
    BY <1>a, <2>1, <2>2
  <2>4. work'.op = "none"
    BY <2>2 DEF Idle
  <2>5. QED
    BY <2>2, <2>3, <2>4, DpmsLit
<1>4. CASE drmmode_set_dpms
  BY <1>4, SetDpmsLit
<1>5. CASE DpmsOnLegacy
  <2>1. /\ Idle /\ stack = <<>>
        /\ work' = [op |-> "dpms", crtc |-> 1, old_fb |-> 0]
        /\ dpms_mode' = [c \in Crtcs |-> dpms_mode[c] \/ enabled[c]]
        /\ active' = [c \in Crtcs |-> active[c] \/ enabled[c]]
        /\ UNCHANGED <<vtSema, enabled, need_modeset, rotate_fb_id, fb_id, bound, blame>>
    BY <1>5 DEF DpmsOnLegacy, MainLoop, xf86DPMSSet, NoWork, fbVars
  <2>2. dpms_mode' \in [Crtcs -> BOOLEAN] /\ active' \in [Crtcs -> BOOLEAN]
        /\ \A c \in Crtcs : enabled[c] => active'[c]
    BY <1>a, <2>1
  <2>3. work'.op = "dpms"
    BY <2>1
  <2>4. QED
    BY <2>1, <2>2, <2>3, DpmsLit
<1>6. ASSUME NEW op \in {"dpms", "resize"}, NEW c \in Crtcs, Serves(op, c), SetAgain(c)
      PROVE  LitInv'
  <2>1. PICK out \in Outcomes :
          SetMode(c, rotation[c], out) /\ blame' = Blamed(c, out) /\ UNCHANGED enabled
    BY <1>6 DEF SetAgain
  <2>2. QED
    BY <1>6, <2>1, SetAgainLit
<1>7. ASSUME NEW c \in Crtcs, drmmode_output_dpms(c) \/ ResizeCrtc(c) PROVE LitInv'
  BY <1>6, <1>7 DEF drmmode_output_dpms, ResizeCrtc
<1>8. ASSUME NEW c \in Crtcs, drmmode_set_desired_modes(c) PROVE LitInv'
  <2>1. Serves("enter", c) /\ "enter" \in Loops
    BY <1>8 DEF drmmode_set_desired_modes, Loops
  <2>0. ASSUME NEW d \in Crtcs, Fine(d)
        PROVE  Excused(d) \/ (LitBy(bound, rotate_fb_id, fb_id, d) /\ (dpms_mode[d] => active[d]))
    <3>1. ~Idle
      BY <2>1 DEF Serves, Idle
    <3>2. QED
      BY ONLY <2>0, <3>1, FineIsLit
  <2>2. CASE \E out \in Outcomes : /\ SetMode(c, rotation[c], out) /\ blame' = Blamed(c, out)
                                   /\ UNCHANGED enabled
    BY <2>1, <2>2, SetAgainLit
  <2>3. CASE /\ ~enabled[c] /\ bound' = [bound EXCEPT ![c] = Dark]
             /\ active' = [active EXCEPT ![c] = FALSE] /\ UNCHANGED <<crtcVars, fbVars, blame>>
    <3>1. /\ UNCHANGED <<enabled, dpms_mode, need_modeset, rotate_fb_id, fb_id, blame>>
          /\ active' \in [Crtcs -> BOOLEAN]
          /\ \A d \in Crtcs \ {c} : bound'[d] = bound[d] /\ active'[d] = active[d]
      BY <1>a, <2>3 DEF crtcVars, fbVars
    <3>2. Fine(c)'
      BY <2>3, <3>1 DEF Fine, Excused
    <3>3. ASSUME NEW d \in Crtcs \ {c}, Fine(d) PROVE Fine(d)'
      <4>1. Excused(d) \/ (LitBy(bound, rotate_fb_id, fb_id, d) /\ (dpms_mode[d] => active[d]))
        BY <2>0, <3>3
      <4>2. QED
        BY <3>1, <4>1 DEF Fine, Excused, Shows, LitBy
    <3>4. /\ dpms_mode' \in [Crtcs -> BOOLEAN] /\ need_modeset' \in [Crtcs -> BOOLEAN]
          /\ blame' \in [Crtcs -> {"none", "dark"}]
      BY <1>a, <3>1
    <3>5. QED
      BY <2>1, <3>1, <3>2, <3>3, <3>4, LitServes
  <2>4. QED
    BY <1>8, <2>2, <2>3 DEF drmmode_set_desired_modes
<1>9. ASSUME NEW c \in Crtcs, UnflipCrtc(c) PROVE LitInv'
  BY <1>9, UnflipOnLit, UnflipOffLit DEF UnflipCrtc
<1>10. CASE LoopEnds
  BY <1>10, LoopEndsLit
<1>b. ASSUME UNCHANGED <<enabled, dpms_mode, need_modeset, active, blame>>,
             NEW op \in {"enter", "resize", "unflip"}, NEW f,
             work' = [op |-> op, crtc |-> 1, old_fb |-> f]
      PROVE  LitInv'
  <2>1. work'.op = op /\ work'.crtc = 1
    BY <1>b
  <2>2. /\ enabled' \in [Crtcs -> BOOLEAN] /\ dpms_mode' \in [Crtcs -> BOOLEAN]
        /\ need_modeset' \in [Crtcs -> BOOLEAN] /\ active' \in [Crtcs -> BOOLEAN]
        /\ blame' \in [Crtcs -> {"none", "dark"}]
    BY <1>a, <1>b
  <2>3. QED
    BY <1>b, <2>1, <2>2, LitIdle
<1>11. CASE drmmode_xf86crtc_resize
  BY <1>11, <1>b DEF drmmode_xf86crtc_resize, crtcVars, kernelVars
<1>12. CASE LeaveVT
  <2>1. /\ Idle /\ ~vtSema' /\ active' = [c \in Crtcs |-> TRUE]
        /\ UNCHANGED <<enabled, dpms_mode, need_modeset, blame, work>>
    BY <1>12 DEF LeaveVT, MainLoop, crtcVars
  <2>2. active' \in [Crtcs -> BOOLEAN] /\ work'.op = "none"
    BY <2>1 DEF Idle
  <2>3. QED
    BY <1>a, <2>1, <2>2, LitIdle
<1>13. CASE EnterVT
  <2>1. work' = [op |-> "enter", crtc |-> 1, old_fb |-> 0]
        /\ UNCHANGED <<enabled, dpms_mode, need_modeset, active, blame>>
    BY <1>13 DEF EnterVT, NoWork, crtcVars, kernelVars
  <2>2. QED
    BY <1>b, <2>1
<1>c. ASSUME NEW b \in Int, NEW k \in {"flip", "unflip", "dri2"}, ms_do_pageflip(b, k), CanScanOut,
             UNCHANGED <<vtSema, crtcVars, bound, active, work, blame>>
      PROVE  LitInv'
  <2>1. Idle
    BY <1>c DEF ms_do_pageflip
  <2>2. QED
    BY <1>c, <2>1, FlipBeginsLit
<1>14. CASE ms_present_flip
  <2>1. Pixmap \in Int
    BY ScanoutAssumption DEF Pixmap
  <2>2. /\ ms_do_pageflip(Pixmap, "flip") /\ CanScanOut
        /\ UNCHANGED <<vtSema, crtcVars, bound, active, work, blame>>
    BY <1>14 DEF ms_present_flip, ms_present_check_unflip
  <2>3. QED
    BY <1>c, <2>1, <2>2
<1>15. CASE ms_present_unflip
  <2>1. UNCHANGED <<vtSema, crtcVars, bound, active, blame>>
    BY <1>15 DEF ms_present_unflip
  <2>2. CASE ms_do_pageflip(screen_bo, "unflip") /\ CanScanOut /\ UNCHANGED work
    BY <1>a, <1>c, <2>1, <2>2
  <2>3. CASE FallBack("unflip")
    <3>1. work' = [op |-> "unflip", crtc |-> 1, old_fb |-> 0]
      BY <2>3 DEF FallBack, NoWork
    <3>2. QED
      BY <1>b, <2>1, <3>1 DEF crtcVars
  <2>4. QED
    BY <1>15, <2>2, <2>3 DEF ms_present_unflip, ms_present_check_unflip
<1>16. CASE ms_dri2_schedule_flip
  <2>1. PICK b \in BackBos : ms_do_pageflip(b, "dri2")
    BY <1>16 DEF ms_dri2_schedule_flip
  <2>2. b \in Int
    BY ScanoutAssumption DEF BackBos, Windows, Front
  <2>3. CanScanOut /\ UNCHANGED <<vtSema, crtcVars, bound, active, work, blame>>
    BY <1>16 DEF ms_dri2_schedule_flip, can_flip
  <2>4. QED
    BY <1>c, <2>1, <2>2, <2>3
<1>17. ASSUME NEW c \in Crtcs, queue_flip_on_crtc(c) \/ FlipHalfDone(c) PROVE LitInv'
  BY <1>17, FlipQueuedLit, FlipHalfDoneLit
<1>18. ASSUME NEW s \in Slots, FlipDone(s) PROVE LitInv'
  BY <1>18, FlipDoneLit
<1>19. CASE UNCHANGED vars
  BY <1>19 DEF vars, LitInv, Fine, Excused, Shows, LitBy, Behind, Served, Idle, crtcVars, fbVars,
                kernelVars, flipVars, callVars
<1>20. QED
  BY <1>1, <1>2, <1>3, <1>4, <1>5, <1>7, <1>8, <1>9, <1>10, <1>11, <1>12, <1>13, <1>14, <1>15,
     <1>16, <1>17, <1>18, <1>19, FlipAcceptedLit, FlipRefusedLit DEF Next

\* A CRTC that is on is active and displays its shadow or the framebuffer of the screen, unless
\* its mode waits to be set or it is blamed, through flips that nest, overlap and stay half done,
\* imports that fail and commits that are lost.
THEOREM OnlyTheBlamedAreDark == Spec => []LitUnlessBlamed
<1>1. CallInv /\ LitInv => LitUnlessBlamed
  <2> SUFFICES ASSUME LitInv, MainLoop, vtSema, NEW c \in Crtcs, ms_crtc_on(c),
                      ~need_modeset[c], blame[c] = "none"
               PROVE  Lit(c)
    BY DEF LitUnlessBlamed
  <2>1. Idle /\ stack = <<>>
    BY DEF MainLoop
  <2>2. Fine(c) /\ ~Excused(c)
    BY <2>1, IdleIsFine DEF Excused, ms_crtc_on
  <2>3. LitBy(bound, rotate_fb_id, fb_id, c) /\ active[c]
    BY <2>1, <2>2, FineIsLit DEF ms_crtc_on
  <2>4. QED
    BY <2>3 DEF LitBy, Lit, Wanted
<1>2. CallInv /\ OwnInv /\ LitInv /\ [Next]_vars => CallInv' /\ OwnInv' /\ LitInv'
  <2>1. OwnInv => fb_bo \in Int /\ screen_bo \in Int
    BY DEF OwnInv
  <2>2. QED
    BY <2>1, CallStep, OwnStep, LitStep
<1>3. QED
  BY <1>1, <1>2, CallInit, OwnInit, LitInit, PTL DEF Spec
=============================================================================
