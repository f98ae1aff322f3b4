----------------------------- MODULE SwapTarget -----------------------------
(***************************************************************************)
(* At which frame a DRI2 swap becomes visible and a DRI2 wait ends,        *)
(* src/src/dri2.c: the arithmetic on target_msc, divisor and remainder in  *)
(* ms_dri2_schedule_swap and ms_dri2_schedule_wait_msc, the flags given to *)
(* the kernel, and what ms_dri2_frame_event_handler does when the event    *)
(* comes.                                                                  *)
(*                                                                         *)
(* One request is followed.  The display goes on counting frames between   *)
(* the driver reading the counter, queueing the request, handling the      *)
(* event and flipping, so each of these is a step.                         *)
(***************************************************************************)
EXTENDS Integers

CONSTANTS
    MaxMsc,         \* bound: the last frame of the model
    MaxDivisor      \* bound: the largest divisor a client gives

ASSUME SwapTargetAssumption == MaxMsc \in Nat /\ MaxDivisor \in Nat

Frames   == 0..MaxMsc
Nowhere  == -1

VARIABLES
    now,            \* the frame the display is at
    stage,          \* "idle", "read", "queued", "flipping", "done"
    kind,           \* "swap" or "wait"
    flip,           \* 1 if the swap is queued as a flip, else 0
    target_msc, divisor, remainder,     \* what the client asked for
    asked_msc,      \* the frame at which the client asked (history)
    current_msc,    \* what ms_get_crtc_ust_msc returned
    queued_msc,     \* the frame the kernel will send the event for
    shown,          \* the frame at which the swap is visible or the wait ends
    late,           \* whether a frame passed while the driver worked (history)
    changed,        \* whether can_flip changed its answer (history)
    misread         \* whether ms_get_crtc_ust_msc failed (history)

swapVars == <<now, stage, kind, flip, target_msc, divisor, remainder, asked_msc, current_msc,
          queued_msc, shown, late, changed, misread>>
request == <<kind, target_msc, divisor, remainder, asked_msc>>

SwapInit ==
    /\ now \in Frames
    /\ stage = "idle"
    /\ kind = "swap"
    /\ flip = 0
    /\ target_msc = 0
    /\ divisor = 0
    /\ remainder = 0
    /\ asked_msc = 0
    /\ current_msc = 0
    /\ queued_msc = Nowhere
    /\ shown = Nowhere
    /\ late = FALSE
    /\ changed = FALSE
    /\ misread = FALSE

-----------------------------------------------------------------------------
(* Arithmetic *)

Later(a, b) == IF a > b THEN a ELSE b

\* Mutant: a frame that satisfies the equation now is taken.
MutSwapSatisfying(cur, d, r) ==
    LET m == cur - (cur % d) + r
    IN  IF m < cur THEN m + d ELSE m

\* The next frame that satisfies the equation, for a swap.
SwapSatisfying(cur, d, r) ==
    LET m == cur - (cur % d) + r
    IN  IF m <= cur THEN m + d ELSE m

\* The same for a wait, which compares the remainders.
WaitSatisfying(cur, d, r) ==
    LET m == cur - (cur % d) + r
    IN  IF cur % d >= r THEN m + d ELSE m

\* The frame ms_dri2_schedule_swap asks the kernel for; a flip is submitted one
\* frame before it is to be seen.
SwapRequest(cur, t, d, r, f) ==
    LET early == IF t > 0 THEN t - f ELSE t
    IN  IF d = 0 \/ cur < early THEN Later(early, cur)
        ELSE SwapSatisfying(cur, d, r) - f

\* The frame ms_dri2_schedule_wait_msc asks for.
WaitRequest(cur, t, d, r) ==
    IF d = 0 \/ cur < t THEN Later(t, cur) ELSE WaitSatisfying(cur, d, r)

-----------------------------------------------------------------------------
(* Steps *)

\* A request arrives and the driver reads the frame counter.  GLX clients give
\* a remainder below the divisor.  If the counter cannot be read a swap is a blit
\* at once, and is not followed here; a wait goes on with current_msc not set.
Read(k, t, d, r) ==
    /\ stage = "idle"
    /\ d = 0 => r = 0
    /\ d > 0 => r < d
    /\ stage' = "read"
    /\ kind' = k
    /\ target_msc' = t
    /\ divisor' = d
    /\ remainder' = r
    /\ asked_msc' = now
    /\ misread' \in IF k = "wait" THEN BOOLEAN ELSE {FALSE}
    /\ current_msc' \in IF misread' THEN Frames ELSE {now}
    /\ UNCHANGED <<now, flip, queued_msc, shown, late, changed>>

\* External: the kernel sends the event at once if the frame has passed, or with
\* MS_QUEUE_NEXT_ON_MISS at the next one.
KernelQueues(m, next_on_miss) ==
    IF m > now THEN m ELSE IF next_on_miss THEN now + 1 ELSE now

\* Mutant: a blit is queued without MS_QUEUE_NEXT_ON_MISS.
MutQueueSwap(f) ==
    /\ stage = "read" /\ kind = "swap"
    /\ stage' = "queued"
    /\ flip' = f
    /\ queued_msc' = KernelQueues(
         SwapRequest(current_msc, target_msc, divisor, remainder, f), FALSE)
    /\ UNCHANGED <<now, request, current_msc, shown, late, changed, misread>>

\* can_flip decides on f; a swap that is no flip is queued with NEXT_ON_MISS.
QueueSwap(f) ==
    /\ stage = "read" /\ kind = "swap"
    /\ stage' = "queued"
    /\ flip' = f
    /\ queued_msc' = KernelQueues(
         SwapRequest(current_msc, target_msc, divisor, remainder, f), f = 0)
    /\ UNCHANGED <<now, request, current_msc, shown, late, changed, misread>>

QueueWait ==
    /\ stage = "read" /\ kind = "wait"
    /\ stage' = "queued"
    /\ queued_msc' = KernelQueues(
         WaitRequest(current_msc, target_msc, divisor, remainder), FALSE)
    /\ UNCHANGED <<now, flip, request, current_msc, shown, late, changed, misread>>

\* ms_dri2_frame_event_handler: report the wait or blit; a flip is submitted,
\* or blitted if can_flip has changed its mind.
Handle(flips) ==
    /\ stage = "queued" /\ now >= queued_msc
    /\ flips => flip = 1
    /\ changed' = (flip = 1 /\ ~flips)
    /\ IF flips
         THEN stage' = "flipping" /\ UNCHANGED shown
         ELSE stage' = "done" /\ shown' = now
    /\ UNCHANGED <<now, flip, request, current_msc, queued_msc, late, misread>>

\* External: the next frame.  A flip that was submitted becomes visible.
NextFrame ==
    /\ now < MaxMsc
    /\ stage \notin {"idle", "done"}
    /\ now' = now + 1
    /\ late' = (late \/ ~((stage = "queued" /\ now < queued_msc) \/ stage = "flipping"))
    /\ IF stage = "flipping"
         THEN stage' = "done" /\ shown' = now + 1
         ELSE UNCHANGED <<stage, shown>>
    /\ UNCHANGED <<flip, request, current_msc, queued_msc, changed, misread>>

SwapNext ==
    \/ \E k \in {"swap", "wait"}, t \in Frames, d \in 0..MaxDivisor, r \in 0..MaxDivisor :
         Read(k, t, d, r)
    \/ \E f \in {0, 1} : QueueSwap(f)
    \/ QueueWait
    \/ \E flips \in BOOLEAN : Handle(flips)
    \/ NextFrame

SwapSpec == SwapInit /\ [][SwapNext]_swapVars

-----------------------------------------------------------------------------
(* Properties *)

\* The first frame after cur that satisfies the client's equation.
FirstSatisfying(cur, d, r) ==
    CHOOSE m \in (cur + 1)..(cur + d) : m % d = r

Finished(k) == stage = "done" /\ kind = k

\* If nothing is late, a wait whose frame counter could be read ends exactly where the
\* client wants it: at the target, at once if that has passed, or at the next frame that
\* satisfies the equation.  A swap for which can_flip keeps its answer is seen exactly at
\* its target; if that has passed, at the next frame, or at the next one that satisfies
\* the equation, whether it is a blit or a flip.  For a flip with a divisor the target
\* has passed one frame before it comes.
OnTime ==
    /\ Finished("wait") /\ ~late /\ ~misread =>
        shown = IF asked_msc < target_msc THEN target_msc
                ELSE IF divisor = 0 THEN asked_msc
                ELSE FirstSatisfying(asked_msc, divisor, remainder)
    /\ Finished("swap") /\ ~late /\ ~changed =>
        shown = IF divisor = 0 \/ asked_msc + flip < target_msc
                  THEN Later(target_msc, asked_msc + 1)
                  ELSE FirstSatisfying(asked_msc, divisor, remainder)

\* Whatever is late, a swap is never seen before its target, nor in the frame in
\* which the client asked for it; a flip that becomes a blit when its event comes
\* is seen at most one frame before the target.
NeverEarly ==
    Finished("swap") =>
        IF changed THEN shown >= target_msc - 1
                   ELSE shown >= target_msc /\ shown > asked_msc

=============================================================================
