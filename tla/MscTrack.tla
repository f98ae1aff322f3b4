------------------------------ MODULE MscTrack ------------------------------
(***************************************************************************)
(* The frame counters of src/src/vblank.c for one CRTC: how                *)
(* ms_kernel_msc_to_crtc_msc extends the 32 bit frame numbers of the older *)
(* kernel interfaces to 64 bits (msc_prev, msc_high), and how              *)
(* ms_get_kernel_ust_msc and ms_queue_vblank choose between the 64 bit     *)
(* sequence ioctls and drmWaitVBlank (tried_queue_sequence,                *)
(* has_queue_sequence).                                                    *)
(*                                                                         *)
(* A 64 bit number is the pair of its 32 bit halves.  The halves keep      *)
(* their width: Lows is 2^32 and the comparison distance Quarter is 2^30   *)
(* (0x40000000) in the code.                                               *)
(***************************************************************************)
EXTENDS Integers

CONSTANTS
    Quarter,      \* 0x40000000
    Highs,        \* 2^32: values of the upper half
    MaxIdle,      \* bound: frames that pass without any report being converted
    MaxLag,       \* bound: frames an event is old when it is dispatched
    MaxAhead,     \* bound: frames a queued request lies in the future
    Supports64    \* whether the kernel has the sequence ioctls (Linux 4.15)

ASSUME MscTrackAssumption ==
    /\ Quarter \in Nat \ {0}
    /\ Highs \in Nat \ {0, 1}
    /\ MaxIdle \in Nat /\ MaxLag \in Nat /\ MaxAhead \in Nat
    /\ MaxIdle <= Quarter /\ MaxLag <= Quarter /\ MaxAhead <= 2 * Quarter
    /\ Supports64 \in BOOLEAN

Lows == 4 * Quarter
Msc  == [hi : 0..(Highs - 1), lo : 0..(Lows - 1)]

VARIABLES
    kernel_msc,             \* the kernel's own 64 bit frame counter
    crtcOn,                 \* whether the kernel counts frames on this CRTC
    msc_prev, msc_high,     \* drmmode_crtc_private
    has_queue_sequence, tried_queue_sequence,   \* modesettingRec
    converted,              \* whether any report has been converted (history)
    exact,                  \* whether a 64 bit report has been (history)
    last,                   \* the last conversion: frame meant, msc returned
    gap                     \* kernel_msc minus last.frame (history)

driverVars == <<msc_prev, msc_high, has_queue_sequence, tried_queue_sequence>>
history    == <<converted, exact, last, gap>>
mscVars    == <<kernel_msc, crtcOn, driverVars, history>>

\* The frame d frames after f (before it, if d is negative): at most one carry.
Shift(f, d) ==
    LET s == f.lo + d
    IN  IF s >= Lows THEN [hi |-> f.hi + 1, lo |-> s - Lows]
        ELSE IF s < 0 THEN [hi |-> f.hi - 1, lo |-> s + Lows]
        ELSE [hi |-> f.hi, lo |-> s]

\* The server starts at any time in the life of the kernel.
MscInit ==
    /\ kernel_msc \in Msc
    /\ crtcOn \in BOOLEAN
    /\ msc_prev = 0
    /\ msc_high = 0
    /\ has_queue_sequence = FALSE
    /\ tried_queue_sequence = FALSE
    /\ converted = FALSE
    /\ exact = FALSE
    /\ last = [frame |-> kernel_msc, msc |-> [hi |-> 0, lo |-> 0], wide |-> FALSE]
    /\ gap = 0

-----------------------------------------------------------------------------
(* ms_kernel_msc_to_crtc_msc *)

\* msc_high += 2^32 and msc_high -= 2^32, in uint64_t.
Up(h)   == IF h = Highs - 1 THEN 0 ELSE h + 1
Down(h) == IF h = 0 THEN Highs - 1 ELSE h - 1

\* Mutant: any smaller number counts as a wrap.
MutHighForNarrow(lo) ==
    IF lo < msc_prev THEN Up(msc_high)
    ELSE IF lo > msc_prev + Quarter THEN Down(msc_high)
    ELSE msc_high

\* The upper half to be used with a 32 bit report.
HighForNarrow(lo) ==
    IF lo < msc_prev - Quarter THEN Up(msc_high)
    ELSE IF lo > msc_prev + Quarter THEN Down(msc_high)
    ELSE msc_high

\* Mutant: a 64 bit report does not update the upper half.
MutHighForWide(msc) == msc_high

\* The upper half after a 64 bit report.
HighForWide(msc) == msc.hi

\* The kernel reports the number reported for the frame f; is64bit is what the
\* caller passes on.
Convert(f, reported, is64bit) ==
    /\ msc_prev' = reported.lo
    /\ msc_high' = IF is64bit THEN HighForWide(reported) ELSE HighForNarrow(reported.lo)
    /\ converted' = TRUE
    /\ exact' = (exact \/ is64bit)
    /\ last' = [frame |-> f, wide |-> is64bit,
                msc |-> IF is64bit THEN reported
                        ELSE [hi |-> msc_high', lo |-> reported.lo]]

\* drmWaitVBlank, vblank and page flip events carry the low half only.
Truncated(f) == [hi |-> 0, lo |-> f.lo]

-----------------------------------------------------------------------------
(* Which ioctl is used *)

Tries64 == has_queue_sequence \/ ~tried_queue_sequence

\* The sequence ioctl answers: 0, ENOTTY or EINVAL, or another error.  An idle
\* CRTC gives EINVAL, to drmWaitVBlank as well.
Answer64 ==
    IF ~Supports64 THEN {"unsupported"}
    ELSE IF crtcOn THEN {"ok", "error"} ELSE {"unsupported", "error"}

\* ms_get_crtc_ust_msc, with ms_get_kernel_ust_msc
ms_get_crtc_ust_msc ==
    /\ tried_queue_sequence' = TRUE
    /\ \/ \E answer \in Answer64 \ {"unsupported"} :
            /\ Tries64
            /\ has_queue_sequence' = TRUE
            /\ IF answer = "ok"
                 THEN Convert(kernel_msc, kernel_msc, TRUE) /\ gap' = 0
                 ELSE UNCHANGED <<msc_prev, msc_high, history>>
       \/ /\ Tries64 => "unsupported" \in Answer64
          /\ UNCHANGED has_queue_sequence
          /\ IF crtcOn
               THEN /\ Convert(kernel_msc, Truncated(kernel_msc), has_queue_sequence)
                    /\ gap' = 0
               ELSE UNCHANGED <<msc_prev, msc_high, history>>
    /\ UNCHANGED <<kernel_msc, crtcOn>>

\* ms_queue_vblank for a frame that is a frames ahead.  The caller may have
\* asked for its number (msc_queued is not NULL: DRI2) or not (Present).  The
\* retries after EBUSY are in module DrmQueue.
ms_queue_vblank(a, asked) ==
    LET f == Shift(kernel_msc, a)
    IN  /\ f.hi < Highs
        /\ tried_queue_sequence' = TRUE
        /\ \/ \E answer \in Answer64 \ {"unsupported"} :
                /\ Tries64
                /\ has_queue_sequence' = TRUE
                /\ IF answer = "ok" /\ asked
                     THEN Convert(f, f, TRUE) /\ gap' = -a
                     ELSE UNCHANGED <<msc_prev, msc_high, history>>
           \/ /\ Tries64 => "unsupported" \in Answer64
              /\ UNCHANGED has_queue_sequence
              /\ IF crtcOn /\ asked
                   THEN Convert(f, Truncated(f), FALSE) /\ gap' = -a
                   ELSE UNCHANGED <<msc_prev, msc_high, history>>
        /\ UNCHANGED <<kernel_msc, crtcOn>>

\* ms_drm_handler: a vblank or page flip event, lag frames old.
ms_drm_handler(lag) ==
    LET f == Shift(kernel_msc, -lag)
    IN  /\ f.hi >= 0
        /\ Convert(f, Truncated(f), FALSE)
        /\ gap' = lag
        /\ UNCHANGED <<kernel_msc, crtcOn, has_queue_sequence, tried_queue_sequence>>

\* ms_drm_sequence_handler_64bit: the answer to a 64 bit request.
ms_drm_sequence_handler_64bit(lag) ==
    LET f == Shift(kernel_msc, -lag)
    IN  /\ has_queue_sequence /\ Supports64
        /\ f.hi >= 0
        /\ Convert(f, f, TRUE)
        /\ gap' = lag
        /\ UNCHANGED <<kernel_msc, crtcOn, has_queue_sequence, tried_queue_sequence>>

-----------------------------------------------------------------------------
(* External: the display *)

CountFrame ==
    /\ crtcOn
    /\ converted => gap < MaxIdle
    /\ Shift(kernel_msc, 1).hi < Highs
    /\ kernel_msc' = Shift(kernel_msc, 1)
    /\ gap' = IF converted THEN gap + 1 ELSE 0
    /\ last' = IF converted THEN last ELSE [last EXCEPT !.frame = kernel_msc']
    /\ UNCHANGED <<crtcOn, driverVars, converted, exact>>

\* The server turns the CRTC on or off.
Switch == crtcOn' = ~crtcOn /\ UNCHANGED <<kernel_msc, driverVars, history>>

MscNext ==
    \/ ms_get_crtc_ust_msc
    \/ \E a \in 0..MaxAhead, asked \in BOOLEAN : ms_queue_vblank(a, asked)
    \/ \E lag \in 0..MaxLag : ms_drm_handler(lag)
    \/ \E lag \in 0..MaxLag : ms_drm_sequence_handler_64bit(lag)
    \/ CountFrame
    \/ Switch

MscSpec == MscInit /\ [][MscNext]_mscVars

-----------------------------------------------------------------------------
(* Properties *)

\* Types: both halves keep their width however far reports are apart.
MscTypeOK ==
    /\ kernel_msc \in Msc
    /\ crtcOn \in BOOLEAN
    /\ msc_prev \in 0..(Lows - 1)
    /\ msc_high \in 0..(Highs - 1)
    /\ has_queue_sequence \in BOOLEAN
    /\ tried_queue_sequence \in BOOLEAN
    /\ converted \in BOOLEAN
    /\ exact \in BOOLEAN
    /\ last \in [frame : Msc, msc : Msc, wide : BOOLEAN]
    /\ gap \in Int

\* Reports stay within the distance the comparison in
\* ms_kernel_msc_to_crtc_msc can resolve.
CloseReports ==
    /\ MaxAhead + MaxLag <= Quarter
    /\ MaxAhead + MaxIdle <= Quarter

\* By how many times 2^32 a returned msc is ahead of the frame it stands for.
Offset(l) ==
    LET d == l.msc.hi - l.frame.hi
    IN  IF d < 0 THEN d + Highs ELSE d

\* The msc returned for 32 bit reports advances exactly as the frames do,
\* through every wrap of the 32 bit number and for reports out of order: the
\* distance between the two never changes.
MscAdvances ==
    [][converted /\ ~last'.wide =>
         /\ last'.msc.lo = last'.frame.lo
         /\ Offset(last') = Offset(last)]_last

\* Once a 64 bit report has been converted, every msc is the kernel's own
\* number, those of the 32 bit page flip events included.
MscExact == exact => last.msc = last.frame
=============================================================================
