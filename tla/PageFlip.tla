------------------------------ MODULE PageFlip ------------------------------
(***************************************************************************)
(* Page flipping over all CRTCs, src/src/pageflip.c: ms_do_pageflip,       *)
(* queue_flip_on_crtc, ms_pageflip_handler, ms_pageflip_abort and the      *)
(* flushing of events inside the submission loop, with drmmode_crtc_flip   *)
(* of drmmode_display.c as the ioctl.                                      *)
(*                                                                         *)
(* A flip f has one ms_flipdata, and one carrier (ms_crtc_pageflip, linked *)
(* in the DRM queue) per CRTC that is on.  That a kernel event reaches the *)
(* carrier it belongs to is what module DrmQueue shows; here an event      *)
(* simply names its carrier.  The C stack is kept as in DrmQueue: a "flip" *)
(* frame is ms_do_pageflip trying to submit on one CRTC, an "events" frame *)
(* is drmHandleEvent.                                                      *)
(*                                                                         *)
(* Framebuffer f is the one flip f imports; framebuffer 0 is the one the   *)
(* screen starts with.                                                     *)
(***************************************************************************)
EXTENDS Integers, FiniteSets

CONSTANTS
    NumCrtcs,       \* CRTCs of the screen, in the order of config->crtc
    MaxFlips,       \* bound: calls of ms_do_pageflip
    MaxVblanks,     \* bound: other events that may arrive and be handled
    MaxDepth        \* bound: nested activations on the C stack

Crtcs == 1..NumCrtcs
Flips == 1..MaxFlips

ASSUME PageFlipAssumption ==
    /\ NumCrtcs \in Nat /\ MaxFlips \in Nat /\ MaxVblanks \in Nat
    /\ MaxDepth \in Nat

VARIABLES
    on,             \* CRTCs for which ms_crtc_on holds
    fb_id,          \* ms->drmmode.fb_id
    fbs,            \* framebuffers the kernel knows
    scanout,        \* what each CRTC displays
    submitted,      \* the flip the kernel has pending on each CRTC
    fd,             \* events readable on ms->fd
    vblanks,        \* other events that have arrived
    queue,          \* linked carriers
    live,           \* flips whose ms_flipdata is allocated
    flip_count,     \* ms_flipdata.flip_count
    old_fb_id,      \* ms_flipdata.old_fb_id
    calls,          \* flips begun so far
    returned,       \* what ms_do_pageflip returned for each flip
    notified,       \* runs of event_handler, per flip (history)
    dropped,        \* runs of abort_handler, per flip (history)
    partial,        \* flips refused after a CRTC had accepted them (history)
    nested,         \* whether a flip began while another was submitted (history)
    batch,          \* events read by an activation of drmHandleEvent
    depth, frame,   \* the C stack
    closed          \* whether the screen has been closed

flipVars    == <<live, flip_count, old_fb_id, calls, returned, notified, dropped,
                 partial, nested>>
displayVars == <<fbs, scanout, submitted>>
stackVars   == <<batch, depth, frame>>
vars == <<on, fb_id, displayVars, fd, vblanks, queue, flipVars, stackVars, closed>>

Blank   == -1           \* a CRTC whose framebuffer was removed under it
None    == [flip |-> 0, fb |-> 0]
Carrier == [flip : Flips, crtc : Crtcs]
Vblank  == [flip |-> 0, crtc |-> 0]
Event   == Carrier \cup {Vblank}
NoFrame == [kind |-> "none", flip |-> 0, crtc |-> 0, ran |-> FALSE]
Fbs     == 0..MaxFlips

top == frame[depth]

Init ==
    /\ on \in SUBSET Crtcs
    /\ fb_id = 0
    /\ fbs = {0}
    /\ scanout = [c \in Crtcs |-> IF c \in on THEN 0 ELSE Blank]
    /\ submitted = [c \in Crtcs |-> None]
    /\ fd = {}
    /\ vblanks = 0
    /\ queue = {}
    /\ live = {}
    /\ flip_count = [f \in Flips |-> 0]
    /\ old_fb_id = [f \in Flips |-> 0]
    /\ calls = 0
    /\ returned = [f \in Flips |-> "no"]
    /\ notified = [f \in Flips |-> 0]
    /\ dropped = [f \in Flips |-> 0]
    /\ partial = {}
    /\ nested = FALSE
    /\ batch = {}
    /\ depth = 0
    /\ frame = [d \in 1..MaxDepth |-> NoFrame]
    /\ closed = FALSE

-----------------------------------------------------------------------------
(* External: the kernel *)

\* drmModeRmFB: a CRTC that displays the framebuffer, or is about to, is
\* switched off.
drmModeRmFB(fb) ==
    /\ fbs' = fbs \ {fb}
    /\ scanout' = [c \in Crtcs |-> IF scanout[c] = fb THEN Blank ELSE scanout[c]]
    /\ submitted' = [c \in Crtcs |->
         IF submitted[c] # None /\ submitted[c].fb = fb
           THEN [submitted[c] EXCEPT !.fb = Blank] ELSE submitted[c]]

\* The flip happens at the next vblank and its event becomes readable.
KernelFlips(c) ==
    /\ submitted[c] # None
    /\ scanout' = [scanout EXCEPT ![c] = submitted[c].fb]
    /\ submitted' = [submitted EXCEPT ![c] = None]
    /\ fd' = fd \cup {[flip |-> submitted[c].flip, crtc |-> c]}
    /\ UNCHANGED <<on, fb_id, fbs, vblanks, queue, flipVars, stackVars, closed>>

\* The event of some vblank request becomes readable.
KernelVblank ==
    /\ vblanks < MaxVblanks
    /\ Vblank \notin fd
    /\ vblanks' = vblanks + 1
    /\ fd' = fd \cup {Vblank}
    /\ UNCHANGED <<on, fb_id, displayVars, queue, flipVars, stackVars, closed>>

-----------------------------------------------------------------------------
(* ms_do_pageflip *)

Push(f) ==
    /\ depth < MaxDepth
    /\ depth' = depth + 1
    /\ frame' = [frame EXCEPT ![depth + 1] = f]

Pop ==
    /\ depth' = depth - 1
    /\ frame' = [frame EXCEPT ![depth] = NoFrame]

\* The next CRTC after c that is on, or 0.
NextOn(c) ==
    IF \E d \in on : d > c
      THEN CHOOSE d \in on : d > c /\ \A e \in on : e > c => d <= e
      ELSE 0

FlipFrame(f, c) == [kind |-> "flip", flip |-> f, crtc |-> c, ran |-> FALSE]

\* A flip is started from the main loop or from a handler.  Present starts none
\* before the last one was answered, nor does DRI2 for one window; for another
\* window it may, since can_flip does not ask whether a DRI2 flip is pending.  Of a
\* flip still being submitted further down the stack neither knows.
CanFlip ==
    /\ ~closed
    /\ depth > 0 => top.kind = "events" /\ top.ran

Submitting == \E d \in 1..depth : frame[d].kind = "flip"

\* ms_do_pageflip fails before it submits anything: there is no GBM BO, no
\* memory, or drmmode_bo_import fails; or no CRTC is on, and the framebuffer
\* that was imported is removed again.
FlipImpossible ==
    LET f == calls + 1
    IN  /\ CanFlip
        /\ f \in Flips
        /\ calls' = f
        /\ returned' = [returned EXCEPT ![f] = "false"]
        /\ UNCHANGED <<on, fb_id, displayVars, fd, vblanks, queue, live, flip_count,
                       old_fb_id, notified, dropped, partial, nested, stackVars, closed>>

\* A new framebuffer, a local reference, and the carrier for the first CRTC.
FlipBegin ==
    LET f == calls + 1
        c == NextOn(0)
    IN  /\ CanFlip
        /\ f \in Flips /\ c # 0
        /\ calls' = f
        /\ live' = live \cup {f}
        /\ old_fb_id' = [old_fb_id EXCEPT ![f] = fb_id]
        /\ fb_id' = f
        /\ fbs' = fbs \cup {f}
        /\ queue' = queue \cup {[flip |-> f, crtc |-> c]}
        /\ flip_count' = [flip_count EXCEPT ![f] = 2]
        /\ nested' = (nested \/ Submitting)
        /\ Push(FlipFrame(f, c))
        /\ UNCHANGED <<on, scanout, submitted, fd, vblanks, returned, notified,
                       dropped, partial, batch, closed>>

\* drmmode_crtc_flip returns 0.  On to the next CRTC, or, after the last one,
\* drop the local reference and return TRUE: the carrier just submitted is still
\* linked (RefCount), so more than the local reference is left.
FlipAccepted ==
    LET f == top.flip
        c == top.crtc
        n == NextOn(c)
    IN  /\ depth > 0 /\ top.kind = "flip"
        /\ submitted[c] = None /\ fb_id \in fbs
        /\ submitted' = [submitted EXCEPT ![c] = [flip |-> f, fb |-> fb_id]]
        /\ \/ /\ n # 0
              /\ queue' = queue \cup {[flip |-> f, crtc |-> n]}
              /\ flip_count' = [flip_count EXCEPT ![f] = @ + 1]
              /\ frame' = [frame EXCEPT ![depth] = FlipFrame(f, n)]
              /\ UNCHANGED <<depth, returned>>
           \/ /\ n = 0
              /\ flip_count' = [flip_count EXCEPT ![f] = @ - 1]
              /\ returned' = [returned EXCEPT ![f] = "true"]
              /\ Pop
              /\ UNCHANGED queue
        /\ UNCHANGED <<on, fb_id, fbs, scanout, fd, vblanks, live, old_fb_id, calls,
                       notified, dropped, partial, nested, batch, closed>>

\* The frame of drmHandleEvent while the handler of a vblank or of a carrier
\* runs; with f # 0 it is inside the event_handler of flip f.
EventFrame(f, ran) == [kind |-> "events", flip |-> f, crtc |-> 0, ran |-> ran]

ReadEvents(E) ==
    /\ fd' = fd \ E
    /\ batch' = batch \cup {[flip |-> e.flip, crtc |-> e.crtc, at |-> depth + 1] : e \in E}
    /\ Push(EventFrame(0, FALSE))

\* drmmode_crtc_flip fails, because a flip is pending on the CRTC, the framebuffer
\* is gone, events take up the room or something is wrong with the CRTC, and
\* ms_flush_drm_events finds events: handle them and retry.
FlipFlush ==
    /\ depth > 0 /\ top.kind = "flip"
    /\ \E E \in SUBSET fd \ {{}} : ReadEvents(E)
    /\ UNCHANGED <<on, fb_id, displayVars, vblanks, queue, flipVars, closed>>

\* The end of ms_do_pageflip after an error, with count references left.
Undo(f, count) ==
    /\ IF count = 1
         THEN /\ drmModeRmFB(fb_id)
              /\ fb_id' = old_fb_id[f]
              /\ live' = live \ {f}
         ELSE UNCHANGED <<displayVars, fb_id, live>>
    /\ flip_count' = [flip_count EXCEPT ![f] = count - 1]
    /\ returned' = [returned EXCEPT ![f] = "false"]
    /\ Pop

\* The ioctl failed and nothing was flushed, because nothing is readable or the
\* read failed: ms_drm_abort_seq drops the carrier and its reference (never the
\* last one), and ms_do_pageflip gives up.
FlipRefused ==
    LET f == top.flip
    IN  /\ depth > 0 /\ top.kind = "flip"
        /\ queue' = queue \ {[flip |-> f, crtc |-> top.crtc]}
        /\ Undo(f, flip_count[f] - 1)
        /\ partial' = IF top.crtc = NextOn(0) THEN partial ELSE partial \cup {f}
        /\ UNCHANGED <<on, fd, vblanks, old_fb_id, calls, notified, dropped,
                       nested, batch, closed>>

-----------------------------------------------------------------------------
(* Events *)

ms_drm_socket_handler ==
    /\ ~closed /\ depth = 0
    /\ \E E \in SUBSET fd \ {{}} : ReadEvents(E)
    /\ UNCHANGED <<on, fb_id, displayVars, vblanks, queue, flipVars, closed>>

\* Mutant: the flipdata is freed with one reference left.
MutUnrefEarly(f) ==
    /\ flip_count' = [flip_count EXCEPT ![f] = @ - 1]
    /\ live' = IF flip_count[f] <= 2 THEN live \ {f} ELSE live

\* ms_pageflip_free: a carrier of f goes, the last one frees the flipdata.
Unref(f) ==
    /\ flip_count' = [flip_count EXCEPT ![f] = @ - 1]
    /\ live' = IF flip_count[f] = 1 THEN live \ {f} ELSE live

\* Mutant: every CRTC's event tells the extension.
MutHandlerEachPipe(f) ==
    /\ notified' = [notified EXCEPT ![f] = @ + 1]
    /\ IF flip_count[f] = 1
         THEN /\ frame' = [frame EXCEPT ![depth] = EventFrame(f, TRUE)]
              /\ UNCHANGED <<flip_count, live>>
         ELSE /\ frame' = [frame EXCEPT ![depth] = EventFrame(0, TRUE)]
              /\ Unref(f)
    /\ UNCHANGED displayVars

\* Mutant: the old framebuffer goes with the first CRTC's event.
MutHandlerRemovesEarly(f) ==
    IF flip_count[f] = 1
      THEN /\ notified' = [notified EXCEPT ![f] = @ + 1]
           /\ frame' = [frame EXCEPT ![depth] = EventFrame(f, TRUE)]
           /\ UNCHANGED <<flip_count, live, displayVars>>
      ELSE /\ frame' = [frame EXCEPT ![depth] = EventFrame(0, TRUE)]
           /\ drmModeRmFB(old_fb_id[f])
           /\ Unref(f)
           /\ UNCHANGED notified

\* Mutant: the last reference is not recognised.
MutHandlerSilent(f) ==
    /\ frame' = [frame EXCEPT ![depth] = EventFrame(0, TRUE)]
    /\ Unref(f)
    /\ UNCHANGED <<notified, displayVars>>

\* The last reference tells the extension, which may start the next flip from
\* inside event_handler; the others are just dropped.
ms_pageflip_handler(f) ==
    /\ IF flip_count[f] = 1
         THEN /\ notified' = [notified EXCEPT ![f] = @ + 1]
              /\ frame' = [frame EXCEPT ![depth] = EventFrame(f, TRUE)]
              /\ UNCHANGED <<flip_count, live>>
         ELSE /\ frame' = [frame EXCEPT ![depth] = EventFrame(0, TRUE)]
              /\ Unref(f)
              /\ UNCHANGED notified
    /\ UNCHANGED displayVars

\* event_handler returns to ms_pageflip_handler: the old framebuffer is
\* removed and the last reference dropped.
HandlerReturns ==
    LET f == top.flip
    IN  /\ depth > 0 /\ top.kind = "events" /\ f # 0
        /\ drmModeRmFB(old_fb_id[f])
        /\ Unref(f)
        /\ frame' = [frame EXCEPT ![depth] = EventFrame(0, FALSE)]
        /\ UNCHANGED <<on, fb_id, fd, vblanks, queue, old_fb_id, calls, returned,
                       notified, dropped, partial, nested, batch, depth, closed>>

\* The next event of the innermost drmHandleEvent, dispatched by its number.
Dispatch(r) ==
    LET e == [flip |-> r.flip, crtc |-> r.crtc]
    IN  /\ depth > 0 /\ top.kind = "events" /\ top.flip = 0
        /\ r.at = depth
        /\ batch' = batch \ {r}
        /\ \/ /\ e \in queue
              /\ queue' = queue \ {e}
              /\ ms_pageflip_handler(r.flip)
           \/ /\ e \notin queue
              /\ frame' = [frame EXCEPT ![depth] = EventFrame(0, e = Vblank)]
              /\ UNCHANGED <<queue, notified, displayVars, flip_count, live>>
        /\ UNCHANGED <<on, fb_id, fd, vblanks, old_fb_id, calls, returned, dropped,
                       partial, nested, depth, closed>>

EventsDone ==
    /\ depth > 0 /\ top.kind = "events" /\ top.flip = 0
    /\ \A r \in batch : r.at # depth
    /\ Pop
    /\ UNCHANGED <<on, fb_id, displayVars, fd, vblanks, queue, flipVars, batch, closed>>

\* ms_vblank_close_screen aborts every carrier; the last one of each flip runs
\* abort_handler (ms_pageflip_abort).
CloseScreen ==
    /\ ~closed /\ depth = 0
    /\ closed' = TRUE
    /\ queue' = {}
    /\ LET of(f) == Cardinality({q \in queue : q.flip = f})
       IN  /\ flip_count' = [f \in Flips |-> flip_count[f] - of(f)]
           /\ live' = {f \in live : flip_count[f] # of(f)}
           /\ dropped' = [f \in Flips |->
                IF of(f) > 0 /\ of(f) = flip_count[f] THEN dropped[f] + 1 ELSE dropped[f]]
    /\ UNCHANGED <<on, fb_id, displayVars, fd, vblanks, old_fb_id, calls, returned,
                   notified, partial, nested, stackVars>>

-----------------------------------------------------------------------------
ServerStep ==
    \/ FlipAccepted
    \/ FlipFlush
    \/ FlipRefused
    \/ ms_drm_socket_handler
    \/ \E r \in batch : Dispatch(r)
    \/ HandlerReturns
    \/ EventsDone

Next ==
    \/ ServerStep
    \/ FlipImpossible
    \/ FlipBegin
    \/ \E c \in Crtcs : KernelFlips(c)
    \/ KernelVblank
    \/ CloseScreen

Spec == Init /\ [][Next]_vars
FairSpec ==
    /\ Spec
    /\ WF_vars(ServerStep)
    /\ \A c \in Crtcs : WF_vars(KernelFlips(c))

-----------------------------------------------------------------------------
(* Properties *)

Activations(f) == {d \in 1..depth : frame[d].flip = f}
Carriers(f)    == {q \in queue : q.flip = f}

\* flip_count counts the linked carriers, the carrier whose event_handler runs
\* and the activation of ms_do_pageflip, and the flipdata is there as long as one of them can reach it: nothing is
\* used after it is freed and nothing is left behind.
RefCount ==
    \A f \in Flips :
        /\ flip_count[f] = Cardinality(Carriers(f)) + Cardinality(Activations(f))
        /\ f \in live <=> flip_count[f] > 0

\* The extension's event is freed by event_handler and by abort_handler: a flip
\* that ms_do_pageflip accepted gets exactly one of them, when the last
\* reference goes.  One for which it returned FALSE gets none, since the extension has
\* fallen back to copying, unless a CRTC had accepted it.
AnsweredOnce ==
    \A f \in Flips :
        /\ notified[f] + dropped[f] <= 1
        /\ returned[f] = "false" /\ f \notin partial => notified[f] + dropped[f] = 0
        /\ returned[f] = "true" /\ f \notin live => notified[f] + dropped[f] = 1

\* So far no flip was left half done, and none began inside another.
Undisturbed == partial = {} /\ ~nested

\* No CRTC loses the framebuffer it displays or is about to display; and between flips
\* every CRTC shows the framebuffer of the screen, and no other is left in the kernel.
DisplayAlive ==
    Undisturbed =>
        /\ \A c \in on : scanout[c] # Blank /\ submitted[c].fb # Blank
        /\ depth = 0 /\ live = {} /\ ~closed
             => fbs = {fb_id} /\ \A c \in on : scanout[c] = fb_id

\* The extension is told of a flip f in this step.
Told(f) == notified'[f] > notified[f]

\* When the extension is told, every pipe has done this flip, or a later one that
\* overtook the event.
ToldWhenDone ==
    [][Undisturbed => \A f \in Flips : Told(f) => \A c \in on : scanout[c] >= f]_vars

\* A flip that was accepted is eventually reported or aborted.
EveryFlipAnswered ==
    \A f \in Flips : returned[f] = "true" ~> notified[f] + dropped[f] > 0
=============================================================================
