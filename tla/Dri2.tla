-------------------------------- MODULE Dri2 --------------------------------
(***************************************************************************)
(* The DRI2 glue of src/src/dri2.c: frame events (swaps, flips and waits   *)
(* for a frame), which a client's request creates, the DRM queue answers,  *)
(* and client and window may abandon in between; the reference counted     *)
(* buffers they hold; and page flips with the exchange of front and back.  *)
(*                                                                         *)
(* The DRM queue is used through what RequestLedger promises: a queued     *)
(* frame event gets its handler or its abort callback, once.  Handlers run *)
(* from the main loop or from the flush inside ms_do_pageflip, so stack    *)
(* holds the frame events whose flip is being submitted, innermost last.   *)
(* ms_do_pageflip is used as module PageFlip has it: it makes its          *)
(* framebuffer at once, whatever it goes by is ms->drmmode.fb_id, and it   *)
(* may be refused with a CRTC flipped, whose event is reported all the     *)
(* same.                                                                   *)
(*                                                                         *)
(* Pixmap 0 is the one of the screen, buffer b that has a pixmap of its    *)
(* own has pixmap b, and a redirected window has one too.  A BO is named   *)
(* after the pixmap it was created for; ms_dri2_exchange_buffers moves it. *)
(***************************************************************************)
EXTENDS Integers, FiniteSets, Sequences

CONSTANTS
    Clients,        \* the clients
    NumWindows,     \* windows they draw to
    NumBuffers,     \* bound: DRI2 buffers ever created
    NumEvents,      \* bound: frame events ever created
    Redirectable,   \* bound: the windows that compositing may redirect
    QueueFails      \* whether ms_queue_vblank may refuse a request

Windows == 1..NumWindows
Buffers == 1..NumBuffers
Events  == 1..NumEvents
NULL    == 0

ASSUME Dri2Assumption ==
    /\ NumWindows \in Nat /\ NumBuffers \in Nat /\ NumEvents \in Nat
    /\ Redirectable \subseteq Windows
    /\ QueueFails \in BOOLEAN
    /\ NULL \notin Clients

Root        == 0
Redirect(d) == NumBuffers + d
Pixmaps     == {Root} \cup Buffers \cup {Redirect(d) : d \in Windows}

VARIABLES
    clients,        \* connected clients
    windows,        \* existing windows
    winpix,         \* the pixmap of each window
    held,           \* front and back buffer DRI2 keeps for each window
    created,        \* buffers created so far
    refcnt,         \* ms_dri2_buffer_private.refcnt
    pixmap,         \* ms_dri2_buffer_private.pixmap
    bo,             \* the BO of each pixmap
    fb_bo,          \* the BO of the framebuffer ms->drmmode.fb_id
    scheduled,      \* frame events created so far
    info,           \* ms_dri2_frame_event of each
    deleted,        \* runs of ms_dri2_del_frame_event, per event (history)
    asked,          \* the window the client named (history)
    completed,      \* times the client was told, per event (history)
    queue,          \* frame events in the DRM queue
    old_bo,         \* the BO of flipdata->old_fb_id, per frame event
    stack,          \* frame events whose ms_do_pageflip is running
    flips,          \* ms_dri2_vblank_event of flips that have an event on the way
    dri2_flipping,  \* ms->drmmode.dri2_flipping
    blocked,        \* waits for which DRI2BlockClient put a client to sleep
    closed,         \* whether the screen has been closed
    halfway,        \* frame events whose flip was refused with a CRTC flipped (history)
    nested,         \* whether a flip was submitted while the outermost one was (history)
    mixed           \* whether that, or a flip left half done, came after the last flip
                    \* that was accepted without (history)

serverVars == <<clients, windows, winpix>>
bufferVars == <<held, created, refcnt, pixmap, bo>>
eventVars  == <<scheduled, info, deleted, asked, completed>>
flipVars   == <<fb_bo, old_bo, stack, flips, dri2_flipping, halfway, nested, mixed>>
vars == <<serverVars, bufferVars, eventVars, flipVars, queue, blocked, closed>>

NoBuffers == [front |-> NULL, back |-> NULL]
NoInfo    == [type |-> "unused", client |-> NULL, drawable |-> NULL,
              front |-> NULL, back |-> NULL]

\* What the model still knows of a frame event that has been freed.
FreedInfo(type) == [NoInfo EXCEPT !.type = type]

Init ==
    /\ clients = Clients
    /\ windows = Windows
    /\ winpix = [d \in Windows |-> Root]
    /\ held = [d \in Windows |-> NoBuffers]
    /\ created = 0
    /\ refcnt = [b \in Buffers |-> 0]
    /\ pixmap = [b \in Buffers |-> Root]
    /\ bo = [p \in Pixmaps |-> p]
    /\ fb_bo = Root /\ old_bo = [e \in Events |-> Root]
    /\ scheduled = 0
    /\ info = [e \in Events |-> NoInfo]
    /\ deleted = [e \in Events |-> 0]
    /\ asked = [e \in Events |-> NULL]
    /\ completed = [e \in Events |-> 0]
    /\ queue = {}
    /\ stack = <<>>
    /\ flips = {}
    /\ dri2_flipping = FALSE
    /\ blocked = {}
    /\ closed = FALSE
    /\ halfway = {} /\ nested = FALSE /\ mixed = FALSE

\* Requests are processed by the main loop, never from a handler.
MainLoop == ~closed /\ stack = <<>>

-----------------------------------------------------------------------------
(* Buffers *)

\* ms_dri2_destroy_buffer2 for the buffers of S; NULL is skipped.
Released(S) == [b \in Buffers |-> IF b \in S THEN refcnt[b] - 1 ELSE refcnt[b]]

HeldFor(d)  == {held[d].front, held[d].back}
BuffersOf(e) == {info[e].front, info[e].back}

Swaps(d) == {e \in Events : asked[e] = d /\ info[e].type # "wait"}

\* DRI2 counts the swaps of a window up when they are asked for and down when they are
\* completed; one that is completed twice hides another.
Outstanding(d) ==
    Cardinality({e \in Swaps(d) : completed[e] = 0}) > Cardinality({e \in Swaps(d) : completed[e] = 2})

\* DRI2 asks for the buffers of a window, again after a resize; it lets clients
\* sleep while a swap of the window is outstanding.  The front buffer shares
\* the window's pixmap, the back buffer gets its own (ms_dri2_create_buffer2).
ms_dri2_create_buffer2(d) ==
    LET f == created + 1
        b == created + 2
    IN  /\ MainLoop
        /\ clients # {} /\ d \in windows /\ ~Outstanding(d)
        /\ b \in Buffers
        /\ created' = b
        /\ held' = [held EXCEPT ![d] = [front |-> f, back |-> b]]
        /\ refcnt' = [Released(HeldFor(d)) EXCEPT ![f] = 1, ![b] = 1]
        /\ pixmap' = [pixmap EXCEPT ![f] = winpix[d], ![b] = b]
        /\ UNCHANGED <<serverVars, bo, eventVars, flipVars, queue, blocked, closed>>

\* External: the last DRI2 reference to the window goes, and with it the
\* buffers DRI2 holds and the sleep of clients that wait on the window.
Dri2DrawableGone(d) ==
    /\ held' = [held EXCEPT ![d] = NoBuffers]
    /\ refcnt' = Released(HeldFor(d))
    /\ blocked' = {w \in blocked : w.drawable # d}

DestroyDrawable(d) ==
    /\ MainLoop
    /\ held[d] # NoBuffers
    /\ Dri2DrawableGone(d)
    /\ UNCHANGED <<serverVars, created, pixmap, bo, eventVars, flipVars, queue, closed>>

\* External: the composite extension gives the window a pixmap of its own, or
\* takes it away again.
Redirection(d) ==
    /\ MainLoop /\ d \in windows \cap Redirectable
    /\ winpix' = [winpix EXCEPT ![d] = IF @ = Root THEN Redirect(d) ELSE Root]
    /\ UNCHANGED <<clients, windows, bufferVars, eventVars, flipVars, queue, blocked, closed>>

-----------------------------------------------------------------------------
(* Scheduling *)

\* What can_flip finds out: "no" before it looks at the buffers; "updated" if it
\* refuses after update_front; "yes".  DRI2CanFlip wants the screen's pixmap.
Verdicts(d) == IF winpix[d] = Root THEN {"no", "updated", "yes"} ELSE {"no"}

\* Mutant: the front buffer keeps the pixmap it was created with.
MutUpdatedFront(verdict, b, d) == pixmap

\* update_front: the front buffer b follows the window to its current pixmap.
UpdatedFront(verdict, b, d) ==
    IF verdict = "no" THEN pixmap ELSE [pixmap EXCEPT ![b] = winpix[d]]

Answers == {"queued", "unqueued"} \cup (IF QueueFails THEN {"refused"} ELSE {})

\* How often the frame event of a new request is deleted before the driver
\* returns: when there is no msc or no queue entry ("unqueued") by the driver's
\* own error path, when ms_queue_vblank refuses it by the abort callback as well.
Deletions(answer) ==
    CASE answer = "queued" -> 0 [] answer = "unqueued" -> 1 [] answer = "refused" -> 2

\* A new frame event: into both resource lists and, unless something fails, into
\* the DRM queue.  (Without memory for it, or on a window that no CRTC shows, the
\* request is completed at once and nothing changes.)
NewFrameEvent(type, c, d, B, answer) ==
    LET e == scheduled + 1
    IN  /\ MainLoop
        /\ c \in clients /\ d \in windows
        /\ e \in Events
        /\ scheduled' = e
        /\ info' = [info EXCEPT ![e] =
             IF answer # "queued" THEN FreedInfo(type)
             ELSE [type |-> type, client |-> c, drawable |-> d,
                   front |-> B.front, back |-> B.back]]
        /\ asked' = [asked EXCEPT ![e] = d]
        /\ deleted' = [deleted EXCEPT ![e] = Deletions(answer)]
        /\ completed' = [completed EXCEPT ![e] = IF answer = "queued" THEN 0 ELSE 1]
        /\ queue' = IF answer = "queued" THEN queue \cup {e} ELSE queue
        /\ refcnt' = [b \in Buffers |->
             IF b \in {B.front, B.back} THEN refcnt[b] + 1 - Deletions(answer)
                                        ELSE refcnt[b]]

\* The swap is queued as a flip if can_flip says so; otherwise, and when it
\* cannot be queued, it is a blit.
ms_dri2_schedule_swap(c, d, verdict, answer) ==
    /\ held[d] # NoBuffers /\ ~Outstanding(d)
    /\ NewFrameEvent(IF verdict = "yes" THEN "flip" ELSE "swap", c, d, held[d], answer)
    /\ pixmap' = UpdatedFront(verdict, held[d].front, d)
    /\ UNCHANGED <<serverVars, held, created, bo, flipVars, blocked, closed>>

\* The client sleeps until the frame comes, or is answered at once.
ms_dri2_schedule_wait_msc(c, d, answer) ==
    /\ held[d] # NoBuffers
    /\ \A w \in blocked : w.client # c
    /\ NewFrameEvent("wait", c, d, NoBuffers, answer)
    /\ blocked' = IF answer = "queued"
                    THEN blocked \cup {[client |-> c, drawable |-> d, event |-> scheduled + 1]}
                    ELSE blocked
    /\ UNCHANGED <<serverVars, held, created, pixmap, bo, flipVars, closed>>

-----------------------------------------------------------------------------
(* ms_dri2_frame_event_handler *)

\* Mutant: the back buffer's reference is not given back.
MutDelKeepsBack(S) ==
    /\ info' = [e \in Events |-> IF e \in S THEN FreedInfo(info[e].type) ELSE info[e]]
    /\ deleted' = [e \in Events |-> IF e \in S THEN deleted[e] + 1 ELSE deleted[e]]
    /\ refcnt' = Released({info[e].front : e \in S})

\* ms_dri2_del_frame_event: out of the lists, one reference of each buffer given
\* back, and freed.
DelFrameEvents(S) ==
    /\ info' = [e \in Events |-> IF e \in S THEN FreedInfo(info[e].type) ELSE info[e]]
    /\ deleted' = [e \in Events |-> IF e \in S THEN deleted[e] + 1 ELSE deleted[e]]
    /\ refcnt' = [b \in Buffers |-> refcnt[b] - Cardinality({e \in S : b \in BuffersOf(e)})]

\* DRI2SwapComplete or DRI2WaitMSCComplete for frame event e.
Complete(e) == completed' = [completed EXCEPT ![e] = @ + 1]

\* Mutant: the handler returns without deleting the event.
MutFrameAbandoned(e) ==
    /\ e \in queue /\ info[e].drawable = NULL
    /\ queue' = queue \ {e}
    /\ UNCHANGED <<serverVars, bufferVars, eventVars, flipVars, blocked, closed>>

\* The window is gone: the event is dropped.
FrameAbandoned(e) ==
    /\ e \in queue /\ info[e].drawable = NULL
    /\ queue' = queue \ {e}
    /\ DelFrameEvents({e})
    /\ UNCHANGED <<serverVars, held, created, pixmap, bo, scheduled, asked, completed,
                   flipVars, blocked, closed>>

\* The frame a client waits for has come.
WaitOver(e) ==
    /\ e \in queue /\ info[e].drawable # NULL /\ info[e].type = "wait"
    /\ queue' = queue \ {e}
    /\ IF info[e].client # NULL
         THEN /\ Complete(e)
              /\ blocked' = {w \in blocked : w.client # info[e].client}
         ELSE UNCHANGED <<completed, blocked>>
    /\ DelFrameEvents({e})
    /\ UNCHANGED <<serverVars, held, created, pixmap, bo, scheduled, asked,
                   flipVars, closed>>

\* A swap that was queued as a blit, or as a flip that can_flip now refuses or
\* that there is no memory for.
SwapBlits(e, verdict) ==
    /\ e \in queue /\ info[e].drawable # NULL
    /\ info[e].type = "flip" \/ (info[e].type = "swap" /\ verdict = "no")
    /\ verdict \in Verdicts(info[e].drawable)
    /\ queue' = queue \ {e}
    /\ pixmap' = UpdatedFront(verdict, info[e].front, info[e].drawable)
    /\ Complete(e)
    /\ DelFrameEvents({e})
    /\ UNCHANGED <<serverVars, held, created, bo, scheduled, asked, flipVars,
                   blocked, closed>>

\* can_flip agrees: ms_dri2_schedule_flip calls ms_do_pageflip, which makes a framebuffer
\* of the back buffer and may flush and handle other events before it returns.
FlipSubmitted(e) ==
    /\ e \in queue /\ info[e].drawable # NULL
    /\ info[e].type = "flip"
    /\ "yes" \in Verdicts(info[e].drawable)
    /\ queue' = queue \ {e}
    /\ stack' = Append(stack, e)
    /\ old_bo' = [old_bo EXCEPT ![e] = fb_bo]
    /\ fb_bo' = bo[pixmap[info[e].back]]
    /\ nested' = (stack # <<>>)
    /\ pixmap' = UpdatedFront("yes", info[e].front, info[e].drawable)
    /\ UNCHANGED <<serverVars, held, created, refcnt, bo, eventVars, flips, dri2_flipping,
                   halfway, mixed, blocked, closed>>

submitting == stack[Len(stack)]
Pop        == SubSeq(stack, 1, Len(stack) - 1)

\* The event a carrier leads to: it holds the window's id and the client's pointer.
FlipEvent(e) == [event |-> e, client |-> info[e].client, drawable |-> info[e].drawable]

\* ms_dri2_exchange_buffers
Exchange(p, q) == bo' = [bo EXCEPT ![p] = bo[q], ![q] = bo[p]]

\* ms_do_pageflip returns TRUE.  The framebuffer the driver goes by is not looked at: it is
\* the one of a nested flip, if there was one, which is also what the last CRTCs were sent.
FlipAccepted ==
    LET e == submitting
    IN  /\ stack # <<>>
        /\ stack' = Pop
        /\ flips' = flips \cup {FlipEvent(e)}
        /\ dri2_flipping' = TRUE
        /\ mixed' = nested
        /\ Exchange(pixmap[info[e].front], pixmap[info[e].back])
        /\ DelFrameEvents({e})
        /\ UNCHANGED <<serverVars, held, created, pixmap, scheduled, asked, completed,
                       fb_bo, old_bo, halfway, nested, queue, blocked, closed>>

\* Mutant: the blit is not reported.
MutFlipRefusedSilent ==
    /\ stack # <<>>
    /\ stack' = Pop
    /\ fb_bo' = old_bo[submitting]
    /\ mixed' = (mixed \/ nested)
    /\ DelFrameEvents({submitting})
    /\ UNCHANGED <<serverVars, held, created, pixmap, bo, scheduled, asked, completed,
                   old_bo, flips, dri2_flipping, halfway, nested, queue, blocked, closed>>

\* ms_do_pageflip returns FALSE, and no carrier of the flip is left: the framebuffer is the
\* one before the flip again.  Blit instead.
FlipRefused ==
    /\ stack # <<>>
    /\ stack' = Pop
    /\ fb_bo' = old_bo[submitting]
    /\ mixed' = (mixed \/ nested)
    /\ Complete(submitting)
    /\ DelFrameEvents({submitting})
    /\ UNCHANGED <<serverVars, held, created, pixmap, bo, scheduled, asked, old_bo,
                   flips, dri2_flipping, halfway, nested, queue, blocked, closed>>

\* ms_do_pageflip returns FALSE, but a CRTC has taken the flip and its event is on the way.
\* The framebuffer stays.  Blit instead.
FlipHalfDone ==
    LET e == submitting
    IN  /\ stack # <<>>
        /\ stack' = Pop
        /\ flips' = flips \cup {FlipEvent(e)}
        /\ halfway' = halfway \cup {e}
        /\ mixed' = TRUE
        /\ Complete(e)
        /\ DelFrameEvents({e})
        /\ UNCHANGED <<serverVars, held, created, pixmap, bo, scheduled, asked, fb_bo,
                       old_bo, dri2_flipping, nested, queue, blocked, closed>>

-----------------------------------------------------------------------------
(* Flips *)

\* The last event of flip f is handled.  The window is looked up by its id; the client is
\* the pointer kept since.
ms_dri2_flip_handler(f) ==
    /\ IF f.drawable \in windows THEN Complete(f.event) ELSE UNCHANGED completed
    /\ dri2_flipping' = FALSE
    /\ flips' = flips \ {f}
    /\ UNCHANGED <<serverVars, bufferVars, scheduled, info, deleted, asked, fb_bo, old_bo,
                   stack, halfway, nested, mixed, queue, blocked, closed>>

-----------------------------------------------------------------------------
(* Clients and windows that go away *)

\* Mutant: the events keep the client.
MutClientGone(c) == info' = info

\* ms_dri2_frame_event_client_gone and ms_dri2_frame_event_drawable_gone: the
\* events still in the lists forget the client, or the window.
ms_dri2_frame_event_client_gone(c) ==
    info' = [e \in Events |->
      IF deleted[e] = 0 /\ info[e].client = c THEN [info[e] EXCEPT !.client = NULL]
                                             ELSE info[e]]

ms_dri2_frame_event_drawable_gone(d) ==
    info' = [e \in Events |->
      IF deleted[e] = 0 /\ info[e].drawable = d THEN [info[e] EXCEPT !.drawable = NULL]
                                               ELSE info[e]]

ClientExits(c) ==
    /\ MainLoop /\ c \in clients
    /\ clients' = clients \ {c}
    /\ ms_dri2_frame_event_client_gone(c)
    /\ blocked' = {w \in blocked : w.client # c}
    /\ UNCHANGED <<windows, winpix, bufferVars, scheduled, deleted, asked, completed,
                   flipVars, queue, closed>>

WindowDestroyed(d) ==
    /\ MainLoop /\ d \in windows
    /\ windows' = windows \ {d}
    /\ ms_dri2_frame_event_drawable_gone(d)
    /\ Dri2DrawableGone(d)
    /\ UNCHANGED <<clients, winpix, created, pixmap, bo, scheduled, deleted, asked,
                   completed, flipVars, queue, closed>>

\* CloseScreen: dix has freed all resources; what is still in the DRM queue is
\* aborted (ms_dri2_frame_event_abort, ms_dri2_flip_abort).
CloseScreen ==
    /\ MainLoop /\ clients = {} /\ windows = {}
    /\ closed' = TRUE
    /\ queue' = {}
    /\ DelFrameEvents(queue)
    /\ flips' = {}
    /\ dri2_flipping' = IF flips = {} THEN dri2_flipping ELSE FALSE
    /\ UNCHANGED <<serverVars, held, created, pixmap, bo, scheduled, asked,
                   completed, fb_bo, old_bo, stack, halfway, nested, mixed,
                   blocked>>

-----------------------------------------------------------------------------
ServerStep ==
    \/ \E e \in queue : FrameAbandoned(e) \/ WaitOver(e) \/ FlipSubmitted(e)
    \/ \E e \in queue : \E verdict \in {"no", "updated", "yes"} : SwapBlits(e, verdict)
    \/ FlipAccepted
    \/ FlipRefused
    \/ FlipHalfDone
    \/ \E f \in flips : ms_dri2_flip_handler(f)

Next ==
    \/ ServerStep
    \/ \E d \in Windows : ms_dri2_create_buffer2(d) \/ DestroyDrawable(d)
    \/ \E d \in Windows : Redirection(d) \/ WindowDestroyed(d)
    \/ \E c \in clients, d \in windows : \E verdict \in Verdicts(d), answer \in Answers :
          ms_dri2_schedule_swap(c, d, verdict, answer)
    \/ \E c \in clients, d \in windows, answer \in Answers :
          ms_dri2_schedule_wait_msc(c, d, answer)
    \/ \E c \in clients : ClientExits(c)
    \/ CloseScreen

Spec == Init /\ [][Next]_vars

(***************************************************************************)
(* Every queued frame event is answered (EveryRequestEnds of DrmQueue), a  *)
(* call of ms_do_pageflip returns, and the event of a flip is handled      *)
(* (EveryFlipAnswered of PageFlip).                                        *)
(***************************************************************************)
FairSpec == Spec /\ WF_vars(ServerStep)

-----------------------------------------------------------------------------
(* Properties *)

Alive(e) == e <= scheduled /\ deleted[e] = 0

\* A buffer has one reference from DRI2 while it is a buffer of a window, and one
\* from every frame event that is not deleted: it is there when a late handler
\* uses it, and freed when the last of them goes.
BufferRefs ==
    \A b \in Buffers :
        refcnt[b] = Cardinality({d \in Windows : b \in HeldFor(d)})
                    + Cardinality({e \in Events : Alive(e) /\ b \in BuffersOf(e)})

\* A frame event is freed once, and not while the DRM queue or a running
\* ms_dri2_schedule_flip holds it.  The comment on ms_drm_abort_one says that
\* aborting an entry frees the memory.
FreedOnce ==
    \A e \in Events :
        /\ deleted[e] <= 1
        /\ Alive(e) <=> e \in queue \/ \E i \in 1..Len(stack) : stack[i] = e

\* Clients and windows that have gone are known to no frame event, and a client sleeps
\* only on a wait that the queue will still answer, and that will wake it.
NoDangling ==
    /\ \A e \in Events : Alive(e) => /\ info[e].client \in clients \cup {NULL}
                                     /\ info[e].drawable \in windows \cup {NULL}
    /\ \A w \in blocked : /\ w.event \in queue
                          /\ info[w.event].client = w.client
                          /\ info[w.event].drawable = w.drawable

\* How often a client is told of a frame event in the end.
Reports(e) == IF e \in halfway THEN 2 ELSE 1

\* A swap is reported exactly once, however it ends, as long as its window exists: DRI2 lets
\* the clients of the window sleep until then.  Only a flip refused with a CRTC flipped
\* (pageflip.c:360-366) is reported by the blit and by that CRTC's event, and never more.
SwapReported ==
    \A e \in Events :
        /\ completed[e] <= Reports(e)
        /\ e <= scheduled /\ info[e].type # "wait" /\ asked[e] \in windows
             => completed[e] = IF Alive(e) \/ \E f \in flips : f.event = e
                                 THEN Reports(e) - 1 ELSE Reports(e)

\* When no flip is being submitted, the framebuffer the driver goes by, for mode sets and the
\* flips to come, is of the BO of the screen's pixmap, whatever windows flipped, overlapping
\* or one after the other, and however many flips were refused: unless one was left half
\* done or was submitted within another since the last flip that was not (mixed).  And
\* dri2_flipping does not outlast the last flip, or Present would not flip any more.
FrontIsFramebuffer ==
    /\ stack = <<>> /\ ~mixed => fb_bo = bo[Root]
    /\ dri2_flipping => flips # {}

\* Every request of a client comes to its end, the flip it led to included; that the
\* client has been told by then is SwapReported.
EveryFrameEnds ==
    \A e \in Events : e <= scheduled ~> ~Alive(e) /\ \A f \in flips : f.event # e
=============================================================================
