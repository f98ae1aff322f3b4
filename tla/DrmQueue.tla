------------------------------ MODULE DrmQueue ------------------------------
(***************************************************************************)
(* The DRM event queue of src/src/vblank.c: ms_drm_queue_alloc, the abort  *)
(* functions, the event handlers, ms_queue_vblank with its retry loop,     *)
(* ms_flush_drm_events of pageflip.c, and the setup and teardown of the    *)
(* queue in every server generation.                                       *)
(*                                                                         *)
(* The X server is one thread, so the only concurrency is with the kernel, *)
(* which turns accepted requests into readable events at any moment, and   *)
(* the re-entrancy of the server itself: ms_queue_vblank flushes events    *)
(* when the kernel is out of event space, the handlers it runs may queue   *)
(* new requests, and those may flush again.  The C stack is therefore part *)
(* of the state (depth, frame): a "vblank" frame is an activation of       *)
(* ms_queue_vblank, an "events" frame one of drmHandleEvent, which holds   *)
(* the events it has read and not yet dispatched.                          *)
(*                                                                         *)
(* A request is known to the model by n, its position in the order of      *)
(* allocation; the code only ever compares the 32 bit number seq.  The     *)
(* list head holds the newest entry (xorg_list_add), so list order is      *)
(* descending n and the list is kept as a set.                             *)
(***************************************************************************)
EXTENDS Integers, FiniteSets

CONSTANTS
    SeqModulus,       \* 2^32: the width of ms_drm_seq
    NumScreens,       \* screens sharing the device (Zaphod heads)
    Data,             \* what a match function can tell apart in q->data
    KernelSpace,      \* events the kernel can hold for the file descriptor
    MaxAllocs,        \* bound: requests ever allocated
    MaxDepth,         \* bound: nested activations on the C stack
    MaxGenerations    \* bound: server generations

ASSUME DrmQueueAssumption ==
    /\ SeqModulus \in Nat /\ SeqModulus > 1
    /\ NumScreens \in Nat \ {0}
    /\ KernelSpace \in Nat
    /\ MaxAllocs \in Nat
    /\ MaxDepth \in Nat
    /\ MaxGenerations \in Nat

VARIABLES
    ms_drm_seq,           \* static uint32_t ms_drm_seq
    ms_drm_queue,         \* static struct xorg_list ms_drm_queue
    allocs,               \* requests allocated so far (history)
    handled,              \* runs of q->handler, per request (history)
    aborted,              \* runs of q->abort, per request (history)
    kernel,               \* requests the kernel accepted and has not answered
    fd,                   \* events readable on ms->fd
    batch,                \* events read by an activation of drmHandleEvent
    depth,                \* activations on the C stack
    frame,                \* what each activation is
    phase,                \* where dix is in the life of a generation
    up,                   \* screens initialised, in index order
    serverGeneration,
    fd_wakeup_registered,
    fd_wakeup_ref,
    notify                \* the screen given to SetNotifyFd, or 0

queueVars  == <<ms_drm_seq, ms_drm_queue, allocs, handled, aborted>>
kernelVars == <<kernel, fd>>
stackVars  == <<batch, depth, frame>>
serverVars == <<phase, up, serverGeneration, fd_wakeup_registered,
                fd_wakeup_ref, notify>>
vars == <<queueVars, kernelVars, stackVars, serverVars>>

Ids     == 1..MaxAllocs
Screens == 1..NumScreens
Seqs    == 1..(SeqModulus - 1)
Entry   == [n : Ids, seq : Seqs, scrn : Screens, data : Data]
Event   == [n : Ids, seq : Seqs]
Read    == [n : Ids, seq : Seqs, at : 1..MaxDepth]
NoFrame == [kind |-> "none", n |-> 0, seq |-> 0, ran |-> FALSE]
Frame   == [kind : {"none", "vblank", "events"}, n : Ids \cup {0},
            seq : 0..(SeqModulus - 1), ran : BOOLEAN]

Pending == {q.n : q \in ms_drm_queue}

\* Events on their way to the server, wherever they are.
InFlight == kernel \cup fd \cup {[n |-> r.n, seq |-> r.seq] : r \in batch}

top == frame[depth]

Init ==
    /\ ms_drm_seq = 0
    /\ ms_drm_queue = {}
    /\ allocs = 0
    /\ handled = [n \in Ids |-> 0]
    /\ aborted = [n \in Ids |-> 0]
    /\ kernel = {}
    /\ fd = {}
    /\ batch = {}
    /\ depth = 0
    /\ frame = [d \in 1..MaxDepth |-> NoFrame]
    /\ phase = "starting"
    /\ up = 0
    /\ serverGeneration = 1
    /\ fd_wakeup_registered = 0
    /\ fd_wakeup_ref = 0
    /\ notify = 0

-----------------------------------------------------------------------------
(* The C stack *)

Push(f) ==
    /\ depth < MaxDepth
    /\ depth' = depth + 1
    /\ frame' = [frame EXCEPT ![depth + 1] = f]

Pop ==
    /\ depth' = depth - 1
    /\ frame' = [frame EXCEPT ![depth] = NoFrame]

\* Driver entry points run from the main loop, or from the handler of the
\* event dispatched last.
CanCall ==
    /\ phase = "running"
    /\ depth > 0 => (top.kind = "events" /\ top.ran)

-----------------------------------------------------------------------------
(* The queue *)

\* Zero is never given out: it is the failure value of ms_drm_queue_alloc.
NextSeq(s) == IF s = 0 THEN 1 ELSE s

\* The counter after seq has been given out: a uint32_t increment, which wraps.
AfterSeq(seq) == IF seq = SeqModulus - 1 THEN 0 ELSE seq + 1

\* Bound: a request or an event is gone before SeqModulus - 1 later ones are
\* allocated.  With 32 bits that is two years of 60 allocations a second.
NoLapping ==
    /\ \A q \in ms_drm_queue : (allocs + 1) - q.n < SeqModulus - 1
    /\ \A e \in InFlight : (allocs + 1) - e.n < SeqModulus - 1
    /\ \A d \in 1..depth :
          frame[d].kind = "vblank" => (allocs + 1) - frame[d].n < SeqModulus - 1

ms_drm_queue_alloc(scrn, data) ==
    LET seq == NextSeq(ms_drm_seq)
    IN  /\ allocs < MaxAllocs
        /\ NoLapping
        /\ allocs' = allocs + 1
        /\ ms_drm_seq' = AfterSeq(seq)
        /\ ms_drm_queue' = ms_drm_queue \cup
             {[n |-> allocs + 1, seq |-> seq, scrn |-> scrn, data |-> data]}
        /\ UNCHANGED <<handled, aborted>>

\* ms_drm_abort_one for every entry of S: unlink, then run the callback.
AbortEntries(S) ==
    /\ ms_drm_queue' = ms_drm_queue \ S
    /\ aborted' = [n \in Ids |-> IF \E q \in S : q.n = n
                                   THEN aborted[n] + 1 ELSE aborted[n]]
    /\ UNCHANGED <<ms_drm_seq, allocs, handled>>

\* Mutant: the look-up takes any entry that is not newer than the event.
MutWithSeqUpTo(seq) == {q \in ms_drm_queue : q.seq <= seq}

WithSeq(seq) == {q \in ms_drm_queue : q.seq = seq}
Newest(S)    == {q \in S : \A r \in S : r.n <= q.n}

\* Mutant: the walk stops after the first entry of the screen.
MutAbortScrnFirst(scrn) ==
    AbortEntries(Newest({q \in ms_drm_queue : q.scrn = scrn}))

\* Mutant: a request the kernel refused stays in the queue.
MutAbortSeqNothing(seq) == UNCHANGED queueVars

ms_drm_abort_scrn(scrn) == AbortEntries({q \in ms_drm_queue : q.scrn = scrn})
ms_drm_abort_seq(seq)   == AbortEntries(Newest(WithSeq(seq)))

\* ms_drm_abort: the first entry from the head that the callback matches.
ms_drm_abort(data) ==
    AbortEntries(Newest({q \in ms_drm_queue : q.data = data}))

-----------------------------------------------------------------------------
(* Requests: ms_drm_queue_alloc, then ms_queue_vblank until it returns *)

\* A caller allocates an entry and calls ms_queue_vblank for it.
QueueRequest(scrn, data) ==
    /\ CanCall
    /\ depth + 1 < MaxDepth          \* bound: the call may need to flush
    /\ ms_drm_queue_alloc(scrn, data)
    /\ Push([kind |-> "vblank", n |-> allocs + 1,
             seq |-> NextSeq(ms_drm_seq), ran |-> FALSE])
    /\ UNCHANGED <<kernelVars, batch, serverVars>>

\* External: the kernel keeps an event slot from the ioctl until the read.
KernelFull == Cardinality(kernel) + Cardinality(fd) >= KernelSpace

\* drmCrtcQueueSequence or drmWaitVBlank returns 0.
QueueAccepted ==
    /\ depth > 0 /\ top.kind = "vblank"
    /\ ~KernelFull
    /\ kernel' = kernel \cup {[n |-> top.n, seq |-> top.seq]}
    /\ Pop
    /\ UNCHANGED <<queueVars, fd, batch, serverVars>>

\* The ioctl fails with another error than EBUSY: the request is aborted.
QueueRefused ==
    /\ depth > 0 /\ top.kind = "vblank"
    /\ ms_drm_abort_seq(top.seq)
    /\ Pop
    /\ UNCHANGED <<kernelVars, batch, serverVars>>

\* drmHandleEvent reads some of what is readable: its buffer has 1024 bytes.
ReadEvents(E) ==
    /\ fd' = fd \ E
    /\ batch' = batch \cup {[n |-> e.n, seq |-> e.seq, at |-> depth + 1] : e \in E}
    /\ Push([kind |-> "events", n |-> 0, seq |-> 0, ran |-> FALSE])

\* The ioctl fails with EBUSY: ms_flush_drm_events, then the loop goes round.
\* With nothing to read the loop goes round at once, which changes nothing.
QueueBusy ==
    /\ depth > 0 /\ top.kind = "vblank"
    /\ KernelFull
    /\ \E E \in SUBSET fd \ {{}} : ReadEvents(E)
    /\ UNCHANGED <<queueVars, kernel, serverVars>>

\* The main loop finds ms->fd readable.
ms_drm_socket_handler ==
    /\ phase = "running" /\ depth = 0
    /\ notify # 0
    /\ \E E \in SUBSET fd \ {{}} : ReadEvents(E)
    /\ UNCHANGED <<queueVars, kernel, serverVars>>

-----------------------------------------------------------------------------
(* Events *)

\* External: the vblank happens and the kernel makes the event readable.
KernelFires(e) ==
    /\ kernel' = kernel \ {e}
    /\ fd' = fd \cup {e}
    /\ UNCHANGED <<queueVars, stackVars, serverVars>>

\* One event of the innermost drmHandleEvent: the entry with its number is
\* unlinked and its handler runs; without such an entry nothing happens.
ms_drm_sequence_handler(r) ==
    /\ depth > 0 /\ top.kind = "events"
    /\ r.at = depth
    /\ LET hit == Newest(WithSeq(r.seq))
       IN  /\ ms_drm_queue' = ms_drm_queue \ hit
           /\ handled' = [n \in Ids |-> IF \E q \in hit : q.n = n
                                           THEN handled[n] + 1 ELSE handled[n]]
           /\ frame' = [frame EXCEPT ![depth] = [kind |-> "events", n |-> 0,
                                        seq |-> 0, ran |-> hit # {}]]
    /\ batch' = batch \ {r}
    /\ UNCHANGED <<ms_drm_seq, allocs, aborted, kernelVars, depth, serverVars>>

\* drmHandleEvent returns, to the main loop or to ms_flush_drm_events.
EventsDone ==
    /\ depth > 0 /\ top.kind = "events"
    /\ \A r \in batch : r.at # depth
    /\ Pop
    /\ UNCHANGED <<queueVars, kernelVars, batch, serverVars>>

\* ms_present_abort_vblank, and every other use of ms_drm_abort.
AbortMatching(data) ==
    /\ CanCall
    /\ ms_drm_abort(data)
    /\ UNCHANGED <<kernelVars, stackVars, serverVars>>

-----------------------------------------------------------------------------
(* Server generations *)

\* Mutant: numbering starts over with every generation.
MutListInitResetsSeq ==
    /\ ms_drm_queue' = {}
    /\ ms_drm_seq' = 0

\* xorg_list_init: whatever was linked is forgotten; ms_drm_seq goes on.
ListInit ==
    /\ ms_drm_queue' = {}
    /\ UNCHANGED ms_drm_seq

\* Mutant: the descriptor is registered once and for all.
MutWatchOnce(scrn) ==
    IF fd_wakeup_registered = 0
      THEN /\ notify' = scrn
           /\ fd_wakeup_registered' = serverGeneration
           /\ fd_wakeup_ref' = 1
      ELSE /\ fd_wakeup_ref' = fd_wakeup_ref + 1
           /\ UNCHANGED <<notify, fd_wakeup_registered>>

\* SetNotifyFd for the first screen of a generation, a reference for the rest.
WatchFd(scrn) ==
    IF serverGeneration # fd_wakeup_registered
      THEN /\ notify' = scrn
           /\ fd_wakeup_registered' = serverGeneration
           /\ fd_wakeup_ref' = 1
      ELSE /\ fd_wakeup_ref' = fd_wakeup_ref + 1
           /\ UNCHANGED <<notify, fd_wakeup_registered>>

\* RemoveNotifyFd with the last reference of the generation.
UnwatchFd ==
    /\ IF serverGeneration = fd_wakeup_registered
         THEN /\ fd_wakeup_ref' = fd_wakeup_ref - 1
              /\ notify' = IF fd_wakeup_ref = 1 THEN 0 ELSE notify
         ELSE UNCHANGED <<fd_wakeup_ref, notify>>
    /\ UNCHANGED fd_wakeup_registered

ms_vblank_screen_init ==
    /\ phase = "starting"
    /\ up' = up + 1
    /\ ListInit
    /\ WatchFd(up + 1)
    /\ phase' = IF up + 1 = NumScreens THEN "running" ELSE "starting"
    /\ UNCHANGED <<allocs, handled, aborted, kernelVars, stackVars,
                   serverGeneration>>

\* dix closes the screens in the reverse of their order, and starts the next
\* generation when all are closed.
ms_vblank_close_screen ==
    /\ phase \in {"running", "closing"} /\ depth = 0
    /\ serverGeneration < MaxGenerations
    /\ ms_drm_abort_scrn(up)
    /\ UnwatchFd
    /\ up' = up - 1
    /\ IF up = 1
         THEN phase' = "starting" /\ serverGeneration' = serverGeneration + 1
         ELSE phase' = "closing" /\ UNCHANGED serverGeneration
    /\ UNCHANGED <<kernelVars, stackVars>>

-----------------------------------------------------------------------------
ServerStep ==
    \/ QueueAccepted
    \/ QueueBusy
    \/ ms_drm_socket_handler
    \/ \E r \in batch : ms_drm_sequence_handler(r)
    \/ EventsDone
    \/ ms_vblank_screen_init

Next ==
    \/ ServerStep
    \/ \E scrn \in Screens, data \in Data : QueueRequest(scrn, data)
    \/ QueueRefused
    \/ \E data \in Data : AbortMatching(data)
    \/ \E e \in kernel : KernelFires(e)
    \/ ms_vblank_close_screen

Spec == Init /\ [][Next]_vars

(***************************************************************************)
(* The server keeps executing the function it is in, the main loop polls   *)
(* the descriptor, every accepted vblank happens, and dix closes the other *)
(* screens once it has closed one.  No fairness is asked of callers, of    *)
(* failures, of aborts or of the decision to regenerate.                   *)
(***************************************************************************)
Fairness ==
    /\ WF_vars(ServerStep)
    /\ WF_vars(\E e \in kernel : KernelFires(e))
    /\ WF_vars(phase = "closing" /\ ms_vblank_close_screen)

FairSpec == Spec /\ Fairness

-----------------------------------------------------------------------------
(* Properties *)

\* Types: every number in use is in the range of the counter, and none is 0.
TypeOK ==
    /\ ms_drm_seq \in 0..(SeqModulus - 1)
    /\ ms_drm_queue \subseteq Entry
    /\ allocs \in 0..MaxAllocs
    /\ handled \in [Ids -> Nat]
    /\ aborted \in [Ids -> Nat]
    /\ kernel \subseteq Event
    /\ fd \subseteq Event
    /\ batch \subseteq Read
    /\ depth \in 0..MaxDepth
    /\ frame \in [1..MaxDepth -> Frame]
    /\ phase \in {"starting", "running", "closing"}
    /\ up \in 0..NumScreens
    /\ serverGeneration \in Nat
    /\ fd_wakeup_registered \in Nat
    /\ fd_wakeup_ref \in Int
    /\ notify \in 0..NumScreens

\* An event in flight and a linked entry that carry the same number belong to
\* the same request.  This is what makes the look-up by number in
\* ms_drm_sequence_handler safe although kernel events outlive aborts and
\* server generations and the number wraps.
SeqIdentifies ==
    \A q \in ms_drm_queue : \A e \in InFlight : q.seq = e.seq => q.n = e.n

\* The handler and the abort callback of an entry both free its data: exactly one of
\* them runs, once, when the entry leaves the list, and none before; in particular the
\* xorg_list_init of the next generation never drops an entry.
CallbackOnce ==
    \A n \in Ids :
        handled[n] + aborted[n] = IF n <= allocs /\ n \notin Pending THEN 1 ELSE 0

\* Whatever is linked will be answered: its event is in flight, or an
\* activation of ms_queue_vblank is still trying to get it there.
NoOrphan ==
    \A q \in ms_drm_queue :
        \/ \E e \in InFlight : e.n = q.n
        \/ \E d \in 1..depth : frame[d].kind = "vblank" /\ frame[d].n = q.n

\* The descriptor is watched while clients run, on behalf of a screen that
\* still exists, and no longer once the last screen is closed.
WatchedWhileUp ==
    /\ phase = "running" => notify # 0
    /\ notify <= up

\* Every request is eventually handled or aborted.
EveryRequestEnds == \A n \in Ids : n \in Pending ~> n \notin Pending

-----------------------------------------------------------------------------
(* The queue implements the ledger *)

RequestState(n) ==
    CASE n > allocs -> "new"
      [] n <= allocs /\ n \in Pending /\ handled[n] + aborted[n] = 0 -> "pending"
      [] n <= allocs /\ n \notin Pending /\ handled[n] = 1 /\ aborted[n] = 0 -> "handled"
      [] n <= allocs /\ n \notin Pending /\ handled[n] = 0 /\ aborted[n] = 1 -> "aborted"
      [] OTHER -> "broken"

Ledger == INSTANCE RequestLedger WITH
    state <- [n \in Ids |-> RequestState(n)],
    ready <- {e.n : e \in fd \cup batch}

\* Every step of the queue is a step the ledger allows: one callback per
\* request, and the handler only for the event of that very request.
ImplementsLedger == Ledger!LedgerSpec
=============================================================================
