---------------------------- MODULE SharedFlip ----------------------------
(***************************************************************************)
(* Shared pixmap flipping (PRIME): a CRTC of this screen (the sink)        *)
(* displays one of two pixmaps shared with another screen (the source,     *)
(* driven by the same driver).  The source copies what was drawn to the    *)
(* pixmap that is not displayed, the sink flips to it, and the two change  *)
(* roles; when nothing was drawn the sink asks the source to be told of    *)
(* damage.  A CRTC may also have one shared pixmap and no flipping.        *)
(*                                                                         *)
(* The server calls every function here from one thread; the kernel        *)
(* completes flips and vertical blanks on its own.                         *)
(***************************************************************************)
EXTENDS Integers, FiniteSets, Sequences

CONSTANTS
    NumSinkCrtcs,   \* CRTCs of the sink, in the order of config->crtc
    NumPixmaps,     \* bound: shared pixmaps in memory at once
    MaxSeq,         \* bound: sequence numbers in use at once
    MaxFaults       \* bound: framebuffers that cannot be made, modes that are refused

ASSUME SharedFlipAssumption ==
    /\ NumSinkCrtcs \in Nat
    /\ NumPixmaps \in Nat /\ MaxSeq \in Nat \ {0}
    /\ MaxFaults \in Nat

SinkCrtcs == 1..NumSinkCrtcs
Pixmaps   == 1..NumPixmaps
NoPixmap  == 0
Other     == -1     \* displayed: the front buffer, or what another owner of the VT displays
Seqs      == 1..MaxSeq

VARIABLES
    atomic_modeset, \* constant: whether modes are set atomically
    st              \* the rest, as one record that the functions of the driver pass on:
                    \* vtSema             whether the server owns the VT
                    \* of each CRTC
                    \*   enable_flipping, flipping_active
                    \*   prime_pixmap, prime_pixmap_back
                    \* of each pixmap, in the sink
                    \*   fb_id            whether it has a framebuffer
                    \*   flip_seq         seq of current page flip event handler, or 0
                    \*   wait_for_damage  if we have requested damage notification
                    \*   slave_damage     whether it was drawn to since the last flush
                    \* of each pixmap, in the source
                    \*   damage           whether its copy is out of date
                    \*   notify_on_damage if sink has requested damage notification
                    \*   defer            if the sink wants to update it manually
                    \* ms_drm_queue       the entries of the event queue
                    \* of each CRTC, in the kernel
                    \*   on, shown        whether it is on, and the pixmap it displays
                    \*   flip             the flip in flight, or NoFlip
                    \*   vblanks          the numbers waiting for a vertical blank, in order
                    \* fd                 the sequence numbers of events not read yet
                    \* odd                what went wrong with each CRTC (history)
                    \* ok                 what the last function called returned
                    \* quiet              whether nobody asks for anything any more (bound)
                    \* full               whether a number was wanted and all were used (bound)
                    \* faults             counter of the bound

sharedVars == <<atomic_modeset, st>>

NoFlip == [seq |-> 0, pixmap |-> NoPixmap]

SharedInit ==
    /\ atomic_modeset \in BOOLEAN
    /\ st = [vtSema            |-> TRUE,
             enable_flipping   |-> [c \in SinkCrtcs |-> FALSE],
             flipping_active   |-> [c \in SinkCrtcs |-> FALSE],
             prime_pixmap      |-> [c \in SinkCrtcs |-> NoPixmap],
             prime_pixmap_back |-> [c \in SinkCrtcs |-> NoPixmap],
             fb_id             |-> [p \in Pixmaps |-> FALSE],
             flip_seq          |-> [p \in Pixmaps |-> 0],
             wait_for_damage   |-> [p \in Pixmaps |-> FALSE],
             slave_damage      |-> [p \in Pixmaps |-> FALSE],
             damage            |-> [p \in Pixmaps |-> FALSE],
             notify_on_damage  |-> [p \in Pixmaps |-> FALSE],
             defer             |-> [p \in Pixmaps |-> FALSE],
             ms_drm_queue      |-> {},
             on                |-> [c \in SinkCrtcs |-> FALSE],
             shown             |-> [c \in SinkCrtcs |-> NoPixmap],
             flip              |-> [c \in SinkCrtcs |-> NoFlip],
             vblanks           |-> [c \in SinkCrtcs |-> <<>>],
             fd                |-> <<>>,
             odd               |-> [c \in SinkCrtcs |-> {}],
             ok |-> FALSE, quiet |-> FALSE, full |-> FALSE, faults |-> 0]

Targets(S, c) == {S.prime_pixmap[c], S.prime_pixmap_back[c]} \ {NoPixmap}
Live(S)       == UNION {Targets(S, c) : c \in SinkCrtcs}

Entries(S, c) == {e \in S.ms_drm_queue : e.crtc = c}

\* What went wrong with CRTC c.
Odd(S, c, what, really) == IF really THEN [S EXCEPT !.odd[c] = @ \cup {what}] ELSE S

-----------------------------------------------------------------------------
(* External: the kernel *)

Numbers(q) == {q[i] : i \in DOMAIN q}

InUse(S) == {e.seq : e \in S.ms_drm_queue} \cup Numbers(S.fd)
              \cup {S.flip[c].seq : c \in SinkCrtcs}
              \cup (UNION {Numbers(S.vblanks[c]) : c \in SinkCrtcs})
              \cup {S.flip_seq[p] : p \in Pixmaps}

\* A sequence number nothing refers to: ms_drm_seq counts on, and what nothing refers
\* to may be called anything.
NewSeq(S) ==
    IF Seqs \subseteq InUse(S) THEN 0
    ELSE CHOOSE s \in Seqs : s \notin InUse(S) /\ \A t \in Seqs \ InUse(S) : s <= t

\* A flip is completed: the pixmap is displayed and an event can be read.
Completed(S, c) ==
    IF S.flip[c] = NoFlip THEN S
    ELSE [S EXCEPT !.shown[c] = S.flip[c].pixmap, !.fd = Append(@, S.flip[c].seq),
                   !.flip[c] = NoFlip]

Blanked(S, c) == [S EXCEPT !.fd = @ \o S.vblanks[c], !.vblanks[c] = <<>>]

\* A CRTC that is turned off completes its flip and wakes those that wait for a blank.
TurnedOff(S, c) == [Blanked(Completed(S, c), c) EXCEPT !.on[c] = FALSE]

\* The mode of a CRTC is taken away.
Dark(S, c) == [TurnedOff(S, c) EXCEPT !.shown[c] = NoPixmap]

\* A mode is set; it waits for the flip in flight, whose event may be read later.
Lit(S, c) ==
    LET p == S.prime_pixmap[c]
        T == Odd(Completed(S, c), c, "mode set", \E e \in Entries(S, c) : e.flip)
    IN  [T EXCEPT !.on[c] = TRUE, !.odd[c] = @ \ {"refused"},
                  !.shown[c] = IF p # NoPixmap /\ S.fb_id[p] THEN p ELSE Other]

\* drmModeRmFB of the framebuffer of p, a pixmap of CRTC c, which no other CRTC displays:
\* if c does it is turned off.
Removed(S, c, p) ==
    LET T == IF S.shown[c] = p \/ S.flip[c].pixmap = p THEN TurnedOff(S, c) ELSE S
    IN  [T EXCEPT !.fb_id[p] = FALSE, !.shown[c] = IF @ = p THEN NoPixmap ELSE @]

-----------------------------------------------------------------------------
(* The loops of the driver over the CRTCs of the sink *)

ForEachCrtc(S, Do(_, _)) ==
    LET done[c \in 0..NumSinkCrtcs] == IF c = 0 THEN S ELSE Do(done[c - 1], c)
    IN  done[NumSinkCrtcs]

-----------------------------------------------------------------------------
(* The sink's event handlers.  Each function returns the state and sets ok. *)

Queued(S, c, front, flip) ==
    [S EXCEPT !.ms_drm_queue = @ \cup {[seq |-> NewSeq(S), crtc |-> c, front |-> front,
                                        back |-> S.prime_pixmap[c], flip |-> flip]},
              !.flip_seq[front] = NewSeq(S),
              !.full = @ \/ NewSeq(S) = 0]

\* ms_drm_abort_seq with drmmode_SharedPixmapVBlankEventAbort.
Abort(S, s) ==
    LET gone == {e \in S.ms_drm_queue : e.seq = s}
    IN  [S EXCEPT !.ms_drm_queue = @ \ gone,
                  !.flip_seq = [p \in Pixmaps |->
                                  IF \E e \in gone : e.front = p THEN 0 ELSE @[p]]]

Failed(S) == [S EXCEPT !.ok = FALSE]
Done(S)   == [S EXCEPT !.ok = TRUE]

\* drmmode_SharedPixmapFlip: the kernel refuses a flip without the VT, on a CRTC that is
\* off or has a flip in flight, or without a framebuffer.
drmmode_SharedPixmapFlip(S, c, p) ==
    IF S.vtSema /\ S.on[c] /\ S.flip[c] = NoFlip /\ S.fb_id[p]
    THEN Done([Queued(S, c, p, TRUE) EXCEPT !.flip[c] = [seq |-> NewSeq(S), pixmap |-> p]])
    ELSE Failed(Odd([S EXCEPT !.flip_seq[p] = 0], c, "failed", TRUE))

\* drmmode_SharedPixmapPresentOnVBlank: no blank is waited for on a CRTC that is off.
drmmode_SharedPixmapPresentOnVBlank(S, c, p) ==
    LET T == Odd(S, c, "overlap", Entries(S, c) # {})
    IN  IF p = S.prime_pixmap[c] \/ p # S.prime_pixmap_back[c] THEN Failed(S)
        ELSE IF S.on[c]
        THEN Done([Queued(T, c, p, FALSE) EXCEPT !.vblanks[c] = Append(@, NewSeq(S))])
        ELSE Failed([T EXCEPT !.flip_seq[p] = 0])

\* Mutant: the sink does not note that it has asked for damage.
MutPresentForgets(S, c, p) ==
    IF S.damage[p]
    THEN drmmode_SharedPixmapFlip(
             [S EXCEPT !.damage[p] = FALSE, !.slave_damage[p] = TRUE], c, p)
    ELSE Done([S EXCEPT !.notify_on_damage[p] = TRUE])

\* msPresentSharedPixmap and msRequestSharedPixmapNotifyDamage are the source's: it
\* copies what was drawn to the pixmap, or is asked to tell of damage.
drmmode_SharedPixmapPresent(S, c, p) ==
    IF S.damage[p]
    THEN LET T == [S EXCEPT !.damage[p] = FALSE, !.slave_damage[p] = TRUE]
             F == drmmode_SharedPixmapFlip(T, c, p)
         IN  IF F.ok THEN F ELSE drmmode_SharedPixmapPresentOnVBlank(F, c, p)
    ELSE Done([S EXCEPT !.wait_for_damage[p] = TRUE, !.notify_on_damage[p] = TRUE])

\* Mutant: the pixmaps do not change roles.
MutHandlerKeepsRoles(S, e) ==
    LET T == drmmode_SharedPixmapPresent(S, e.crtc, S.prime_pixmap_back[e.crtc])
    IN  Odd(T, e.crtc, "stopped", ~T.ok)

\* What is over when the pixmap the driver takes for the front is displayed again.
Passing == {"failed", "aborted", "mode set"}

\* The flip of the entry e took place: the pixmaps change roles.
Flipped(S, e) ==
    [S EXCEPT !.prime_pixmap[e.crtc] = e.front, !.prime_pixmap_back[e.crtc] = e.back,
              !.odd[e.crtc] = IF S.shown[e.crtc] = e.front THEN @ \ Passing ELSE @]

drmmode_SharedPixmapVBlankEventHandler(S, e) ==
    LET T == IF e.flip THEN drmmode_SharedPixmapPresent(Flipped(S, e), e.crtc, e.back)
             ELSE drmmode_SharedPixmapPresent(S, e.crtc, e.front)
    IN  Odd(T, e.crtc, "stopped", ~T.ok)

drmmode_InitSharedPixmapFlipping(S, c) ==
    LET T == drmmode_SharedPixmapPresent(S, c, S.prime_pixmap_back[c])
    IN  IF ~S.enable_flipping[c] \/ S.flipping_active[c] THEN S
        ELSE [T EXCEPT !.flipping_active[c] = T.ok]

\* Mutant: only the handler of the front is aborted.
MutFiniFront(S, c) ==
    IF ~S.flipping_active[c] THEN S
    ELSE [Abort(S, S.flip_seq[S.prime_pixmap[c]]) EXCEPT !.flipping_active[c] = FALSE]

\* Mutant: flipping stays active.
MutFiniActive(S, c) ==
    Abort(Abort(S, S.flip_seq[S.prime_pixmap[c]]), S.flip_seq[S.prime_pixmap_back[c]])

\* drmmode_FiniSharedPixmapFlipping.  The kernel completes a flip whose handler is aborted.
drmmode_FiniSharedPixmapFlipping(S, c) ==
    LET T == Abort(Abort(S, S.flip_seq[S.prime_pixmap[c]]), S.flip_seq[S.prime_pixmap_back[c]])
    IN  IF ~S.flipping_active[c] THEN S
        ELSE Odd([T EXCEPT !.flipping_active[c] = FALSE, !.odd[c] = @ \ {"stopped"}],
                 c, "aborted", \E e \in Entries(S, c) \ Entries(T, c) : e.flip)

-----------------------------------------------------------------------------
(* Scanout pixmaps *)

\* drmmode_set_target_scanout_pixmap_cpu without a pixmap, for what was the target p.
Released(S, c, p) ==
    IF p = NoPixmap THEN S ELSE [Removed(S, c, p) EXCEPT !.slave_damage[p] = FALSE]

\* RRCrtcDetachScanoutPixmap (external): drmmode_DisableSharedPixmapFlipping or
\* drmmode_set_scanout_pixmap, then the source's msStopFlippingPixmapTracking; the
\* pixmaps are destroyed.
Detached(S, c) ==
    LET T == IF S.enable_flipping[c] THEN drmmode_FiniSharedPixmapFlipping(S, c) ELSE S
        U == Released(Released(T, c, S.prime_pixmap[c]), c, S.prime_pixmap_back[c])
        gone(f) == [p \in Pixmaps |-> f[p] /\ p \notin Targets(S, c)]
    IN  [U EXCEPT !.enable_flipping[c] = FALSE,
                  !.prime_pixmap[c] = NoPixmap, !.prime_pixmap_back[c] = NoPixmap,
                  !.flip_seq = [p \in Pixmaps |-> IF p \in Targets(S, c) THEN 0 ELSE @[p]],
                  !.wait_for_damage = gone(@), !.notify_on_damage = gone(@),
                  !.damage = gone(@), !.defer = gone(@),
                  !.odd[c] = @ \cap {"overlap"}]

\* Pixmaps nothing refers to.
FreePixmaps(S) ==
    {p \in Pixmaps : p \notin Live(S) /\ \A e \in S.ms_drm_queue : p \notin {e.front, e.back}}

\* rrSetupPixmapSharing (external): drmmode_EnableSharedPixmapFlipping with two pixmaps,
\* or drmmode_set_scanout_pixmap with one; their framebuffers (whose failure nobody
\* looks at); then the source's tracking, by msStartFlippingPixmapTracking for two.
\* The copies are out of date at first.
Attached(S, c, front, back, fb) ==
    LET new == {front, back} \ {NoPixmap}
    IN  [S EXCEPT !.enable_flipping[c] = back # NoPixmap,
                  !.prime_pixmap[c] = front, !.prime_pixmap_back[c] = back,
                  !.fb_id = [p \in Pixmaps |-> IF p \in new THEN fb ELSE @[p]],
                  !.damage = [p \in Pixmaps |-> @[p] \/ p \in new],
                  !.defer = [p \in Pixmaps |-> @[p] \/ (p \in new /\ back # NoPixmap)],
                  !.odd[c] = IF fb THEN @ ELSE @ \cup {"no framebuffer"}]

\* drmmode_set_mode_major: flipping starts after the mode is set, or, when it is set
\* atomically, after it is tested; again with the DPMS of the outputs.
drmmode_set_mode_major(S, c) ==
    LET twice(T) == drmmode_InitSharedPixmapFlipping(drmmode_InitSharedPixmapFlipping(T, c), c)
    IN  IF atomic_modeset THEN Lit(twice(S), c) ELSE twice(Lit(S, c))

-----------------------------------------------------------------------------
(* The source *)

\* The sink is told of damage to p, if it has asked (msSharedPixmapNotifyDamage): it waits
\* for a blank on the CRTC the pixmap is the back of.  For other CRTCs than c, whose
\* pixmap p is, drmmode_SharedPixmapPresentOnVBlank returns at once.
NotifyDamage(S, c, p) ==
    LET T == [S EXCEPT !.notify_on_damage[p] = FALSE, !.wait_for_damage[p] = FALSE]
        Q == drmmode_SharedPixmapPresentOnVBlank(T, c, p)
    IN  IF ~S.notify_on_damage[p] THEN S
        ELSE IF ~S.wait_for_damage[p] \/ S.prime_pixmap_back[c] = NoPixmap THEN T
        ELSE Odd(Odd(Q, c, "stopped", S.flipping_active[c] /\ ~Q.ok),
                 c, "overlap", ~S.flipping_active[c] /\ Q.ok)

\* Mutant: the sink is not told of damage to a pixmap that it updates itself.
MutDeferSilent(S, c, p) ==
    IF p = NoPixmap \/ ~S.damage[p] \/ S.defer[p] THEN S
    ELSE [NotifyDamage(S, c, p) EXCEPT !.damage[p] = FALSE, !.slave_damage[p] = TRUE]

\* redisplay_dirty: copy what was drawn to p, unless the sink wants to do it.
Redisplayed(S, c, p) ==
    IF p = NoPixmap \/ ~S.damage[p] THEN S
    ELSE IF S.defer[p] THEN NotifyDamage(S, c, p)
    ELSE [NotifyDamage(S, c, p) EXCEPT !.damage[p] = FALSE, !.slave_damage[p] = TRUE]

\* ms_dirty_update: each pixmap that is out of date.
Updated(S, c) ==
    Redisplayed(Redisplayed(S, c, S.prime_pixmap[c]), c, S.prime_pixmap_back[c])

ms_dirty_update(S) == ForEachCrtc(S, Updated)

\* dispatch_slave_dirty: flush what was drawn to the targets of all CRTCs.
dispatch_slave_dirty(S) ==
    [S EXCEPT !.slave_damage = [p \in Pixmaps |-> @[p] /\ p \notin Live(S)]]

-----------------------------------------------------------------------------
(* Actions *)

\* The numbers of q that are used, in their order.
Known(q, used) ==
    LET known[i \in 0..Len(q)] ==
            IF i = 0 THEN <<>>
            ELSE IF q[i] \in used THEN Append(known[i - 1], q[i]) ELSE known[i - 1]
    IN  known[Len(q)]

\* ms_drm_seq counts on: a sequence number that no entry has (any more) finds none, and
\* is as good as 0 in flip_seq and in an event.
Canonical(S) ==
    LET used == {e.seq : e \in S.ms_drm_queue}
    IN  [S EXCEPT !.ok = FALSE,
                  !.fd = Known(@, used),
                  !.vblanks = [c \in SinkCrtcs |-> Known(@[c], used)],
                  !.flip_seq = [p \in Pixmaps |-> IF @[p] \in used THEN @[p] ELSE 0]]

\* Bounds: a second handler for a CRTC ends the behaviour; no step wants more sequence
\* numbers than there are; the server is asked for nothing when few are left, or from
\* some time on.
Going == \A c \in SinkCrtcs : "overlap" \notin st.odd[c]
Asked == ~st.quiet /\ Cardinality(Seqs \ InUse(st)) >= 2

Becomes(S) == Going /\ \E T \in {S} : ~T.full /\ st' = Canonical(T)

\* Something is drawn on the source.
Draw ==
    /\ ~st.quiet /\ Live(st) # {}
    /\ Becomes([st EXCEPT !.damage = [p \in Pixmaps |-> @[p] \/ p \in Live(st)],
                          !.odd = [c \in SinkCrtcs |-> @[c] \ {"failed"}]])
    /\ UNCHANGED atomic_modeset

\* The block handlers of the source and of the sink.
msBlockHandler ==
    /\ \E S \in {ms_dirty_update(st)} : Becomes(dispatch_slave_dirty(S))
    /\ UNCHANGED atomic_modeset

\* RandR sets a mode on CRTC c, with two shared pixmaps or one: the old ones go first.
\* A framebuffer may fail, or the mode be refused.
RandRSet(c, flip, fb, set) ==
    LET S     == Detached(st, c)
        front == CHOOSE p \in FreePixmaps(S) : TRUE
        back  == IF flip THEN CHOOSE p \in FreePixmaps(S) \ {front} : TRUE ELSE NoPixmap
        T     == Attached(S, c, front, back, fb)
    IN  /\ Asked /\ st.vtSema
        /\ fb \/ set
        /\ \E p, q \in FreePixmaps(S) : p # q
        /\ st.faults + (IF fb /\ set THEN 0 ELSE 1) <= MaxFaults
        /\ Becomes([(IF set THEN drmmode_set_mode_major(T, c) ELSE Odd(T, c, "refused", TRUE))
                      EXCEPT !.faults = @ + (IF fb /\ set THEN 0 ELSE 1)])
        /\ UNCHANGED atomic_modeset

\* RandR takes the mode away.
RandRDisable(c) ==
    /\ Asked /\ st.vtSema
    /\ st.prime_pixmap[c] # NoPixmap
    /\ Becomes(Dark(Detached(st, c), c))
    /\ UNCHANGED atomic_modeset

\* DPMS of all outputs (drmmode_output_dpms): off stops flipping and then the CRTC; on
\* starts the CRTC and then flipping.
SwitchedOff(S, c) ==
    TurnedOff(IF S.enable_flipping[c] THEN drmmode_FiniSharedPixmapFlipping(S, c) ELSE S, c)

DpmsOff ==
    /\ Asked /\ st.vtSema
    /\ Becomes(ForEachCrtc(st, SwitchedOff))
    /\ UNCHANGED atomic_modeset

SwitchedOn(S, c) ==
    IF S.prime_pixmap[c] = NoPixmap \/ (S.shown[c] = NoPixmap /\ ~S.on[c]) THEN S
    ELSE drmmode_InitSharedPixmapFlipping([S EXCEPT !.on[c] = TRUE], c)

DpmsOn ==
    /\ Asked /\ st.vtSema
    /\ Becomes(ForEachCrtc(st, SwitchedOn))
    /\ UNCHANGED atomic_modeset

\* The next owner of the VT displays what it likes.
TakenOver(S, c, on) ==
    [IF on THEN [Completed(S, c) EXCEPT !.on[c] = TRUE] ELSE TurnedOff(S, c)
        EXCEPT !.shown[c] = Other]

LeaveVT ==
    /\ Asked /\ st.vtSema
    /\ \E on \in [SinkCrtcs -> BOOLEAN] :
          Becomes(ForEachCrtc([st EXCEPT !.vtSema = FALSE],
                              LAMBDA S, c : TakenOver(S, c, on[c])))
    /\ UNCHANGED atomic_modeset

\* drmmode_set_desired_modes
DesiredMode(S, c) ==
    IF S.prime_pixmap[c] = NoPixmap THEN Dark(S, c) ELSE drmmode_set_mode_major(S, c)

EnterVT ==
    /\ Asked /\ ~st.vtSema
    /\ Becomes(ForEachCrtc([st EXCEPT !.vtSema = TRUE], DesiredMode))
    /\ UNCHANGED atomic_modeset

\* The kernel completes a flip, or reaches a vertical blank.
FlipDone(c) ==
    /\ st.flip[c] # NoFlip
    /\ Becomes(Completed(st, c))
    /\ UNCHANGED atomic_modeset

VBlank(c) ==
    /\ st.vblanks[c] # <<>>
    /\ Becomes(Blanked(st, c))
    /\ UNCHANGED atomic_modeset

\* ms_drm_sequence_handler: the first event is read, and handled if its entry is still
\* queued.  Bound: the behaviour ends before the handler of an entry uses pixmaps that
\* are not the CRTC's, which may have been freed.
Stale(S, e) == {e.front, e.back} # Targets(S, e.crtc)

HandleEvent ==
    /\ st.fd # <<>>
    /\ \E e \in st.ms_drm_queue :
          /\ e.seq = Head(st.fd)
          /\ ~Stale(st, e)
          /\ Becomes(drmmode_SharedPixmapVBlankEventHandler(
                         [st EXCEPT !.fd = Tail(@), !.ms_drm_queue = @ \ {e}], e))
    /\ UNCHANGED atomic_modeset

\* From now on nobody asks for anything, and nothing is drawn.
FallQuiet ==
    /\ ~st.quiet
    /\ Becomes([st EXCEPT !.quiet = TRUE])
    /\ UNCHANGED atomic_modeset

SharedNext ==
    \/ FallQuiet
    \/ Draw
    \/ msBlockHandler
    \/ \E c \in SinkCrtcs, flip, fb, set \in BOOLEAN : RandRSet(c, flip, fb, set)
    \/ \E c \in SinkCrtcs : RandRDisable(c)
    \/ DpmsOff \/ DpmsOn
    \/ LeaveVT \/ EnterVT
    \/ \E c \in SinkCrtcs : FlipDone(c) \/ VBlank(c)
    \/ HandleEvent

\* The server's main loop goes on, and the kernel completes what it has accepted.
Progress == (\E c \in SinkCrtcs : FlipDone(c) \/ VBlank(c)) \/ HandleEvent \/ msBlockHandler
SharedFairness == WF_sharedVars(Progress)

SharedSpec == SharedInit /\ [][SharedNext]_sharedVars /\ SharedFairness

-----------------------------------------------------------------------------
(* Properties *)

\* Each CRTC has one event handler at most, none when flipping is not active, and
\* flip_seq finds it: unless a notification of damage came while one was queued.
OneHandler ==
    \A c \in SinkCrtcs : "overlap" \notin st.odd[c] =>
        /\ Cardinality(Entries(st, c)) <= (IF st.flipping_active[c] THEN 1 ELSE 0)
        /\ \A e \in Entries(st, c) : ~Stale(st, e) /\ st.flip_seq[e.front] = e.seq

\* Flipping goes on while a CRTC is on, unless the last mode was refused: a handler is
\* queued, or the source will notify of damage and the sink waits for it, so that the
\* notification is not dropped.
Alive ==
    \A c \in SinkCrtcs : st.vtSema /\ st.on[c] /\ st.enable_flipping[c]
                       /\ st.odd[c] \cap {"overlap", "stopped", "refused"} = {} =>
        /\ st.flipping_active[c]
        /\ \/ Entries(st, c) # {}
           \/ LET back == st.prime_pixmap_back[c]
              IN  st.notify_on_damage[back] /\ st.wait_for_damage[back]

\* The source never copies to a pixmap that is displayed with flipping, unless a flip was
\* aborted that the kernel then completed, or a mode was set while the event of a flip
\* had not been read.
CopiesAside ==
    \A c \in SinkCrtcs :
        st.enable_flipping[c] /\ st'.odd[c] \cap {"overlap", "aborted", "mode set"} = {} =>
        \A p \in Targets(st, c) \cap Targets(st', c) :
            st.damage[p] /\ ~st'.damage[p] => ~(st'.on[c] /\ st'.shown[c] = p)
NoTearing == [][CopiesAside]_sharedVars

\* What is drawn is displayed in the end.
Steady(c) ==
    /\ st.vtSema /\ st.on[c] /\ st.prime_pixmap[c] # NoPixmap
    /\ st.odd[c] \cap {"overlap", "stopped", "no framebuffer", "refused", "failed",
                       "aborted"} = {}
Fresh(c) ==
    st.shown[c] \in Pixmaps /\ ~st.damage[st.shown[c]] /\ ~st.slave_damage[st.shown[c]]
DrawingsShown == \A c \in SinkCrtcs : []<>(st.quiet /\ Steady(c) => Fresh(c))

=============================================================================
