# A TLA+ model of the Loongson X video driver

This directory holds a formal model of `xserver-xorg-video-loongson`, the
kernel mode setting driver of the X server for Loongson display controllers.
The driver sits between the X server (dix, RandR, Present, DRI2, DRI3, EXA) and
the kernel's DRM interface. All of it runs on the server's single thread, and
yet most of what can go wrong in it is concurrent: the kernel answers requests
at moments of its own choosing, through one file descriptor that all screens
and all extensions share; events survive the requests that caused them; and
the driver handles events from *inside* the functions that submit new requests.

The modules are written against the sources in `src/src/`; file and line of every
definition are in `PROJECT.json` under `map`.

## 1. Inventory

| Component | Sources | State | Operations | What makes it correct |
|---|---|---|---|---|
| DRM event queue | `vblank.c`, `ms_flush_drm_events` in `pageflip.c` | the list `ms_drm_queue`, the counter `ms_drm_seq`, `event_context`, `fd_wakeup_registered/ref` of the entity | `ms_drm_queue_alloc`, `ms_queue_vblank`, `ms_drm_abort*`, the event handlers, screen init and close | each request gets exactly one callback, for its own event; nothing stays linked without an answer under way |
| Frame counters | `vblank.c` | `msc_prev`, `msc_high` per CRTC, `has_queue_sequence`, `tried_queue_sequence` | `ms_kernel_msc_to_crtc_msc`, `ms_get_crtc_ust_msc`, `ms_queue_vblank` | the 64 bit frame number advances as the frames do, through 32 bit wraps |
| Page flipping | `pageflip.c` | `ms_flipdata` with its reference count, the carriers `ms_crtc_pageflip`, `drmmode.fb_id` | `ms_do_pageflip`, `queue_flip_on_crtc`, `ms_pageflip_handler`, `ms_pageflip_abort` | the extension is told once; no framebuffer is removed while it is displayed; no use after free |
| Present glue | `present.c` | `present_flipping`, the pending vblank events | queue, abort, flip, check, unflip | one notification per request, right CRTC, unflip leaves the screen pixmap on display |
| DRI2 glue | `dri2.c` | frame events as server resources, buffer reference counts, `dri2_flipping` | create, copy, schedule wait, schedule swap, frame event handler | frame events outlive neither client nor drawable unnoticed; every one is deleted once |
| CRTC selection | `vblank.c` | none (pure) | `ms_covering_xf86_crtc`, `ms_covering_randr_crtc`, `ms_randr_crtc_covering_drawable` | largest coverage wins, the first CRTC wins ties; the primary output serves drawables on output slaves |
| Mode setting, DPMS | `drmmode_display.c` | `crtc`, `enabled`, `rotation`, `dpms_mode`, `need_modeset`, `current_crtc`, `current_mode` | `drmmode_set_mode_major`, `drmmode_crtc_set_mode`, `drmmode_output_disable`, DPMS, `drmmode_set_desired_modes` | requests are consistent, the kernel routes what the driver wants, a CRTC that is on shows something |
| Framebuffers and resize | `drmmode_display.c`, `dumb_bo.c` | `front_bo`, `fb_id`, `rotate_fb_id` | import, shadow, `drmmode_xf86crtc_resize` | every framebuffer has one owner and is removed once |
| Shared pixmaps (PRIME) | `drmmode_display.c`, `driver.c` | `flip_seq`, `wait_for_damage`, `flipping_active`, front and back of each CRTC | present, flip, vblank, abort, damage, attach and detach | back and front alternate, none is written while displayed, the handshake never stops |
| Hotplug and leases | `drmmode_uevent.c`, `drmmode_display.c` | output list with `output_id`, link state, leases | uevent handling, lease creation, termination, validation | outputs follow connectors, leases follow lessees |
| EXA, DRI3 | `fake_exa.c`, `loongson_pixmap.c`, `dri3.c`, `dumb_bo.c` | per pixmap: bo, descriptor, ownership, mapping | creation, import, export, access, destruction | handles and descriptors have one owner |
| Entity | `loongson_entity.c`, `driver.c` | descriptor references, assigned CRTCs, generation | probe and PreInit of several screens on one device | no CRTC belongs to two screens; the descriptor closes last |
| Screen life cycle | `driver.c` | wrapped screen functions, master state | PreInit, ScreenInit, EnterVT, LeaveVT, CloseScreen | wrapping and unwrapping are symmetric |
| Shadow, cursor, probing | `loongson_shadow.c`, `loongson_cursor.c`, `loongson_probe.c`, ... | shadow tiles, cursor image, option tables | tile update, image upload, start-up | not modelled, see section 7 |

How they interact. Present, DRI2, page flipping and PRIME flipping all file
their requests in the one DRM queue and are called back through it. Page
flipping also flushes the queue while it submits, so any of the other parts'
handlers may run in the middle of a flip. Present and DRI2 both start page
flips. The entity is shared by all screens of a device and decides on whose
behalf the descriptor is watched.

What is hard here: re-entrancy (events handled inside `ms_queue_vblank` and
`queue_flip_on_crtc`), events that outlive their requests and the server
generation, one CRTC of several failing, 32 bit counters that wrap, and order
between the framebuffer's removal and the flips that still show it. The list
of hazards with their lines is in `PROJECT.json`.

## 2. How the project is built up

1. The DRM queue (`DrmQueue`), what it promises (`RequestLedger`), the proof that
   it does (`DrmQueueProofs`).
2. What is filed in it, one module per client, each of which uses the queue through
   that promise: frame counters (`MscTrack`), page flipping
   (`PageFlip`, `PageFlipProofs`), DRI2 (`Dri2`, `Dri2Proofs`; `SwapTarget`), PRIME
   (`SharedFlip`).
3. CRTC selection as an algorithm against a reference definition (`CrtcCover`). The
   proofs about `CrtcCover`, `MscTrack` and `SwapTarget`, which say for which CRTC and
   which frame a request is, and those about `SharedFlip`, whose handlers run at a vertical
   blank, are in one module (`VblankProofs`).
4. The composition of mode setting with the flips of Present and DRI2, on the
   framebuffers they share (`Scanout`, `ScanoutProofs`); a flip is submitted CRTC by CRTC
   there, as in `PageFlip`, and has one event.
5. The other side of mode setting: routing and atomic requests (`ModeSet`,
   `ModeSetProofs`).
6. What changes from outside: connectors, links, lessees (`Hotplug`, `HotplugProofs`);
   clients' buffers (`ExaPixmap`, `ExaPixmapProofs`).

## 3. Modules

### DrmQueue

`ms_drm_queue` is the set of linked entries; list order is the order of
allocation, so "the first match from the head" is the newest match. `n`, the
position of a request in the order of allocation, is the model's own name for
the request; the code sees only `seq`. `NextSeq` and `AfterSeq` are the 32 bit
counter with its wrap and the skipped zero.

The C stack is part of the state. A "vblank" frame is an activation of
`ms_queue_vblank` in its `for (;;)` loop: it leaves by `QueueAccepted`,
by `QueueRefused` (which aborts the entry) or goes round by `QueueBusy`, which
reads events and pushes an "events" frame, that is an activation of
`drmHandleEvent`. `ms_drm_sequence_handler` dispatches one event of the
innermost such activation. While its handler runs, any driver entry point may
be called (`CanCall`), so requests nest to any depth up to the bound.
A failed `calloc` in `ms_drm_queue_alloc` changes nothing and is a stuttering
step. `drmHandleEvent` reads into a buffer of its own, so a batch of events is
taken off the descriptor first and dispatched later: events of the batch may
be overtaken by those a nested flush reads.

Generations: `ms_vblank_screen_init` empties the shared list and registers the
descriptor, `ms_vblank_close_screen` aborts the entries of its screen and
drops the registration. The kernel's events and `ms_drm_seq` survive both.

### RequestLedger

The promise, without numbers, lists or stacks: a request is filed, then
either completed by its own event or cancelled; an event is discarded only if
its request was cancelled. `DrmQueue!ImplementsLedger` states the refinement.

### MscTrack

One CRTC. A 64 bit number is the pair of its halves; the lower half keeps its
width (`Lows`, four times `Quarter`) because the comparison with
`0x40000000` in `ms_kernel_msc_to_crtc_msc` is about exactly that. Reports come
from a query, from a queued request whose number the caller asked for, and
from events which may be late. The model includes the probing of the 64 bit
interface, with an idle CRTC answering EINVAL.

### PageFlip

All CRTCs of one screen. `live` are the allocated `ms_flipdata`, `flip_count`
their reference counts, `queue` the linked carriers. `FlipBegin` is
`ms_do_pageflip` up to the first ioctl, `FlipAccepted`, `FlipFlush`
and `FlipRefused` are the outcomes of `queue_flip_on_crtc`, `Undo` is
the error path at the end. `scanout`, `submitted` and `fbs` are the kernel's
side; `drmModeRmFB` switches off a CRTC that shows the removed framebuffer.
`ms_pageflip_handler` and `HandlerReturns` are one handler cut in two where it
calls `event_handler`, because the extension may start the next flip there.
A flip may begin before the event of the previous one was handled: Present waits
for it, but DRI2's `can_flip` does not look at `dri2_flipping`, so two windows' swaps
may overlap. The histories `partial` and `nested` record the two things the code does
not cope with, a flip refused after some CRTC accepted it and a flip begun while
another is being submitted; `Undisturbed` says that neither has happened.

### Dri2

The frame events of `dri2.c` from the request to the end. A request
(`ms_dri2_schedule_swap`, `ms_dri2_schedule_wait_msc`) makes a frame event, with one
reference to each of its buffers, and puts it into the DRM queue; the queue is used
here through what `RequestLedger` promises of it. When its turn comes the handler
drops it (`FrameAbandoned`), ends the wait (`WaitOver`), blits (`SwapBlits`) or
submits a flip. `ms_do_pageflip` may handle other frame events before it returns,
so a submitted flip is a frame on `stack` until `FlipAccepted`, `FlipRefused` or
`FlipHalfDone`, the three ways the call ends in `PageFlip`: with all CRTCs flipped, with no
carrier left, or refused with a CRTC flipped, whose event then reports the swap that was
blitted a second time (`halfway`). An accepted flip and one left half done have an event of
their own (`flips`) which holds the window's id and the client's pointer, outside the resource
lists.

Buffers are counted by `refcnt`; DRI2 holds one reference to the buffers of a
window. `bo` is the buffer object behind each pixmap, exchanged with every flip;
`fb_bo` is that of the framebuffer `ms->drmmode.fb_id`, which a flip sets when it begins and
only a flip with no carrier left sets back (`old_bo`). A flip that began within another leaves
its framebuffer there for the outer one: `nested` and `mixed` record that. Windows are redirected and unredirected by the
composite extension, which is why `update_front` exists. External to the driver
are the parts of the DRI2 extension that call it: it lets clients sleep while a swap
of the window is outstanding, and drops the buffers with the window.

### SwapTarget

One request, and the frame at which it takes effect: the expressions on
`target_msc`, `divisor` and `remainder`, the flag `MS_QUEUE_NEXT_ON_MISS`, and a display
that may count on between any two steps. The histories `late`, `changed` and `misread`
record what happened in between: a frame passed, `can_flip` changed its answer, the
frame counter could not be read.

### CrtcCover

The two searches of `vblank.c`, one iteration of the loop a step, with the boxes of
rotated and reflected CRTCs, the 16 bit coordinates of a drawable's box, and the
fallback through `ms_first_output`. The reference in `RightCrtc` counts the pixels
that CRTC and drawable have in common and knows nothing of boxes.

### Scanout

What the CRTCs of a screen display. `fbs` are the kernel's framebuffers, with the
lowest free id given out, `bound` the one each CRTC displays; removing one turns the
CRTCs that display it dark. `SetModeFrom` is `drmmode_set_mode_major` with its five
outcomes (`Outcomes`): the shadow of a rotated CRTC cannot be allocated (and success is
reported), the front buffer cannot be imported, the kernel refuses, accepts, or
accepts the test and refuses the commit, whose result the code drops. The loops
over the CRTCs (DPMS without atomic mode setting, `drmmode_set_desired_modes`, a resize, the
fallback of `ms_present_unflip`) take one step per CRTC (`work`), since each mode may
fail alone: `Due` are the CRTCs a loop has before it, `Serves` its turn for one of them.

DPMS on in atomic mode (`drmmode_set_dpms`) is one commit. The import of the front buffer may
fail for some of the CRTCs that need it (`ImportFails`), which are left to the outputs' DPMS that
follows, and the commit may be refused or not be tried (`Commit`), which the code does not notice.

`stack` are the activations of `ms_do_pageflip`, innermost last, with the purpose (`kind`), buffer
(`buf`) and next CRTC (`next`) of each flip and the framebuffer it replaces (`old`).
`ms_do_pageflip` makes the framebuffer and writes `fb_id`; `queue_flip_on_crtc` sends one CRTC
whatever `fb_id` is by then; `FlipAccepted`, `FlipRefused` and `FlipHalfDone` are the three ways to
return, with what the caller does next. Between two CRTCs anything that a flushed event may
bring about is possible: other flips end (`FlipDone`), start within this one, or Present unflips. Flips of
DRI2 start whether or not others are under way, since `can_flip` does not look at `dri2_flipping`.
A flip has one event; how the events of its CRTCs make it up, and on which CRTCs a retry waits, is
module PageFlip.

Four histories record what the code does not cope with: `blame`, why a CRTC may be dark; `nested`,
that a flip or unflip began within the one being submitted; `astray`, that `fb_id` may be of another
buffer than the screen's; `overlap`, that two flips were under way at once or one was left half done
since the last moment without any.

### ModeSet

The routing. A request is a pair of functions: CRTC of some connectors, mode of some
CRTCs; properties added later win (`Plus`), as in libdrm. `crtc_add_dpms_props`, `Orphans` and
`Adopt` are the three places where the code looks at or writes `current_crtc`.
The kernel's check is external: the objects exist, and a CRTC has a mode if and only
if it has a connector. `xf86DisableUnusedFunctions` and RandR's set are external too,
modelled from the order in which they call the driver. The loops over outputs and CRTCs
are recursive functions (`OutputsOff`, `CrtcsOff`, `DesiredModes`); that of DPMS builds one
request, which is said without it (`DpmsRequest`). The first request that is
refused ends the behaviour, with the reason in `refused`: what the driver does after a
refusal is to keep what it had.

### SharedFlip

The sink and the source of PRIME flipping, one screen each, on one server thread. The
functions of the driver call each other and each changes several parts of the
state, so they are operators on one record `st` and return the next. `odd` records what
went wrong with a CRTC: a flip `failed`, a handler `aborted` while the kernel still had its
flip, a mode set with a flip's event unread (`mode set`), a handler that could file no
successor (`stopped`), a second handler (`overlap`), a mode that was refused (`refused`).
`Canonical` renames sequence numbers nothing refers to, so that the counter needs no bound
of its own. The loops of the driver over its CRTCs are one operator, `ForEachCrtc`, given
what is done to each.

### Hotplug

The uevent handler call by call (`pc`), with the kernel free to change between any two
calls, and clients served between two runs of it. `atomic_modeset` is chosen once: the legacy
`SetCrtc` names the connectors and retrains their links, the atomic request resends the CRTC, its
mode and its connectors but never link-status, so that a bad link stays bad
(`drmmode_crtc_set_mode`). Object ids and lessee ids are used
again once they are free; `unseen` are those that went since the driver last read the
list. Where the code follows a NULL `mode_output` the server is `dead`.

### ExaPixmap

The handles, descriptors and mappings behind pixmaps, in the paths that make, import,
export and destroy them, with the failures of each. A buffer has at most one handle in
the driver's file, so two imports of one buffer share it (`twins`, history). What the code drops
without closing is in `lost`. Pixmaps that are not dumb hold plain memory.

## 4. Runs

| Run | Checks | Shows |
|---|---|---|
| `queue` | `SeqIdentifies`, `CallbackOnce`, `NoOrphan`, `WatchedWhileUp`, refinement of the ledger, `EveryRequestEnds` | the queue keeps its promise under re-entrancy, aborts, wrap of the number and two generations of two screens; every request ends |
| `msc` | `MscExact`, `MscAdvances` | the msc advances as the frames do, and is exact once a 64 bit report was seen |
| `flip` | `RefCount`, `AnsweredOnce`, `DisplayAlive`, `ToldWhenDone`, `EveryFlipAnswered` | memory safety and one answer in all cases, none for a refused flip unless a CRTC had accepted it (`partial`); framebuffers and the moment of the answer as long as the flips are `Undisturbed` |
| `dri2` | `BufferRefs`, `NoDangling`, `SwapReported`, `FrontIsFramebuffer`, `EveryFrameEnds` | frame events and buffers are right whatever clients and windows do meanwhile, if no queued request is refused; a swap is reported twice only after a flip left half done, and the driver's framebuffer is that of the screen's pixmap unless flips nested or one was left half done |
| `dri2_refused` (violation) | `FreedOnce` | a refused request is freed by its abort callback and by the caller |
| `swap` | `OnTime`, `NeverEarly` | with nothing late the arithmetic gives exactly the frame asked for, and with frames passing anywhere never an earlier one |
| `crtc_cover` | `BestCovers`, `RightCrtc` | both searches find the CRTC that shows the most of the drawable, the RandR one unless a CRTC is turned by a quarter and reflected |
| `scanout` | `OneOwner`, `LitUnlessBlamed`, `UnflipShowsScreen`, `FlippingFlags` | framebuffers are removed once and never while another part holds them; a CRTC is dark only for the reasons in `blame`; with Present idle the driver's framebuffer is that of the screen's buffer unless led `astray`; no flag outlives its flips, and the flags are exact and exclusive until flips overlap |
| `modeset` | `RequestsConsistent`, `KernelFollows`, `CurrentCrtcKnown` | the requests are never refused for the driver's own bookkeeping, and the kernel's routing is the driver's |
| `shared` | `OneHandler`, `Alive`, `NoTearing`, `DrawingsShown` | one handler per CRTC, a handshake that goes on, no copy to the displayed pixmap, and what is drawn is displayed |
| `hotplug` | `OutputsRight`, `LesseesKnown`, `LeaseEnds`, `ConnectorFound`, `LinkRetrained` | outputs and leases follow the kernel whenever it changes during the handler |
| `exa` | `HandlesKept`, `Owned` | handles and descriptors have one owner through failures of every path |

The type invariants of `DrmQueue`, `MscTrack` and `CrtcCover` are proved, not checked; those of
`PageFlip`, `Dri2`, `SwapTarget`, `ModeSet`, `ExaPixmap` and `Hotplug` are the first part of
the inductive invariants in their proof modules.

### Bounds

* `SeqModulus` 5: numbers 1 to 4, so that five allocations wrap the counter, skip zero
  and reuse a number. `NoLapping` restricts the model to behaviours in which a
  request or event is gone before the counter comes round to its number; for
  32 bits that is 2^32 - 1 later allocations. Without it the code cannot tell two
  requests apart, at any width.
* `MaxAllocs` 5, `MaxDepth` 4, `KernelSpace` 2, two data values, two screens, two
  generations: enough for a request whose flush runs a handler that queues a
  request that flushes again, with an event left over from a closed generation.
* `Quarter` 3, `Highs` 3: twelve values of the lower half, three of the upper.
  The kernel's counter may start anywhere, so that every wrap is met. `MaxIdle`,
  `MaxLag` and `MaxAhead` say how far apart reports lie, within the quarter the code
  assumes. The kernel has the 64 bit interface; an idle CRTC on the first call makes
  the driver use the 32 bit one for good, so that both are met.
* Two CRTCs and three flips: one in progress, one nested or overlapping, one after
  them. `MaxDepth` 4 is a flip whose flush runs a handler that begins a flip that
  flushes; `MaxVblanks` bounds the other events.
* Two clients, two windows, two frame events, four buffers: two swaps, or a swap and a
  wait, of the same or of different windows and clients are under way together, or
  one window gets new buffers while a frame event holds the old ones. One of the
  windows may be redirected. A frame event or buffer that was freed is not used
  again for another one, so that use after free shows.
* Frames 0 to 9 and divisors up to 4: every residue, targets before, at and after the
  current frame, more than two periods ahead.
* Two CRTCs in all combinations of three places (two adjacent, one overlapping both),
  quarter turns, reflections, on and off; two outputs; twelve drawables, some partly
  or wholly off screen; one slave. `Short` 16 lets no drawable of the run wrap.
* `Scanout`: two CRTCs, one of which is ever rotated (two rotated ones double the states
  and meet no new case, since a shadow belongs to one CRTC), two front buffers (the old and
  the new one of a resize), one window that flips through DRI2 besides the pixmaps of Present, two
  flips at a time (enough for one within, over or after another, and for one left half done with its
  event still to come), one fault: a set of a mode, a DPMS commit or a flip that goes wrong. While another
  owner has the VT every set fails, and that is not counted; nor is a refusal that the kernel cannot
  but give. The run's `View` takes states for one that differ only in the numbers of framebuffers and
  flips, in the rotation of a disabled CRTC or in the blame of one whose mode is to be set.
* `ModeSet`: two CRTCs, two outputs, two modes on the first CRTC (so that `current_mode`
  changes), one refusal that is not the driver's doing. Outputs swap CRTCs, share one and
  leave one empty.
* `SharedFlip`: one CRTC, two pixmaps, three sequence numbers (a handler, an event not
  yet read, a notification), two failures: a mode that is refused leaves a CRTC on without
  flipping only when the framebuffers of the one before failed. Pixmaps are made anew at
  every attachment.
  Two CRTCs have pixmaps of their own and nothing in common but the event queue. A second handler ends
  the behaviour, and so does the event of a handler whose pixmaps are gone.
* `Hotplug`: two port names, two connector ids, two CRTCs, two lessee ids, four changes
  from outside and one failed call: enough for a connector that goes, comes back under
  the other's id and is leased.
* `ExaPixmap`: three interchangeable pixmaps, two buffers, three descriptors and one
  failure besides those from lack of descriptors.

Deadlock is checked for the queue, the counters and `Scanout`. In the other modules the
first refusal or the death of the server ends the behaviour, the calls are bounded and
the screen may be closed, or one request or search is followed to its end, so the system
may stop.

### Fairness

`queue` and `flip` assume that the server executes the function it is
in and that its main loop polls the watched descriptor (it is one thread that
does nothing else), that an accepted vblank or flip happens (the kernel sends
the events of a CRTC even when it is switched off), and that dix, once it has
closed a screen, closes the others. `dri2` assumes what these two runs show,
that a queued frame event and a flip with an event on its way are answered, and that
`ms_do_pageflip` returns. `shared` assumes that the main loop goes on (block handlers and events) and
that the kernel completes flips and blanks it has accepted; `hotplug`, that a handler
that was called runs to its end and that a readable monitor is read while the
server owns the VT. The other runs check safety only. Nothing is assumed of clients,
failures, aborts, connectors or the decision to regenerate.

## 5. Proofs

All proofs are checked by TLAPS for every value of the constants that meets the
assumption named in the module.

**DrmQueueProofs.** `QueueInvariant` is the inductive invariant, from which the
four invariants of run `queue` and the type follow. `SeqIdentifies` is not
inductive: it says nothing of the number the *next* allocation gets. The
strengthening relates every number to the age of the thing carrying it: an
entry, event or "vblank" frame `n` carries the number the counter had
`allocs - n` allocations ago, and all ages are below `SeqModulus - 1`; counting
backwards from `ms_drm_seq` is one to one in that range (`OneToOne`), hence equal
numbers mean equal requests. The other parts say that exactly one callback has run
if the entry left the list and none before (`CallbackOnce`), that the list is empty of
a closed screen's entries (so that `xorg_list_init` drops nothing), that the wakeup
reference counts the screens that are up, and that every linked entry has its event or
its activation.

That it keeps its promise (`QueueImplementsLedger`: every behaviour of the queue is one of
the ledger) needs two more invariants: an event exists at most once in
kernel, descriptor and batches (`OnceInv`), and a request still being submitted
has no event yet (`WaitInv`). Then each action maps to one ledger action or to
a stuttering step.

**VblankProofs**, on four modules that have no variable in common.

*MscTrack.* `CounterTypes`; and, under `CloseReports` (no two consecutive reports
lie more than a quarter of the 32 bit range apart), `ExactWhenClose` and
`AdvancesWhenClose`. The argument is one lemma on the comparison
(`NarrowCarry`): if two frames are at most `Quarter` apart, the code's
decision about the upper half is the carry between them.

*CrtcCover.* `TypeCorrect`, and `LoopFindsBest`: for any number of CRTCs in any
arrangement the loop ends with the first of the enabled CRTCs of greatest coverage.
`BestCovers` speaks only of the end of the loop; the invariant is what the loop
knows about the CRTCs before `c` (`Scanned`), from which it follows. `MostPixelsWin`
(`RightCrtc`) compares that with a definition that has no arithmetic, the number of pixels
the drawable shares with a CRTC: the box `ms_box_intersect` returns is the intersection of
the two as sets of pixels (`IntersectIsShared`), and its area their number (`AreaIsPixels`).
The drawable's far edges must fit into 16 bits, in which `BoxRec` keeps them; the assumption
of `CrtcCover` says so.

*SwapTarget.* `RequestsAreOnTime` (`OnTime`) and `SwapsAreNeverEarly` (`NeverEarly`), for
every frame, target, divisor and remainder: the bounds of run `swap` play no part. The lemmas are
about division: among `d` consecutive frames one has the remainder `r` (`OnlyOne`), and the formulas
of `ms_dri2_schedule_swap` and `ms_dri2_schedule_wait_msc`, which differ, both yield it
(`Satisfying`). `TimeInv` follows a request from there to its end.

*SharedFlip.* `SharedOneHandler` (`OneHandler`), `SharedAlive` (`Alive`) and `SharedNoTearing`
(`NoTearing`), for any number of CRTCs, pixmaps, sequence numbers and failures. The two invariants are
not inductive, and neither can be had for one CRTC alone, because the CRTCs share the event queue and the numbers. `SharedInv` says

* that no two CRTCs have a pixmap in common and that flipping is between two of them (`Separate`);
* that a number finds one entry, and a pixmap refers to an entry that displays it (`Numbered`), so
  that the two aborts of `drmmode_FiniSharedPixmapFlipping` remove the CRTC's own handler, and
  nobody else's;
* that the handler of a CRTC displays the back pixmap next (`One`), from which it follows that the
  roles it exchanges are those the CRTC has when its event is read;
* that active flipping has a handler or waits for damage (`Awake`), and is active on a CRTC that is
  on (`Ready`).

Each function of the driver is shown to keep this for the CRTC it is called for and to leave what the
other CRTCs have alone (`Others`). `Good(S, C)` is the invariant while only the CRTCs in `C` are ready:
between the parts of a mode set, and in the loops after the VT is entered, where each iteration
adds its CRTC. The loops are recursive functions; `LoopExists` and `LoopKeeps` reason about the least
CRTC at which they would go wrong.

`NoTearing` relates two states: what a step copies to, and what the CRTC displays after it. `SharedInv`
does not say what is displayed, so `Visible` adds, while none of the oddities that `NoTearing` excludes
has happened,

* that a CRTC displays, and is about to display, its own pixmaps only, whose updates wait for the
  source when flipping is on (`ShowsOwn`);
* that the flip in flight is the one its handler waits for (`ShowsNext`);
* that the back pixmap is displayed only after its flip and before the handler that exchanges the roles,
  and that the front one is not displayed then (`ShowsFront`);
* that the number of a flip in flight is neither that of another flip nor that of an event still to
  be read (`NumbersApart`), so that no event ends a flip that is not done.

Each function keeps this and copies to nothing that its CRTC displays (`Fine`); it leaves what the other
CRTCs display alone (`Alike`). Functions called one after the other compose (`FineThen`), a loop over
the CRTCs by the least CRTC at which it would go wrong (`LoopFine`), and each action follows from its
functions (`SharedNextClear`).

**PageFlipProofs.** All safety properties of `PageFlip`, for any number of CRTCs, flips and
nested activations. No property is inductive alone, and each strengthening rests on the one
before:

* `ReferencesCounted` (`RefCount`). That a refused flip drops a carrier of its own
  (`pageflip.c:215`) rests on the carrier being linked still, although the events that are flushed
  before the ioctl is tried again may unlink any carrier. `StackInv` relates the C stack, the
  list and the kernel: the carrier that an activation is about to submit is linked and was not
  sent, none for a later CRTC is linked, an activation inside `event_handler` has no carrier of
  its flip left, and no two activations work on one flip.
* `FlipsAreAnsweredOnce` (`AnsweredOnce`). `AnswerOf` adds to it where a flip is that has no
  answer yet: alive, or in the activation of `ms_do_pageflip` that has not returned.
* `DisplaysStayAlive` (`DisplayAlive`) and `ToldWhenFlipped` (`ToldWhenDone`, an action property).
  `DisplayInv` says that framebuffers are numbered in the order of the flips and that no CRTC
  goes back (`ScanInv`); a CRTC whose carrier is gone has done the flip (`ReachInv`), also for the
  CRTCs behind the loop of the flip that is being submitted (`LoopInv`); the framebuffers in the
  kernel are those some part will remove (`FbsInv`), and flips that are alive form a chain in which
  each removes the framebuffer of an earlier one (`ChainInv`). So what a flip removes when it is
  over is older than all that is shown, and what it removes when the first CRTC refused it is newer.

**ScanoutProofs.** All four properties of `Scanout`, for any number of CRTCs:

* All rest on `CallInv`: the activations of `ms_do_pageflip` are of different flips, each with a
  purpose, and of the loops over the CRTCs only that of an unflip runs within one.
* `FlagsAreRight` (`FlippingFlags`). `FlagInv` says which flip or loop Present waits for: an
  unflip lasts from the step that sets `present` to its event or to the end of the loop, and as
  long as no two flips overlapped that flip is the only one.
* `EveryFramebufferHasOneOwner` (`OneOwner`). The property counts owners; `OwnInv` says the same
  without counting: each place that holds a framebuffer (`Places`) holds an existing one or none, no
  two hold the same, and every framebuffer that exists is in a place. That a new framebuffer can be had
  when the code makes one is a pigeonhole argument over the places: a flip that begins has a free one.
* `UnflipRestoresScreen` (`UnflipShowsScreen`). `ScreenInv` follows the flips by what they will leave
  behind, accepted or refused, and the loop of the unflip, which has restored the framebuffer or has met
  no enabled CRTC so far.
* `OnlyTheBlamedAreDark` (`LitUnlessBlamed`). The property speaks of moments when nothing runs;
  `LitInv` says it of every moment, for the CRTCs that the loop has served (`Served`); a CRTC that the
  flips in submission have yet to reach, or leave out because it is off, shows the framebuffer that
  one of them replaces (`Behind`).

**Dri2Proofs.** All safety properties of `Dri2`, for any number of clients, windows, buffers
and frame events.

* `EventInv` is what all rests on: a frame event that is not deleted is in exactly one place, the
  queue or a running `ms_do_pageflip`, and a flip outlives its frame event.
* `NothingDangles` (`NoDangling`). The strengthening (`ClientInv`) says of a sleeping client what
  its exit, or that of the window, will need: that its frame event is still queued.
* `SwapsReportedOnce` (`SwapReported`). One set, `Owed`, holds the requests somebody still has to
  be told of; a swap passes from the queue through the submission to the flip within it, and is
  reported by the step that takes it out. A flip left half done is reported and stays owed
  once more.
* `FrontHasFramebuffer` (`FrontIsFramebuffer`). Each flip is of a pair of buffers of which the front one
  has the screen's pixmap and the back one a pixmap of its own (`PairInv`), so the exchange puts
  the BO that was flipped to into the screen's pixmap; windows that are redirected meanwhile do not
  disturb it, because `update_front` moves only front buffers. While a single flip is being
  submitted, `fb_bo` is of its back buffer and `old_bo` of the screen's pixmap (`FrontInv`), which
  is what it takes to go either way.
* `BuffersCounted` (`BufferRefs`) and `FreedOnceUnlessRefused` (`FreedOnce`) have the hypothesis
  that `ms_queue_vblank` refuses no request, as in run `dri2`; without it both are false (section
  6). The others hold with refusals too.

**HotplugProofs.** `OutputsAreRight` (`OutputsRight`) and `LesseesAreKnown` (`LesseesKnown`), for
any number of ports, object ids, CRTCs and lessees. `OutputsRight` is not inductive: between the list
of connectors and the last output made from it, connectors come and go. `OutputInv` says that a
connector an output has is there or its going was not yet seen, and that those still to be given
an output have none. `LesseesKnown` is inductive together with the types.

**ModeSetProofs.** All three properties of `ModeSet`, for any number of CRTCs, outputs and modes.
`RouteInv` relates what the server wants (`output->crtc`, enabled CRTCs, modes), what the driver
believes (`current_crtc`) and what the kernel routes:

* `Knows`: the kernel routes no connector to a CRTC that `current_crtc` does not name, which is
  `CurrentCrtcKnown`. `Believes`: `current_crtc` is `output->crtc`, and still names a CRTC for an
  output without one only if that CRTC is off. `Drives`: the connectors of a CRTC that is on, or has a
  mode, go to it.
* From these follows that no request is inconsistent (`RequestsAreConsistent`). A CRTC that loses
  connectors to another is an orphan, or keeps one that `current_crtc` names and, because it has a mode,
  the kernel drives: neither `Knows` nor `Drives` would do alone.
* `KernelIsFollowed` needs besides that each CRTC has its own mode (`OwnModes`) and the CRTCs that
  are not enabled none (`Unused`). The latter is what `xf86DisableUnusedFunctions` establishes: its
  first loop frees the connectors without a CRTC, one by one (`Cleared`), and each of the
  driver's requests turns a whole CRTC off, so that the second loop finds CRTCs without connectors.
* After another owner had the VT only consistency is known, and the loop of
  `drmmode_set_desired_modes` restores the rest CRTC by CRTC (`EnterInv`, `Restored`).

A loop is a recursive function over its iterations. `LoopRuns` proves, from the least number for
which it would not, that such a function has a value; `LoopKeeps`, that what
each iteration keeps holds at the end. Both use only that sets of numbers have a least one.

**ExaPixmapProofs.** `HandlesAreKept` (`HandlesKept`) and `EverythingIsOwned` (`Owned`), for any number
of pixmaps, buffers and descriptors. The inductive invariant (`ExaInv`) looks from both sides. From
the pixmaps (`BoInv`, `FdInv`): a pixmap's handle and descriptor are open and of its buffer, and
nobody else's. From the kernel (`HandleInv`, `FdInv`): each open handle and descriptor is a pixmap's
or in `lost`. That a new pixmap finds its buffer's handle unused rests on `OneHandle`, that the kernel
gives a buffer one handle at most, together with `HandleInv`.

**Only model-checked.** What must happen in the end (`EveryRequestEnds`, `EveryFlipAnswered`, `EveryFrameEnds`,
`DrawingsShown`, `LeaseEnds`, `ConnectorFound`, `LinkRetrained`) needs fairness and is beyond these
provers. Every other property of the passing runs has a theorem.

## 6. What the model shows of the code

One comment promises more than the code does and has a run of its own that ends in a
counterexample, with an entry under `findings`: a frame event is deleted twice when
`ms_queue_vblank` refuses its request (`dri2.c:821` and `dri2.c:981`).

Other limits of the code are part of the models. The properties are stated around them, through a
condition or a history variable, so that the runs also show that there are no others:

* `PageFlip` (`Undisturbed`): a flip refused on a later CRTC leaves the first one flipped, whose
  event reports it (`pageflip.c:326`); if the first CRTC's event is handled while the second is
  retried in vain, the framebuffer on display is removed (`pageflip.c:349`).
* `Dri2`: the flip of a client that has exited is still reported to it (`dri2.c:470`). A flip left
  half done is reported twice, by the blit and by the CRTC that took it (`halfway`, `pageflip.c:360`).
  A flip that is submitted within another leaves its framebuffer to the outer one, whose later
  CRTCs are sent it (`mixed`, `pageflip.c:167`).
* `SwapTarget`: `misread`, a wait computed from an unset counter (`dri2.c:740`); `changed`, a swap
  queued as a flip one frame early and blitted then (`dri2.c:670`); a flip with a divisor and the
  next frame as target (`dri2.c:893`).
* `CrtcCover`: the box of a CRTC that is reflected and turned by a quarter has width and
  height exchanged (`vblank.c:84`).
* `MscTrack` (`CloseReports`): reports more than 2^30 frames apart, and the first 32 bit report
  (`vblank.c:441`).
* `Scanout`: "drmmode_set_mode_major will re-create it" (`present.c:377`) holds for one CRTC; with
  two on, the loop removes the framebuffer it has just shown on the first (`blame`). With
  no CRTC enabled the unflip keeps the framebuffer of the last presented pixmap (`astray`). A flip leaves
  out CRTCs that are off, and they come on with a framebuffer that is gone (`pageflip.c:302`). A
  rotated mode whose shadow cannot be allocated is reported as set (`drmmode_display.c:1524`).
  After a DPMS commit that was refused or never tried the mode of a CRTC is not set again, since
  `need_modeset` was cleared before (`drmmode_display.c:693`). A flip that is refused after a CRTC took it
  leaves its framebuffer in `fb_id` (`pageflip.c:349`): Present is idle with its pixmap on display; and an
  outer flip sends its later CRTCs the framebuffer of the one nested in it (`pageflip.c:167`)
  (`astray`). The handler of one DRI2 flip clears the flag under another (`dri2.c:474`), both flags are
  set when a DRI2 flip starts within a flip of Present (`present.c:336`), and the late event of an unflip left
  half done clears `present_flipping` under a newer flip (`present.c:186`) (`overlap`).
* `ModeSet`: requests name connectors that are gone, or count their CRTC (`drmmode_display.c:811`); a
  blob that could not be made is taken for made (`drmmode_display.c:524`); after a commit that is lost
  the driver goes on as if the mode were set (`drmmode_display.c:1565`). Coming back to a VT with such a mode
  ends the server.
* `SharedFlip`: a failed flip is said to be tried again at the next vblank, but by then there is no
  damage and the retry asks for it instead (`drmmode_display.c:1116`); `wait_for_damage` survives
  `drmmode_FiniSharedPixmapFlipping`, so that a late notification files a second handler; a flip whose
  handler was aborted is completed by the kernel all the same.
* `Hotplug`: the comment on the uevent handler hopes for a mode set to retrain links that failed
  (`drmmode_uevent.c:58`); in atomic mode the request does not write link-status, and `LinkRetrained` is
  stated for the legacy path. A NULL `mode_output` is followed for an output that is gone
  (`drmmode_uevent.c:93`, `drmmode_display.c:3381`); a lease survives its lessee while another has its id,
  and an output takes a connector for its own if the id was given on before the list was read; the
  server gives up when it returns to the VT with an output that is gone
  (`drmmode_display.c:3592`).
* `ExaPixmap`: `LS_CreateDumbPixmap` drops a descriptor for every pixmap (`loongson_pixmap.c:233`); two
  pixmaps of one buffer share its handle, and the first to go takes it along.

## 7. Not modelled

* Shadow framebuffer: each update compares the damaged tiles with the last copy; a function of two
  images with no other state.
* Cursor: image upload and position are calls to the kernel; `sprites_visible` only decides
  whether a flip is tried, which `Scanout` leaves open.
* Probing, options, PreInit's choices: run once, in sequence, before the state described here exists.
* Entity: `fd_ref` and `assigned_crtcs` count up in PreInit and down in FreeRec and
  CloseScreen, one screen after the other.
* Screen life cycle: wrapping of screen functions; what `CloseScreen` frees besides the queue's entries.
* PRIME: `drmmode_set_target_scanout_pixmap_gpu`, where the sink copies one shared pixmap to its screen and
  resizes it; the sharing of buffers between screens (`msSharePixmapBacking`).
* EXA: what is drawn (all operations fall back to software), `ms_exa_exchange_buffers` (the exchange itself is in
  `Dri2` and `Scanout`); DRI3: opening a render node for a client.
* In `Dri2`, what a blit copies, and failing allocations other than those of frame
  events, which leave a request completed at once.
* `ms_present_event_match` reads any entry's data as a Present event (`present.c:137`); whether the first
  bytes of another client's data may equal an event id depends on the allocator.
* Timestamps (`ust`), gamma, colour maps, property formatting, EDID: no state that other parts depend on, or
  pure I/O.
* The kernel beyond what the driver uses of it.
