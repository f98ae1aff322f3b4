------------------------------ MODULE Scanout ------------------------------
(***************************************************************************)
(* What the CRTCs of a screen display: framebuffers and their owners       *)
(* through mode setting, rotation, DPMS, VT switches and resizes of        *)
(* drmmode_display.c, and the flips and unflips of present.c and dri2.c.   *)
(*                                                                         *)
(* A page flip is submitted CRTC by CRTC; between two of them the events   *)
(* that are flushed may complete other flips, start new ones and unflip,   *)
(* so that submissions nest (stack).  A flip has one event here; how the   *)
(* events of its CRTCs make up one is module PageFlip.  The loops that set *)
(* the modes of the CRTCs one after the other are steps of their own       *)
(* (work), since each mode may fail alone.                                 *)
(*                                                                         *)
(* Framebuffer ids are the kernel's: the lowest free number.  Buffers are  *)
(* the front BO, those of windows that flip through DRI2, or a pixmap that *)
(* a client presents.  A CRTC has one mode; modes of other sizes matter    *)
(* only through the size of the screen.                                    *)
(***************************************************************************)
EXTENDS Integers, FiniteSets, Sequences

CONSTANTS
    NumCrtcs,       \* CRTCs of the screen, in the order of config->crtc
    Rotatable,      \* bound: CRTCs that are ever rotated
    NumWindows,     \* bound: windows that flip through DRI2
    MaxFlips,       \* bound: flips being submitted or with an event on the way
    MaxFaults       \* bound: sets of a mode, DPMS commits and flips that go wrong
                    \* while the VT is ours

Crtcs  == 1..NumCrtcs
Slots  == 1..MaxFlips
FbIds  == 1..(NumCrtcs + MaxFlips + 2)

ASSUME ScanoutAssumption ==
    /\ NumCrtcs \in Nat \ {0}
    /\ Rotatable \subseteq Crtcs
    /\ NumWindows \in Nat
    /\ MaxFlips \in Nat
    /\ MaxFaults \in Nat

VARIABLES
    atomic_modeset,     \* ms->atomic_modeset, fixed at PreInit
    vtSema,             \* whether the server owns the VT
    enabled,            \* crtc->enabled
    rotation,           \* whether crtc->rotation is other than RR_Rotate_0
    dpms_mode,          \* whether drmmode_crtc->dpms_mode is DPMSModeOn
    need_modeset,       \* drmmode_crtc->need_modeset
    fb_id,              \* drmmode->fb_id,
    fb_bo,              \* and the buffer of that framebuffer, or NoBo
    rotate_fb_id,       \* drmmode_crtc->rotate_fb_id
    screen_bo,          \* the buffer behind the screen pixmap
    fbs,                \* the kernel's framebuffers
    bound,              \* the framebuffer each CRTC displays while it is active
    active,             \* whether the kernel has the CRTC turned on
    present,            \* what the Present extension knows
    present_flipping,   \* drmmode->present_flipping
    dri2_flipping,      \* drmmode->dri2_flipping
    stack,              \* the flips whose ms_do_pageflip is running, innermost last
    kind,               \* what each flip is for
    buf,                \* its buffer, while it is being submitted,
    next,               \* and the CRTC whose turn it is
    old,                \* flipdata->old_fb_id,
    old_bo,             \* and the buffer of that framebuffer, while the flip is being submitted
    work,               \* the loop over the CRTCs under way
    blame,              \* why a CRTC may be dark, when it may (history)
    nested,             \* whether a flip or unflip began within the outermost flip (history)
    astray,             \* whether fb_id may be of another buffer than the screen's (history)
    overlap,            \* whether two flips were under way at once, or one was left half
                        \* done, since it was last quiet (history)
    faults              \* what has gone wrong so far (counter of the bound)

crtcVars   == <<enabled, rotation, dpms_mode, need_modeset, rotate_fb_id>>
fbVars     == <<fb_id, fb_bo>>
kernelVars == <<fbs, bound, active>>
callVars   == <<stack, kind, buf, next, old, old_bo>>
flagVars   == <<present, present_flipping, dri2_flipping, overlap>>
flipVars   == <<flagVars, callVars, nested>>
vars == <<atomic_modeset, vtSema, crtcVars, fbVars, screen_bo, kernelVars, flipVars,
          work, blame, astray, faults>>

Dark    == 0        \* bound: no framebuffer
Foreign == -1       \* bound: a framebuffer of another owner of the VT
NoBo    == -1       \* buffers: none,
Front   == 0        \* drmmode->front_bo,
Windows == 1..NumWindows    \* those made for windows that flip through DRI2,
Pixmap  == NumWindows + 1   \* a presented pixmap

\* The back buffers of the windows that flip through DRI2: a flip exchanges one of them with
\* the buffer of the screen pixmap.
BackBos == (Windows \cup {Front}) \ {screen_bo}

NoWork   == [op |-> "none", crtc |-> 0, old_fb |-> 0]
Idle     == work.op = "none"
MainLoop == Idle /\ stack = <<>>

Submitted == {stack[i] : i \in 1..Len(stack)}

\* The flips that have an event on the way; nothing is under way.
Pending(s) == kind[s] # "none" /\ s \notin Submitted
NoFlip     == \A s \in Slots : kind[s] = "none"

ms_crtc_on(c) == enabled[c] /\ dpms_mode[c]

Init ==
    /\ atomic_modeset \in BOOLEAN
    /\ vtSema = TRUE
    /\ enabled \in [Crtcs -> BOOLEAN]
    /\ rotation = [c \in Crtcs |-> FALSE]
    /\ dpms_mode = enabled
    /\ need_modeset = [c \in Crtcs |-> FALSE]
    /\ fb_id = 1 /\ fb_bo = Front
    /\ rotate_fb_id = [c \in Crtcs |-> 0]
    /\ screen_bo = Front
    /\ fbs = {1}
    /\ bound = [c \in Crtcs |-> IF enabled[c] THEN 1 ELSE Dark]
    /\ active = enabled
    /\ present = "idle"
    /\ present_flipping = FALSE
    /\ dri2_flipping = FALSE
    /\ stack = <<>>
    /\ kind = [s \in Slots |-> "none"]
    /\ buf = [s \in Slots |-> NoBo]
    /\ next = [s \in Slots |-> 0]
    /\ old = [s \in Slots |-> 0]
    /\ old_bo = [s \in Slots |-> NoBo]
    /\ work = NoWork
    /\ blame = [c \in Crtcs |-> "none"]
    /\ nested = FALSE /\ astray = FALSE /\ overlap = FALSE
    /\ faults = 0

-----------------------------------------------------------------------------
(* External: the kernel's framebuffers *)

\* drmModeAddFB gives the lowest free id.
NewFb(F) == CHOOSE f \in FbIds \ F : \A g \in FbIds \ F : f <= g

\* drmModeRmFB: the framebuffer goes, and every CRTC that displays it goes dark.
RmFB(F, f)    == F \ {f}
Without(B, f) == [c \in Crtcs |-> IF f # 0 /\ B[c] = f THEN Dark ELSE B[c]]

-----------------------------------------------------------------------------
(* drmmode_set_mode_major *)

\* What may come of it: the shadow cannot be allocated (and the caller is told of
\* success), the front buffer cannot be imported, the kernel refuses, the kernel
\* accepts, or it accepts the test of an atomic mode and refuses the commit, whose
\* result is dropped.
Outcomes == {"no shadow", "no framebuffer", "refused", "set", "lost"}

Tried(out)   == out \in {"set", "lost"}
Success(out) == Tried(out) \/ out = "no shadow"

\* drmmode_crtc_get_fb_id has to import the front buffer.
NeedsImport(id, shadow, out) == shadow = 0 /\ id = 0 /\ out # "no shadow"

\* drmmode_shadow_destroy: the framebuffer of the shadow of a CRTC that is rotated no more
\* goes, or 0 if there is none.
drmmode_shadow_destroy(c, r) == IF r THEN 0 ELSE rotate_fb_id[c]

\* drmmode_shadow_allocate and drmmode_shadow_create: the framebuffer of the shadow of a
\* rotated CRTC, which it may have already, or 0.
drmmode_shadow_create(F, c, r, out) ==
    IF ~r \/ out = "no shadow" THEN 0
    ELSE IF rotate_fb_id[c] # 0 THEN rotate_fb_id[c] ELSE NewFb(F)

\* xf86CrtcRotate, drmmode_crtc_set_mode (as a test first, if that is possible), then
\* DPMS of the CRTC and its outputs; F, B and id are the framebuffers, what the CRTCs
\* display and fb_id before.  The shadow of a rotated CRTC is allocated before the mode
\* is tried, or freed, and stays so when the mode is refused.
SetModeFrom(F, B, id, c, r, out) ==
    LET gone   == drmmode_shadow_destroy(c, r)
        fbs1   == RmFB(F, gone)
        shadow == drmmode_shadow_create(fbs1, c, r, out)
        fbs2   == IF shadow \in {0, rotate_fb_id[c]} THEN fbs1 ELSE fbs1 \cup {shadow}
        front  == IF NeedsImport(id, shadow, out) /\ out # "no framebuffer"
                  THEN NewFb(fbs2) ELSE id
        target == IF shadow # 0 THEN shadow ELSE front
    IN  /\ out = "no shadow" => r /\ rotate_fb_id[c] = 0
        /\ out = "no framebuffer" => NeedsImport(id, shadow, out)
        /\ out = "lost" => atomic_modeset
        /\ Tried(out) => vtSema
        /\ faults' = faults + (IF out = "set" \/ ~vtSema THEN 0 ELSE 1)
        /\ faults' <= MaxFaults
        /\ rotate_fb_id' = [rotate_fb_id EXCEPT ![c] = shadow]
        /\ fb_id' = front
        /\ fb_bo' = IF front # id THEN Front ELSE IF id = 0 THEN NoBo ELSE fb_bo
        /\ fbs' = IF front # id THEN fbs2 \cup {front} ELSE fbs2
        /\ rotation' = [rotation EXCEPT ![c] = IF Success(out) THEN r ELSE @]
        /\ dpms_mode' = [dpms_mode EXCEPT ![c] = @ \/ Tried(out)]
        /\ need_modeset' = [need_modeset EXCEPT ![c] = @ /\ ~Tried(out)]
        /\ bound' = IF out = "set" THEN [Without(B, gone) EXCEPT ![c] = target]
                    ELSE Without(B, gone)
        /\ active' = [active EXCEPT ![c] = @ \/ out = "set"]

SetMode(c, r, out) == SetModeFrom(fbs, bound, fb_id, c, r, out)

Blamed(c, out) == [blame EXCEPT ![c] = IF out = "set" THEN "none" ELSE "dark"]

\* RandR sets the mode of a CRTC, and drmmode_adjust_frame its position.
RandRSet(c, r, out) ==
    /\ MainLoop
    /\ r => c \in Rotatable
    /\ SetMode(c, r, out)
    /\ enabled' = [enabled EXCEPT ![c] = @ \/ Success(out)]
    /\ blame' = Blamed(c, out)
    /\ UNCHANGED <<atomic_modeset, vtSema, screen_bo, flipVars, work, astray>>

\* RandR takes the mode away, then xf86DisableUnusedFunctions: the CRTC is turned off
\* and drmmode_shadow_destroy frees its shadow.
RandRDisable(c) ==
    LET gone == rotate_fb_id[c]
    IN  /\ MainLoop /\ enabled[c]
        /\ enabled' = [enabled EXCEPT ![c] = FALSE]
        /\ dpms_mode' = [dpms_mode EXCEPT ![c] = FALSE]
        /\ rotate_fb_id' = [rotate_fb_id EXCEPT ![c] = 0]
        /\ fbs' = RmFB(fbs, gone)
        /\ bound' = IF vtSema THEN [bound EXCEPT ![c] = Dark] ELSE Without(bound, gone)
        /\ active' = [active EXCEPT ![c] = @ /\ ~vtSema]
        /\ blame' = [blame EXCEPT ![c] = "none"]
        /\ UNCHANGED <<atomic_modeset, vtSema, rotation, need_modeset, fbVars, screen_bo,
                       flipVars, work, astray, faults>>

-----------------------------------------------------------------------------
(* DPMS *)

\* Whether the commit of drmmode_set_dpms is done: its result is not looked at, nor is it
\* tried if a property could not be added.
Commit(done) ==
    /\ ~done => atomic_modeset
    /\ faults' = faults + (IF done THEN 0 ELSE 1)
    /\ faults' <= MaxFaults

\* Off, for every enabled CRTC.
DpmsOff ==
    /\ MainLoop /\ vtSema
    /\ dpms_mode' = [c \in Crtcs |-> dpms_mode[c] /\ ~enabled[c]]
    /\ \E done \in BOOLEAN :
          Commit(done) /\ active' = [c \in Crtcs |-> active[c] /\ ~(done /\ enabled[c])]
    /\ UNCHANGED <<atomic_modeset, vtSema, enabled, rotation, need_modeset, fbVars, rotate_fb_id,
                   screen_bo, fbs, bound, flipVars, work, blame, astray>>

\* xf86DPMSSet: the CRTCs are taken to be on, then come the outputs, one by one.
xf86DPMSSet ==
    /\ dpms_mode' = [c \in Crtcs |-> dpms_mode[c] \/ enabled[c]]
    /\ work' = [NoWork EXCEPT !.op = "dpms", !.crtc = 1]

\* The CRTCs that need a mode set and for which drmmode_crtc_get_fb_id may fail to import the
\* front buffer; once it is imported, it is there for those that come after.
Importers(todo)        == {c \in todo : rotate_fb_id[c] = 0 /\ fb_id = 0}
ImportFails(todo, bad) == /\ bad \subseteq Importers(todo)
                          /\ \A c \in bad, d \in Importers(todo) \ bad : c < d

\* On, with atomic mode setting: one commit for all CRTCs, which sets the planes of
\* those that need a mode set.
drmmode_set_dpms ==
    LET todo  == {c \in Crtcs : enabled[c] /\ need_modeset[c]}
    IN  \E bad \in SUBSET Crtcs, done \in BOOLEAN :
        LET front == IF Importers(todo) \ bad # {} THEN NewFb(fbs) ELSE fb_id
            fb(c) == IF rotate_fb_id[c] # 0 THEN rotate_fb_id[c] ELSE front
            ready == todo \ bad
        IN  /\ MainLoop /\ vtSema /\ atomic_modeset
            /\ ImportFails(todo, bad)
            /\ Commit(done)
            /\ fb_id' = front
            /\ fb_bo' = IF front # fb_id THEN Front ELSE fb_bo
            /\ fbs' = IF front # fb_id THEN fbs \cup {front} ELSE fbs
            /\ need_modeset' = [c \in Crtcs |-> need_modeset[c] /\ c \notin ready]
            /\ active' = [c \in Crtcs |-> active[c] \/ (done /\ enabled[c])]
            /\ bound' = [c \in Crtcs |-> IF done /\ c \in ready THEN fb(c) ELSE bound[c]]
            /\ blame' = [c \in Crtcs |-> IF done /\ c \in ready THEN "none"
                                         ELSE IF ~done /\ enabled[c] THEN "dark"
                                         ELSE blame[c]]
            /\ xf86DPMSSet
            /\ UNCHANGED <<atomic_modeset, vtSema, enabled, rotation, rotate_fb_id, screen_bo,
                           flipVars, astray>>

\* On, without: by the properties of the connectors.
DpmsOnLegacy ==
    /\ MainLoop /\ vtSema /\ ~atomic_modeset
    /\ active' = [c \in Crtcs |-> active[c] \/ enabled[c]]
    /\ xf86DPMSSet
    /\ UNCHANGED <<atomic_modeset, vtSema, enabled, rotation, need_modeset, fbVars,
                   rotate_fb_id, screen_bo, fbs, bound, flipVars, blame, astray, faults>>

-----------------------------------------------------------------------------
(* The loops over the CRTCs *)

\* The CRTCs that the loop will not skip, from the next one on.
Due == {c \in work.crtc..NumCrtcs : CASE work.op = "enter" -> TRUE
                                      [] work.op = "dpms"  -> enabled[c] /\ need_modeset[c]
                                      [] OTHER             -> enabled[c]}

\* The loop op serves CRTC c.
Serves(op, c) ==
    /\ work.op = op
    /\ c \in Due /\ \A d \in Due : c <= d
    /\ work' = [work EXCEPT !.crtc = c + 1]
    /\ UNCHANGED <<atomic_modeset, vtSema, screen_bo, flipVars>>

SetAgain(c) ==
    \E out \in Outcomes :
        SetMode(c, rotation[c], out) /\ blame' = Blamed(c, out) /\ UNCHANGED <<enabled, astray>>

\* DPMS on of the output on the CRTC: what drmmode_set_dpms did not set is set now.
drmmode_output_dpms(c) == Serves("dpms", c) /\ SetAgain(c)

\* On return to the VT, with set_hw.  A mode that fails (with anything but its shadow)
\* is the end of the server.
drmmode_set_desired_modes(c) ==
    /\ Serves("enter", c)
    /\ \/ /\ enabled[c]
          /\ \E out \in {o \in Outcomes : Success(o)} :
                SetMode(c, rotation[c], out) /\ blame' = Blamed(c, out)
          /\ UNCHANGED <<enabled, astray>>
       \/ /\ ~enabled[c]
          /\ bound' = [bound EXCEPT ![c] = Dark]
          /\ active' = [active EXCEPT ![c] = FALSE]
          /\ UNCHANGED <<crtcVars, fbVars, fbs, blame, astray, faults>>

ResizeCrtc(c) == Serves("resize", c) /\ SetAgain(c)

\* The CRTCs that this loop has served already and that lose their framebuffer again.
Undone(c) == {d \in 1..(c - 1) : ms_crtc_on(d) /\ fb_id # 0 /\ bound[d] = fb_id}

\* The framebuffer of the last flip goes; the CRTCs served already that show it are
\* undone.
Relabelled(c) == [d \in Crtcs |-> IF d \in Undone(c) THEN "dark" ELSE blame[d]]

\* Mutant: the framebuffer is not cleared, so the mode is set with the flipped one.
MutUnflipKeepsFb(c) == SetAgain(c)

UnflipOn(c) ==
    /\ \E out \in Outcomes :
          /\ SetModeFrom(RmFB(fbs, fb_id), Without(bound, fb_id), 0, c, rotation[c], out)
          /\ blame' = [Relabelled(c) EXCEPT ![c] = IF out = "set" THEN "none" ELSE "dark"]
    /\ astray' = FALSE
    /\ UNCHANGED enabled

\* Mutant: a CRTC that is off is forgotten.
MutUnflipForgets(c) ==
    /\ fb_id' = 0 /\ fb_bo' = NoBo
    /\ fbs' = RmFB(fbs, fb_id) /\ bound' = Without(bound, fb_id)
    /\ blame' = Relabelled(c) /\ astray' = FALSE
    /\ UNCHANGED <<crtcVars, active, faults>>

UnflipOff(c) ==
    /\ fb_id' = 0 /\ fb_bo' = NoBo
    /\ fbs' = RmFB(fbs, fb_id) /\ bound' = Without(bound, fb_id)
    /\ need_modeset' = [need_modeset EXCEPT ![c] = TRUE]
    /\ blame' = Relabelled(c) /\ astray' = FALSE
    /\ UNCHANGED <<enabled, rotation, dpms_mode, rotate_fb_id, active, faults>>

\* One CRTC of the loop of ms_present_unflip: the framebuffer goes, and is made anew by
\* the set of the mode, if the CRTC is on.
UnflipCrtc(c) ==
    /\ Serves("unflip", c)
    /\ IF dpms_mode[c] THEN UnflipOn(c) ELSE UnflipOff(c)

\* The end of a loop for the extensions: an unflip tells Present.
LoopTells ==
    /\ IF work.op = "unflip"
         THEN /\ present' = "idle" /\ present_flipping' = FALSE
              /\ overlap' = (overlap /\ ~NoFlip)
         ELSE UNCHANGED <<present, present_flipping, overlap>>
    /\ astray' = \/ astray
                 \/ work.op = "unflip" /\ fb_id # 0 /\ \A c \in Crtcs : ~enabled[c]
    /\ work' = NoWork
    /\ UNCHANGED <<atomic_modeset, vtSema, crtcVars, fbVars, screen_bo, active, dri2_flipping,
                   callVars, nested, blame, faults>>

\* Mutant: the old framebuffer of a resize stays.
MutLoopLeaks ==
    /\ ~Idle /\ Due = {}
    /\ LoopTells
    /\ UNCHANGED <<fbs, bound>>

\* The end of a loop: a resize removes the old framebuffer.
LoopEnds ==
    /\ ~Idle /\ Due = {}
    /\ fbs' = RmFB(fbs, work.old_fb)
    /\ bound' = Without(bound, work.old_fb)
    /\ LoopTells

\* drmmode_xf86crtc_resize: a new front buffer, and the screen pixmap has it.  A resize
\* that fails puts everything back.  The clients' windows get new buffers.
drmmode_xf86crtc_resize ==
    /\ MainLoop
    /\ screen_bo' = Front
    /\ fb_id' = 0 /\ fb_bo' = NoBo
    /\ work' = [op |-> "resize", crtc |-> 1, old_fb |-> fb_id]
    /\ astray' = FALSE
    /\ UNCHANGED <<atomic_modeset, vtSema, crtcVars, kernelVars, flipVars, blame, faults>>

-----------------------------------------------------------------------------
(* VT switches *)

\* The next owner of the VT uses the CRTCs.
LeaveVT ==
    /\ MainLoop /\ vtSema
    /\ vtSema' = FALSE
    /\ bound' = [c \in Crtcs |-> Foreign]
    /\ active' = [c \in Crtcs |-> TRUE]
    /\ UNCHANGED <<atomic_modeset, crtcVars, fbVars, screen_bo, fbs, flipVars, work, blame, astray,
                   faults>>

EnterVT ==
    /\ MainLoop /\ ~vtSema
    /\ vtSema' = TRUE
    /\ work' = [NoWork EXCEPT !.op = "enter", !.crtc = 1]
    /\ UNCHANGED <<atomic_modeset, crtcVars, fbVars, screen_bo, kernelVars, flipVars, blame, astray,
                   faults>>

-----------------------------------------------------------------------------
(* Flips *)

CanScanOut ==
    /\ vtSema
    /\ \A c \in Crtcs : rotate_fb_id[c] = 0
    /\ \E c \in Crtcs : ms_crtc_on(c)

ms_present_check_unflip == ~dri2_flipping /\ CanScanOut

submitting == stack[Len(stack)]
Pop        == SubSeq(stack, 1, Len(stack) - 1)

\* ms_do_pageflip of buffer b up to the first CRTC: a framebuffer for it, which is what the
\* driver goes by at once.  It begins in the main loop, or among the events that another one
\* flushes.
ms_do_pageflip(b, k) ==
    LET new == NewFb(fbs)
    IN  \E s \in Slots :
        /\ Idle
        /\ kind[s] = "none" /\ \A t \in 1..(s - 1) : kind[t] # "none"
        /\ stack' = Append(stack, s)
        /\ kind' = [kind EXCEPT ![s] = k]
        /\ buf' = [buf EXCEPT ![s] = b]
        /\ next' = [next EXCEPT ![s] = 1]
        /\ old' = [old EXCEPT ![s] = fb_id]
        /\ old_bo' = [old_bo EXCEPT ![s] = fb_bo]
        /\ fbs' = fbs \cup {new}
        /\ fb_id' = new /\ fb_bo' = b
        /\ nested' = (stack # <<>>)
        /\ overlap' = (overlap \/ ~NoFlip)

\* The CRTCs that are still to be flipped, those that are off being left out; the one whose
\* turn it is; and whether the kernel can flip it.
Awaiting   == {c \in next[submitting]..NumCrtcs : ms_crtc_on(c)}
Turn(c)    == Idle /\ stack # <<>> /\ c \in Awaiting /\ \A d \in Awaiting : c <= d
Accepts(c) == active[c] /\ bound[c] \notin {Dark, Foreign} /\ fb_id # 0

\* One CRTC is sent the framebuffer the driver goes by, which a flip or unflip among the flushed
\* events has changed.
queue_flip_on_crtc(c) ==
    /\ Turn(c)
    /\ Accepts(c)
    /\ next' = [next EXCEPT ![submitting] = c + 1]
    /\ bound' = [bound EXCEPT ![c] = fb_id]
    /\ blame' = [blame EXCEPT ![c] = IF rotate_fb_id[c] = 0 THEN "none" ELSE "dark"]
    /\ UNCHANGED <<atomic_modeset, vtSema, crtcVars, fbVars, screen_bo, fbs, active, flagVars,
                   stack, kind, buf, old, old_bo, nested, work, astray, faults>>

\* ms_do_pageflip returns, with k left of the flip and old_fb_id o.
Returns(k, o) ==
    /\ Idle /\ stack # <<>>
    /\ stack' = Pop
    /\ kind' = [kind EXCEPT ![submitting] = k]
    /\ buf' = [buf EXCEPT ![submitting] = NoBo]
    /\ old_bo' = [old_bo EXCEPT ![submitting] = NoBo]
    /\ next' = [next EXCEPT ![submitting] = 0]
    /\ old' = [old EXCEPT ![submitting] = o]
    /\ nested' = (nested /\ Pop # <<>>)
    /\ UNCHANGED <<atomic_modeset, vtSema, crtcVars, active>>

\* It returns TRUE.  The CRTCs that are off still have the old framebuffer.  DRI2 exchanges the
\* buffers of the window and of the screen pixmap; drmmode->front_bo keeps its own.
FlipAccepted ==
    LET k == kind[submitting]
        b == buf[submitting]
    IN  /\ Returns(k, old[submitting])
        /\ Awaiting = {}
        /\ present' = IF k = "flip" THEN "flip" ELSE present
        /\ present_flipping' = (present_flipping \/ k = "flip")
        /\ dri2_flipping' = (dri2_flipping \/ k = "dri2")
        /\ screen_bo' = IF k = "dri2" THEN b ELSE screen_bo
        /\ blame' = [c \in Crtcs |-> IF enabled[c] /\ ~dpms_mode[c] THEN "dark" ELSE blame[c]]
        /\ astray' = nested
        /\ UNCHANGED <<fbVars, fbs, bound, overlap, work, faults>>

\* What the caller does when it returns FALSE: an unflip sets every mode anew, the others copy.
FallBack(k) == work' = IF k = "unflip" THEN [NoWork EXCEPT !.op = "unflip", !.crtc = 1] ELSE work

\* A refusal counts against the bound, unless the kernel cannot but refuse.
Refusal(forced) ==
    /\ faults' = faults + (IF forced THEN 0 ELSE 1)
    /\ faults' <= MaxFaults

\* It returns FALSE, and no carrier is left: a CRTC refused, and the events of those before were
\* handled among the flushed ones, or those of all CRTCs were.  The framebuffer goes, also from
\* the CRTCs that have it by then.
FlipRefused ==
    /\ Returns("none", 0)
    /\ Refusal(\E c \in Crtcs : Turn(c) /\ ~Accepts(c))
    /\ fbs' = RmFB(fbs, fb_id)
    /\ bound' = Without(bound, fb_id)
    /\ blame' = [c \in Crtcs |-> IF fb_id # 0 /\ bound[c] = fb_id THEN "dark" ELSE blame[c]]
    /\ fb_id' = old[submitting] /\ fb_bo' = old_bo[submitting]
    /\ FallBack(kind[submitting])
    /\ astray' = (astray \/ nested)
    /\ UNCHANGED <<screen_bo, flagVars>>

\* What the event of a flip that was left half done means to its extension: Present knows
\* nothing of it any more, but the flag of an unflip is cleared.
Late(k) == CASE k = "flip" -> "late flip" [] k = "unflip" -> "late unflip" [] OTHER -> k

\* It returns FALSE, but a CRTC has taken the flip, and its event will remove the old
\* framebuffer.  The new one stays; the CRTCs from the one that refused on do not show it.
FlipHalfDone(c) ==
    /\ Turn(c) /\ \E d \in 1..(c - 1) : ms_crtc_on(d)
    /\ Returns(Late(kind[submitting]), old[submitting])
    /\ Refusal(~Accepts(c))
    /\ blame' = [d \in Crtcs |-> IF enabled[d] /\ (d >= c \/ ~dpms_mode[d]) THEN "dark"
                                 ELSE blame[d]]
    /\ FallBack(kind[submitting])
    /\ astray' = TRUE /\ overlap' = TRUE
    /\ UNCHANGED <<fbVars, fbs, bound, screen_bo, present, present_flipping, dri2_flipping>>

\* Present has one flip or unflip under way at a time: it notes it before it calls the driver.
PresentFree == \A s \in Submitted : kind[s] = "dri2"

\* Present flips a pixmap, and may flip the next one without an unflip in between.
ms_present_flip ==
    /\ present \in {"idle", "flipping"} /\ PresentFree
    /\ ms_present_check_unflip
    /\ ms_do_pageflip(Pixmap, "flip")
    /\ UNCHANGED <<atomic_modeset, vtSema, crtcVars, screen_bo, bound, active, present,
                   present_flipping, dri2_flipping, work, blame, astray, faults>>

\* Back to the screen pixmap, by a flip, or by setting every mode anew.
ms_present_unflip ==
    /\ Idle /\ present = "flipping" /\ PresentFree
    /\ present' = "unflip"
    /\ \/ /\ ms_present_check_unflip
          /\ ms_do_pageflip(screen_bo, "unflip")
          /\ UNCHANGED work
       \/ /\ FallBack("unflip")
          /\ nested' = (stack # <<>>)
          /\ UNCHANGED <<fbs, fbVars, callVars, overlap>>
    /\ UNCHANGED <<atomic_modeset, vtSema, crtcVars, screen_bo, bound, active, present_flipping,
                   dri2_flipping, blame, astray, faults>>

\* can_flip and can_exchange; the flips of DRI2 that are under way do not count.
can_flip == ~present_flipping /\ CanScanOut

\* ms_dri2_schedule_flip of a window that is not being flipped.
ms_dri2_schedule_flip ==
    /\ can_flip
    /\ \E b \in BackBos : /\ \A s \in Submitted : buf[s] # b
                          /\ ms_do_pageflip(b, "dri2")
    /\ UNCHANGED <<atomic_modeset, vtSema, crtcVars, screen_bo, bound, active, present,
                   present_flipping, dri2_flipping, work, blame, astray, faults>>

\* What the handler of flip s makes of the flags.
Handled(s) ==
    /\ present' = CASE kind[s] = "flip"   -> "flipping"
                    [] kind[s] = "unflip" -> "idle"
                    [] OTHER              -> present
    /\ present_flipping' = (present_flipping /\ kind[s] \notin {"unflip", "late unflip"})
    /\ overlap' = (overlap /\ ~(present' = "idle" /\ \A t \in Slots \ {s} : kind[t] = "none"))

\* The event of flip s: the old framebuffer goes.
OldGoes(s) ==
    /\ Idle /\ Pending(s)
    /\ fbs' = RmFB(fbs, old[s])
    /\ bound' = Without(bound, old[s])
    /\ kind' = [kind EXCEPT ![s] = "none"]
    /\ old' = [old EXCEPT ![s] = 0]
    /\ UNCHANGED <<atomic_modeset, vtSema, crtcVars, fbVars, screen_bo, active, stack, buf, next,
                   old_bo, nested, work, blame, astray, faults>>

\* Mutant: the handler of DRI2 does not say that its flip is over.
MutDri2FlagStays(s) ==
    /\ Handled(s) /\ UNCHANGED dri2_flipping
    /\ OldGoes(s)

\* The last event of flip s: the handler of its kind runs, then the old framebuffer goes.
FlipDone(s) ==
    /\ Handled(s) /\ dri2_flipping' = (dri2_flipping /\ kind[s] # "dri2")
    /\ OldGoes(s)

-----------------------------------------------------------------------------

Next ==
    \/ \E c \in Crtcs, r \in BOOLEAN, out \in Outcomes : RandRSet(c, r, out)
    \/ \E c \in Crtcs : RandRDisable(c)
    \/ DpmsOff \/ drmmode_set_dpms \/ DpmsOnLegacy
    \/ \E c \in Crtcs : \/ drmmode_output_dpms(c) \/ drmmode_set_desired_modes(c)
                        \/ ResizeCrtc(c) \/ UnflipCrtc(c)
    \/ LoopEnds
    \/ drmmode_xf86crtc_resize
    \/ LeaveVT \/ EnterVT
    \/ ms_present_flip \/ ms_present_unflip \/ ms_dri2_schedule_flip
    \/ \E c \in Crtcs : queue_flip_on_crtc(c) \/ FlipHalfDone(c)
    \/ FlipAccepted \/ FlipRefused
    \/ \E s \in Slots : FlipDone(s)

Spec == Init /\ [][Next]_vars

-----------------------------------------------------------------------------
(* Properties *)

Wanted(c) == IF rotate_fb_id[c] # 0 THEN rotate_fb_id[c] ELSE fb_id
Lit(c)    == active[c] /\ bound[c] = Wanted(c) /\ bound[c] # Dark

\* Every framebuffer has exactly one owner that will remove it: drmmode->fb_id, a
\* CRTC's rotate_fb_id, a flip under way or the resize under way; and no owner holds
\* an id that is gone, which the kernel may have given to another framebuffer.
Owners(f) == (IF fb_id = f THEN 1 ELSE 0) + Cardinality({c \in Crtcs : rotate_fb_id[c] = f})
               + Cardinality({s \in Slots : old[s] = f}) + (IF work.old_fb = f THEN 1 ELSE 0)
OneOwner == \A f \in FbIds : Owners(f) = IF f \in fbs THEN 1 ELSE 0

\* A CRTC that is enabled and on is active and shows the framebuffer it should, unless its mode
\* waits to be set, the last attempt to set it or the last commit of DPMS failed, a flip left it
\* out (while it was off, or because an earlier CRTC or itself refused), a flip was refused
\* that it had already, or the loop of ms_present_unflip undid its own work.
LitUnlessBlamed ==
    MainLoop /\ vtSema =>
        \A c \in Crtcs : ms_crtc_on(c) /\ ~need_modeset[c] /\ blame[c] = "none" => Lit(c)

\* When Present is idle and no flip is being submitted, drmmode->fb_id is a framebuffer of the
\* screen pixmap's buffer, so that what is drawn is seen, also while the events of flips of
\* DRI2 are on the way: unless DRI2 has exchanged that buffer, or fb_id went astray, by an unflip
\* that found no CRTC enabled, a flip left half done (pageflip.c:349) or one begun within another,
\* and no flip, unflip or resize has put it right since.
UnflipShowsScreen ==
    MainLoop /\ present = "idle" /\ fb_id # 0 /\ ~astray =>
        fb_bo = screen_bo \/ screen_bo # Front

\* No flag outlives the flips it stands for, or the other extension would not flip any more.
\* And from a quiet moment until two flips are under way at once or one is left half done,
\* Present and DRI2 never flip at once, and each flag says that its own flips are on display
\* or under way; afterwards a flag may be cleared under another flip (dri2.c:474).
FlippingFlags ==
    /\ present_flipping => present # "idle"
    /\ dri2_flipping => \E s \in Slots : Pending(s) /\ kind[s] = "dri2"
    /\ ~overlap =>
         /\ ~(present_flipping /\ dri2_flipping)
         /\ present_flipping <=> present # "idle"
         /\ dri2_flipping <=> \E s \in Slots : Pending(s) /\ kind[s] = "dri2"

=============================================================================
