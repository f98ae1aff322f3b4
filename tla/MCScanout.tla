----------------------------- MODULE MCScanout -----------------------------
(***************************************************************************)
(* TLC instance of Scanout.  The numbers that framebuffers and slots have  *)
(* do not matter, only whose framebuffer it is that a CRTC displays: two   *)
(* states that differ in those numbers alone, or in the rotation of a CRTC *)
(* that is disabled, or in the blame of one whose mode is to be set (which *)
(* will be said anew), are one state for TLC.                              *)
(***************************************************************************)
EXTENDS Scanout

Role(f) == IF f \in {Dark, Foreign} THEN f
           ELSE <<f = fb_id, f = work.old_fb, {c \in Crtcs : rotate_fb_id[c] = f}>>

Flip(s) ==
    IF kind[s] = "none" THEN <<>>
    ELSE <<kind[s], buf[s], old_bo[s], old[s] = 0,
           {i \in 1..Len(stack) : stack[i] = s},
           IF s \in Submitted THEN {c \in next[s]..NumCrtcs : ms_crtc_on(c)} ELSE {},
           {c \in Crtcs : old[s] # 0 /\ bound[c] = old[s]}>>

View ==
    <<atomic_modeset, vtSema, enabled, {c \in Crtcs : enabled[c] /\ rotation[c]}, dpms_mode,
      need_modeset, fb_id = 0, fb_bo, {c \in Crtcs : rotate_fb_id[c] # 0}, screen_bo,
      [c \in Crtcs |-> Role(bound[c])], active, flagVars, nested, work.op, work.old_fb = 0,
      IF Idle THEN {} ELSE Due, {c \in Crtcs : blame[c] = "dark" /\ ~need_modeset[c]}, astray,
      faults, {<<Flip(s), \A t \in Slots : Flip(t) = Flip(s)>> : s \in Slots}>>
=============================================================================
