------------------------------ MODULE ModeSet ------------------------------
(***************************************************************************)
(* Atomic mode setting: how drmmode_display.c routes outputs to CRTCs, the *)
(* requests it sends, and what it believes of the kernel's routing         *)
(* (current_crtc), through RandR, DPMS, VT switches and connectors that    *)
(* come and go.                                                            *)
(*                                                                         *)
(* A request is a pair of functions on some of the connectors (the CRTC    *)
(* of each, or None) and some of the CRTCs (the mode of each, or Off; a    *)
(* CRTC is active if and only if it has a mode, in every request).  The    *)
(* kernel's check of a request is external: every object exists, and a     *)
(* CRTC has a mode if and only if it has a connector.                      *)
(***************************************************************************)
EXTENDS Integers

CONSTANTS
    NumCrtcs,       \* CRTCs, in the order of config->crtc
    NumOutputs,     \* outputs
    NumModes,       \* modes
    Modes,          \* the modes of each CRTC, positive numbers
    MaxFaults       \* bound: refusals for the hardware's reasons, and failed blobs

ASSUME ModeSetAssumption ==
    /\ NumCrtcs \in Nat \ {0}
    /\ NumOutputs \in Nat \ {0}
    /\ NumModes \in Nat \ {0}
    /\ Modes \in [1..NumCrtcs -> (SUBSET (1..NumModes)) \ {{}}]
    /\ MaxFaults \in Nat

Crtcs   == 1..NumCrtcs
Outputs == 1..NumOutputs
None    == 0        \* no CRTC
Off     == 0        \* no mode

VARIABLES
    vtSema,         \* whether the server owns the VT
    crtc,           \* output->crtc
    enabled,        \* crtc->enabled
    mode,           \* crtc->mode
    dpms_mode,      \* whether drmmode_crtc->dpms_mode is DPMSModeOn
    current_crtc,   \* drmmode_output->current_crtc
    output_id,      \* whether drmmode_output->output_id is a connector (not -1)
    current_mode,   \* drmmode_crtc->current_mode: its mode, and whether it has a blob
    kernel,         \* the kernel's routing: the CRTC of each connector, the mode of each CRTC
    replugged,      \* outputs whose connector came or went since their CRTC was set (history)
    foreign,        \* whether another owner of the VT has left its routing (history)
    refused,        \* why a request was first refused, or "none" (history)
    faults          \* counter of the bound

serverVars == <<crtc, enabled, mode, dpms_mode>>
vars == <<vtSema, serverVars, current_crtc, output_id, current_mode, kernel, replugged,
          foreign, refused, faults>>

Init ==
    /\ vtSema = TRUE
    /\ crtc = [o \in Outputs |-> None]
    /\ enabled = [c \in Crtcs |-> FALSE]
    /\ mode = [c \in Crtcs |-> CHOOSE m \in Modes[c] : TRUE]
    /\ dpms_mode = [c \in Crtcs |-> FALSE]
    /\ current_crtc = [o \in Outputs |-> None]
    /\ output_id = [o \in Outputs |-> TRUE]
    /\ current_mode = [c \in Crtcs |-> [mode |-> Off, blob |-> FALSE]]
    /\ kernel = [conn |-> [o \in Outputs |-> None], crtc |-> [c \in Crtcs |-> Off]]
    /\ replugged = {} /\ foreign = FALSE /\ refused = "none" /\ faults = 0

\* Bound: the first refused request ends the behaviour (in EnterVT it ends the server).
Going == refused = "none"

-----------------------------------------------------------------------------
(* External: the kernel *)

Consistent(K) == \A c \in Crtcs : K.crtc[c] # Off <=> \E o \in Outputs : K.conn[o] = c

\* What f says, and g where f says nothing.
Over(f, g) == [x \in DOMAIN f \cup DOMAIN g |-> IF x \in DOMAIN f THEN f[x] ELSE g[x]]

Nothing == [x \in {} |-> None]

Applied(K, req) == [conn |-> Over(req.conn, K.conn), crtc |-> Over(req.crtc, K.crtc)]

\* drmModeAtomicCommit
Accepts(K, req) == (\A o \in DOMAIN req.conn : output_id[o]) /\ Consistent(Applied(K, req))

\* Why a request is not accepted: it names a connector that is gone, or the rule for
\* orphaned CRTCs counts one that went; another owner of the VT left its routing; or else.
Reason(req) ==
    IF \/ \E o \in DOMAIN req.conn : ~output_id[o]
       \/ \E o \in Outputs : current_crtc[o] # None /\ (~output_id[o] \/ o \in replugged)
    THEN "gone connector"
    ELSE IF foreign THEN "foreign routing" ELSE "inconsistent"

First(old, new) == IF old = "none" THEN new ELSE old

-----------------------------------------------------------------------------
(* Requests.  D holds what they are built from: output->crtc, current_crtc. *)

Outs(D, c) == {o \in Outputs : D.crtc[o] = c /\ output_id[o]}

\* crtc_add_dpms_props: the connectors that leave the CRTC, those it has, and its mode.
crtc_add_dpms_props(D, c, on, m) ==
    LET leaving == {o \in Outputs : D.crtc[o] # c /\ D.current[o] = c}
    IN  [conn |-> [o \in leaving \cup Outs(D, c) |-> IF on /\ o \in Outs(D, c) THEN c ELSE None],
         crtc |-> [d \in {c} |-> IF on /\ Outs(D, c) # {} THEN m ELSE Off]]

\* Properties added later win (libdrm).
Plus(r, s) == [conn |-> Over(s.conn, r.conn), crtc |-> Over(s.crtc, r.crtc)]

\* Mutant: a CRTC that loses an output is an orphan.
MutOrphans(D, c) ==
    LET on(d) == {o \in Outputs : D.current[o] = d}
    IN  {d \in Crtcs \ {c} : \E o \in on(d) : D.crtc[o] = c}

\* "Orphaned CRTCs need to be disabled right now in atomic mode": those that lose
\* outputs to c and keep none.
Orphans(D, c) ==
    LET on(d) == {o \in Outputs : D.current[o] = d}
    IN  {d \in Crtcs \ {c} : on(d) # {} /\ \A o \in on(d) : D.crtc[o] = c}

\* The request of drmmode_crtc_set_mode.
drmmode_crtc_set_mode(D, c, m) ==
    Plus(crtc_add_dpms_props(D, c, TRUE, m),
         [conn |-> Nothing, crtc |-> [d \in Orphans(D, c) |-> Off]])

\* Mutant: an output that had a CRTC keeps it.
MutAdopt(D, c) ==
    [o \in Outputs |-> IF D.crtc[o] = c /\ D.current[o] = None THEN c ELSE D.current[o]]

\* What a set of the mode of c that is accepted makes of current_crtc.
Adopt(D, c) ==
    [o \in Outputs |-> IF D.crtc[o] = c THEN c
                       ELSE IF D.current[o] = c THEN None ELSE D.current[o]]

\* The request of drmmode_output_disable: the connector, and its whole CRTC.
drmmode_output_disable(D, o) ==
    LET c == D.current[o]
        r == [conn |-> [p \in {o} |-> None], crtc |-> Nothing]
    IN  IF c = None THEN r ELSE Plus(r, crtc_add_dpms_props(D, c, FALSE, Off))

\* The request of drmmode_crtc_disable.
drmmode_crtc_disable(c) == [conn |-> Nothing, crtc |-> [d \in {c} |-> Off]]

-----------------------------------------------------------------------------
(* External: xf86DisableUnusedFunctions turns off the outputs without a CRTC and then
   the CRTCs that are not enabled.  S holds the kernel's routing, current_crtc, and
   why requests were refused. *)

OutputOff(D, S, o) ==
    LET req == drmmode_output_disable([D EXCEPT !.current = S.current], o)
    IN  IF D.crtc[o] # None \/ ~output_id[o] THEN S
        ELSE IF vtSema /\ Accepts(S.kernel, req)
        THEN [kernel |-> Applied(S.kernel, req), current |-> [S.current EXCEPT ![o] = None],
              refused |-> S.refused]
        ELSE IF vtSema THEN [S EXCEPT !.refused = First(@, Reason(req))] ELSE S

CrtcOff(S, c) ==
    LET req == drmmode_crtc_disable(c)
    IN  IF vtSema /\ Accepts(S.kernel, req)
        THEN [S EXCEPT !.kernel = Applied(@, req)]
        ELSE IF vtSema THEN [S EXCEPT !.refused = First(@, Reason(req))] ELSE S

OutputsOff(D, S) ==
    LET off[o \in 0..NumOutputs] == IF o = 0 THEN S ELSE OutputOff(D, off[o - 1], o)
    IN  off[NumOutputs]

CrtcsOff(S, on) ==
    LET off[c \in 0..NumCrtcs] ==
          IF c = 0 THEN S ELSE IF on[c] THEN off[c - 1] ELSE CrtcOff(off[c - 1], c)
    IN  off[NumCrtcs]

DisableUnused(D, S, on) == CrtcsOff(OutputsOff(D, S), on)

AfterDisable(D, S, on) ==
    LET T == DisableUnused(D, S, on)
    IN  /\ kernel' = T.kernel /\ current_crtc' = T.current /\ refused' = T.refused
        /\ dpms_mode' = [c \in Crtcs |-> dpms_mode[c] /\ on[c]]

\* The connectors that went and that the kernel drives as the driver wants again.
Settle == replugged' = {o \in replugged : kernel'.conn[o] # crtc'[o]}

-----------------------------------------------------------------------------
(* Modes *)

\* drm_mode_ensure_blob: a new blob, unless current_mode is this mode already.  When the
\* blob cannot be made, current_mode is the mode all the same.
EnsureBlob(c, m, made) ==
    IF current_mode[c].mode = m THEN current_mode[c] ELSE [mode |-> m, blob |-> made]
Failed(c, m, made) == current_mode[c].mode # m /\ ~made

\* What becomes of a set of the mode m on CRTC c whose outputs D says: the blob fails,
\* or the one there is is none; the kernel refuses; the kernel accepts, and then may
\* refuse the commit that follows the test.
Outcomes == {"blob", "refused", "lost", "set"}

SetModeOutcome(D, c, m, out) ==
    LET req  == drmmode_crtc_set_mode(D, c, m)
        use  == Outs(D, c) # {}
        blob == EnsureBlob(c, m, out # "blob")
        good == vtSema /\ Accepts(kernel, req)
    IN  /\ current_mode' = IF use THEN [current_mode EXCEPT ![c] = blob] ELSE current_mode
        /\ out = "blob" => use /\ (Failed(c, m, FALSE) \/ ~blob.blob)
        /\ out # "blob" => ~use \/ blob.blob
        /\ out \in {"lost", "set"} => good
        /\ faults' = faults + (IF out = "lost" \/ (out = "refused" /\ good)
                                  \/ (out = "blob" /\ Failed(c, m, FALSE)) THEN 1 ELSE 0)
        /\ faults' <= MaxFaults

\* Why a set of the mode was not done, for the history.
Why(D, c, m, out) ==
    CASE out = "set"  -> "none"
      [] out = "blob" -> "no blob"
      [] out = "lost" -> "lost"
      [] OTHER -> IF ~vtSema \/ Accepts(kernel, drmmode_crtc_set_mode(D, c, m)) THEN "none"
                  ELSE Reason(drmmode_crtc_set_mode(D, c, m))

State(D, c, m, out) ==
    [kernel  |-> IF out = "set" THEN Applied(kernel, drmmode_crtc_set_mode(D, c, m)) ELSE kernel,
     current |-> IF out = "set" THEN Adopt(D, c) ELSE D.current,
     refused |-> First(refused, Why(D, c, m, out))]

\* RandR gives CRTC c the outputs O and a mode (xf86RandR12CrtcSet, external); all is
\* put back when drmmode_set_mode_major fails.
RandRSet(c, O, m, out) ==
    LET to == [o \in Outputs |-> IF o \in O THEN c ELSE IF crtc[o] = c THEN None ELSE crtc[o]]
        D  == [crtc |-> to, current |-> current_crtc]
        on == [enabled EXCEPT ![c] = TRUE]
    IN  /\ Going
        /\ SetModeOutcome(D, c, m, out)
        /\ IF out \in {"set", "lost"}
             THEN LET T == DisableUnused(D, State(D, c, m, out), on)
                  IN  /\ crtc' = to /\ enabled' = on /\ mode' = [mode EXCEPT ![c] = m]
                      /\ dpms_mode' = [d \in Crtcs |-> (d = c \/ dpms_mode[d]) /\ on[d]]
                      /\ kernel' = T.kernel /\ current_crtc' = T.current
                      /\ refused' = T.refused
             ELSE /\ refused' = First(refused, Why(D, c, m, out))
                  /\ UNCHANGED <<serverVars, current_crtc, kernel>>
        /\ UNCHANGED <<vtSema, output_id, foreign>>
        /\ Settle

\* RandR takes the mode of CRTC c away.
RandRDisable(c) ==
    LET to == [o \in Outputs |-> IF crtc[o] = c THEN None ELSE crtc[o]]
        on == [enabled EXCEPT ![c] = FALSE]
        S  == [kernel |-> kernel, current |-> current_crtc, refused |-> refused]
    IN  /\ Going /\ enabled[c]
        /\ crtc' = to /\ enabled' = on
        /\ AfterDisable([crtc |-> to, current |-> current_crtc], S, on)
        /\ UNCHANGED <<vtSema, mode, output_id, current_mode, foreign, faults>>
        /\ Settle

-----------------------------------------------------------------------------
(* DPMS *)

\* What drmmode_set_dpms asks for: the outputs without a CRTC first, then each CRTC.
\* Of two that name a connector the later wins.
DpmsRequest(D, on) ==
    LET props(c) == crtc_add_dpms_props(D, c, on, mode[c])
        names(o) == {c \in Crtcs : o \in DOMAIN props(c).conn}
        last(o)  == CHOOSE c \in names(o) : \A d \in names(o) : d <= c
    IN  [conn |-> [o \in {p \in Outputs : D.crtc[p] = None \/ names(p) # {}} |->
                     IF names(o) = {} THEN None ELSE props(last(o)).conn[o]],
         crtc |-> [c \in Crtcs |-> props(c).crtc[c]]]

\* drmmode_set_dpms: one request for all.  Its result is dropped.
drmmode_set_dpms(on) ==
    LET D    == [crtc |-> crtc, current |-> current_crtc]
        req  == DpmsRequest(D, on)
        bad  == on /\ \E c \in Crtcs : Outs(D, c) # {} /\ ~EnsureBlob(c, mode[c], TRUE).blob
    IN  /\ Going /\ vtSema
        /\ current_mode' = [c \in Crtcs |-> IF on /\ Outs(D, c) # {}
                                            THEN EnsureBlob(c, mode[c], TRUE) ELSE current_mode[c]]
        /\ dpms_mode' = [c \in Crtcs |-> IF enabled[c] THEN on ELSE dpms_mode[c]]
        /\ IF ~bad /\ Accepts(kernel, req)
             THEN kernel' = Applied(kernel, req) /\ UNCHANGED refused
             ELSE /\ refused' = First(refused, IF bad THEN "no blob" ELSE Reason(req))
                  /\ UNCHANGED kernel
        /\ UNCHANGED <<vtSema, crtc, enabled, mode, current_crtc, output_id, foreign, faults>>
        /\ Settle

-----------------------------------------------------------------------------
(* VT switches *)

\* The next owner of the VT routes as it likes.
LeaveVT ==
    /\ Going /\ vtSema
    /\ vtSema' = FALSE
    /\ \E conn \in [Outputs -> Crtcs \cup {None}] :
          /\ \A o \in Outputs : conn[o] # None => output_id[o]
          /\ kernel' = [conn |-> conn,
                        crtc |-> [c \in Crtcs |-> IF \E o \in Outputs : conn[o] = c
                                                  THEN CHOOSE m \in Modes[c] : TRUE ELSE Off]]
          /\ foreign' = (foreign \/ conn # kernel.conn)
    /\ UNCHANGED <<serverVars, current_crtc, output_id, current_mode, replugged, refused,
                   faults>>

\* drmModeSetCrtc without a mode.
Detached(K, c) ==
    [conn |-> [o \in Outputs |-> IF K.conn[o] = c THEN None ELSE K.conn[o]],
     crtc |-> [K.crtc EXCEPT ![c] = Off]]

\* Mutant: CRTCs that are not enabled keep what the other owner set.
MutDesiredMode(E, c) ==
    LET D   == [crtc |-> crtc, current |-> E.current]
        req == drmmode_crtc_set_mode(D, c, mode[c])
    IN  IF E.failed # "none" \/ ~enabled[c] THEN E
        ELSE IF Accepts(E.kernel, req)
        THEN [kernel |-> Applied(E.kernel, req), current |-> Adopt(D, c), failed |-> "none"]
        ELSE [E EXCEPT !.failed = Reason(req)]

\* drmmode_set_desired_modes with set_hw: CRTC by CRTC; a mode that cannot be set ends
\* the server.  E holds the kernel's routing, current_crtc, and why it failed.
DesiredMode(E, c) ==
    LET D   == [crtc |-> crtc, current |-> E.current]
        req == drmmode_crtc_set_mode(D, c, mode[c])
        bad == Outs(D, c) # {} /\ ~EnsureBlob(c, mode[c], TRUE).blob
    IN  IF E.failed # "none" THEN E
        ELSE IF ~enabled[c] THEN [E EXCEPT !.kernel = Detached(@, c)]
        ELSE IF bad THEN [E EXCEPT !.failed = "no blob"]
        ELSE IF Accepts(E.kernel, req)
        THEN [kernel |-> Applied(E.kernel, req), current |-> Adopt(D, c), failed |-> "none"]
        ELSE [E EXCEPT !.failed = Reason(req)]

DesiredModes(E) ==
    LET set[c \in 0..NumCrtcs] == IF c = 0 THEN E ELSE DesiredMode(set[c - 1], c)
    IN  set[NumCrtcs]

EnterVT ==
    LET E == DesiredModes([kernel |-> kernel, current |-> current_crtc, failed |-> "none"])
    IN  /\ Going /\ ~vtSema
        /\ vtSema' = TRUE
        /\ kernel' = E.kernel /\ current_crtc' = E.current
        /\ refused' = First(refused, E.failed)
        /\ foreign' = \E o \in Outputs : E.kernel.conn[o] \notin {None, E.current[o]}
        /\ dpms_mode' = [c \in Crtcs |-> dpms_mode[c] \/ enabled[c]]
        /\ current_mode' = [c \in Crtcs |->
                              IF enabled[c] /\ Outs([crtc |-> crtc], c) # {}
                              THEN EnsureBlob(c, mode[c], TRUE) ELSE current_mode[c]]
        /\ UNCHANGED <<crtc, enabled, mode, output_id, faults>>
        /\ Settle

-----------------------------------------------------------------------------
(* Connectors that go and come back; drmmode_handle_uevents sees it at once *)

Unplug(o) ==
    /\ Going /\ output_id[o]
    /\ output_id' = [output_id EXCEPT ![o] = FALSE]
    /\ LET K == [kernel EXCEPT !.conn[o] = None]
       IN  kernel' = [K EXCEPT !.crtc = [c \in Crtcs |-> IF \E p \in Outputs : K.conn[p] = c
                                                         THEN @[c] ELSE Off]]
    /\ replugged' = replugged \cup {o}
    /\ UNCHANGED <<vtSema, serverVars, current_crtc, current_mode, foreign, refused, faults>>

Replug(o) ==
    /\ Going /\ ~output_id[o]
    /\ output_id' = [output_id EXCEPT ![o] = TRUE]
    /\ replugged' = replugged \cup {o}
    /\ UNCHANGED <<vtSema, serverVars, current_crtc, current_mode, kernel, foreign,
                   refused, faults>>

-----------------------------------------------------------------------------

Next ==
    \/ \E c \in Crtcs, O \in SUBSET Outputs \ {{}}, out \in Outcomes :
          \E m \in Modes[c] : RandRSet(c, O, m, out)
    \/ \E c \in Crtcs : RandRDisable(c)
    \/ \E on \in BOOLEAN : drmmode_set_dpms(on)
    \/ LeaveVT \/ EnterVT
    \/ \E o \in Outputs : Unplug(o) \/ Replug(o)

Spec == Init /\ [][Next]_vars

-----------------------------------------------------------------------------
(* Properties *)

\* A request is refused only for a reason that is not the driver's arithmetic of
\* connectors and CRTCs: a connector that is gone, a blob that could not be made, the
\* routing of another owner of the VT, or a commit lost before.
RequestsConsistent == refused # "inconsistent"

\* Unless requests have been refused, the kernel drives every enabled CRTC that is on,
\* and whose connectors have not come back meanwhile, with its mode and its outputs, and
\* no other CRTC.
Clean     == vtSema /\ refused = "none" /\ ~foreign
Wanted(c) == {o \in Outputs : crtc[o] = c}
KernelFollows ==
    Clean => /\ \A c \in Crtcs : kernel.crtc[c] # Off => enabled[c] /\ kernel.crtc[c] = mode[c]
             /\ \A c \in Crtcs :
                    /\ enabled[c] /\ dpms_mode[c]
                    /\ \A o \in Wanted(c) : output_id[o] /\ o \notin replugged
                    => {o \in Outputs : kernel.conn[o] = c} = Wanted(c)

\* Unless requests have been refused, the driver knows the CRTC of every connector in
\* use: the rule for orphaned CRTCs sees it.
CurrentCrtcKnown ==
    Clean => \A o \in Outputs : kernel.conn[o] # None => current_crtc[o] = kernel.conn[o]

=============================================================================
