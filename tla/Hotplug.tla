------------------------------ MODULE Hotplug ------------------------------
(***************************************************************************)
(* Hotplug events and RandR leases: how the driver follows the connectors  *)
(* that come and go (DisplayPort MST), the links that degrade, and the     *)
(* lessees that disappear.                                                 *)
(*                                                                         *)
(* The kernel changes on its own and then makes a uevent readable; the     *)
(* handler drains the uevents and looks at the kernel call by call, so     *)
(* that the kernel may change between any two of its calls.  Clients and   *)
(* the user are served between two runs of the handler, by the same        *)
(* thread.  A lease has one CRTC and one output.  Connectors that never    *)
(* come and go are left out.                                               *)
(***************************************************************************)
EXTENDS Integers, FiniteSets, Sequences, SequencesExt

CONSTANTS
    Ports,          \* names of MST connectors: base output and path
    Ids,            \* object ids of connectors
    Crtcs,          \* CRTCs that may be leased
    LesseeIds,      \* ids of lessees
    MaxFaults,      \* bound: calls that fail
    MaxEvents,      \* bound: what connectors, lessees, clients and the user do in a behaviour
    None            \* no port, no connector, no lessee

ASSUME HotplugAssumption ==
    /\ IsFiniteSet(Ports) /\ IsFiniteSet(Ids) /\ IsFiniteSet(Crtcs) /\ IsFiniteSet(LesseeIds)
    /\ MaxFaults \in Nat /\ MaxEvents \in Nat
    /\ None \notin Ports \cup Ids \cup LesseeIds

Gone == None        \* output_id == -1, mode_output == NULL

VARIABLES
    (* external: the kernel *)
    connectors,     \* of each id, the port of its connector, or None
    linkBad,        \* connectors whose link-status is BAD
    uevent,         \* whether the monitor has something to receive
    lessees,        \* of each lessee id, the CRTC and the connector leased, or NoLessee
    (* the driver *)
    vtSema,         \* whether the server owns the VT
    output,         \* output records: name, output_id, link (the link-status last seen is
                    \* BAD), crtc (whether a CRTC uses it)
    leases,         \* of each CRTC, the RandR lease it is in (output, lessee_id), or NoLease
    zaphod,         \* constant: whether the screen has only some of the device's CRTCs
    atomic_modeset, \* constant: whether modes are set by atomic commits
    pc,             \* where the handler is
    found,          \* connectors of mode_res that no output has, while the handler runs
    (* history and bound *)
    unseen,         \* connectors that went and whose list the driver has not read since
    odd,            \* what excuses the driver: "call": a call failed in the last run of the
                    \* handler, "id": a connector has the id of one whose going was not seen,
                    \* "name": a connector's path could not be read
    faults,
    events

kernel == <<connectors, linkBad, uevent, lessees>>
setup  == <<zaphod, atomic_modeset>>
driver == <<vtSema, output, leases, setup, pc, found>>
vars   == <<kernel, driver, unseen, odd, faults, events>>

NoLessee == [crtc |-> None, connector |-> None]
NoLease  == [output |-> 0, lessee_id |-> None]

Record(port, id, bad) == [name |-> port, output_id |-> id, link |-> bad, crtc |-> FALSE]

Present == {id \in Ids : connectors[id] # None}
Alive   == {i \in LesseeIds : lessees[i] # NoLessee}
Leased  == {c \in Crtcs : leases[c] # NoLease}
Outputs == 1..Len(output)

\* drmmode_pre_init made an output of every connector it could.
Init ==
    /\ connectors \in {[id \in Ids |-> None]}
                        \cup {[id \in Ids |-> IF id = i THEN p ELSE None] : i \in Ids, p \in Ports}
    /\ \E made \in SUBSET Present :
         /\ output = SetToSeq({Record(connectors[id], id, FALSE) : id \in made})
         /\ odd = IF made = Present THEN {} ELSE {"call"}
    /\ linkBad = {} /\ uevent = FALSE
    /\ lessees = [i \in LesseeIds |-> NoLessee]
    /\ vtSema = TRUE
    /\ leases = [c \in Crtcs |-> NoLease]
    /\ zaphod \in BOOLEAN /\ atomic_modeset \in BOOLEAN
    /\ pc = "idle" /\ found = {}
    /\ unseen = {} /\ faults = 0 /\ events = 0

Fault(what) ==
    /\ faults < MaxFaults
    /\ faults' = faults + 1
    /\ odd' = odd \cup what

NoFault == UNCHANGED <<odd, faults>>

Event == events < MaxEvents /\ events' = events + 1

-----------------------------------------------------------------------------
(* External: the kernel.  Object ids and lessee ids are used again once they are free. *)

Plug(p) ==
    /\ Event
    /\ p \notin {connectors[id] : id \in Ids}
    /\ \E id \in Ids \ Present :
         /\ connectors' = [connectors EXCEPT ![id] = p]
         /\ odd' = IF id \in unseen THEN odd \cup {"id"} ELSE odd
    /\ uevent' = TRUE
    /\ UNCHANGED <<linkBad, lessees, driver, unseen, faults>>

Unplug(id) ==
    /\ Event
    /\ id \in Present
    /\ connectors' = [connectors EXCEPT ![id] = None]
    /\ linkBad' = linkBad \ {id}
    /\ unseen' = unseen \cup {id}
    /\ uevent' = TRUE
    /\ UNCHANGED <<lessees, driver, odd, faults>>

\* A link can only fail while it carries a mode.
Degrade(id) ==
    /\ Event
    /\ id \in Present \ linkBad
    /\ \E k \in Outputs : output[k].output_id = id /\ output[k].crtc
    /\ linkBad' = linkBad \cup {id}
    /\ uevent' = TRUE
    /\ UNCHANGED <<connectors, lessees, driver, unseen, odd, faults>>

\* A lessee closes its file descriptor.
CloseLessee(i) ==
    /\ Event
    /\ i \in Alive
    /\ lessees' = [lessees EXCEPT ![i] = NoLessee]
    /\ uevent' = TRUE
    /\ UNCHANGED <<connectors, linkBad, driver, unseen, odd, faults>>

-----------------------------------------------------------------------------
(* drmmode_output_detect, and what a mode set does to a link *)

\* The bad links once the modes of the connectors S are set.  SetCrtc trains a link again; the
\* atomic request has the CRTC's id, ACTIVE and MODE_ID, and link-status stays BAD.
drmmode_crtc_set_mode(S) == IF atomic_modeset THEN linkBad ELSE linkBad \ S

\* Mutant: the properties are not read again.
MutDetectKeepsLink(o) ==
    IF o.output_id # Gone /\ o.output_id \notin Present THEN [o EXCEPT !.output_id = Gone] ELSE o

\* A connector that cannot be read is gone; an output that is gone keeps the properties it had.
drmmode_output_detect(o) ==
    IF o.output_id = Gone THEN o
    ELSE IF o.output_id \notin Present THEN [o EXCEPT !.output_id = Gone]
    ELSE [o EXCEPT !.link = o.output_id \in linkBad]

Detected == [k \in Outputs |-> drmmode_output_detect(output[k])]

\* Any client may have the outputs probed.
Probe ==
    /\ pc = "idle"
    /\ output' = Detected
    /\ UNCHANGED <<kernel, vtSema, leases, setup, pc, found, unseen, odd, faults, events>>

\* A client has a CRTC use an output, which sets a mode, or use it no longer.
Configure(k) ==
    /\ Event
    /\ pc = "idle" /\ vtSema
    /\ output[k].crtc \/ output[k].output_id \in Present
    /\ output' = [output EXCEPT ![k].crtc = ~@]
    /\ linkBad' = IF output[k].crtc THEN linkBad ELSE drmmode_crtc_set_mode({output[k].output_id})
    /\ UNCHANGED <<connectors, uevent, lessees, vtSema, leases, setup, pc, found, unseen, odd,
                   faults>>

-----------------------------------------------------------------------------
(* Leases *)

\* The server sees to it that neither CRTC nor output is in another lease.
Leasable(c, k) == c \notin Leased /\ \A d \in Leased : leases[d].output # k

\* drmModeCreateLease: the caller owns the VT, the objects exist and are not leased.
Grantable(c, id) ==
    vtSema /\ id \in Present /\ \A i \in Alive : lessees[i].crtc # c /\ lessees[i].connector # id

drmmode_create_lease(c, k) ==
    /\ Event
    /\ pc = "idle"
    /\ Leasable(c, k)
    /\ output[k].output_id # Gone
    /\ Grantable(c, output[k].output_id)
    /\ \E i \in LesseeIds \ Alive :
         /\ lessees' = [lessees EXCEPT ![i] = [crtc |-> c, connector |-> output[k].output_id]]
         /\ leases' = [leases EXCEPT ![c] = [output |-> k, lessee_id |-> i]]
    /\ UNCHANGED <<connectors, linkBad, uevent, vtSema, output, setup, pc, found, unseen, odd,
                   faults>>

\* The connector's id is read from mode_output, which is NULL: the server dies.
drmmode_create_lease_gone(c, k) ==
    /\ pc = "idle"
    /\ Leasable(c, k)
    /\ output[k].output_id = Gone
    /\ pc' = "dead"
    /\ UNCHANGED <<kernel, vtSema, output, leases, setup, found, unseen, odd, faults, events>>

\* Mutant: the lease ends whatever the kernel says.
MutTerminateAnyway(c) ==
    /\ Event
    /\ pc = "idle"
    /\ c \in Leased
    /\ IF vtSema /\ leases[c].lessee_id \in Alive
       THEN lessees' = [lessees EXCEPT ![leases[c].lessee_id] = NoLessee] /\ uevent' = TRUE
       ELSE UNCHANGED <<lessees, uevent>>
    /\ leases' = [leases EXCEPT ![c] = NoLease]
    /\ UNCHANGED <<connectors, linkBad, vtSema, output, setup, pc, found, unseen, odd, faults>>

\* The lease ends if the kernel revokes it: nothing is done when the lessee is not there or
\* the server does not own the VT.
drmmode_terminate_lease(c) ==
    /\ Event
    /\ pc = "idle"
    /\ c \in Leased
    /\ vtSema /\ leases[c].lessee_id \in Alive
    /\ lessees' = [lessees EXCEPT ![leases[c].lessee_id] = NoLessee]
    /\ leases' = [leases EXCEPT ![c] = NoLease]
    /\ uevent' = TRUE
    /\ UNCHANGED <<connectors, linkBad, vtSema, output, setup, pc, found, unseen, odd, faults>>

\* The leases left once those whose lessee is not listed have ended.
drmmode_validate_leases ==
    [c \in Crtcs |-> IF leases[c].lessee_id \in Alive THEN leases[c] ELSE NoLease]

-----------------------------------------------------------------------------
(* The VT *)

LeaveVT ==
    /\ Event
    /\ pc = "idle" /\ vtSema
    /\ vtSema' = FALSE
    /\ UNCHANGED <<kernel, output, leases, setup, pc, found, unseen, odd, faults>>

\* SetCrtc refuses a mode without a connector; the atomic request leaves out an output that is
\* gone and turns its CRTC off.  Both refuse a connector that is not there.
Settable(k) == output[k].output_id \in Present \cup (IF atomic_modeset THEN {Gone} ELSE {})

\* drmmode_set_desired_modes: the modes of all CRTCs are set, then the leases are looked at.
EnterVT ==
    /\ Event
    /\ pc = "idle" /\ ~vtSema
    /\ \A k \in Outputs : output[k].crtc => Settable(k)
    /\ vtSema' = TRUE
    /\ linkBad' = drmmode_crtc_set_mode(
                      {output[k].output_id : k \in {j \in Outputs : output[j].crtc}})
    /\ \/ leases' = drmmode_validate_leases /\ NoFault
       \/ Fault({"call"}) /\ UNCHANGED leases
    /\ UNCHANGED <<connectors, uevent, lessees, output, setup, pc, found, unseen>>

\* A mode cannot be set: the server gives up.
EnterVTFails ==
    /\ pc = "idle" /\ ~vtSema
    /\ \E k \in Outputs : output[k].crtc /\ ~Settable(k)
    /\ pc' = "dead"
    /\ UNCHANGED <<kernel, vtSema, output, leases, setup, found, unseen, odd, faults, events>>

-----------------------------------------------------------------------------
(* drmmode_handle_uevents *)

Receive ==
    /\ pc = "idle" /\ uevent
    /\ uevent' = FALSE
    /\ pc' = "detect"
    /\ odd' = odd \ {"call"}
    /\ UNCHANGED <<connectors, linkBad, lessees, vtSema, output, leases, setup, found, unseen,
                   faults, events>>

Broken == {k \in Outputs : Detected[k].link /\ Detected[k].crtc}

\* Outputs are probed, and the modes of those with a bad link are set again.  The kernel
\* may refuse; a mode set has no effect while another owns the VT.
DetectLinks ==
    /\ pc = "detect"
    /\ \A k \in Broken : Detected[k].output_id # Gone
    /\ output' = Detected
    /\ \/ vtSema /\ NoFault
          /\ linkBad' = drmmode_crtc_set_mode({output[k].output_id : k \in Broken})
       \/ ~vtSema /\ UNCHANGED <<linkBad, odd, faults>>
       \/ vtSema /\ Broken # {} /\ Fault({"call"}) /\ UNCHANGED linkBad
    /\ pc' = "resources"
    /\ UNCHANGED <<connectors, uevent, lessees, vtSema, leases, setup, found, unseen, events>>

\* An output that is gone had a bad link when it was last seen; the message names its
\* connector, read from mode_output, which is NULL: the server dies.
DetectLinksGone ==
    /\ pc = "detect"
    /\ \E k \in Broken : Detected[k].output_id = Gone
    /\ pc' = "dead"
    /\ UNCHANGED <<kernel, vtSema, output, leases, setup, found, unseen, odd, faults, events>>

\* Mutant: outputs that are gone keep the id of their connector.
MutGoneKeepId ==
    /\ pc = "resources"
    /\ \/ /\ ~zaphod
          /\ UNCHANGED output
          /\ found' = Present \ {output[k].output_id : k \in Outputs}
          /\ unseen' = {}
          /\ pc' = "init"
          /\ NoFault
       \/ zaphod /\ pc' = "validate" /\ NoFault /\ UNCHANGED <<output, found, unseen>>
       \/ Fault({"call"}) /\ pc' = "info" /\ UNCHANGED <<output, found, unseen>>
    /\ UNCHANGED <<kernel, vtSema, leases, setup, events>>

\* Mutant: the handler returns at once when the screen has only some of the CRTCs.
MutZaphodReturns ==
    /\ pc = "resources"
    /\ \/ /\ ~zaphod
          /\ output' = [k \in Outputs |-> IF output[k].output_id \in Present THEN output[k]
                                          ELSE [output[k] EXCEPT !.output_id = Gone]]
          /\ found' = Present \ {output[k].output_id : k \in Outputs}
          /\ unseen' = {}
          /\ pc' = "init"
          /\ NoFault
       \/ zaphod /\ pc' = "info" /\ NoFault /\ UNCHANGED <<output, found, unseen>>
       \/ Fault({"call"}) /\ pc' = "info" /\ UNCHANGED <<output, found, unseen>>
    /\ UNCHANGED <<kernel, vtSema, leases, setup, events>>

\* drmModeGetResources: outputs whose connector is not listed are gone.
GetResources ==
    /\ pc = "resources"
    /\ \/ /\ ~zaphod
          /\ output' = [k \in Outputs |-> IF output[k].output_id \in Present THEN output[k]
                                          ELSE [output[k] EXCEPT !.output_id = Gone]]
          /\ found' = Present \ {output[k].output_id : k \in Outputs}
          /\ unseen' = {}
          /\ pc' = "init"
          /\ NoFault
       \/ zaphod /\ pc' = "validate" /\ NoFault /\ UNCHANGED <<output, found, unseen>>
       \/ Fault({"call"}) /\ pc' = "info" /\ UNCHANGED <<output, found, unseen>>
    /\ UNCHANGED <<kernel, vtSema, leases, setup, events>>

\* An output of that name, if there is one, gets the connector; otherwise an output is made.
Hooked(out, id) ==
    LET same == {k \in DOMAIN out : out[k].name = connectors[id]}
    IN  IF same # {}
        THEN [out EXCEPT ![CHOOSE k \in same : \A j \in same : k <= j].output_id = id]
        ELSE Append(out, Record(connectors[id], id, id \in linkBad))

\* The path of the connector could not be read: an output is made, named as if it had none.
Unnamed(out, id) == Append(out, Record(None, id, id \in linkBad))

\* The connectors found get an output, unless they are gone again.
drmmode_output_init ==
    /\ pc = "init"
    /\ IF found = {} THEN pc' = "validate" /\ NoFault /\ UNCHANGED <<output, found>>
       ELSE \E id \in found :
              /\ found' = found \ {id}
              /\ \/ id \notin Present /\ NoFault /\ UNCHANGED output
                 \/ id \in Present /\ NoFault /\ output' = Hooked(output, id)
                 \/ id \in Present /\ Fault({"name"}) /\ output' = Unnamed(output, id)
                 \/ id \in Present /\ Fault({"call"}) /\ UNCHANGED output
              /\ UNCHANGED pc
    /\ UNCHANGED <<kernel, vtSema, leases, setup, unseen, events>>

\* Leases are looked at, if the server owns the VT and the kernel lists the lessees.
ValidateLeases ==
    /\ pc = "validate"
    /\ \/ vtSema /\ leases' = drmmode_validate_leases /\ NoFault
       \/ ~vtSema /\ UNCHANGED <<leases, odd, faults>>
       \/ vtSema /\ Fault({"call"}) /\ UNCHANGED leases
    /\ pc' = "info"
    /\ UNCHANGED <<kernel, vtSema, output, setup, found, unseen, events>>

\* Mutant: the uevents that came meanwhile are drained at the end.
MutInfoDrains ==
    /\ pc = "info"
    /\ output' = Detected
    /\ uevent' = FALSE
    /\ pc' = "idle"
    /\ UNCHANGED <<connectors, linkBad, lessees, vtSema, leases, setup, found, unseen, odd, faults,
                   events>>

\* RRGetInfo probes the outputs once more.
GetInfo ==
    /\ pc = "info"
    /\ output' = Detected
    /\ pc' = "idle"
    /\ UNCHANGED <<kernel, vtSema, leases, setup, found, unseen, odd, faults, events>>

HandlerStep ==
    \/ DetectLinks \/ DetectLinksGone \/ GetResources \/ drmmode_output_init \/ ValidateLeases
    \/ GetInfo

-----------------------------------------------------------------------------
Next ==
    \/ HandlerStep \/ Receive
    \/ Probe \/ LeaveVT \/ EnterVT \/ EnterVTFails
    \/ \E p \in Ports : Plug(p)
    \/ \E id \in Ids : Unplug(id) \/ Degrade(id)
    \/ \E i \in LesseeIds : CloseLessee(i)
    \/ \E k \in Outputs : Configure(k)
    \/ \E c \in Crtcs : drmmode_terminate_lease(c)
    \/ \E c \in Crtcs, k \in Outputs : drmmode_create_lease(c, k) \/ drmmode_create_lease_gone(c, k)

\* The main loop of the server comes to a file descriptor that stays readable while the
\* server owns the VT, and a handler that was called runs to its end.
Fairness == WF_vars(HandlerStep) /\ WF_vars(vtSema /\ Receive)

Spec == Init /\ [][Next]_vars /\ Fairness

-----------------------------------------------------------------------------
\* No two outputs have the same connector, and an output is named after the connector it
\* has, however connectors came and went, unless the id of one was given to another before
\* the driver saw it go (drmmode_uevent.c:111-152, drmmode_display.c:2988-3003).
OutputsRight ==
    /\ \A j, k \in Outputs :
         j # k /\ output[j].output_id # Gone => output[j].output_id # output[k].output_id
    /\ odd \cap {"id", "name"} = {} =>
         \A k \in Outputs : output[k].output_id \in Present =>
                              connectors[output[k].output_id] = output[k].name

\* Every lessee the kernel knows is that of the RandR lease its CRTC is in: the driver
\* never ends a lease whose lessee still draws (drmmode_validate_leases,
\* drmmode_terminate_lease).
LesseesKnown == \A i \in Alive : leases[lessees[i].crtc].lessee_id = i

Excused == odd # {} \/ pc = "dead" \/ ~vtSema

\* A lease whose lessee has gone ends, so that its CRTC and output can be used again,
\* unless another lessee got the id (drmmode_uevent.c:161, drmmode_display.c:3607).
LeaseEnds ==
    \A c \in Crtcs :
      (c \in Leased /\ leases[c].lessee_id \notin Alive)
        ~> (c \notin Leased \/ leases[c].lessee_id \in Alive \/ Excused)

\* A connector that stays gets an output (drmmode_uevent.c:133-152).
ConnectorFound ==
    \A id \in Ids :
      (id \in Present)
        ~> (id \notin Present \/ zaphod \/ Excused
            \/ \E k \in Outputs : output[k].output_id = id)

\* A link that went bad on an output in use is trained again by another mode set, where modes
\* are set by SetCrtc (drmmode_uevent.c:58-98); the atomic commit never writes link-status.
LinkRetrained ==
    \A id \in Ids :
      (/\ ~atomic_modeset
       /\ \E k \in Outputs : output[k].output_id = id /\ output[k].crtc /\ id \in linkBad)
        ~> (id \notin linkBad \/ Excused
            \/ \A k \in Outputs : output[k].output_id = id => ~output[k].crtc)
=============================================================================
