----------------------------- MODULE ExaPixmap -----------------------------
(***************************************************************************)
(* Pixmaps of the EXA acceleration and of DRI3: who holds the GEM handles, *)
(* the descriptors and the mappings of a pixmap's buffer, from its         *)
(* creation or import to its destruction.                                  *)
(*                                                                         *)
(* The handles are those of the driver's file of the device.  A buffer has *)
(* at most one: importing a buffer that has one returns it again.  Handles *)
(* and descriptors are numbers, the smallest free one is given out.  The   *)
(* server serves one request at a time.                                    *)
(***************************************************************************)
EXTENDS Integers, FiniteSets, FiniteSetsExt

CONSTANTS
    Pixmaps,        \* pixmaps
    NumBuffers,     \* bound: buffers in memory at once
    NumFds,         \* descriptors the server may have open
    MaxFaults       \* bound: calls that fail

ASSUME ExaPixmapAssumption ==
    /\ IsFiniteSet(Pixmaps)
    /\ NumBuffers \in Nat /\ NumFds \in Nat /\ MaxFaults \in Nat

Buffers == 1..NumBuffers
Handles == Buffers
Fds     == 1..NumFds
None    == 0

VARIABLES
    (* external: the kernel and the clients *)
    handles,    \* of each handle, the buffer it names, or None
    fds,        \* of each descriptor of the server, the buffer it is of, or None
    clients,    \* buffers that clients have descriptors of
    (* the driver *)
    priv,       \* of each pixmap, what ms_exa_pixmap_priv says, or NoPriv:
                \* dumb (by usage_hint), bo, fd, owned, pDat (whether buf.pDat # NULL)
    (* history and bounds *)
    alive,      \* whether the server still runs
    lost,       \* descriptors and handles that the driver dropped without closing them
    twins,      \* whether two pixmaps ever had one buffer at once
    faults

vars == <<handles, fds, clients, priv, alive, lost, twins, faults>>

NoBo   == [handle |-> None, of |-> None, ptr |-> None]
NoPriv == [dumb |-> FALSE, bo |-> NoBo, fd |-> None, owned |-> FALSE, pDat |-> FALSE]

\* A dumb_bo: its handle, the buffer it was made for (history), and the buffer it maps.
Bo(h, b) == [handle |-> h, of |-> b, ptr |-> None]

Empty == [NoPriv EXCEPT !.dumb = TRUE]

Created == {p \in Pixmaps : priv[p] # NoPriv}
Mapped  == {priv[p].bo.ptr : p \in Pixmaps} \ {None}
InUse   == {handles[h] : h \in Handles} \cup {fds[f] : f \in Fds} \cup clients \cup Mapped

FreeHandles == {h \in Handles : handles[h] = None}
FreeFds     == {f \in Fds : fds[f] = None}

Init ==
    /\ handles = [h \in Handles |-> None]
    /\ fds = [f \in Fds |-> None]
    /\ clients = {}
    /\ priv = [p \in Pixmaps |-> NoPriv]
    /\ alive = TRUE
    /\ lost = [fds |-> {}, handles |-> {}]
    /\ twins = FALSE
    /\ faults = 0

Fault   == faults < MaxFaults /\ faults' = faults + 1
NoFault == UNCHANGED faults

\* drmPrimeHandleToFD fails when the server has no descriptor left, or for another reason.
ExportFails == IF FreeFds = {} THEN NoFault ELSE Fault

-----------------------------------------------------------------------------
(* External: clients make and drop buffers. *)

ClientMakes ==
    /\ Buffers \ InUse # {}
    /\ clients' = clients \cup {Min(Buffers \ InUse)}
    /\ UNCHANGED <<handles, fds, priv, alive, lost, twins, faults>>

ClientDrops(b) ==
    /\ b \in clients
    /\ clients' = clients \ {b}
    /\ UNCHANGED <<handles, fds, priv, alive, lost, twins, faults>>

-----------------------------------------------------------------------------
(* dumb_bo.c *)

\* dumb_get_bo_from_fd: the handle by which buffer b is known, now or from now on.
FDToHandle(b) ==
    IF \E h \in Handles : handles[h] = b THEN CHOOSE h \in Handles : handles[h] = b
    ELSE Min(FreeHandles)

\* dumb_bo_destroy: whatever the handle names now, it names no more.
dumb_bo_destroy(hs, bo) == [hs EXCEPT ![bo.handle] = None]

-----------------------------------------------------------------------------
(* Creation *)

\* A buffer is made and exported; the descriptor is dropped.
LS_CreateDumbPixmap(p) ==
    /\ p \notin Created
    /\ Buffers \ InUse # {} /\ FreeFds # {}
    /\ LET b == Min(Buffers \ InUse)
           h == Min(FreeHandles)
       IN  /\ handles' = [handles EXCEPT ![h] = b]
           /\ fds' = [fds EXCEPT ![Min(FreeFds)] = b]
           /\ lost' = [lost EXCEPT !.fds = @ \cup {Min(FreeFds)}]
           /\ priv' = [priv EXCEPT ![p] = [Empty EXCEPT !.bo = Bo(h, b), !.owned = TRUE]]
    /\ NoFault
    /\ UNCHANGED <<clients, alive, twins>>

\* The buffer cannot be exported: no pixmap is made, the buffer and its handle are dropped.
LS_CreateDumbPixmapFails(p) ==
    /\ p \notin Created
    /\ Buffers \ InUse # {}
    /\ ExportFails
    /\ LET h == Min(FreeHandles)
       IN  /\ handles' = [handles EXCEPT ![h] = Min(Buffers \ InUse)]
           /\ lost' = [lost EXCEPT !.handles = @ \cup {h}]
    /\ UNCHANGED <<fds, clients, priv, alive, twins>>

\* Of width and height 0: to be given a buffer of another screen.
LS_CreateDumbPixmapEmpty(p) ==
    /\ p \notin Created
    /\ priv' = [priv EXCEPT ![p] = Empty]
    /\ UNCHANGED <<handles, fds, clients, alive, lost, twins, faults>>

LS_CreateExaPixmap(p) ==
    /\ p \notin Created
    /\ priv' = [priv EXCEPT ![p] = [NoPriv EXCEPT !.pDat = TRUE]]
    /\ UNCHANGED <<handles, fds, clients, alive, lost, twins, faults>>

\* Memory is short: what is freed is not what was allocated, and the server dies.
LS_CreateExaPixmapFails(p) ==
    /\ p \notin Created
    /\ Fault
    /\ alive' = FALSE
    /\ UNCHANGED <<handles, fds, clients, priv, lost, twins>>

-----------------------------------------------------------------------------
(* Import and export *)

Twin(b) == twins \/ \E q \in Pixmaps : priv[q].bo.of = b

\* ms_exa_set_pixmap_bo, owned, for a pixmap without buffer: the buffer is exported and the
\* descriptor is kept.
ms_exa_set_pixmap_bo(p, b, table, f) ==
    /\ handles' = [handles EXCEPT ![FDToHandle(b)] = b]
    /\ fds' = [table EXCEPT ![f] = b]
    /\ priv' = [priv EXCEPT ![p] = [Empty EXCEPT !.bo = Bo(FDToHandle(b), b), !.fd = f,
                                                 !.owned = TRUE]]

\* DRI3: a client gives the server a buffer.
ms_exa_pixmap_from_fds(p, b) ==
    /\ p \notin Created /\ b \in clients
    /\ FreeFds # {}
    /\ ms_exa_set_pixmap_bo(p, b, fds, Min(FreeFds))
    /\ twins' = Twin(b)
    /\ NoFault
    /\ UNCHANGED <<clients, alive, lost>>

\* Mutant: the bo is not destroyed when the pixmap cannot be made.
MutImportLeaks(p, b) ==
    /\ p \notin Created /\ b \in clients
    /\ ExportFails
    /\ handles' = [handles EXCEPT ![FDToHandle(b)] = b]
    /\ UNCHANGED <<fds, clients, priv, alive, lost, twins>>

\* The buffer cannot be exported: pixmap and bo are destroyed.
ms_exa_pixmap_from_fds_fails(p, b) ==
    /\ p \notin Created /\ b \in clients
    /\ ExportFails
    /\ handles' = dumb_bo_destroy(handles, Bo(FDToHandle(b), b))
    /\ twins' = Twin(b)
    /\ UNCHANGED <<fds, clients, priv, alive, lost>>

\* DRI3: a client asks for the buffer of a pixmap (ms_exa_egl_fd_from_pixmap,
\* ms_exa_egl_fds_from_pixmap); the descriptor goes to the client.
ms_exa_egl_fds_from_pixmap(p) ==
    /\ priv[p].bo # NoBo
    /\ FreeFds # {} /\ handles[priv[p].bo.handle] # None
    /\ clients' = clients \cup {handles[priv[p].bo.handle]}
    /\ UNCHANGED <<handles, fds, priv, alive, lost, twins, faults>>

\* Reverse PRIME: an empty pixmap is given a buffer of another screen, whose descriptor
\* stays open.
ms_exa_back_pixmap_from_fd(p) ==
    /\ priv[p] = Empty
    /\ Buffers \ InUse # {}
    /\ Cardinality(FreeFds) >= 2
    /\ LET b == Min(Buffers \ InUse)
           f == Min(FreeFds)
       IN  /\ ms_exa_set_pixmap_bo(p, b, [fds EXCEPT ![f] = b], Min(FreeFds \ {f}))
           /\ lost' = [lost EXCEPT !.fds = @ \cup {f}]
    /\ NoFault
    /\ UNCHANGED <<clients, alive, twins>>

\* Mutant: the pixmap is given the bo before it is exported.
MutBackKeepsBo(p) ==
    /\ priv[p] = Empty
    /\ Buffers \ InUse # {} /\ FreeFds # {}
    /\ IF Cardinality(FreeFds) = 1 THEN NoFault ELSE Fault
    /\ LET f == Min(FreeFds)
           b == Min(Buffers \ InUse)
       IN  /\ fds' = [fds EXCEPT ![f] = b]
           /\ lost' = [lost EXCEPT !.fds = @ \cup {f}]
           /\ priv' = [priv EXCEPT ![p].bo = Bo(FDToHandle(b), b), ![p].owned = TRUE]
    /\ UNCHANGED <<handles, clients, alive, twins>>

\* The buffer cannot be exported: the bo is destroyed, the pixmap stays without buffer.
ms_exa_back_pixmap_from_fd_fails(p) ==
    /\ priv[p] = Empty
    /\ Buffers \ InUse # {} /\ FreeFds # {}
    /\ IF Cardinality(FreeFds) = 1 THEN NoFault ELSE Fault
    /\ LET f == Min(FreeFds)
       IN  /\ fds' = [fds EXCEPT ![f] = Min(Buffers \ InUse)]
           /\ lost' = [lost EXCEPT !.fds = @ \cup {f}]
    /\ UNCHANGED <<handles, clients, priv, alive, twins>>

-----------------------------------------------------------------------------
(* Access by the CPU *)

\* ms_exa_pixmap_is_offscreen: whether EXA has the driver prepare accesses.
Offscreen(p) == IF priv[p].dumb THEN priv[p].bo # NoBo ELSE priv[p].pDat

\* ms_exa_prepare_access, drawing, ms_exa_finish_access: the buffer is mapped once, and the
\* mapping kept in the bo.
Access(p) ==
    /\ Offscreen(p) /\ priv[p].dumb
    /\ priv[p].bo.ptr = None
    /\ handles[priv[p].bo.handle] # None
    /\ priv' = [priv EXCEPT ![p].bo.ptr = handles[priv[p].bo.handle]]
    /\ NoFault
    /\ UNCHANGED <<handles, fds, clients, alive, lost, twins>>

\* The buffer cannot be mapped: nothing can be drawn, nor the pixmap moved out, and the
\* server dies.
AccessFails(p) ==
    /\ Offscreen(p) /\ priv[p].dumb
    /\ priv[p].bo.ptr = None
    /\ IF handles[priv[p].bo.handle] = None THEN NoFault ELSE Fault
    /\ alive' = FALSE
    /\ UNCHANGED <<handles, fds, clients, priv, lost, twins>>

-----------------------------------------------------------------------------
(* Destruction *)

\* Mutant: the descriptor is not closed.
MutDestroyKeepsFd(p) ==
    /\ p \in Created
    /\ handles' = IF priv[p].bo # NoBo /\ priv[p].owned
                  THEN dumb_bo_destroy(handles, priv[p].bo) ELSE handles
    /\ priv' = [priv EXCEPT ![p] = NoPriv]
    /\ UNCHANGED <<fds, clients, alive, lost, twins, faults>>

\* ms_exa_destroy_pixmap
LS_DestroyDumbPixmap(p) ==
    /\ p \in Created
    /\ fds' = IF priv[p].fd # None THEN [fds EXCEPT ![priv[p].fd] = None] ELSE fds
    /\ handles' = IF priv[p].bo # NoBo /\ priv[p].owned
                  THEN dumb_bo_destroy(handles, priv[p].bo) ELSE handles
    /\ priv' = [priv EXCEPT ![p] = NoPriv]
    /\ UNCHANGED <<clients, alive, lost, twins, faults>>

-----------------------------------------------------------------------------
OfPixmap(p) ==
    \/ LS_CreateDumbPixmap(p) \/ LS_CreateDumbPixmapFails(p) \/ LS_CreateDumbPixmapEmpty(p)
    \/ LS_CreateExaPixmap(p) \/ LS_CreateExaPixmapFails(p)
    \/ \E b \in Buffers : ms_exa_pixmap_from_fds(p, b) \/ ms_exa_pixmap_from_fds_fails(p, b)
    \/ ms_exa_egl_fds_from_pixmap(p)
    \/ ms_exa_back_pixmap_from_fd(p) \/ ms_exa_back_pixmap_from_fd_fails(p)
    \/ Access(p) \/ AccessFails(p)
    \/ LS_DestroyDumbPixmap(p)

Next ==
    /\ alive
    /\ \/ ClientMakes
       \/ \E b \in Buffers : ClientDrops(b)
       \/ \E p \in Pixmaps : OfPixmap(p)

Spec == Init /\ [][Next]_vars

-----------------------------------------------------------------------------
\* The handle of a pixmap's bo names the buffer the bo was made for, and nothing else is
\* mapped for it, however buffers go between clients and server, as long as no two pixmaps
\* have the same buffer (dumb_bo.c:106-127, dri3.c:190-212, fake_exa.c:552-577).
HandlesKept ==
    ~twins => \A p \in Created : priv[p].bo # NoBo =>
                /\ handles[priv[p].bo.handle] = priv[p].bo.of
                /\ priv[p].bo.ptr \in {None, priv[p].bo.of}

\* Every descriptor that is open and was not dropped belongs to one pixmap, and that of a
\* pixmap is open and of the pixmap's buffer: none is closed twice or left open when the
\* pixmap goes (fake_exa.c:553-574, loongson_pixmap.c:259-262).  Every handle that was not
\* dropped is that of a pixmap, so that a buffer nobody has any more is freed, also after
\* one could not be imported (dri3.c:204-212, fake_exa.c:633-638, loongson_pixmap.c:264-266).
Owned ==
    /\ \A f \in Fds \ lost.fds : fds[f] # None => \E p \in Created : priv[p].fd = f
    /\ \A p \in Created : priv[p].fd # None =>
         /\ fds[priv[p].fd] = priv[p].bo.of /\ priv[p].fd \notin lost.fds
         /\ \A q \in Created \ {p} : priv[q].fd # priv[p].fd
    /\ \A h \in Handles \ lost.handles :
         handles[h] # None => \E p \in Created : priv[p].bo.handle = h
=============================================================================
