---------------------------- MODULE RequestLedger ----------------------------
(***************************************************************************)
(* What the DRM event queue of vblank.c promises to the code that uses it  *)
(* (present.c, dri2.c, pageflip.c, the shared pixmap flipping of           *)
(* drmmode_display.c).  A caller files a request together with a handler   *)
(* and an abort callback.  Exactly one of the two runs, once; the handler  *)
(* runs only for the kernel event the request itself asked for; and an     *)
(* event is dropped only when its request has been aborted before.         *)
(*                                                                         *)
(* Nothing is said here of sequence numbers, lists, screens or call        *)
(* stacks: module DrmQueue has those and is shown to implement this one.   *)
(***************************************************************************)

CONSTANT Ids        \* the requests, in the order of no importance here

VARIABLES
    state,          \* what became of each request
    ready           \* the requests whose kernel event waits to be dispatched

ledgerVars == <<state, ready>>

LedgerInit ==
    /\ state = [n \in Ids |-> "new"]
    /\ ready = {}

\* A caller files request n.
File(n) ==
    /\ state[n] = "new"
    /\ state' = [state EXCEPT ![n] = "pending"]
    /\ UNCHANGED ready

\* The kernel reports the event that request n asked for.
Fire(n) ==
    /\ n \notin ready
    /\ state[n] # "new"
    /\ ready' = ready \cup {n}
    /\ UNCHANGED state

\* The event of n is dispatched to the handler of n.
Complete(n) ==
    /\ n \in ready
    /\ state[n] = "pending"
    /\ state' = [state EXCEPT ![n] = "handled"]
    /\ ready' = ready \ {n}

\* The event of an aborted request is dropped.
Discard(n) ==
    /\ n \in ready
    /\ state[n] = "aborted"
    /\ ready' = ready \ {n}
    /\ UNCHANGED state

\* Some pending requests are aborted: one of them, or all those of a screen.
Cancel(S) ==
    /\ \A n \in S : state[n] = "pending"
    /\ state' = [n \in Ids |-> IF n \in S THEN "aborted" ELSE state[n]]
    /\ UNCHANGED ready

LedgerNext ==
    \/ \E n \in Ids : File(n) \/ Fire(n) \/ Complete(n) \/ Discard(n)
    \/ \E S \in SUBSET Ids : Cancel(S)

LedgerSpec == LedgerInit /\ [][LedgerNext]_ledgerVars
=============================================================================
