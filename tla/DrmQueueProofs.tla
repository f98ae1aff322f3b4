--------------------------- MODULE DrmQueueProofs ---------------------------
(***************************************************************************)
(* Proofs about the DRM event queue, for every width of the sequence       *)
(* number, every number of screens and every bound.                        *)
(*                                                                         *)
(* The heart is SeqInv: the number of a live request determines how many   *)
(* allocations ago it was made, because numbers are given out in a cycle   *)
(* of SeqModulus - 1 and nothing live has been lapped.  Two live things    *)
(* with equal numbers are then equally old, hence the same request.        *)
(*                                                                         *)
(* The queue implements the ledger of requests: every step of DrmQueue is  *)
(* a step of RequestLedger or leaves its variables alone.  Beyond the      *)
(* invariant this needs OnceInv: there is one event per request.  A        *)
(* request is being queued, or its event is in one place on its way, and   *)
(* while that is so its handler has not run.                               *)
(***************************************************************************)
EXTENDS DrmQueue, TLAPS

\* The number after the one given out last, before zero is skipped, when
\* ms_drm_seq is s.
Cursor(s) == IF s = 0 THEN SeqModulus ELSE s

\* Allocations since the one that was given seq; the newest has age 1.
Age(s, seq) ==
    IF seq < Cursor(s) THEN Cursor(s) - seq ELSE Cursor(s) + (SeqModulus - 1) - seq

\* With ms_drm_seq = s and a allocations so far, request n may have number seq.
Numbered(s, a, n, seq) ==
    /\ n \in 1..a
    /\ seq \in Seqs
    /\ a - n < SeqModulus - 1
    /\ Age(s, seq) = a - n + 1

\* Every number that can still be looked up or found has the age of its request.
SeqInv ==
    /\ \A q \in ms_drm_queue : Numbered(ms_drm_seq, allocs, q.n, q.seq)
    /\ \A e \in kernel : Numbered(ms_drm_seq, allocs, e.n, e.seq)
    /\ \A e \in fd : Numbered(ms_drm_seq, allocs, e.n, e.seq)
    /\ \A r \in batch : Numbered(ms_drm_seq, allocs, r.n, r.seq)
    /\ \A d \in 1..depth : frame[d].kind = "vblank"
          => Numbered(ms_drm_seq, allocs, frame[d].n, frame[d].seq)

\* One entry per request.
UniqueInv == \A q, r \in ms_drm_queue : q.n = r.n => q = r

\* Entries belong to screens that exist, and code runs only while all do.
LifeInv ==
    /\ phase = "running" => up = NumScreens
    /\ phase = "starting" => up < NumScreens /\ ms_drm_queue = {} /\ depth = 0
    /\ phase = "closing" => 0 < up /\ up < NumScreens /\ depth = 0
    /\ \A q \in ms_drm_queue : q.scrn <= up

\* The descriptor is watched for the first screen, one reference per screen.
WatchInv ==
    IF up = 0
      THEN notify = 0 /\ fd_wakeup_registered < serverGeneration
      ELSE notify = 1 /\ fd_wakeup_registered = serverGeneration /\ fd_wakeup_ref = up

\* The inductive invariant.
IInv == TypeOK /\ SeqInv /\ UniqueInv /\ CallbackOnce /\ LifeInv /\ WatchInv /\ NoOrphan

-----------------------------------------------------------------------------
(* Sequence numbers *)

\* The number given out and the counter after it stay within 32 bits.
LEMMA SeqTypes ==
    ASSUME NEW s \in 0..(SeqModulus - 1)
    PROVE  NextSeq(s) \in Seqs /\ AfterSeq(NextSeq(s)) \in 0..(SeqModulus - 1)
  BY DrmQueueAssumption DEF NextSeq, AfterSeq, Seqs

\* An allocation makes every number one older, except the one it reuses.
LEMMA Older ==
    ASSUME NEW s \in 0..(SeqModulus - 1), NEW a \in Nat, NEW n, NEW seq,
           Numbered(s, a, n, seq), (a + 1) - n < SeqModulus - 1
    PROVE  Numbered(AfterSeq(NextSeq(s)), a + 1, n, seq)
  BY DrmQueueAssumption DEF Numbered, Age, Cursor, AfterSeq, NextSeq, Seqs

\* The new request has the newest number.
LEMMA NewNumber ==
    ASSUME NEW s \in 0..(SeqModulus - 1), NEW a \in Nat
    PROVE  Numbered(AfterSeq(NextSeq(s)), a + 1, a + 1, NextSeq(s))
  BY DrmQueueAssumption DEF Numbered, Age, Cursor, AfterSeq, NextSeq, Seqs

\* A number determines its request, and a request its number.
LEMMA OneToOne ==
    ASSUME NEW s \in 0..(SeqModulus - 1), NEW a \in Nat,
           NEW m, NEW n, NEW mseq, NEW nseq,
           Numbered(s, a, m, mseq), Numbered(s, a, n, nseq)
    PROVE  m = n <=> mseq = nseq
  BY DrmQueueAssumption DEF Numbered, Age, Cursor, Seqs

\* A look-up by number finds at most one entry, so it finds all of them.
LEMMA LookUp ==
    ASSUME IInv, NEW seq
    PROVE  Newest(WithSeq(seq)) = WithSeq(seq)
<1>1. \A q, r \in WithSeq(seq) : q.n = r.n /\ r.n \in Int
  <2>1. SUFFICES ASSUME NEW q \in WithSeq(seq), NEW r \in WithSeq(seq)
                 PROVE  q.n = r.n /\ r.n \in Int
    OBVIOUS
  <2>2. /\ Numbered(ms_drm_seq, allocs, q.n, q.seq)
        /\ Numbered(ms_drm_seq, allocs, r.n, r.seq)
        /\ q.seq = r.seq
    BY DEF WithSeq, IInv, SeqInv
  <2>3. ms_drm_seq \in 0..(SeqModulus - 1) /\ allocs \in Nat
    BY DEF IInv, TypeOK
  <2>4. q.n = r.n
    BY <2>2, <2>3, OneToOne
  <2>5. r.n \in Int
    BY <2>2, <2>3 DEF Numbered
  <2> QED BY <2>4, <2>5
<1> QED BY <1>1 DEF Newest

-----------------------------------------------------------------------------
(* Type correctness *)

\* Aborting entries of the list keeps the types.
LEMMA AbortType ==
    ASSUME TypeOK, NEW S, AbortEntries(S)
    PROVE  /\ ms_drm_seq' \in 0..(SeqModulus - 1)
           /\ ms_drm_queue' \subseteq Entry
           /\ allocs' \in 0..MaxAllocs
           /\ handled' \in [Ids -> Nat]
           /\ aborted' \in [Ids -> Nat]
  BY DEF TypeOK, AbortEntries

\* Reading events keeps the types.
LEMMA ReadType ==
    ASSUME TypeOK, NEW E \in SUBSET fd, ReadEvents(E)
    PROVE  /\ fd' \subseteq Event
           /\ batch' \subseteq Read
           /\ depth' \in 0..MaxDepth
           /\ frame' \in [1..MaxDepth -> Frame]
<1>1. fd' \subseteq Event
  BY DEF TypeOK, ReadEvents
<1>2. depth' \in 0..MaxDepth /\ depth + 1 \in 1..MaxDepth
  BY DrmQueueAssumption DEF TypeOK, ReadEvents, Push
<1>3. batch' \subseteq Read
  BY <1>2 DEF TypeOK, ReadEvents, Event, Read
<1>4. [kind |-> "events", n |-> 0, seq |-> 0, ran |-> FALSE] \in Frame
  BY DrmQueueAssumption DEF Frame
<1>5. frame' \in [1..MaxDepth -> Frame]
  BY <1>2, <1>4 DEF TypeOK, ReadEvents, Push
<1> QED BY <1>1, <1>2, <1>3, <1>5

\* Returning from a function keeps the types.
LEMMA PopType ==
    ASSUME TypeOK, depth > 0, Pop
    PROVE  depth' \in 0..MaxDepth /\ frame' \in [1..MaxDepth -> Frame]
<1>1. NoFrame \in Frame
  BY DrmQueueAssumption DEF NoFrame, Frame
<1> QED BY <1>1, DrmQueueAssumption DEF TypeOK, Pop

\* The request that ms_queue_vblank is called for has its number.
LEMMA TopNumbered ==
    ASSUME IInv, depth > 0, top.kind = "vblank"
    PROVE  Numbered(ms_drm_seq, allocs, top.n, top.seq)
<1>1. depth \in 1..depth
  BY DEF IInv, TypeOK
<1> QED BY <1>1 DEF IInv, SeqInv, top

\* Every step of the queue keeps the types: in particular the number stays in
\* its 32 bits and never becomes the failure value 0.
LEMMA TypeStep ==
    ASSUME IInv, [Next]_vars
    PROVE  TypeOK'
<1> USE DEF IInv
<1>1. CASE QueueAccepted
  <2>0. Numbered(ms_drm_seq, allocs, top.n, top.seq)
    BY <1>1, TopNumbered DEF QueueAccepted
  <2>1. [n |-> top.n, seq |-> top.seq] \in Event
    BY <2>0, DrmQueueAssumption DEF Numbered, TypeOK, Event, Ids
  <2>2. kernel' \subseteq Event
    BY <1>1, <2>1 DEF QueueAccepted, TypeOK
  <2> QED BY <1>1, <2>2, PopType DEF QueueAccepted, TypeOK, queueVars, serverVars
<1>2. CASE QueueRefused
  BY <1>2, PopType, AbortType
  DEF QueueRefused, ms_drm_abort_seq, TypeOK, kernelVars, serverVars
<1>3. CASE QueueBusy \/ ms_drm_socket_handler
  <2>1. PICK E \in SUBSET fd : ReadEvents(E)
    BY <1>3 DEF QueueBusy, ms_drm_socket_handler
  <2> QED BY <1>3, <2>1, ReadType
          DEF QueueBusy, ms_drm_socket_handler, TypeOK, queueVars, serverVars
<1>4. ASSUME NEW r \in batch, ms_drm_sequence_handler(r)
      PROVE  TypeOK'
  <2>1. [kind |-> "events", n |-> 0, seq |-> 0,
         ran |-> Newest(WithSeq(r.seq)) # {}] \in Frame
    BY DrmQueueAssumption DEF Frame
  <2>2. frame' \in [1..MaxDepth -> Frame]
    BY <1>4, <2>1 DEF ms_drm_sequence_handler, TypeOK
  <2>3. handled' \in [Ids -> Nat]
    BY <1>4 DEF ms_drm_sequence_handler, TypeOK
  <2> QED BY <1>4, <2>2, <2>3 DEF ms_drm_sequence_handler, TypeOK, kernelVars, serverVars
<1>5. CASE EventsDone
  BY <1>5, PopType DEF EventsDone, TypeOK, queueVars, kernelVars, serverVars
<1>6. CASE ms_vblank_screen_init
  <2>1. up < NumScreens
    BY <1>6 DEF ms_vblank_screen_init, LifeInv
  <2> QED BY <1>6, <2>1, DrmQueueAssumption
          DEF ms_vblank_screen_init, ListInit, WatchFd, TypeOK, kernelVars, stackVars
<1>7. ASSUME NEW scrn \in Screens, NEW data \in Data, QueueRequest(scrn, data)
      PROVE  TypeOK'
  <2>1. NextSeq(ms_drm_seq) \in Seqs /\ AfterSeq(NextSeq(ms_drm_seq)) \in 0..(SeqModulus - 1)
    BY SeqTypes DEF TypeOK
  <2>2. allocs + 1 \in Ids
    BY <1>7, DrmQueueAssumption DEF QueueRequest, ms_drm_queue_alloc, TypeOK, Ids
  <2>3. [n |-> allocs + 1, seq |-> NextSeq(ms_drm_seq), scrn |-> scrn, data |-> data] \in Entry
    BY <2>1, <2>2 DEF Entry
  <2>4. /\ ms_drm_seq' \in 0..(SeqModulus - 1)
        /\ ms_drm_queue' \subseteq Entry
        /\ allocs' \in 0..MaxAllocs
    BY <1>7, <2>1, <2>2, <2>3 DEF QueueRequest, ms_drm_queue_alloc, TypeOK, Ids
  <2>5. [kind |-> "vblank", n |-> allocs + 1, seq |-> NextSeq(ms_drm_seq), ran |-> FALSE] \in Frame
    BY <2>1, <2>2, DrmQueueAssumption DEF Frame, Seqs
  <2>6. depth' \in 0..MaxDepth /\ frame' \in [1..MaxDepth -> Frame]
    BY <1>7, <2>5, DrmQueueAssumption DEF QueueRequest, Push, TypeOK
  <2> QED BY <1>7, <2>4, <2>6 DEF QueueRequest, ms_drm_queue_alloc, TypeOK, kernelVars, serverVars
<1>8. ASSUME NEW data \in Data, AbortMatching(data)
      PROVE  TypeOK'
  BY <1>8, AbortType
  DEF AbortMatching, ms_drm_abort, TypeOK, kernelVars, stackVars, serverVars
<1>9. ASSUME NEW e \in kernel, KernelFires(e)
      PROVE  TypeOK'
  BY <1>9 DEF KernelFires, TypeOK, queueVars, stackVars, serverVars
<1>10. CASE ms_vblank_close_screen
  <2>1. up - 1 \in 0..NumScreens
    BY <1>10, DrmQueueAssumption DEF ms_vblank_close_screen, LifeInv, TypeOK
  <2>2. /\ fd_wakeup_registered' \in Nat
        /\ fd_wakeup_ref' \in Int
        /\ notify' \in 0..NumScreens
    BY <1>10, DrmQueueAssumption DEF ms_vblank_close_screen, UnwatchFd, TypeOK
  <2>3. phase' \in {"starting", "running", "closing"} /\ serverGeneration' \in Nat
    BY <1>10 DEF ms_vblank_close_screen, TypeOK
  <2> QED BY <1>10, <2>1, <2>2, <2>3, AbortType
          DEF ms_vblank_close_screen, ms_drm_abort_scrn, TypeOK, kernelVars, stackVars
<1>11. CASE UNCHANGED vars
  BY <1>11 DEF vars, queueVars, kernelVars, stackVars, serverVars, TypeOK
<1> QED BY <1>1, <1>2, <1>3, <1>4, <1>5, <1>6, <1>7, <1>8, <1>9, <1>10, <1>11
        DEF Next, ServerStep

-----------------------------------------------------------------------------
(* Numbers and requests *)

\* Every step keeps numbers and ages together.
LEMMA SeqStep ==
    ASSUME IInv, [Next]_vars
    PROVE  SeqInv'
<1> USE DEF IInv
<1>1. CASE QueueAccepted
  <2>1. Numbered(ms_drm_seq, allocs, top.n, top.seq)
    BY <1>1, TopNumbered DEF QueueAccepted
  <2>2. \A e \in kernel' : Numbered(ms_drm_seq, allocs, e.n, e.seq)
    BY <1>1, <2>1 DEF QueueAccepted, SeqInv
  <2>3. \A d \in 1..depth' : d \in 1..depth /\ frame'[d] = frame[d]
    BY <1>1 DEF QueueAccepted, Pop, TypeOK
  <2> QED BY <1>1, <2>2, <2>3 DEF QueueAccepted, SeqInv, queueVars
<1>2. CASE QueueRefused
  <2>1. \A d \in 1..depth' : d \in 1..depth /\ frame'[d] = frame[d]
    BY <1>2 DEF QueueRefused, Pop, TypeOK
  <2> QED BY <1>2, <2>1 DEF QueueRefused, ms_drm_abort_seq, AbortEntries, SeqInv, kernelVars
<1>3. CASE QueueBusy \/ ms_drm_socket_handler
  <2>1. PICK E \in SUBSET fd : ReadEvents(E)
    BY <1>3 DEF QueueBusy, ms_drm_socket_handler
  <2>2. /\ \A d \in 1..depth : frame'[d] = frame[d]
        /\ frame'[depth + 1].kind # "vblank"
        /\ \A d \in 1..depth' : d \in 1..depth \/ d = depth + 1
    BY <2>1, DrmQueueAssumption DEF ReadEvents, Push, TypeOK
  <2>3. \A r \in batch' : Numbered(ms_drm_seq, allocs, r.n, r.seq)
    BY <2>1 DEF ReadEvents, SeqInv
  <2> QED BY <1>3, <2>1, <2>2, <2>3
          DEF QueueBusy, ms_drm_socket_handler, ReadEvents, SeqInv, queueVars
<1>4. ASSUME NEW r \in batch, ms_drm_sequence_handler(r)
      PROVE  SeqInv'
  <2>1. \A d \in 1..depth' : d \in 1..depth /\
          (frame'[d].kind = "vblank" => frame'[d] = frame[d])
    BY <1>4 DEF ms_drm_sequence_handler, TypeOK
  <2> QED BY <1>4, <2>1 DEF ms_drm_sequence_handler, SeqInv, kernelVars
<1>5. CASE EventsDone
  <2>1. \A d \in 1..depth' : d \in 1..depth /\ frame'[d] = frame[d]
    BY <1>5 DEF EventsDone, Pop, TypeOK
  <2> QED BY <1>5, <2>1 DEF EventsDone, SeqInv, queueVars, kernelVars
<1>6. CASE ms_vblank_screen_init
  BY <1>6 DEF ms_vblank_screen_init, ListInit, SeqInv, kernelVars, stackVars
<1>7. ASSUME NEW scrn \in Screens, NEW data \in Data, QueueRequest(scrn, data)
      PROVE  SeqInv'
  <2> DEFINE New(n, seq) == Numbered(ms_drm_seq', allocs', n, seq)
  <2>1. /\ ms_drm_seq \in 0..(SeqModulus - 1) /\ allocs \in Nat
        /\ ms_drm_seq' = AfterSeq(NextSeq(ms_drm_seq)) /\ allocs' = allocs + 1
    BY <1>7 DEF QueueRequest, ms_drm_queue_alloc, TypeOK
  <2>2. ASSUME NEW n, NEW seq, Numbered(ms_drm_seq, allocs, n, seq),
               (allocs + 1) - n < SeqModulus - 1
        PROVE  New(n, seq)
    BY <2>1, <2>2, Older
  <2>3. New(allocs + 1, NextSeq(ms_drm_seq))
    BY <2>1, NewNumber
  <2>4. NoLapping
    BY <1>7 DEF QueueRequest, ms_drm_queue_alloc
  <2>5. \A q \in ms_drm_queue : New(q.n, q.seq)
    BY <2>2, <2>4 DEF NoLapping, SeqInv
  <2>6. \A e \in kernel \cup fd : New(e.n, e.seq)
    BY <2>2, <2>4 DEF NoLapping, InFlight, SeqInv
  <2>7. \A r \in batch : New(r.n, r.seq)
    <3>1. \A r \in batch : [n |-> r.n, seq |-> r.seq] \in InFlight
      BY DEF InFlight
    <3>2. \A r \in batch : (allocs + 1) - r.n < SeqModulus - 1
      BY <3>1, <2>4 DEF NoLapping
    <3> QED BY <2>2, <3>2 DEF SeqInv
  <2>8. \A d \in 1..depth : frame[d].kind = "vblank" => New(frame[d].n, frame[d].seq)
    BY <2>2, <2>4 DEF NoLapping, SeqInv
  <2>9. \A q \in ms_drm_queue' : New(q.n, q.seq)
    BY <1>7, <2>3, <2>5 DEF QueueRequest, ms_drm_queue_alloc
  <2>10. \A d \in 1..depth' : frame'[d].kind = "vblank" => New(frame'[d].n, frame'[d].seq)
    <3>1. /\ \A d \in 1..depth : frame'[d] = frame[d]
          /\ frame'[depth + 1].n = allocs + 1
          /\ frame'[depth + 1].seq = NextSeq(ms_drm_seq)
          /\ \A d \in 1..depth' : d \in 1..depth \/ d = depth + 1
      BY <1>7, DrmQueueAssumption DEF QueueRequest, Push, TypeOK
    <3> QED BY <2>3, <2>8, <3>1
  <2> QED BY <1>7, <2>6, <2>7, <2>9, <2>10 DEF QueueRequest, SeqInv, kernelVars
<1>8. ASSUME NEW data \in Data, AbortMatching(data)
      PROVE  SeqInv'
  BY <1>8 DEF AbortMatching, ms_drm_abort, AbortEntries, SeqInv, kernelVars, stackVars
<1>9. ASSUME NEW e \in kernel, KernelFires(e)
      PROVE  SeqInv'
  BY <1>9 DEF KernelFires, SeqInv, queueVars, stackVars
<1>10. CASE ms_vblank_close_screen
  BY <1>10 DEF ms_vblank_close_screen, ms_drm_abort_scrn, AbortEntries, SeqInv,
               kernelVars, stackVars
<1>11. CASE UNCHANGED vars
  BY <1>11 DEF vars, queueVars, kernelVars, stackVars, SeqInv
<1> QED BY <1>1, <1>2, <1>3, <1>4, <1>5, <1>6, <1>7, <1>8, <1>9, <1>10, <1>11
        DEF Next, ServerStep

\* What a step can do to the list and the callbacks: file a request, run the
\* handler of some entries, abort some entries, or neither.
ListStep ==
    \/ /\ allocs' = allocs + 1
       /\ \E q \in Entry : q.n = allocs + 1 /\ ms_drm_queue' = ms_drm_queue \cup {q}
       /\ UNCHANGED <<handled, aborted>>
    \/ \E S \in SUBSET ms_drm_queue :
         /\ ms_drm_queue' = ms_drm_queue \ S
         /\ allocs' = allocs
         /\ \/ /\ handled' = [n \in Ids |-> IF \E q \in S : q.n = n
                                   THEN handled[n] + 1 ELSE handled[n]]
               /\ aborted' = aborted
            \/ /\ aborted' = [n \in Ids |-> IF \E q \in S : q.n = n
                                   THEN aborted[n] + 1 ELSE aborted[n]]
               /\ handled' = handled
    \/ UNCHANGED <<ms_drm_queue, allocs, handled, aborted>>

\* Every step of the queue is of one of these kinds: an entry leaves the list
\* only together with the run of one of its callbacks.
LEMMA StepIsListStep ==
    ASSUME IInv, [Next]_vars
    PROVE  ListStep
<1> USE DEF IInv
<1>1. CASE QueueAccepted \/ QueueBusy \/ ms_drm_socket_handler \/ EventsDone
  BY <1>1 DEF QueueAccepted, QueueBusy, ms_drm_socket_handler, EventsDone,
              queueVars, ListStep
<1>2. ASSUME NEW S, S \subseteq ms_drm_queue, AbortEntries(S)
      PROVE  ListStep
  BY <1>2 DEF AbortEntries, ListStep
<1>3. \A S : Newest(S) \subseteq S
  BY DEF Newest
<1>4. CASE QueueRefused
  BY <1>2, <1>3, <1>4 DEF QueueRefused, ms_drm_abort_seq, WithSeq
<1>5. ASSUME NEW data \in Data, AbortMatching(data)
      PROVE  ListStep
  <2> DEFINE S == {q \in ms_drm_queue : q.data = data}
  <2>1. Newest(S) \subseteq ms_drm_queue
    BY <1>3
  <2> QED BY <1>2, <1>5, <2>1 DEF AbortMatching, ms_drm_abort
<1>6. CASE ms_vblank_close_screen
  BY <1>2, <1>6 DEF ms_vblank_close_screen, ms_drm_abort_scrn
<1>7. ASSUME NEW r \in batch, ms_drm_sequence_handler(r)
      PROVE  ListStep
  BY <1>3, <1>7 DEF ms_drm_sequence_handler, WithSeq, ListStep
<1>8. CASE ms_vblank_screen_init
  BY <1>8 DEF ms_vblank_screen_init, ListInit, LifeInv, ListStep
<1>9. ASSUME NEW scrn \in Screens, NEW data \in Data, QueueRequest(scrn, data)
      PROVE  ListStep
  <2> DEFINE q == [n |-> allocs + 1, seq |-> NextSeq(ms_drm_seq), scrn |-> scrn, data |-> data]
  <2>1. q \in Entry /\ q.n = allocs + 1
    BY <1>9, SeqTypes, DrmQueueAssumption
    DEF QueueRequest, ms_drm_queue_alloc, TypeOK, Entry, Ids
  <2> QED BY <1>9, <2>1 DEF QueueRequest, ms_drm_queue_alloc, ListStep
<1>10. ASSUME NEW e \in kernel, KernelFires(e)
      PROVE  ListStep
  BY <1>10 DEF KernelFires, queueVars, ListStep
<1>11. CASE UNCHANGED vars
  BY <1>11 DEF vars, queueVars, ListStep
<1> QED BY <1>1, <1>4, <1>5, <1>6, <1>7, <1>8, <1>9, <1>10, <1>11 DEF Next, ServerStep

\* A request is linked at most once.
LEMMA UniqueStep ==
    ASSUME IInv, ListStep
    PROVE  UniqueInv'
<1>1. \A q \in ms_drm_queue : q.n # allocs + 1
  BY DEF IInv, SeqInv, Numbered, TypeOK
<1> QED BY <1>1 DEF IInv, UniqueInv, ListStep

\* The callbacks that have run are those of the entries that have gone.
LEMMA CountStep ==
    ASSUME IInv, ListStep
    PROVE  CallbackOnce'
<1> USE DEF IInv
<1>1. SUFFICES ASSUME NEW n \in Ids
               PROVE  handled'[n] + aborted'[n] =
                        IF n <= allocs' /\ n \notin Pending' THEN 1 ELSE 0
  BY DEF CallbackOnce
<1>2. handled[n] + aborted[n] = IF n <= allocs /\ n \notin Pending THEN 1 ELSE 0
  BY DEF CallbackOnce
<1>3. n \in Nat /\ allocs \in Nat /\ handled[n] \in Nat /\ aborted[n] \in Nat
  BY DrmQueueAssumption DEF TypeOK, Ids
<1>4. \A q \in ms_drm_queue : q.n <= allocs
  BY DEF SeqInv, Numbered, TypeOK
<1>5. ASSUME allocs' = allocs + 1, UNCHANGED <<handled, aborted>>,
             NEW q, q.n = allocs + 1, ms_drm_queue' = ms_drm_queue \cup {q}
      PROVE  handled'[n] + aborted'[n] =
               IF n <= allocs' /\ n \notin Pending' THEN 1 ELSE 0
  <2>1. n \in Pending' <=> n \in Pending \/ n = allocs + 1
    BY <1>5 DEF Pending
  <2> QED BY <1>2, <1>3, <1>5, <2>1 DEF Pending
<1>6. ASSUME NEW S \in SUBSET ms_drm_queue, ms_drm_queue' = ms_drm_queue \ S,
             allocs' = allocs,
             handled'[n] + aborted'[n] =
               handled[n] + aborted[n] + (IF \E q \in S : q.n = n THEN 1 ELSE 0)
      PROVE  handled'[n] + aborted'[n] =
               IF n <= allocs' /\ n \notin Pending' THEN 1 ELSE 0
  <2>1. n \in Pending' <=> n \in Pending /\ ~\E q \in S : q.n = n
    BY <1>6 DEF Pending, UniqueInv
  <2>2. (\E q \in S : q.n = n) => n \in Pending /\ n <= allocs
    BY <1>4 DEF Pending
  <2> QED BY <1>2, <1>3, <1>6, <2>1, <2>2
<1>7. ASSUME NEW S \in SUBSET ms_drm_queue, ms_drm_queue' = ms_drm_queue \ S,
             allocs' = allocs,
             \/ /\ handled' = [m \in Ids |-> IF \E q \in S : q.n = m
                                   THEN handled[m] + 1 ELSE handled[m]]
                /\ aborted' = aborted
             \/ /\ aborted' = [m \in Ids |-> IF \E q \in S : q.n = m
                                   THEN aborted[m] + 1 ELSE aborted[m]]
                /\ handled' = handled
      PROVE  handled'[n] + aborted'[n] =
               IF n <= allocs' /\ n \notin Pending' THEN 1 ELSE 0
  <2>1. handled'[n] + aborted'[n] =
          handled[n] + aborted[n] + (IF \E q \in S : q.n = n THEN 1 ELSE 0)
    BY <1>3, <1>7
  <2> QED BY <1>6, <1>7, <2>1
<1>8. CASE UNCHANGED <<ms_drm_queue, allocs, handled, aborted>>
  BY <1>2, <1>8 DEF Pending
<1> QED BY <1>5, <1>7, <1>8 DEF ListStep

-----------------------------------------------------------------------------
(* Server generations *)

\* Only one step leaves the phases and the screens alone and still adds to the
\* list, and it happens while all screens are up.
LEMMA LifeStep ==
    ASSUME IInv, [Next]_vars
    PROVE  LifeInv'
<1> USE DEF IInv
<1>1. ASSUME depth > 0, UNCHANGED serverVars, ms_drm_queue' \subseteq ms_drm_queue
      PROVE  LifeInv'
  BY <1>1 DEF LifeInv, serverVars, TypeOK
<1>2. CASE QueueAccepted
  BY <1>1, <1>2 DEF QueueAccepted, queueVars
<1>3. CASE QueueRefused
  BY <1>1, <1>3 DEF QueueRefused, ms_drm_abort_seq, AbortEntries
<1>4. CASE QueueBusy
  BY <1>1, <1>4 DEF QueueBusy, queueVars
<1>5. CASE ms_drm_socket_handler
  BY <1>5 DEF ms_drm_socket_handler, LifeInv, serverVars, queueVars
<1>6. ASSUME NEW r \in batch, ms_drm_sequence_handler(r)
      PROVE  LifeInv'
  BY <1>1, <1>6 DEF ms_drm_sequence_handler
<1>7. CASE EventsDone
  BY <1>1, <1>7 DEF EventsDone, queueVars
<1>8. CASE ms_vblank_screen_init
  BY <1>8, DrmQueueAssumption DEF ms_vblank_screen_init, ListInit, LifeInv, TypeOK, stackVars
<1>9. ASSUME NEW scrn \in Screens, NEW data \in Data, QueueRequest(scrn, data)
      PROVE  LifeInv'
  BY <1>9, DrmQueueAssumption
  DEF QueueRequest, CanCall, ms_drm_queue_alloc, LifeInv, serverVars, Screens
<1>10. ASSUME NEW data \in Data, AbortMatching(data)
       PROVE  LifeInv'
  BY <1>10 DEF AbortMatching, CanCall, ms_drm_abort, AbortEntries, LifeInv, serverVars, stackVars
<1>11. ASSUME NEW e \in kernel, KernelFires(e)
       PROVE  LifeInv'
  BY <1>11 DEF KernelFires, LifeInv, queueVars, serverVars, stackVars
<1>12. CASE ms_vblank_close_screen
  <2>1. /\ up \in 1..NumScreens /\ depth' = 0
        /\ up' = up - 1
    BY <1>12, DrmQueueAssumption DEF ms_vblank_close_screen, LifeInv, TypeOK, stackVars
  <2>2. \A q \in ms_drm_queue' : q \in ms_drm_queue /\ q.scrn # up
    BY <1>12 DEF ms_vblank_close_screen, ms_drm_abort_scrn, AbortEntries
  <2>3. \A q \in ms_drm_queue : q.scrn \in 1..NumScreens /\ q.scrn <= up
    BY DEF TypeOK, Entry, Screens, LifeInv
  <2>4. \A q \in ms_drm_queue' : q.scrn \in Nat \ {0} /\ q.scrn <= up'
    BY <2>1, <2>2, <2>3, DrmQueueAssumption
  <2>5. up = 1 => ms_drm_queue' = {}
    BY <2>1, <2>4
  <2> QED BY <1>12, <2>1, <2>4, <2>5, DrmQueueAssumption DEF ms_vblank_close_screen, LifeInv
<1>13. CASE UNCHANGED vars
  BY <1>13 DEF vars, queueVars, stackVars, serverVars, LifeInv
<1> QED BY <1>2, <1>3, <1>4, <1>5, <1>6, <1>7, <1>8, <1>9, <1>10, <1>11, <1>12, <1>13
        DEF Next, ServerStep

\* The references of the watched descriptor follow the screens.
LEMMA WatchStep ==
    ASSUME IInv, [Next]_vars
    PROVE  WatchInv'
<1> USE DEF IInv
<1>1. CASE UNCHANGED serverVars
  BY <1>1 DEF serverVars, WatchInv
<1>2. CASE ms_vblank_screen_init
  BY <1>2, DrmQueueAssumption DEF ms_vblank_screen_init, WatchFd, WatchInv, TypeOK
<1>3. CASE ms_vblank_close_screen
  <2>1. up \in 1..NumScreens
    BY <1>3, DrmQueueAssumption DEF ms_vblank_close_screen, LifeInv, TypeOK
  <2> QED BY <1>3, <2>1, DrmQueueAssumption DEF ms_vblank_close_screen, UnwatchFd, WatchInv, TypeOK
<1> QED BY <1>1, <1>2, <1>3
        DEF Next, ServerStep, vars, QueueAccepted, QueueBusy, ms_drm_socket_handler,
            ms_drm_sequence_handler, EventsDone, QueueRequest, QueueRefused,
            AbortMatching, KernelFires

-----------------------------------------------------------------------------
(* No entry is left without an answer to come *)

\* What NoOrphan says of one entry.
Answered(q) ==
    \/ \E e \in InFlight : e.n = q.n
    \/ \E d \in 1..depth : frame[d].kind = "vblank" /\ frame[d].n = q.n

\* An entry loses its event or its activation of ms_queue_vblank only when it
\* leaves the list, or when the activation ends and the event is accepted.
LEMMA OrphanStep ==
    ASSUME IInv, [Next]_vars
    PROVE  NoOrphan'
<1> USE DEF IInv
<1>0. SUFFICES ASSUME NEW q \in ms_drm_queue' PROVE Answered(q)'
  BY DEF NoOrphan, Answered
<1>a. q \in ms_drm_queue => Answered(q)
  BY DEF NoOrphan, Answered
<1>b. ms_drm_seq \in 0..(SeqModulus - 1) /\ allocs \in Nat /\ depth \in Nat
  BY DEF TypeOK
<1>1. CASE QueueAccepted
  <2>1. q \in ms_drm_queue
    BY <1>1 DEF QueueAccepted, queueVars
  <2>2. CASE \E e \in InFlight : e.n = q.n
    BY <1>1, <2>2 DEF QueueAccepted, InFlight, Answered
  <2>3. CASE \E d \in 1..depth : frame[d].kind = "vblank" /\ frame[d].n = q.n
    <3>1. PICK d \in 1..depth : frame[d].kind = "vblank" /\ frame[d].n = q.n
      BY <2>3
    <3>2. CASE d = depth
      <4>1. [n |-> q.n, seq |-> top.seq] \in InFlight'
        BY <1>1, <3>1, <3>2 DEF QueueAccepted, InFlight, top
      <4> QED BY <4>1 DEF Answered
    <3>3. CASE d # depth
      <4>1. d \in 1..depth' /\ frame'[d] = frame[d]
        BY <1>1, <1>b, <3>1, <3>3 DEF QueueAccepted, Pop, TypeOK
      <4> QED BY <3>1, <4>1 DEF Answered
    <3> QED BY <3>2, <3>3
  <2> QED BY <1>a, <2>1, <2>2, <2>3 DEF Answered
<1>2. CASE QueueRefused
  <2>1. q \in ms_drm_queue /\ q \notin WithSeq(top.seq)
    BY <1>2, LookUp DEF QueueRefused, ms_drm_abort_seq, AbortEntries
  <2>2. q.n # top.n
    <3>1. Numbered(ms_drm_seq, allocs, top.n, top.seq)
      BY <1>2, TopNumbered DEF QueueRefused
    <3>2. Numbered(ms_drm_seq, allocs, q.n, q.seq) /\ q.seq # top.seq
      BY <2>1 DEF SeqInv, WithSeq
    <3> QED BY <1>b, <3>1, <3>2, OneToOne
  <2>3. InFlight' = InFlight
    BY <1>2 DEF QueueRefused, InFlight, kernelVars
  <2>4. CASE \E d \in 1..depth : frame[d].kind = "vblank" /\ frame[d].n = q.n
    <3>1. PICK d \in 1..depth : frame[d].kind = "vblank" /\ frame[d].n = q.n
      BY <2>4
    <3>2. d \in 1..depth' /\ frame'[d] = frame[d]
      BY <1>2, <1>b, <2>2, <3>1 DEF QueueRefused, Pop, TypeOK, top
    <3> QED BY <3>1, <3>2 DEF Answered
  <2> QED BY <1>a, <2>1, <2>3, <2>4 DEF Answered
<1>3. CASE QueueBusy \/ ms_drm_socket_handler
  <2>1. PICK E \in SUBSET fd : ReadEvents(E)
    BY <1>3 DEF QueueBusy, ms_drm_socket_handler
  <2>2. q \in ms_drm_queue
    BY <1>3 DEF QueueBusy, ms_drm_socket_handler, queueVars
  <2>3. \A d \in 1..depth : d \in 1..depth' /\ frame'[d] = frame[d]
    BY <1>b, <2>1, DrmQueueAssumption DEF ReadEvents, Push, TypeOK
  <2>4. CASE \E e \in InFlight : e.n = q.n
    <3>1. PICK e \in InFlight : e.n = q.n
      BY <2>4
    <3>2. CASE e \in kernel \/ e \in fd \ E \/ e \in {[n |-> r.n, seq |-> r.seq] : r \in batch}
      BY <1>3, <2>1, <3>1, <3>2
      DEF QueueBusy, ms_drm_socket_handler, ReadEvents, InFlight, Answered
    <3>3. CASE e \in E
      <4> DEFINE r == [n |-> e.n, seq |-> e.seq, at |-> depth + 1]
      <4>1. r \in batch' /\ r.n = q.n
        BY <2>1, <3>1, <3>3 DEF ReadEvents
      <4>2. [n |-> r.n, seq |-> r.seq] \in InFlight'
        BY <4>1 DEF InFlight
      <4> QED BY <4>1, <4>2 DEF Answered
    <3> QED BY <3>1, <3>2, <3>3 DEF InFlight
  <2>5. CASE \E d \in 1..depth : frame[d].kind = "vblank" /\ frame[d].n = q.n
    BY <2>3, <2>5 DEF Answered
  <2> QED BY <1>a, <2>2, <2>4, <2>5 DEF Answered
<1>4. ASSUME NEW r \in batch, ms_drm_sequence_handler(r)
      PROVE  Answered(q)'
  <2>1. q \in ms_drm_queue /\ q \notin WithSeq(r.seq)
    BY <1>4, LookUp DEF ms_drm_sequence_handler
  <2>2. q.n # r.n
    <3>1. Numbered(ms_drm_seq, allocs, r.n, r.seq)
      BY DEF SeqInv
    <3>2. Numbered(ms_drm_seq, allocs, q.n, q.seq) /\ q.seq # r.seq
      BY <2>1 DEF SeqInv, WithSeq
    <3> QED BY <1>b, <3>1, <3>2, OneToOne
  <2>3. CASE \E e \in InFlight : e.n = q.n
    BY <1>4, <2>2, <2>3 DEF ms_drm_sequence_handler, InFlight, Answered, kernelVars
  <2>4. \A d \in 1..depth : frame[d].kind = "vblank" => frame'[d] = frame[d]
    BY <1>4 DEF ms_drm_sequence_handler, TypeOK, top
  <2>5. CASE \E d \in 1..depth : frame[d].kind = "vblank" /\ frame[d].n = q.n
    BY <1>4, <2>4, <2>5 DEF ms_drm_sequence_handler, Answered
  <2> QED BY <1>a, <2>1, <2>3, <2>5 DEF Answered
<1>5. CASE EventsDone
  <2>1. q \in ms_drm_queue /\ InFlight' = InFlight
    BY <1>5 DEF EventsDone, queueVars, kernelVars, InFlight
  <2>2. \A d \in 1..depth : frame[d].kind = "vblank" =>
          d \in 1..depth' /\ frame'[d] = frame[d]
    BY <1>5, <1>b DEF EventsDone, Pop, TypeOK, top
  <2> QED BY <1>a, <2>1, <2>2 DEF Answered
<1>6. CASE ms_vblank_screen_init
  BY <1>6 DEF ms_vblank_screen_init, ListInit
<1>7. ASSUME NEW scrn \in Screens, NEW data \in Data, QueueRequest(scrn, data)
      PROVE  Answered(q)'
  <2>1. InFlight' = InFlight
    BY <1>7 DEF QueueRequest, kernelVars, InFlight
  <2>2. /\ \A d \in 1..depth : d \in 1..depth' /\ frame'[d] = frame[d]
        /\ depth + 1 \in 1..depth'
        /\ frame'[depth + 1].kind = "vblank" /\ frame'[depth + 1].n = allocs + 1
    BY <1>7, <1>b, DrmQueueAssumption DEF QueueRequest, Push, TypeOK
  <2>3. q \in ms_drm_queue \/ q.n = allocs + 1
    BY <1>7 DEF QueueRequest, ms_drm_queue_alloc
  <2> QED BY <1>a, <2>1, <2>2, <2>3 DEF Answered
<1>8. ASSUME NEW data \in Data, AbortMatching(data)
      PROVE  Answered(q)'
  BY <1>8, <1>a DEF AbortMatching, ms_drm_abort, AbortEntries, Answered, InFlight,
                    kernelVars, stackVars
<1>9. ASSUME NEW e \in kernel, KernelFires(e)
      PROVE  Answered(q)'
  <2>1. q \in ms_drm_queue /\ InFlight' = InFlight
    BY <1>9 DEF KernelFires, queueVars, stackVars, InFlight
  <2> QED BY <1>9, <1>a, <2>1 DEF KernelFires, stackVars, Answered
<1>10. CASE ms_vblank_close_screen
  BY <1>10, <1>a DEF ms_vblank_close_screen, ms_drm_abort_scrn, AbortEntries, Answered,
                     InFlight, kernelVars, stackVars
<1>11. CASE UNCHANGED vars
  BY <1>11, <1>a DEF vars, queueVars, kernelVars, stackVars, Answered, InFlight
<1> QED BY <1>1, <1>2, <1>3, <1>4, <1>5, <1>6, <1>7, <1>8, <1>9, <1>10, <1>11
        DEF Next, ServerStep

-----------------------------------------------------------------------------
(* Safety *)

\* The empty queue of a server that starts.
LEMMA InitIInv == Init => IInv
<1> SUFFICES ASSUME Init PROVE IInv
  OBVIOUS
<1>1. NoFrame \in Frame
  BY DrmQueueAssumption DEF NoFrame, Frame
<1>2. TypeOK
  BY <1>1, DrmQueueAssumption DEF Init, TypeOK, Ids
<1>3. SeqInv /\ UniqueInv /\ NoOrphan
  BY DEF Init, SeqInv, UniqueInv, NoOrphan
<1>4. CallbackOnce /\ LifeInv /\ WatchInv
  BY DrmQueueAssumption DEF Init, CallbackOnce, Ids, LifeInv, WatchInv
<1> QED BY <1>2, <1>3, <1>4 DEF IInv

\* IInv is an invariant of the queue.
THEOREM QueueInvariant == Spec => []IInv
<1>1. IInv /\ [Next]_vars => IInv'
  <2> SUFFICES ASSUME IInv, [Next]_vars PROVE IInv'
    OBVIOUS
  <2>1. UniqueInv' /\ CallbackOnce'
    BY StepIsListStep, UniqueStep, CountStep
  <2>2. TypeOK' /\ SeqInv' /\ LifeInv' /\ WatchInv' /\ NoOrphan'
    BY TypeStep, SeqStep, LifeStep, WatchStep, OrphanStep
  <2> QED BY <2>1, <2>2 DEF IInv
<1> QED BY <1>1, InitIInv, PTL DEF Spec

\* The types hold: the counter wraps within 32 bits and no request gets 0.
THEOREM TypeCorrect == Spec => []TypeOK
<1>1. IInv => TypeOK
  BY DEF IInv
<1> QED BY <1>1, QueueInvariant, PTL

\* An event finds the entry of its own request or none, whatever was aborted,
\* however often the number wrapped and the server was regenerated.
THEOREM EventsFindTheirRequest == Spec => []SeqIdentifies
<1>1. ASSUME IInv PROVE SeqIdentifies
  <2>1. SUFFICES ASSUME NEW q \in ms_drm_queue, NEW e \in InFlight, q.seq = e.seq
                 PROVE  q.n = e.n
    BY DEF SeqIdentifies
  <2>2. /\ Numbered(ms_drm_seq, allocs, q.n, q.seq)
        /\ Numbered(ms_drm_seq, allocs, e.n, e.seq)
    BY <1>1 DEF IInv, SeqInv, InFlight
  <2>3. ms_drm_seq \in 0..(SeqModulus - 1) /\ allocs \in Nat
    BY <1>1 DEF IInv, TypeOK
  <2> QED BY <2>1, <2>2, <2>3, OneToOne
<1> QED BY <1>1, QueueInvariant, PTL

\* Exactly one callback of a request runs, when it leaves the list.
THEOREM CallbacksRunOnce == Spec => []CallbackOnce
<1>1. IInv => CallbackOnce
  BY DEF IInv
<1> QED BY <1>1, QueueInvariant, PTL

\* Every linked entry has its event on the way or is still being queued.
THEOREM AnswersAreOnTheirWay == Spec => []NoOrphan
<1>1. IInv => NoOrphan
  BY DEF IInv
<1> QED BY <1>1, QueueInvariant, PTL

\* The descriptor is watched exactly while it has to be.
THEOREM DescriptorIsWatched == Spec => []WatchedWhileUp
<1>1. ASSUME IInv PROVE WatchedWhileUp
  BY <1>1, DrmQueueAssumption DEF IInv, TypeOK, LifeInv, WatchInv, WatchedWhileUp
<1> QED BY <1>1, QueueInvariant, PTL

-----------------------------------------------------------------------------
(* Refinement: the queue implements the ledger *)

\* The activations of ms_queue_vblank.
Queueing == {d \in 1..depth : frame[d].kind = "vblank"}

\* A request is being queued by one activation, or its event is in one place.
OnceInv ==
    /\ \A e \in kernel : \A f \in fd : e.n # f.n
    /\ \A e \in kernel : \A r \in batch : e.n # r.n
    /\ \A e \in fd : \A r \in batch : e.n # r.n
    /\ \A r, s \in batch : r.n = s.n => r = s
    /\ \A d \in Queueing : /\ \A e \in kernel \cup fd \cup batch : e.n # frame[d].n
                           /\ \A c \in Queueing : frame[c].n = frame[d].n => c = d

\* The handler of a request that still waits for its event has not run.
WaitInv ==
    /\ \A e \in kernel \cup fd \cup batch : handled[e.n] = 0
    /\ \A d \in Queueing : handled[frame[d].n] = 0

-----------------------------------------------------------------------------
(* One event per request *)

\* An event is in one place only.
LEMMA OnceStep ==
    ASSUME IInv, OnceInv, [Next]_vars
    PROVE  OnceInv'
<1>0. TypeOK /\ SeqInv /\ depth \in Nat /\ MaxDepth \in Nat
  BY DrmQueueAssumption DEF IInv, TypeOK
<1>1. ASSUME UNCHANGED <<kernel, fd>>, batch' \subseteq batch, Queueing' \subseteq Queueing,
             \A d \in Queueing' : frame'[d] = frame[d]
      PROVE  OnceInv'
  BY <1>1 DEF OnceInv
<1>2. CASE QueueAccepted
  <2>1. Queueing' = Queueing \ {depth} /\ depth \in Queueing
    BY <1>0, <1>2 DEF QueueAccepted, Pop, Queueing, TypeOK, top
  <2>2. \A d \in Queueing' : frame'[d] = frame[d]
    BY <1>0, <1>2, <2>1 DEF QueueAccepted, Pop, Queueing, TypeOK
  <2>3. \A e \in kernel' : e \in kernel \/ e.n = frame[depth].n
    BY <1>2 DEF QueueAccepted, top
  <2> QED BY <1>2, <2>1, <2>2, <2>3 DEF OnceInv, QueueAccepted
<1>3. CASE QueueRefused \/ EventsDone
  <2>1. Queueing' \subseteq Queueing /\ \A d \in Queueing' : frame'[d] = frame[d]
    BY <1>0, <1>3 DEF QueueRefused, EventsDone, Pop, Queueing, TypeOK
  <2> QED BY <1>1, <1>3, <2>1 DEF QueueRefused, EventsDone, kernelVars
<1>4. CASE QueueBusy \/ ms_drm_socket_handler
  <2>1. PICK E \in SUBSET fd : ReadEvents(E)
    BY <1>4 DEF QueueBusy, ms_drm_socket_handler
  <2>2. Queueing' = Queueing /\ \A d \in Queueing' : frame'[d] = frame[d]
    BY <1>0, <2>1 DEF ReadEvents, Push, Queueing, TypeOK
  <2>3. kernel' = kernel /\ fd' = fd \ E
    BY <1>4, <2>1 DEF QueueBusy, ms_drm_socket_handler, ReadEvents
  <2>4. \A r \in batch' : r \in batch \/
          \E e \in E : r = [n |-> e.n, seq |-> e.seq, at |-> depth + 1]
    BY <2>1 DEF ReadEvents
  <2>5. \A e, f \in fd : e.n = f.n => e = f
    <3> SUFFICES ASSUME NEW e \in fd, NEW f \in fd, e.n = f.n PROVE e = f
      OBVIOUS
    <3>1. Numbered(ms_drm_seq, allocs, e.n, e.seq) /\ Numbered(ms_drm_seq, allocs, f.n, f.seq)
      BY <1>0 DEF SeqInv
    <3>2. e.seq = f.seq
      BY <1>0, <3>1, OneToOne DEF TypeOK
    <3> QED BY <1>0, <3>2 DEF TypeOK, Event
  <2>6. \A e \in kernel' : \A f \in fd' : e.n # f.n
    BY <2>3 DEF OnceInv
  <2>7. \A r \in batch' : \A e \in kernel' \cup fd' : e.n # r.n
    BY <2>3, <2>4, <2>5 DEF OnceInv
  <2>8. \A r, s \in batch' : r.n = s.n => r = s
    BY <2>4, <2>5 DEF OnceInv
  <2>9. \A d \in Queueing' : \A e \in kernel' \cup fd' \cup batch' : e.n # frame'[d].n
    BY <2>2, <2>3, <2>4 DEF OnceInv
  <2> QED BY <2>2, <2>6, <2>7, <2>8, <2>9 DEF OnceInv
<1>5. ASSUME NEW r \in batch, ms_drm_sequence_handler(r)
      PROVE  OnceInv'
  <2>1. Queueing' \subseteq Queueing /\ \A d \in Queueing' : frame'[d] = frame[d]
    BY <1>0, <1>5 DEF ms_drm_sequence_handler, Queueing, TypeOK
  <2> QED BY <1>1, <1>5, <2>1 DEF ms_drm_sequence_handler, kernelVars
<1>6. ASSUME NEW scrn \in Screens, NEW data \in Data, QueueRequest(scrn, data)
      PROVE  OnceInv'
  <2>1. \A e \in kernel \cup fd \cup batch : e.n # allocs + 1
    BY <1>0 DEF SeqInv, Numbered, TypeOK
  <2>2. \A d \in Queueing : frame[d].n # allocs + 1
    BY <1>0 DEF SeqInv, Numbered, TypeOK, Queueing
  <2>3. /\ Queueing' = Queueing \cup {depth + 1} /\ depth + 1 \notin Queueing
        /\ \A d \in Queueing : frame'[d] = frame[d]
        /\ frame'[depth + 1].n = allocs + 1
    BY <1>0, <1>6 DEF QueueRequest, Push, Queueing, TypeOK
  <2> QED BY <1>6, <2>1, <2>2, <2>3 DEF OnceInv, QueueRequest, kernelVars
<1>7. ASSUME NEW e \in kernel, KernelFires(e)
      PROVE  OnceInv'
  <2>1. \A f \in kernel : f.n = e.n => f = e
    <3> SUFFICES ASSUME NEW f \in kernel, f.n = e.n PROVE f = e
      OBVIOUS
    <3>1. Numbered(ms_drm_seq, allocs, e.n, e.seq) /\ Numbered(ms_drm_seq, allocs, f.n, f.seq)
      BY <1>0 DEF SeqInv
    <3>2. e.seq = f.seq
      BY <1>0, <3>1, OneToOne DEF TypeOK
    <3> QED BY <1>0, <3>2 DEF TypeOK, Event
  <2> QED BY <1>7, <2>1 DEF OnceInv, KernelFires, stackVars, Queueing
<1>8. CASE \/ \E data \in Data : AbortMatching(data)
           \/ ms_vblank_screen_init \/ ms_vblank_close_screen \/ UNCHANGED vars
  BY <1>1, <1>8 DEF AbortMatching, ms_vblank_screen_init, ms_vblank_close_screen, vars,
                    kernelVars, stackVars, Queueing
<1> QED BY <1>2, <1>3, <1>4, <1>5, <1>6, <1>7, <1>8 DEF Next, ServerStep

\* A handler runs when the event of its request has arrived, not before.
LEMMA WaitStep ==
    ASSUME IInv, OnceInv, WaitInv, [Next]_vars
    PROVE  WaitInv'
<1>0. TypeOK /\ SeqInv /\ depth \in Nat /\ MaxDepth \in Nat
  BY DrmQueueAssumption DEF IInv, TypeOK
<1>1. ASSUME handled' = handled,
             \A e \in kernel' \cup fd' \cup batch' :
               \/ \E f \in kernel \cup fd \cup batch : f.n = e.n
               \/ \E d \in Queueing : frame[d].n = e.n,
             \A d \in Queueing' : d \in Queueing /\ frame'[d] = frame[d]
      PROVE  WaitInv'
  BY <1>1 DEF WaitInv
<1>2. CASE QueueAccepted
  <2>1. /\ \A d \in Queueing' : d \in Queueing /\ frame'[d] = frame[d]
        /\ depth \in Queueing
    BY <1>0, <1>2 DEF QueueAccepted, Pop, Queueing, TypeOK, top
  <2>2. \A e \in kernel' : e \in kernel \/ e.n = frame[depth].n
    BY <1>2 DEF QueueAccepted, top
  <2> QED BY <1>1, <1>2, <2>1, <2>2 DEF QueueAccepted, queueVars
<1>3. CASE QueueRefused \/ EventsDone
  <2>1. \A d \in Queueing' : d \in Queueing /\ frame'[d] = frame[d]
    BY <1>0, <1>3 DEF QueueRefused, EventsDone, Pop, Queueing, TypeOK
  <2> QED BY <1>1, <1>3, <2>1
          DEF QueueRefused, EventsDone, kernelVars, ms_drm_abort_seq, AbortEntries, queueVars
<1>4. CASE QueueBusy \/ ms_drm_socket_handler
  <2>1. PICK E \in SUBSET fd : ReadEvents(E)
    BY <1>4 DEF QueueBusy, ms_drm_socket_handler
  <2>2. \A d \in Queueing' : d \in Queueing /\ frame'[d] = frame[d]
    BY <1>0, <2>1 DEF ReadEvents, Push, Queueing, TypeOK
  <2>3. \A e \in batch' : \E f \in fd \cup batch : f.n = e.n
    BY <2>1 DEF ReadEvents
  <2>4. \A e \in kernel' \cup fd' \cup batch' : \E f \in kernel \cup fd \cup batch : f.n = e.n
    BY <1>4, <2>1, <2>3 DEF ReadEvents, QueueBusy, ms_drm_socket_handler
  <2>5. handled' = handled
    BY <1>4 DEF QueueBusy, ms_drm_socket_handler, queueVars
  <2> QED BY <1>1, <2>2, <2>4, <2>5
<1>5. ASSUME NEW r \in batch, ms_drm_sequence_handler(r)
      PROVE  WaitInv'
  <2>1. \A d \in Queueing' : d \in Queueing /\ frame'[d] = frame[d]
    BY <1>0, <1>5 DEF ms_drm_sequence_handler, Queueing, TypeOK
  <2>2. \A q \in WithSeq(r.seq) : q.n = r.n
    BY <1>0, OneToOne DEF SeqInv, WithSeq, TypeOK
  <2>3. \A n \in Ids : n # r.n => handled'[n] = handled[n]
    BY <1>0, <1>5, <2>2 DEF ms_drm_sequence_handler, Newest, TypeOK
  <2>4. \A e \in kernel' \cup fd' \cup batch' : e \in kernel \cup fd \cup batch /\ e.n # r.n
    BY <1>5 DEF ms_drm_sequence_handler, OnceInv, kernelVars
  <2>5. \A d \in Queueing : frame[d].n # r.n
    BY DEF OnceInv
  <2>6. \A e \in kernel \cup fd \cup batch : e.n \in Ids
    BY <1>0 DEF TypeOK, Event, Read
  <2>7. \A d \in Queueing : frame[d].n \in Ids
    BY <1>0, DrmQueueAssumption DEF SeqInv, Numbered, Queueing, TypeOK, Ids
  <2> QED BY <2>1, <2>3, <2>4, <2>5, <2>6, <2>7 DEF WaitInv
<1>6. ASSUME NEW scrn \in Screens, NEW data \in Data, QueueRequest(scrn, data)
      PROVE  WaitInv'
  <2>1. /\ \A d \in Queueing' : d \in Queueing \/ d = depth + 1
        /\ \A d \in Queueing : frame'[d] = frame[d]
        /\ frame'[depth + 1].n = allocs + 1
    BY <1>0, <1>6 DEF QueueRequest, Push, Queueing, TypeOK
  <2>2. allocs + 1 \in Ids /\ allocs \in Nat
    BY <1>0, <1>6, DrmQueueAssumption DEF QueueRequest, ms_drm_queue_alloc, TypeOK, Ids
  <2>3. handled[allocs + 1] + aborted[allocs + 1] = 0
    BY <2>2 DEF IInv, CallbackOnce
  <2>4. handled[allocs + 1] = 0
    BY <1>0, <2>2, <2>3 DEF TypeOK
  <2> QED BY <1>6, <2>1, <2>4 DEF WaitInv, QueueRequest, ms_drm_queue_alloc, kernelVars
<1>7. ASSUME NEW e \in kernel, KernelFires(e)
      PROVE  WaitInv'
  BY <1>1, <1>7 DEF KernelFires, queueVars, stackVars, Queueing
<1>8. CASE \/ \E data \in Data : AbortMatching(data)
           \/ ms_vblank_screen_init \/ ms_vblank_close_screen \/ UNCHANGED vars
  BY <1>8 DEF AbortMatching, ms_drm_abort, ms_vblank_screen_init,
     ms_vblank_close_screen, ms_drm_abort_scrn, AbortEntries, vars, queueVars,
     kernelVars, stackVars, Queueing, WaitInv
<1> QED BY <1>2, <1>3, <1>4, <1>5, <1>6, <1>7, <1>8 DEF Next, ServerStep

-----------------------------------------------------------------------------
(* The refinement mapping *)

\* The ledger's state and ready, as the queue has them.
state == [n \in Ids |-> RequestState(n)]
ready == {e.n : e \in fd \cup batch}

\* What the mapping makes of a request.
LEMMA StateOf ==
    ASSUME IInv, NEW n \in Ids
    PROVE  /\ n > allocs => RequestState(n) = "new"
           /\ n <= allocs /\ n \in Pending => RequestState(n) = "pending"
           /\ n <= allocs /\ n \notin Pending /\ handled[n] # 0 => RequestState(n) = "handled"
           /\ n <= allocs /\ n \notin Pending /\ handled[n] = 0 => RequestState(n) = "aborted"
<1>1. n \in Nat /\ allocs \in Nat /\ handled[n] \in Nat /\ aborted[n] \in Nat
  BY DrmQueueAssumption DEF IInv, TypeOK, Ids
<1>2. handled[n] + aborted[n] = IF n <= allocs /\ n \notin Pending THEN 1 ELSE 0
  BY DEF IInv, CallbackOnce
<1> QED BY <1>1, <1>2 DEF RequestState

\* The same after a step.
LEMMA StateOfNext ==
    ASSUME IInv', NEW n \in Ids
    PROVE  /\ n > allocs' => RequestState(n)' = "new"
           /\ n <= allocs' /\ n \in Pending' => RequestState(n)' = "pending"
           /\ n <= allocs' /\ n \notin Pending' /\ handled'[n] # 0
                => RequestState(n)' = "handled"
           /\ n <= allocs' /\ n \notin Pending' /\ handled'[n] = 0
                => RequestState(n)' = "aborted"
<1>1. n \in Nat /\ allocs' \in Nat /\ handled'[n] \in Nat /\ aborted'[n] \in Nat
  BY DrmQueueAssumption DEF IInv, TypeOK, Ids
<1>2. handled'[n] + aborted'[n] = IF n <= allocs' /\ n \notin Pending' THEN 1 ELSE 0
  BY DEF IInv, CallbackOnce
<1> QED BY <1>1, <1>2 DEF RequestState

\* A step that changes no request and no callback changes no state.
LEMMA SameState ==
    ASSUME UNCHANGED queueVars
    PROVE  state' = state
  BY DEF queueVars, state, RequestState, Pending

\* A pending request is one that has been allocated.
LEMMA PendingAllocated ==
    ASSUME IInv, NEW q \in ms_drm_queue
    PROVE  q.n \in Ids /\ q.n <= allocs /\ q.n \in Pending
<1>1. Numbered(ms_drm_seq, allocs, q.n, q.seq) /\ allocs \in 0..MaxAllocs
  BY DEF IInv, SeqInv, TypeOK
<1> QED BY <1>1, DrmQueueAssumption DEF Numbered, Ids, Pending

\* Aborting entries is Cancel of their requests.
LEMMA AbortIsCancel ==
    ASSUME IInv, IInv', NEW S, S \subseteq ms_drm_queue, AbortEntries(S),
           UNCHANGED <<fd, batch>>
    PROVE  Ledger!LedgerNext
<1> DEFINE C == {q.n : q \in S}
<1>1. C \subseteq Ids /\ \A n \in C : RequestState(n) = "pending"
  BY StateOf, PendingAllocated
<1>2. \A n \in C : RequestState(n)' = "aborted"
  <2> SUFFICES ASSUME NEW n \in C PROVE RequestState(n)' = "aborted"
    OBVIOUS
  <2>1. n \in Ids /\ n <= allocs /\ n \in Pending
    BY PendingAllocated
  <2>2. n \notin Pending' /\ allocs' = allocs /\ handled' = handled
    BY DEF AbortEntries, Pending, IInv, UniqueInv
  <2>3. handled[n] = 0
    <3>1. handled[n] + aborted[n] = 0
      BY <2>1 DEF IInv, CallbackOnce
    <3>2. handled[n] \in Nat /\ aborted[n] \in Nat
      BY <2>1 DEF IInv, TypeOK
    <3> QED BY <3>1, <3>2
  <2>4. n <= allocs' /\ n \notin Pending' /\ handled'[n] = 0
    BY <2>1, <2>2, <2>3
  <2> QED BY <2>1, <2>4, StateOfNext
<1>3. \A n \in Ids \ C : RequestState(n)' = RequestState(n)
  <2> SUFFICES ASSUME NEW n \in Ids, n \notin C PROVE RequestState(n)' = RequestState(n)
    OBVIOUS
  <2>1. n \in Pending' <=> n \in Pending
    BY DEF AbortEntries, Pending
  <2>2. allocs' = allocs /\ handled'[n] = handled[n] /\ aborted'[n] = aborted[n]
    BY DEF AbortEntries
  <2> QED BY <2>1, <2>2 DEF RequestState
<1>4. state' = [n \in Ids |-> IF n \in C THEN "aborted" ELSE state[n]]
  BY <1>2, <1>3 DEF state
<1>5. Ledger!Cancel(C)
  BY <1>1, <1>4 DEF Ledger!Cancel, state
<1> QED BY <1>1, <1>5 DEF Ledger!LedgerNext

\* Allocating an entry is File of its request.
LEMMA RequestIsFile ==
    ASSUME IInv, IInv', NEW scrn \in Screens, NEW data \in Data, QueueRequest(scrn, data)
    PROVE  Ledger!LedgerNext
<1>0. PICK m \in Ids : m = allocs + 1
  BY DrmQueueAssumption DEF QueueRequest, ms_drm_queue_alloc, IInv, TypeOK, Ids
<1>1. m \in Ids /\ allocs \in Nat /\ m > allocs /\ allocs' = m
  BY <1>0 DEF QueueRequest, ms_drm_queue_alloc, IInv, TypeOK
<1>2. Pending' = Pending \cup {m} /\ UNCHANGED <<handled, aborted, fd, batch>>
  <2>1. PICK q : q.n = m /\ ms_drm_queue' = ms_drm_queue \cup {q}
    BY <1>0 DEF QueueRequest, ms_drm_queue_alloc
  <2>2. \A n : n \in Pending' <=> n \in Pending \cup {m}
    BY <2>1 DEF Pending
  <2>3. UNCHANGED <<handled, aborted, fd, batch>>
    BY DEF QueueRequest, ms_drm_queue_alloc, kernelVars
  <2> QED BY <2>2, <2>3
<1>3. RequestState(m) = "new"
  BY <1>1, StateOf
<1>4. RequestState(m)' = "pending"
  BY <1>1, <1>2, StateOfNext DEF Ids
<1>5. \A n \in Ids : n # m => RequestState(n)' = RequestState(n)
  <2> SUFFICES ASSUME NEW n \in Ids, n # m PROVE RequestState(n)' = RequestState(n)
    OBVIOUS
  <2>1. n \in Nat /\ (n <= allocs' <=> n <= allocs) /\ (n > allocs' <=> n > allocs)
    BY <1>0, <1>1, DrmQueueAssumption DEF Ids
  <2>2. n \in Pending' <=> n \in Pending
    BY <1>2
  <2> QED BY <1>2, <2>1, <2>2 DEF RequestState
<1>6. state' = [state EXCEPT ![m] = "pending"]
  BY <1>1, <1>4, <1>5 DEF state
<1>7. Ledger!File(m)
  BY <1>1, <1>2, <1>3, <1>6 DEF Ledger!File, state
<1> QED BY <1>1, <1>7 DEF Ledger!LedgerNext

\* An event that becomes readable is Fire of its request.
LEMMA KernelIsFire ==
    ASSUME IInv, OnceInv, NEW e \in kernel, KernelFires(e)
    PROVE  Ledger!LedgerNext
<1>1. e.n \in Ids /\ e.n <= allocs /\ allocs \in Nat
  <2>1. Numbered(ms_drm_seq, allocs, e.n, e.seq) /\ allocs \in 0..MaxAllocs
    BY DEF IInv, SeqInv, TypeOK
  <2> QED BY <2>1, DrmQueueAssumption DEF Numbered, Ids
<1>2. RequestState(e.n) # "new"
  BY <1>1, StateOf
<1>3. e.n \notin ready /\ ready' = ready \cup {e.n}
  BY DEF OnceInv, KernelFires, stackVars, ready
<1>4. state' = state
  BY SameState DEF KernelFires
<1>5. Ledger!Fire(e.n)
  BY <1>1, <1>2, <1>3, <1>4 DEF Ledger!Fire, state, ready
<1> QED BY <1>1, <1>5 DEF Ledger!LedgerNext

\* Dispatching an event is Complete of its request if that is still linked, and
\* Discard if it has been aborted: it is never the request of someone else.
LEMMA DispatchIsCompleteOrDiscard ==
    ASSUME IInv, IInv', OnceInv, WaitInv, NEW r \in batch, ms_drm_sequence_handler(r)
    PROVE  Ledger!LedgerNext
<1> DEFINE m == r.n
<1>1. Numbered(ms_drm_seq, allocs, m, r.seq)
  BY DEF IInv, SeqInv
<1>2. m \in Ids /\ m <= allocs /\ allocs' = allocs /\ aborted' = aborted
  BY <1>1, DrmQueueAssumption DEF Numbered, Ids, IInv, TypeOK, ms_drm_sequence_handler
<1>3. \A q \in ms_drm_queue : q \in WithSeq(r.seq) <=> q.n = m
  <2> SUFFICES ASSUME NEW q \in ms_drm_queue PROVE q.n = m <=> q.seq = r.seq
    BY DEF WithSeq
  <2>1. Numbered(ms_drm_seq, allocs, q.n, q.seq)
    BY DEF IInv, SeqInv
  <2>2. ms_drm_seq \in 0..(SeqModulus - 1) /\ allocs \in Nat
    BY DEF IInv, TypeOK
  <2> QED BY <1>1, <2>1, <2>2, OneToOne
<1>4. WithSeq(r.seq) = {q \in ms_drm_queue : q.n = m}
  BY <1>3 DEF WithSeq
<1>5. /\ ms_drm_queue' = {q \in ms_drm_queue : q.n # m}
      /\ handled' = [n \in Ids |-> IF \E q \in WithSeq(r.seq) : q.n = n
                                      THEN handled[n] + 1 ELSE handled[n]]
  BY <1>4, LookUp DEF ms_drm_sequence_handler
<1>6. m \in ready /\ ready' = ready \ {m}
  BY DEF ms_drm_sequence_handler, kernelVars, OnceInv, ready
<1>7. m \notin Pending' /\ \A n \in Ids : n # m => (n \in Pending' <=> n \in Pending)
  BY <1>5 DEF Pending
<1>8. \A n \in Ids : n # m => RequestState(n)' = RequestState(n)
  <2> SUFFICES ASSUME NEW n \in Ids, n # m PROVE RequestState(n)' = RequestState(n)
    OBVIOUS
  <2>1. handled'[n] = handled[n]
    BY <1>4, <1>5
  <2> QED BY <1>2, <1>7, <2>1 DEF RequestState
<1>9. handled[m] = 0
  BY DEF WaitInv
<1>10. CASE m \in Pending
  <2>1. \E q \in WithSeq(r.seq) : q.n = m
    BY <1>4, <1>10 DEF Pending
  <2>2. handled'[m] # 0
    BY <1>2, <1>5, <1>9, <2>1
  <2>3. RequestState(m) = "pending" /\ RequestState(m)' = "handled"
    BY <1>2, <1>7, <1>10, <2>2, StateOf, StateOfNext
  <2>4. state' = [state EXCEPT ![m] = "handled"]
    BY <1>2, <1>8, <2>3 DEF state
  <2>5. Ledger!Complete(m)
    BY <1>2, <1>6, <2>3, <2>4 DEF Ledger!Complete, state, ready
  <2> QED BY <1>2, <2>5 DEF Ledger!LedgerNext
<1>11. CASE m \notin Pending
  <2>1. handled'[m] = 0
    BY <1>2, <1>4, <1>5, <1>9, <1>11 DEF Pending
  <2>2. RequestState(m) = "aborted" /\ RequestState(m)' = "aborted"
    BY <1>2, <1>7, <1>9, <1>11, <2>1, StateOf, StateOfNext
  <2>3. state' = state
    BY <1>2, <1>8, <2>2 DEF state
  <2>4. Ledger!Discard(m)
    BY <1>2, <1>6, <2>2, <2>3 DEF Ledger!Discard, state, ready
  <2> QED BY <1>2, <2>4 DEF Ledger!LedgerNext
<1> QED BY <1>10, <1>11

\* Every step of the queue is a step of the ledger.
LEMMA StepRefines ==
    ASSUME IInv, IInv', OnceInv, WaitInv, [Next]_vars
    PROVE  [Ledger!LedgerNext]_(Ledger!ledgerVars)
<1>0. ASSUME state' = state, ready' = ready PROVE UNCHANGED Ledger!ledgerVars
  BY <1>0 DEF Ledger!ledgerVars, state, ready
<1>1. CASE QueueAccepted
  BY <1>0, <1>1, SameState DEF QueueAccepted, ready
<1>2. CASE EventsDone
  BY <1>0, <1>2, SameState DEF EventsDone, kernelVars, ready
<1>3. CASE QueueBusy \/ ms_drm_socket_handler
  <2>1. PICK E \in SUBSET fd : ReadEvents(E)
    BY <1>3 DEF QueueBusy, ms_drm_socket_handler
  <2>2. ready' = ready
    <3>1. \A n : n \in ready' => n \in ready
      BY <2>1 DEF ReadEvents, ready
    <3>2. \A e \in E : e.n \in ready'
      <4> SUFFICES ASSUME NEW e \in E PROVE e.n \in ready'
        OBVIOUS
      <4> DEFINE r == [n |-> e.n, seq |-> e.seq, at |-> depth + 1]
      <4>1. r \in batch' /\ r.n = e.n
        BY <2>1 DEF ReadEvents
      <4> QED BY <4>1 DEF ready
    <3>3. \A n : n \in ready => n \in ready'
      BY <2>1, <3>2 DEF ReadEvents, ready
    <3> QED BY <3>1, <3>3
  <2>3. state' = state
    BY <1>3, SameState DEF QueueBusy, ms_drm_socket_handler
  <2> QED BY <1>0, <2>2, <2>3
<1>4. CASE ms_vblank_screen_init
  BY <1>0, <1>4 DEF ms_vblank_screen_init, ListInit, IInv, LifeInv, kernelVars,
                    stackVars, state, RequestState, Pending, ready
<1>5. CASE UNCHANGED vars
  BY <1>0, <1>5, SameState DEF vars, kernelVars, stackVars, ready
<1>6. \A S : Newest(S) \subseteq S
  BY DEF Newest
<1>7. CASE QueueRefused
  BY <1>6, <1>7, AbortIsCancel DEF QueueRefused, ms_drm_abort_seq, WithSeq, kernelVars
<1>8. ASSUME NEW data \in Data, AbortMatching(data)
      PROVE  Ledger!LedgerNext
  <2> DEFINE S == {q \in ms_drm_queue : q.data = data}
  <2>1. Newest(S) \subseteq ms_drm_queue
    BY <1>6
  <2> QED BY <1>8, <2>1, AbortIsCancel DEF AbortMatching, ms_drm_abort, kernelVars, stackVars
<1>9. CASE ms_vblank_close_screen
  BY <1>9, AbortIsCancel DEF ms_vblank_close_screen, ms_drm_abort_scrn, kernelVars, stackVars
<1> QED BY <1>1, <1>2, <1>3, <1>4, <1>5, <1>7, <1>8, <1>9,
           RequestIsFile, KernelIsFire, DispatchIsCompleteOrDiscard
        DEF Next, ServerStep

\* The queue keeps the promises of the ledger: each request gets one of its two
\* callbacks, once, and the handler only for the event of that very request.
THEOREM QueueImplementsLedger == Spec => ImplementsLedger
<1>1. Init => Ledger!LedgerInit
  <2> SUFFICES ASSUME Init PROVE Ledger!LedgerInit
    OBVIOUS
  <2>1. \A n \in Ids : RequestState(n) = "new"
    BY InitIInv, StateOf, DrmQueueAssumption DEF Init, Ids
  <2> QED BY <2>1 DEF Init, Ledger!LedgerInit
<1>2. Init => OnceInv /\ WaitInv
  BY DEF Init, OnceInv, WaitInv, Queueing
<1>3. IInv /\ OnceInv /\ WaitInv /\ [Next]_vars => OnceInv' /\ WaitInv'
  BY OnceStep, WaitStep
<1>4. Spec => [](OnceInv /\ WaitInv)
  BY <1>2, <1>3, QueueInvariant, PTL DEF Spec
<1>5. IInv /\ IInv' /\ OnceInv /\ WaitInv /\ [Next]_vars
        => [Ledger!LedgerNext]_(Ledger!ledgerVars)
  BY StepRefines
<1> QED BY <1>1, <1>4, <1>5, QueueInvariant, PTL
        DEF Spec, ImplementsLedger, Ledger!LedgerSpec
=============================================================================
