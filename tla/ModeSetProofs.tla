--------------------------- MODULE ModeSetProofs ---------------------------
(***************************************************************************)
(* Proofs about module ModeSet, for any number of CRTCs, outputs, modes    *)
(* and faults.                                                             *)
(*                                                                         *)
(* What the driver keeps and what the kernel routes are related by         *)
(* Routing, whose parts are named below.  The argument:                    *)
(*  - A set of a mode is consistent because current_crtc says where every  *)
(*    connector goes (Knows) and every connector of a CRTC with a mode     *)
(*    goes there (Drives): a CRTC that loses connectors either is an       *)
(*    orphan, and is turned off, or keeps one that the kernel drives.      *)
(*  - xf86DisableUnusedFunctions then first frees the connectors without   *)
(*    a CRTC, so that every CRTC that is not enabled has none when it is   *)
(*    turned off.                                                          *)
(*  - The one request of DPMS gives each connector that is there its       *)
(*    CRTC, or none, whatever the order of the CRTCs.                      *)
(*  - drmmode_set_desired_modes detaches or sets CRTC after CRTC; those    *)
(*    behind the loop are routed as output->crtc says.                     *)
(* A loop of the model is a recursive function; LoopRuns shows that it has *)
(* a value, LoopKeeps that what each iteration keeps holds after it.       *)
(***************************************************************************)
EXTENDS ModeSet, WellFoundedInduction, TLAPS

-----------------------------------------------------------------------------
(* The invariant *)

\* Routes of connectors, and what the kernel can hold.
Maps    == [Outputs -> Crtcs \cup {None}]
Kernels == [conn : Maps, crtc : [Crtcs -> Nat]]
\* Why a request was first refused.
Reasons == {"none", "gone connector", "foreign routing", "inconsistent", "no blob", "lost"}

\* The values the variables can have.
Types ==
    /\ vtSema \in BOOLEAN /\ foreign \in BOOLEAN
    /\ crtc \in Maps /\ current_crtc \in Maps
    /\ enabled \in [Crtcs -> BOOLEAN] /\ dpms_mode \in [Crtcs -> BOOLEAN]
    /\ mode \in [Crtcs -> Nat \ {Off}]
    /\ output_id \in [Outputs -> BOOLEAN]
    /\ kernel \in Kernels
    /\ replugged \subseteq Outputs
    /\ refused \in Reasons

\* The kernel's routing is consistent, and what it drives is there.
Sound(K) == Consistent(K) /\ \A o \in Outputs : K.conn[o] # None => output_id[o]

\* What current_crtc says agrees with the server, but for CRTCs that are off.
Believes(cur, to, on) ==
    \A o \in Outputs : /\ to[o] # None => on[to[o]] /\ cur[o] = to[o]
                       /\ to[o] = None /\ cur[o] # None => ~on[cur[o]]

\* The kernel routes no connector to a CRTC current_crtc does not say.
Knows(K, cur) == \A o \in Outputs : K.conn[o] # None => cur[o] = K.conn[o]

\* The connectors of a CRTC that is on, or has a mode, are routed to it.
Drives(K, to, dpms, rep) ==
    \A o \in Outputs :
        /\ to[o] # None /\ (dpms[to[o]] \/ K.crtc[to[o]] # Off)
        /\ output_id[o] /\ o \notin rep
        => K.conn[o] = to[o]

\* Each CRTC that is enabled and has a mode has its own.
OwnModes(K, on, md) == \A c \in Crtcs : on[c] /\ K.crtc[c] # Off => K.crtc[c] = md[c]

\* No other has one.
Unused(K, on) == \A c \in Crtcs : ~on[c] => K.crtc[c] = Off

\* How the kernel K, current_crtc, output->crtc, enabled CRTCs and their modes agree; the
\* less, the less the server can know: after it left the VT, or when another routed.
Routing(K, cur, to, on, md, dpms, rep) ==
    /\ Believes(cur, to, on)
    /\ vtSema => OwnModes(K, on, md)
    /\ ~foreign => Knows(K, cur) /\ Drives(K, to, dpms, rep)

\* The inductive invariant.
RouteInv ==
    /\ Types
    /\ Sound(kernel)
    /\ refused # "inconsistent"
    /\ refused = "none" =>
         /\ Routing(kernel, current_crtc, crtc, enabled, mode, dpms_mode, replugged)
         /\ vtSema => Unused(kernel, enabled)

-----------------------------------------------------------------------------
(* Loops *)

\* A set of numbers that is not empty has a least one.
LEMMA LeastOne ==
    ASSUME NEW S \in SUBSET Nat, S # {}
    PROVE  \E k \in S : \A j \in S : k <= j
<1> DEFINE R == {p \in Nat \X Nat : p[1] < p[2]}
<1>1. IsWellFoundedOn(R, Nat)
  BY NatLessThanWellFounded DEF OpToRel
<1>2. PICK k \in S : \A j \in S : ~(<<j, k>> \in R)
  <2> HIDE DEF R
  <2>1. QED
    BY <1>1, WFMin
<1>3. ASSUME NEW j \in S PROVE k <= j
  <2>1. k \in Nat /\ j \in Nat
    OBVIOUS
  <2>2. <<j, k>> \in R <=> j < k
    BY <2>1
  <2>3. QED
    BY <1>2, <2>1, <2>2
<1> QED BY <1>3

\* F says what iteration i makes of each state of the loop.
Body(F, N, St) == F \in [1..N -> [St -> St]]

\* r has the states after each iteration.
Run(r, F, N, St, s) ==
    /\ r \in [0..N -> St]
    /\ r[0] = s
    /\ \A i \in 1..N : r[i] = F[i][r[i - 1]]

\* A loop can be run.
LEMMA LoopRuns ==
    ASSUME NEW N \in Nat, NEW St, NEW s \in St, NEW F, Body(F, N, St)
    PROVE  \E r : Run(r, F, N, St, s)
<1> DEFINE Good(n) ==
             \E r \in [0..n -> St] : r[0] = s /\ \A i \in 1..n : r[i] = F[i][r[i - 1]]
           Bad     == {n \in 0..N : ~Good(n)}
<1>1. Good(0)
  <2>1. [i \in 0..0 |-> s] \in [0..0 -> St] /\ [i \in 0..0 |-> s][0] = s /\ 1..0 = {}
    OBVIOUS
  <2> QED BY <2>1
<1>2. ASSUME NEW n \in 0..N, n + 1 \in 0..N, Good(n) PROVE Good(n + 1)
  <2>1. PICK r \in [0..n -> St] : r[0] = s /\ \A i \in 1..n : r[i] = F[i][r[i - 1]]
    BY <1>2
  <2> DEFINE q == [i \in 0..(n + 1) |-> IF i = n + 1 THEN F[n + 1][r[n]] ELSE r[i]]
  <2>2. r[n] \in St /\ n + 1 \in 1..N
    BY <1>2
  <2>3. F[n + 1][r[n]] \in St
    BY <2>2 DEF Body
  <2>4. q \in [0..(n + 1) -> St] /\ q[0] = s
    BY <2>1, <2>3
  <2>5. ASSUME NEW i \in 1..(n + 1) PROVE q[i] = F[i][q[i - 1]]
    <3>1. CASE i = n + 1
      <4>1. i - 1 = n /\ n \in 0..(n + 1) /\ n # n + 1
        BY <3>1
      <4>2. q[n] = r[n] /\ q[i] = F[n + 1][r[n]]
        BY <3>1, <4>1
      <4> HIDE DEF q
      <4> QED BY <3>1, <4>1, <4>2
    <3>2. CASE i # n + 1
      <4>1. i \in 1..n /\ q[i] = r[i] /\ q[i - 1] = r[i - 1]
        BY <3>2
      <4> QED BY <2>1, <4>1
    <3> QED BY <3>1, <3>2
  <2> HIDE DEF q
  <2> QED BY <2>4, <2>5
<1>3. Bad = {}
  <2> SUFFICES ASSUME Bad # {} PROVE FALSE
    OBVIOUS
  <2> HIDE DEF Good
  <2>1. PICK n \in Bad : \A k \in Bad : n <= k
    <3>1. Bad \in SUBSET Nat
      OBVIOUS
    <3> HIDE DEF Bad
    <3> QED BY <3>1, LeastOne
  <2>2. n # 0 /\ n - 1 \in 0..N /\ n - 1 \notin Bad /\ (n - 1) + 1 = n
    BY <1>1, <2>1
  <2> QED BY <1>2, <2>1, <2>2
<1>4. Good(N)
  <2> HIDE DEF Good
  <2> QED BY <1>3
<1> QED BY <1>4 DEF Run

\* What holds before the loop and is kept by each iteration holds all along.
LEMMA LoopKeeps ==
    ASSUME NEW N \in Nat, NEW A, 0 \in A,
           \A i \in 1..N : i - 1 \in A => i \in A
    PROVE  0..N \subseteq A
<1> DEFINE Bad == (0..N) \ A
<1>1. Bad = {}
  <2> SUFFICES ASSUME Bad # {} PROVE FALSE
    OBVIOUS
  <2>1. PICK n \in Bad : \A k \in Bad : n <= k
    <3>1. Bad \in SUBSET Nat
      OBVIOUS
    <3> HIDE DEF Bad
    <3> QED BY <3>1, LeastOne
  <2>2. n \in 1..N /\ n - 1 \notin Bad
    BY <2>1
  <2> QED BY <2>1, <2>2
<1> QED BY <1>1

-----------------------------------------------------------------------------
(* Requests *)

\* A request that is applied changes what it names.
LEMMA AppliedIs ==
    ASSUME NEW K \in Kernels, NEW conn, NEW md, NEW C \in SUBSET Outputs,
           NEW M \in SUBSET Crtcs,
           conn \in [C -> Crtcs \cup {None}], md \in [M -> Nat],
           NEW A, A = Applied(K, [conn |-> conn, crtc |-> md])
    PROVE  /\ A \in Kernels
           /\ \A o \in Outputs : A.conn[o] = IF o \in C THEN conn[o] ELSE K.conn[o]
           /\ \A d \in Crtcs : A.crtc[d] = IF d \in M THEN md[d] ELSE K.crtc[d]
<1>1. /\ A.conn = [o \in Outputs |-> IF o \in C THEN conn[o] ELSE K.conn[o]]
      /\ A.crtc = [d \in Crtcs |-> IF d \in M THEN md[d] ELSE K.crtc[d]]
      /\ A = [conn |-> A.conn, crtc |-> A.crtc]
  <2>1. DOMAIN conn \cup DOMAIN K.conn = Outputs /\ DOMAIN md \cup DOMAIN K.crtc = Crtcs
    BY DEF Kernels, Maps
  <2>2. DOMAIN conn = C /\ DOMAIN md = M
    OBVIOUS
  <2> QED BY <2>1, <2>2 DEF Applied, Over
<1>2. A.conn \in Maps
  BY <1>1 DEF Kernels, Maps
<1>3. A.crtc \in [Crtcs -> Nat]
  BY <1>1 DEF Kernels, Maps
<1> QED BY <1>1, <1>2, <1>3 DEF Kernels

\* What the output's CRTC is set to.
SetConn(to, cur, c, o, old) ==
    IF to[o] = c /\ output_id[o] THEN c ELSE IF to[o] # c /\ cur[o] = c THEN None ELSE old

Used(to, c) == \E o \in Outputs : to[o] = c /\ output_id[o]

Orphan(to, cur, c, d) ==
    /\ d # c
    /\ \E o \in Outputs : cur[o] = d
    /\ \A o \in Outputs : cur[o] = d => to[o] = c

\* A is what a set of the mode m on c makes of the routing K.
IsSet(A, K, to, cur, c, m) ==
    /\ A \in Kernels
    /\ \A o \in Outputs : A.conn[o] = SetConn(to, cur, c, o, K.conn[o])
    /\ A.crtc[c] = IF Used(to, c) THEN m ELSE Off
    /\ \A d \in Crtcs \ {c} : A.crtc[d] = IF Orphan(to, cur, c, d) THEN Off ELSE K.crtc[d]

\* The routing after the request of a set of a mode.
LEMMA SetApplied ==
    ASSUME NEW K \in Kernels, NEW to \in Maps, NEW cur \in Maps, NEW c \in Crtcs, NEW m \in Nat,
           NEW req, req = drmmode_crtc_set_mode([crtc |-> to, current |-> cur], c, m),
           NEW A, A = Applied(K, req)
    PROVE  IsSet(A, K, to, cur, c, m)
<1> DEFINE D == [crtc |-> to, current |-> cur]
           C == {o \in Outputs : to[o] # c /\ cur[o] = c} \cup Outs(D, c)
           M == {c} \cup Orphans(D, c)
           conn == [o \in C |-> IF o \in Outs(D, c) THEN c ELSE None]
           md == [d \in M |-> IF d \in Orphans(D, c) THEN Off
                              ELSE IF Outs(D, c) # {} THEN m ELSE Off]
<1>1. Outs(D, c) = {o \in Outputs : to[o] = c /\ output_id[o]}
  BY DEF Outs
<1>2. /\ Orphans(D, c) \subseteq Crtcs \ {c}
      /\ \A d \in Crtcs : d \in Orphans(D, c) <=> Orphan(to, cur, c, d)
  BY DEF Orphans, Orphan
<1>3. req = [conn |-> conn, crtc |-> md]
  <2> HIDE DEF D
  <2>1. D.crtc = to /\ D.current = cur
    BY DEF D
  <2>2. Over(Nothing, conn) = conn
    BY DEF Over, Nothing
  <2>3. Over([d \in Orphans(D, c) |-> Off],
             [d \in {c} |-> IF TRUE /\ Outs(D, c) # {} THEN m ELSE Off]) = md
    BY <1>2 DEF Over
  <2> QED
    BY <2>1, <2>2, <2>3 DEF drmmode_crtc_set_mode, Plus, crtc_add_dpms_props, D
<1>4. /\ C \in SUBSET Outputs /\ M \in SUBSET Crtcs
      /\ conn \in [C -> Crtcs \cup {None}] /\ md \in [M -> Nat]
  BY <1>1, <1>2 DEF None, Off
<1>6. /\ A \in Kernels
      /\ \A o \in Outputs : A.conn[o] = IF o \in C THEN conn[o] ELSE K.conn[o]
      /\ \A d \in Crtcs : A.crtc[d] = IF d \in M THEN md[d] ELSE K.crtc[d]
  <2> HIDE DEF C, M, conn, md
  <2> QED BY <1>3, <1>4, AppliedIs
<1>7. \A o \in Outputs : A.conn[o] = SetConn(to, cur, c, o, K.conn[o])
  BY <1>1, <1>6 DEF SetConn
<1>8. A.crtc[c] = IF Used(to, c) THEN m ELSE Off
  BY <1>1, <1>2, <1>6 DEF Used
<1>9. \A d \in Crtcs \ {c} : A.crtc[d] = IF Orphan(to, cur, c, d) THEN Off ELSE K.crtc[d]
  BY <1>2, <1>6
<1> QED BY <1>6, <1>7, <1>8, <1>9 DEF IsSet

\* The request is consistent if the driver knows the routing, and a CRTC that keeps an
\* output in current_crtc keeps one in the kernel.
LEMMA SetConsistent ==
    ASSUME NEW K \in Kernels, NEW to \in Maps, NEW cur \in Maps, NEW c \in Crtcs,
           NEW m \in Nat \ {Off}, NEW A, IsSet(A, K, to, cur, c, m),
           Sound(K), Knows(K, cur),
           \A d \in Crtcs \ {c} :
              K.crtc[d] # Off /\ (\E o \in Outputs : cur[o] = d /\ to[o] # c)
              => \E o \in Outputs : K.conn[o] = d /\ to[o] # c
    PROVE  Consistent(A)
<1> SUFFICES ASSUME NEW d \in Crtcs
             PROVE  A.crtc[d] # Off <=> \E o \in Outputs : A.conn[o] = d
  BY DEF Consistent
<1>0. d # None /\ m # Off /\ \A o \in Outputs : A.conn[o] = SetConn(to, cur, c, o, K.conn[o])
  BY DEF IsSet, Crtcs, None, Off
<1>1. \A o \in Outputs : K.conn[o] # None => cur[o] = K.conn[o] /\ output_id[o]
  BY DEF Knows, Sound
<1>2. CASE d = c
  <2>1. A.crtc[d] # Off <=> Used(to, c)
    BY <1>0, <1>2 DEF IsSet
  <2>2. \A o \in Outputs : A.conn[o] = c <=> to[o] = c /\ output_id[o]
    BY <1>0, <1>1, <1>2 DEF SetConn
  <2> QED BY <1>2, <2>1, <2>2 DEF Used
<1>3. CASE d # c
  <2>1. \A o \in Outputs : A.conn[o] = d <=> K.conn[o] = d /\ to[o] # c
    BY <1>0, <1>1, <1>3 DEF SetConn
  <2>2. K.crtc[d] # Off <=> \E o \in Outputs : K.conn[o] = d
    BY DEF Sound, Consistent
  <2>3. CASE Orphan(to, cur, c, d)
    <3>1. A.crtc[d] = Off
      BY <1>3, <2>3 DEF IsSet
    <3>2. \A o \in Outputs : K.conn[o] = d => to[o] = c
      BY <1>0, <1>1, <2>3 DEF Orphan
    <3> QED BY <2>1, <3>1, <3>2
  <2>4. CASE ~Orphan(to, cur, c, d)
    <3>1. A.crtc[d] = K.crtc[d]
      BY <1>3, <2>4 DEF IsSet
    <3>2. ASSUME K.crtc[d] # Off PROVE \E o \in Outputs : A.conn[o] = d
      <4>1. PICK p \in Outputs : K.conn[p] = d
        BY <2>2, <3>2
      <4>2. cur[p] = d
        BY <1>0, <1>1, <4>1
      <4>3. \E o \in Outputs : cur[o] = d /\ to[o] # c
        BY <1>3, <2>4, <4>2 DEF Orphan
      <4> QED BY <1>3, <2>1, <3>2, <4>3
    <3>3. ASSUME \E o \in Outputs : A.conn[o] = d PROVE K.crtc[d] # Off
      BY <2>1, <2>2, <3>3
    <3> QED BY <3>1, <3>2, <3>3
  <2> QED BY <2>3, <2>4
<1> QED BY <1>2, <1>3

\* What is driven after it is there.
LEMMA SetSound ==
    ASSUME NEW K \in Kernels, NEW to \in Maps, NEW cur \in Maps, NEW c \in Crtcs,
           NEW m \in Nat \ {Off}, NEW A, IsSet(A, K, to, cur, c, m),
           Sound(K), Consistent(A)
    PROVE  Sound(A)
BY DEF Sound, IsSet, SetConn

\* current_crtc after it.
LEMMA AdoptIs ==
    ASSUME NEW to \in Maps, NEW cur \in Maps, NEW c \in Crtcs,
           NEW new, new = Adopt([crtc |-> to, current |-> cur], c)
    PROVE  /\ new \in Maps
           /\ \A o \in Outputs : new[o] = IF to[o] = c THEN c
                                          ELSE IF cur[o] = c THEN None ELSE cur[o]
BY DEF Adopt, Maps

\* The driver knows the routing after it if it did before.
LEMMA SetKnows ==
    ASSUME NEW K \in Kernels, NEW to \in Maps, NEW cur \in Maps, NEW c \in Crtcs,
           NEW m \in Nat \ {Off}, NEW A, IsSet(A, K, to, cur, c, m),
           Sound(K), Knows(K, cur),
           NEW new, new = Adopt([crtc |-> to, current |-> cur], c)
    PROVE  Knows(A, new)
<1>1. \A o \in Outputs : A.conn[o] = SetConn(to, cur, c, o, K.conn[o])
  BY DEF IsSet
<1>2. \A o \in Outputs : new[o] = IF to[o] = c THEN c
                                  ELSE IF cur[o] = c THEN None ELSE cur[o]
  BY AdoptIs
<1>3. \A o \in Outputs : K.conn[o] # None => cur[o] = K.conn[o] /\ output_id[o]
  BY DEF Knows, Sound
<1> QED BY <1>1, <1>2, <1>3 DEF Knows, SetConn

\* A request that would be inconsistent names connectors that are there, and no other
\* owner of the VT has routed.
LEMMA ReasonIs ==
    ASSUME NEW req, foreign \in BOOLEAN
    PROVE  /\ Reason(req) \in Reasons \ {"none"}
           /\ Reason(req) = "inconsistent" =>
                /\ ~foreign /\ \A o \in DOMAIN req.conn : output_id[o]
                /\ \A o \in Outputs : current_crtc[o] # None => output_id[o]
                    /\ o \notin replugged
BY DEF Reason, Reasons

-----------------------------------------------------------------------------
(* The outputs and CRTCs that are turned off after a set of a mode *)

OffStates == [kernel : Kernels, current : Maps, refused : Reasons]

\* What holds of the loop's state S while they are turned off.
OffInv(S, to, on, md, dpms, rep) ==
    /\ S \in OffStates
    /\ Sound(S.kernel)
    /\ S.refused # "inconsistent"
    /\ S.refused = "none" => Routing(S.kernel, S.current, to, on, md, dpms, rep)

\* The connectors that go with output o.
GoesWith(to, cur, o, p) ==
    \/ p = o
    \/ cur[o] # None /\ to[p] # cur[o] /\ cur[p] = cur[o]
    \/ cur[o] # None /\ to[p] = cur[o] /\ output_id[p]

\* The routing after the request that turns an output off.
LEMMA DisableApplied ==
    ASSUME NEW K \in Kernels, NEW to \in Maps, NEW cur \in Maps, NEW o \in Outputs,
           NEW req, req = drmmode_output_disable([crtc |-> to, current |-> cur], o),
           NEW A, A = Applied(K, req)
    PROVE  /\ A \in Kernels
           /\ \A p \in Outputs : A.conn[p] = IF GoesWith(to, cur, o, p) THEN None ELSE K.conn[p]
           /\ \A d \in Crtcs : A.crtc[d] = IF d = cur[o] THEN Off ELSE K.crtc[d]
<1> DEFINE D == [crtc |-> to, current |-> cur]
           c == cur[o]
           G == {p \in Outputs : GoesWith(to, cur, o, p)}
           M == IF c = None THEN {} ELSE {c}
           conn == [p \in G |-> None]
           md == [d \in M |-> Off]
<1>1. c \in Crtcs \cup {None}
  BY DEF Maps
<1>2. Outs(D, c) = {p \in Outputs : to[p] = c /\ output_id[p]}
  BY DEF Outs
<1>3. req = [conn |-> conn, crtc |-> md]
  <2>1. CASE c = None
    <3>1. G = {o} /\ M = {}
      BY <2>1 DEF GoesWith
    <3> QED
      BY <2>1, <3>1 DEF drmmode_output_disable, Nothing
  <2>2. CASE c # None
    <3> DEFINE leaving == {p \in Outputs : to[p] # c /\ cur[p] = c}
    <3>1. G = {o} \cup (leaving \cup Outs(D, c)) /\ M = {c}
      BY <1>2, <2>2 DEF GoesWith
    <3> DEFINE first == [conn |-> [p \in {o} |-> None], crtc |-> Nothing]
               props == crtc_add_dpms_props(D, c, FALSE, Off)
    <3>2. req = Plus(first, props)
      BY <2>2 DEF drmmode_output_disable
    <3>3. /\ props.conn = [p \in leaving \cup Outs(D, c) |-> None]
          /\ props.crtc = [d \in {c} |-> Off]
      BY DEF crtc_add_dpms_props
    <3>4. Over(props.conn, first.conn) = conn
      BY <3>1, <3>3 DEF Over
    <3>5. Over(props.crtc, first.crtc) = md
      BY <3>1, <3>3 DEF Over, Nothing
    <3> HIDE DEF first, props, conn, md, D, c
    <3> QED BY <3>2, <3>4, <3>5 DEF Plus
  <2> QED BY <2>1, <2>2
<1>4. /\ G \in SUBSET Outputs /\ M \in SUBSET Crtcs
      /\ conn \in [G -> Crtcs \cup {None}] /\ md \in [M -> Nat]
  BY <1>1 DEF None, Off
<1>5. /\ A \in Kernels
      /\ \A p \in Outputs : A.conn[p] = IF p \in G THEN conn[p] ELSE K.conn[p]
      /\ \A d \in Crtcs : A.crtc[d] = IF d \in M THEN md[d] ELSE K.crtc[d]
  <2> HIDE DEF G, M, conn, md
  <2> QED BY <1>3, <1>4, AppliedIs
<1>6. \A d \in Crtcs : d \in M <=> d = c
  BY DEF Crtcs, None
<1> QED BY <1>5, <1>6

\* To turn an unused output off is consistent if the driver knows the routing.
LEMMA DisableConsistent ==
    ASSUME NEW K \in Kernels, NEW to \in Maps, NEW cur \in Maps, NEW on, NEW o \in Outputs,
           NEW A,
           \A p \in Outputs : A.conn[p] = IF GoesWith(to, cur, o, p) THEN None ELSE K.conn[p],
           \A d \in Crtcs : A.crtc[d] = IF d = cur[o] THEN Off ELSE K.crtc[d],
           Sound(K), Knows(K, cur), Believes(cur, to, on)
    PROVE  Consistent(A)
<1> SUFFICES ASSUME NEW d \in Crtcs
             PROVE  A.crtc[d] # Off <=> \E p \in Outputs : A.conn[p] = d
  BY DEF Consistent
<1>1. d # None
  BY DEF Crtcs, None
<1>2. \A p \in Outputs : K.conn[p] # None => cur[p] = K.conn[p] /\ output_id[p]
  BY DEF Knows, Sound
<1>3. CASE d = cur[o]
  <2>1. \A p \in Outputs : A.conn[p] # d
    BY <1>1, <1>2, <1>3 DEF GoesWith
  <2> QED BY <1>3, <2>1
<1>4. CASE d # cur[o]
  <2>1. \A p \in Outputs : K.conn[p] = d => ~GoesWith(to, cur, o, p)
    BY <1>1, <1>2, <1>4 DEF GoesWith, Believes
  <2>2. \A p \in Outputs : A.conn[p] = d <=> K.conn[p] = d
    BY <1>1, <2>1
  <2>3. A.crtc[d] = K.crtc[d]
    BY <1>4
  <2> QED BY <2>2, <2>3 DEF Sound, Consistent
<1> QED BY <1>3, <1>4

\* The unused connectors are routed nowhere.
Cleared(K, to, n) ==
    \A o \in Outputs : o <= n /\ to[o] = None /\ output_id[o] => K.conn[o] = None

\* One output of the first loop.
LEMMA OutputOffStep ==
    ASSUME vtSema \in BOOLEAN, foreign \in BOOLEAN,
           NEW to \in Maps, NEW cur, NEW on, NEW md, NEW dpms, NEW rep,
           NEW S, OffInv(S, to, on, md, dpms, rep), NEW o \in Outputs, NEW T,
           T = OutputOff([crtc |-> to, current |-> cur], S, o)
    PROVE  /\ OffInv(T, to, on, md, dpms, rep)
           /\ (vtSema /\ S.refused = "none" => Cleared(S.kernel, to, o - 1))
              => (vtSema /\ T.refused = "none" => Cleared(T.kernel, to, o))
<1> DEFINE D == [crtc |-> to, current |-> S.current]
           req == drmmode_output_disable(D, o)
           A == Applied(S.kernel, req)
           new == [S.current EXCEPT ![o] = None]
<1>0. S \in OffStates /\ S.kernel \in Kernels /\ S.current \in Maps /\ S.refused \in Reasons
  BY DEF OffInv, OffStates
<1>1. T = IF to[o] # None \/ ~output_id[o] THEN S
          ELSE IF vtSema /\ Accepts(S.kernel, req)
          THEN [kernel |-> A, current |-> new, refused |-> S.refused]
          ELSE IF vtSema
          THEN [kernel |-> S.kernel, current |-> S.current,
                refused |-> First(S.refused, Reason(req))] ELSE S
  <2>1. [[crtc |-> to, current |-> cur] EXCEPT !.current = S.current] = D
    OBVIOUS
  <2>2. [S EXCEPT !.refused = First(@, Reason(req))]
          = [kernel |-> S.kernel, current |-> S.current,
             refused |-> First(S.refused, Reason(req))]
    BY <1>0 DEF OffStates
  <2>3. [crtc |-> to, current |-> cur].crtc = to
    OBVIOUS
  <2> QED BY <2>1, <2>2, <2>3 DEF OutputOff
<1>2. \A p \in Outputs : p <= o => p <= o - 1 \/ p = o
  BY DEF Outputs
<1>3. /\ A \in Kernels
      /\ \A p \in Outputs : A.conn[p] = IF GoesWith(to, S.current, o, p) THEN None
                                        ELSE S.kernel.conn[p]
      /\ \A d \in Crtcs : A.crtc[d] = IF d = S.current[o] THEN Off ELSE S.kernel.crtc[d]
  <2> HIDE DEF A
  <2> QED BY <1>0, DisableApplied DEF A
<1>4. /\ Reason(req) \in Reasons \ {"none"}
      /\ Reason(req) = "inconsistent" => ~foreign /\ \A p \in DOMAIN req.conn : output_id[p]
  BY ReasonIs
<1> HIDE DEF D, req, A, new
<1>5. CASE T = S /\ (to[o] # None \/ ~output_id[o])
  BY <1>2, <1>5 DEF Cleared
<1>6. CASE T = S /\ ~vtSema
  BY <1>6
<1>7. CASE /\ to[o] = None /\ output_id[o] /\ vtSema /\ Accepts(S.kernel, req)
           /\ T = [kernel |-> A, current |-> new, refused |-> S.refused]
  <2>1. Sound(A)
    <3>1. Consistent(A)
      BY <1>7 DEF Accepts, A
    <3> QED BY <1>3, <3>1 DEF OffInv, Sound
  <2>2. /\ new \in Maps
        /\ \A p \in Outputs : new[p] = IF p = o THEN None ELSE S.current[p]
    BY <1>0 DEF new, Maps
  <2>3. T \in OffStates /\ T.refused = S.refused /\ S.refused # "inconsistent"
    BY <1>0, <1>3, <1>7, <2>2 DEF OffStates, OffInv
  <2>4. ASSUME S.refused = "none"
        PROVE  Routing(A, new, to, on, md, dpms, rep)
    <3>1. Routing(S.kernel, S.current, to, on, md, dpms, rep)
      BY <2>4 DEF OffInv
    <3>2. Believes(new, to, on)
      BY <1>7, <2>2, <3>1 DEF Routing, Believes
    <3>3. OwnModes(A, on, md)
      BY <1>3, <1>7, <3>1 DEF Routing, OwnModes
    <3>4. ASSUME ~foreign PROVE Knows(A, new)
      BY <1>3, <2>2, <3>1, <3>4 DEF Routing, Knows, GoesWith
    <3>5. ASSUME ~foreign PROVE Drives(A, to, dpms, rep)
      <4> SUFFICES ASSUME NEW p \in Outputs, to[p] # None,
                          dpms[to[p]] \/ A.crtc[to[p]] # Off,
                          output_id[p], p \notin rep
                   PROVE  A.conn[p] = to[p]
        BY DEF Drives
      <4>1. to[p] \in Crtcs /\ on[to[p]] /\ S.current[p] = to[p]
        BY <3>1 DEF Routing, Believes, Maps
      <4>2. S.current[o] # None => ~on[S.current[o]]
        BY <1>7, <3>1 DEF Routing, Believes
      <4>3. dpms[to[p]] \/ S.kernel.crtc[to[p]] # Off
        BY <1>3, <4>1
      <4>4. S.kernel.conn[p] = to[p]
        BY <3>1, <3>5, <4>3 DEF Routing, Drives
      <4>5. ~GoesWith(to, S.current, o, p)
        BY <1>7, <4>1, <4>2 DEF GoesWith
      <4> QED BY <1>3, <4>4, <4>5
    <3> QED BY <3>2, <3>3, <3>4, <3>5 DEF Routing
  <2>5. ASSUME Cleared(S.kernel, to, o - 1) PROVE Cleared(A, to, o)
    BY <1>2, <1>3, <1>7, <2>5 DEF Cleared, GoesWith
  <2>6. T.kernel = A /\ T.current = new
    BY <1>7
  <2> QED BY <1>7, <2>1, <2>3, <2>4, <2>5, <2>6 DEF OffInv
<1>8. CASE /\ to[o] = None /\ output_id[o] /\ vtSema /\ ~Accepts(S.kernel, req)
           /\ T = [kernel |-> S.kernel, current |-> S.current,
                   refused |-> First(S.refused, Reason(req))]
  <2>1. T.refused \in Reasons \ {"none"} /\ T \in OffStates
    BY <1>0, <1>4, <1>8 DEF First, OffStates
  <2>2. T.kernel = S.kernel /\ T.current = S.current
    BY <1>8
  <2>3. S.refused = "none" => Reason(req) # "inconsistent"
    <3> SUFFICES ASSUME S.refused = "none", Reason(req) = "inconsistent" PROVE FALSE
      OBVIOUS
    <3>1. Routing(S.kernel, S.current, to, on, md, dpms, rep)
      BY DEF OffInv
    <3>2. ~foreign /\ Knows(S.kernel, S.current) /\ Believes(S.current, to, on)
      BY <1>4, <3>1 DEF Routing
    <3>3. Consistent(A)
      BY <1>0, <1>3, <3>2, DisableConsistent DEF OffInv
    <3> QED BY <1>4, <1>8, <3>3 DEF Accepts, A
  <2>4. T.refused # "inconsistent"
    BY <1>8, <2>3 DEF First, OffInv
  <2> QED BY <2>1, <2>2, <2>4 DEF OffInv
<1> QED
  BY <1>1, <1>5, <1>6, <1>7, <1>8

\* One CRTC of the second loop.
LEMMA CrtcOffStep ==
    ASSUME vtSema \in BOOLEAN, foreign \in BOOLEAN,
           NEW to \in Maps, NEW on, NEW md, NEW dpms, NEW rep,
           NEW S, OffInv(S, to, on, md, dpms, rep), NEW c \in Crtcs, ~on[c],
           vtSema /\ S.refused = "none" => Cleared(S.kernel, to, NumOutputs),
           NEW T, T = CrtcOff(S, c)
    PROVE  /\ OffInv(T, to, on, md, dpms, rep)
           /\ T.kernel.conn = S.kernel.conn
           /\ T.refused = "none" => S.refused = "none"
           /\ \A d \in Crtcs : S.kernel.crtc[d] = Off => T.kernel.crtc[d] = Off
           /\ vtSema /\ T.refused = "none" => T.kernel.crtc[c] = Off
<1> DEFINE req == drmmode_crtc_disable(c)
           A == Applied(S.kernel, req)
<1>0. S \in OffStates /\ S.kernel \in Kernels /\ S.current \in Maps /\ S.refused \in Reasons
  BY DEF OffInv, OffStates
<1>1. T = IF vtSema /\ Accepts(S.kernel, req)
          THEN [kernel |-> A, current |-> S.current, refused |-> S.refused]
          ELSE IF vtSema
          THEN [kernel |-> S.kernel, current |-> S.current,
                refused |-> First(S.refused, Reason(req))] ELSE S
  <2>1. [S EXCEPT !.kernel = Applied(@, req)]
          = [kernel |-> A, current |-> S.current, refused |-> S.refused]
    BY <1>0 DEF OffStates
  <2>2. [S EXCEPT !.refused = First(@, Reason(req))]
          = [kernel |-> S.kernel, current |-> S.current,
             refused |-> First(S.refused, Reason(req))]
    BY <1>0 DEF OffStates
  <2> HIDE DEF A
  <2> QED BY <2>1, <2>2 DEF CrtcOff
<1>2. /\ A \in Kernels
      /\ \A p \in Outputs : A.conn[p] = S.kernel.conn[p]
      /\ \A d \in Crtcs : A.crtc[d] = IF d = c THEN Off ELSE S.kernel.crtc[d]
      /\ req.conn = Nothing
  <2>1. req = [conn |-> Nothing, crtc |-> [d \in {c} |-> Off]]
    BY DEF drmmode_crtc_disable
  <2>2. Nothing \in [{} -> Crtcs \cup {None}] /\ [d \in {c} |-> Off] \in [{c} -> Nat]
    BY DEF Nothing, Off
  <2>3. A = Applied(S.kernel, [conn |-> Nothing, crtc |-> [d \in {c} |-> Off]])
    BY <2>1
  <2> HIDE DEF A, req
  <2>4. /\ A \in Kernels
        /\ \A p \in Outputs : A.conn[p] = IF p \in {} THEN Nothing[p] ELSE S.kernel.conn[p]
        /\ \A d \in Crtcs : A.crtc[d] = IF d \in {c} THEN [e \in {c} |-> Off][d]
                                        ELSE S.kernel.crtc[d]
    <3> DEFINE f == [e \in {c} |-> Off]
               C == {}
    <3>1. C \in SUBSET Outputs /\ {c} \in SUBSET Crtcs
      OBVIOUS
    <3>2. Nothing \in [C -> Crtcs \cup {None}] /\ f \in [{c} -> Nat]
      BY <2>2
    <3>3. A = Applied(S.kernel, [conn |-> Nothing, crtc |-> f])
      BY <2>3
    <3> HIDE DEF f, C
    <3>4. /\ A \in Kernels
          /\ \A p \in Outputs : A.conn[p] = IF p \in C THEN Nothing[p] ELSE S.kernel.conn[p]
          /\ \A d \in Crtcs : A.crtc[d] = IF d \in {c} THEN f[d] ELSE S.kernel.crtc[d]
      BY <1>0, <3>1, <3>2, <3>3, AppliedIs
    <3> QED BY <3>4 DEF f, C
  <2> QED BY <2>1, <2>4
<1>3. A.conn = S.kernel.conn
  BY <1>0, <1>2 DEF Kernels, Maps
<1>4. /\ Reason(req) \in Reasons \ {"none"}
      /\ Reason(req) = "inconsistent" => ~foreign
  BY ReasonIs
<1> HIDE DEF req, A
<1>5. CASE T = S /\ ~vtSema
  BY <1>5
<1>6. CASE /\ vtSema /\ Accepts(S.kernel, req)
           /\ T = [kernel |-> A, current |-> S.current, refused |-> S.refused]
  <2>1. Sound(A)
    <3>1. Consistent(A)
      BY <1>6 DEF Accepts, A
    <3> QED BY <1>2, <3>1 DEF OffInv, Sound
  <2>2. T \in OffStates /\ T.kernel = A /\ T.current = S.current /\ T.refused = S.refused
    BY <1>0, <1>2, <1>6 DEF OffStates
  <2>3. ASSUME S.refused = "none"
        PROVE  Routing(A, S.current, to, on, md, dpms, rep)
    <3>1. Routing(S.kernel, S.current, to, on, md, dpms, rep)
      BY <2>3 DEF OffInv
    <3>2. OwnModes(A, on, md)
      BY <1>2, <1>6, <3>1 DEF Routing, OwnModes
    <3>3. ASSUME ~foreign PROVE Knows(A, S.current) /\ Drives(A, to, dpms, rep)
      <4>1. Knows(S.kernel, S.current) /\ Drives(S.kernel, to, dpms, rep)
        BY <3>1, <3>3 DEF Routing
      <4>2. Knows(A, S.current)
        BY <1>3, <4>1 DEF Knows
      <4>3. \A p \in Outputs : to[p] # None => to[p] \in Crtcs
        BY DEF Maps
      <4>4. Drives(A, to, dpms, rep)
        BY <1>2, <4>1, <4>3 DEF Drives
      <4> QED BY <4>2, <4>4
    <3> QED BY <3>1, <3>2, <3>3 DEF Routing
  <2> QED BY <1>2, <1>3, <2>1, <2>2, <2>3 DEF OffInv
<1>7. CASE /\ vtSema /\ ~Accepts(S.kernel, req)
           /\ T = [kernel |-> S.kernel, current |-> S.current,
                   refused |-> First(S.refused, Reason(req))]
  <2>1. T.refused \in Reasons \ {"none"} /\ T \in OffStates
    BY <1>0, <1>4, <1>7 DEF First, OffStates
  <2>2. T.kernel = S.kernel /\ T.current = S.current
    BY <1>7
  <2>3. S.refused = "none" => Reason(req) # "inconsistent"
    <3> SUFFICES ASSUME S.refused = "none", Reason(req) = "inconsistent" PROVE FALSE
      OBVIOUS
    <3>1. ~foreign /\ Knows(S.kernel, S.current) /\ Believes(S.current, to, on)
      BY <1>4 DEF Routing, OffInv
    <3>2. Cleared(S.kernel, to, NumOutputs) /\ Sound(S.kernel)
      BY <1>7 DEF OffInv
    <3>3. \A p \in Outputs : S.kernel.conn[p] # c
      <4> SUFFICES ASSUME NEW p \in Outputs, S.kernel.conn[p] = c PROVE FALSE
        OBVIOUS
      <4>1. c # None /\ p <= NumOutputs
        BY ModeSetAssumption DEF Crtcs, Outputs, None
      <4>2. S.current[p] = c /\ output_id[p]
        BY <3>1, <3>2, <4>1 DEF Knows, Sound
      <4>3. to[p] # None
        BY <3>2, <4>1, <4>2 DEF Cleared
      <4> QED BY <3>1, <4>2, <4>3 DEF Believes
    <3>4. Consistent(A)
      BY <1>2, <3>2, <3>3 DEF Consistent, Sound
    <3>5. DOMAIN req.conn = {}
      BY <1>2 DEF Nothing
    <3> QED BY <1>7, <3>4, <3>5 DEF Accepts, A
  <2>4. T.refused # "inconsistent"
    BY <1>7, <2>3 DEF First, OffInv
  <2>5. vtSema /\ T.refused # "none"
    BY <1>7, <2>1
  <2> QED BY <2>1, <2>2, <2>4, <2>5 DEF OffInv
<1> QED
  BY <1>1, <1>5, <1>6, <1>7

\* After the loop over the outputs the unused connectors are routed nowhere.
LEMMA OutputsOffIs ==
    ASSUME vtSema \in BOOLEAN, foreign \in BOOLEAN,
           NEW to \in Maps, NEW cur, NEW on, NEW md, NEW dpms, NEW rep,
           NEW S, OffInv(S, to, on, md, dpms, rep),
           NEW T, T = OutputsOff([crtc |-> to, current |-> cur], S)
    PROVE  /\ OffInv(T, to, on, md, dpms, rep)
           /\ vtSema /\ T.refused = "none" => Cleared(T.kernel, to, NumOutputs)
<1> DEFINE D == [crtc |-> to, current |-> cur]
           Good(x) == OffInv(x, to, on, md, dpms, rep)
           Clean1(x, n) == vtSema /\ x.refused = "none" => Cleared(x.kernel, to, n)
           St == {x \in OffStates : Good(x)}
           off == CHOOSE r : r = [o \in 0..NumOutputs |->
                                    IF o = 0 THEN S ELSE OutputOff(D, r[o - 1], o)]
<1>0. NumOutputs \in Nat /\ Outputs = 1..NumOutputs
  BY ModeSetAssumption DEF Outputs
<1>1. T = off[NumOutputs]
  BY DEF OutputsOff
<1>2. \A x, o : Good(x) /\ o \in Outputs =>
                   /\ Good(OutputOff(D, x, o))
                   /\ Clean1(x, o - 1) => Clean1(OutputOff(D, x, o), o)
  BY OutputOffStep
<1>3. \A x : Good(x) => x \in OffStates
  BY DEF OffInv
<1> HIDE DEF Good, D
<1>4. \E r : r = [o \in 0..NumOutputs |-> IF o = 0 THEN S ELSE OutputOff(D, r[o - 1], o)]
  <2> DEFINE F == [o \in 1..NumOutputs |-> [x \in St |-> OutputOff(D, x, o)]]
  <2>1. Body(F, NumOutputs, St)
    BY <1>0, <1>2, <1>3 DEF Body
  <2>2. \A x \in St, o \in 1..NumOutputs : F[o][x] = OutputOff(D, x, o)
    OBVIOUS
  <2>3. S \in St
    BY <1>3 DEF Good
  <2> HIDE DEF F, St
  <2>4. PICK r : Run(r, F, NumOutputs, St, S)
    BY <1>0, <2>1, <2>3, LoopRuns
  <2>5. \A o \in 0..NumOutputs : r[o] = IF o = 0 THEN S ELSE OutputOff(D, r[o - 1], o)
    <3>1. \A o \in 1..NumOutputs : o \in 0..NumOutputs /\ o - 1 \in 0..NumOutputs /\ o # 0
      BY <1>0
    <3>2. \A o \in 0..NumOutputs : o = 0 \/ o \in 1..NumOutputs
      BY <1>0
    <3> QED BY <2>2, <2>4, <3>1, <3>2 DEF Run
  <2> QED BY <2>4, <2>5 DEF Run
<1>5. off = [o \in 0..NumOutputs |-> IF o = 0 THEN S ELSE OutputOff(D, off[o - 1], o)]
  BY <1>4
<1> HIDE DEF off
<1> DEFINE A == {o \in 0..NumOutputs : Good(off[o]) /\ Clean1(off[o], o)}
<1>6. 0 \in A
  <2>1. off[0] = S
    BY <1>0, <1>5
  <2>2. Clean1(S, 0)
    BY <1>0 DEF Cleared
  <2> QED BY <1>0, <2>1, <2>2 DEF Good
<1>7. \A o \in 1..NumOutputs : o - 1 \in A => o \in A
  <2> SUFFICES ASSUME NEW o \in 1..NumOutputs, o - 1 \in A PROVE o \in A
    OBVIOUS
  <2>1. off[o] = OutputOff(D, off[o - 1], o)
    BY <1>0, <1>5
  <2> HIDE DEF Clean1
  <2>2. Good(off[o - 1]) /\ Clean1(off[o - 1], o - 1)
    OBVIOUS
  <2> QED BY <1>0, <1>2, <2>1, <2>2
<1>8. NumOutputs \in A
  <2> HIDE DEF A
  <2> QED BY <1>0, <1>6, <1>7, LoopKeeps
<1> QED BY <1>1, <1>8 DEF Good

\* After the loop over the CRTCs no other CRTC has a mode.
LEMMA CrtcsOffIs ==
    ASSUME vtSema \in BOOLEAN, foreign \in BOOLEAN,
           NEW to \in Maps, NEW on \in [Crtcs -> BOOLEAN], NEW md, NEW dpms, NEW rep,
           NEW S, OffInv(S, to, on, md, dpms, rep),
           vtSema /\ S.refused = "none" => Cleared(S.kernel, to, NumOutputs),
           NEW T, T = CrtcsOff(S, on)
    PROVE  /\ OffInv(T, to, on, md, dpms, rep)
           /\ vtSema /\ T.refused = "none" => Unused(T.kernel, on)
<1> DEFINE Good(x) == /\ OffInv(x, to, on, md, dpms, rep)
                      /\ vtSema /\ x.refused = "none" => Cleared(x.kernel, to, NumOutputs)
           Free(x, n) == vtSema /\ x.refused = "none" =>
                           \A d \in Crtcs : d <= n /\ ~on[d] => x.kernel.crtc[d] = Off
           St == {x \in OffStates : Good(x)}
           Step(x, c) == IF on[c] THEN x ELSE CrtcOff(x, c)
           off == CHOOSE r : r = [c \in 0..NumCrtcs |->
                                    IF c = 0 THEN S ELSE Step(r[c - 1], c)]
<1>0. NumCrtcs \in Nat /\ Crtcs = 1..NumCrtcs
  BY ModeSetAssumption DEF Crtcs
<1>1. T = off[NumCrtcs]
  BY DEF CrtcsOff
<1>2. \A x, c : Good(x) /\ c \in Crtcs =>
                   /\ Good(Step(x, c))
                   /\ Free(x, c - 1) => Free(Step(x, c), c)
  <2> SUFFICES ASSUME NEW x, NEW c \in Crtcs, Good(x)
               PROVE  /\ Good(Step(x, c))
                      /\ Free(x, c - 1) => Free(Step(x, c), c)
    OBVIOUS
  <2>1. \A d \in Crtcs : d <= c => d <= c - 1 \/ d = c
    BY <1>0
  <2>2. CASE on[c]
    <3>1. Step(x, c) = x
      BY <2>2
    <3>2. Free(x, c - 1) => Free(x, c)
      BY <2>1, <2>2
    <3> HIDE DEF Step, Free, Good
    <3> QED BY <3>1, <3>2
  <2>3. CASE ~on[c]
    <3>1. Step(x, c) = CrtcOff(x, c)
      BY <2>3
    <3> DEFINE y == CrtcOff(x, c)
    <3>2. /\ OffInv(y, to, on, md, dpms, rep)
          /\ y.kernel.conn = x.kernel.conn
          /\ y.refused = "none" => x.refused = "none"
          /\ \A d \in Crtcs : x.kernel.crtc[d] = Off => y.kernel.crtc[d] = Off
          /\ vtSema /\ y.refused = "none" => y.kernel.crtc[c] = Off
      <4> HIDE DEF y
      <4> QED BY <2>3, CrtcOffStep DEF y
    <3> HIDE DEF y
    <3>3. Good(y)
      BY <3>2 DEF Cleared
    <3>4. Free(x, c - 1) => Free(y, c)
      BY <2>1, <3>2
    <3> HIDE DEF Step, Free, Good
    <3> QED BY <3>1, <3>3, <3>4 DEF y
  <2> QED BY <2>2, <2>3
<1>3. \A x : Good(x) => x \in OffStates
  BY DEF OffInv
<1>4. Good(S) /\ Free(S, 0)
  BY <1>0
<1> HIDE DEF Good, Step
<1>5. \E r : r = [c \in 0..NumCrtcs |-> IF c = 0 THEN S ELSE Step(r[c - 1], c)]
  <2> DEFINE F == [c \in 1..NumCrtcs |-> [x \in St |-> Step(x, c)]]
  <2>1. Body(F, NumCrtcs, St)
    BY <1>0, <1>2, <1>3 DEF Body
  <2>2. \A x \in St, c \in 1..NumCrtcs : F[c][x] = Step(x, c)
    OBVIOUS
  <2>3. S \in St
    BY <1>3, <1>4
  <2> HIDE DEF F, St
  <2>4. PICK r : Run(r, F, NumCrtcs, St, S)
    BY <1>0, <2>1, <2>3, LoopRuns
  <2>5. \A c \in 0..NumCrtcs : r[c] = IF c = 0 THEN S ELSE Step(r[c - 1], c)
    <3>1. \A c \in 1..NumCrtcs : c \in 0..NumCrtcs /\ c - 1 \in 0..NumCrtcs /\ c # 0
      BY <1>0
    <3>2. \A c \in 0..NumCrtcs : c = 0 \/ c \in 1..NumCrtcs
      BY <1>0
    <3> QED BY <2>2, <2>4, <3>1, <3>2 DEF Run
  <2> QED BY <2>4, <2>5 DEF Run
<1>6. off = [c \in 0..NumCrtcs |-> IF c = 0 THEN S ELSE Step(off[c - 1], c)]
  BY <1>5
<1> HIDE DEF off
<1> DEFINE A == {c \in 0..NumCrtcs : Good(off[c]) /\ Free(off[c], c)}
<1>7. 0 \in A
  <2>1. off[0] = S
    BY <1>0, <1>6
  <2> HIDE DEF Free
  <2> QED BY <1>0, <1>4, <2>1
<1>8. \A c \in 1..NumCrtcs : c - 1 \in A => c \in A
  <2> SUFFICES ASSUME NEW c \in 1..NumCrtcs, c - 1 \in A PROVE c \in A
    OBVIOUS
  <2>1. off[c] = Step(off[c - 1], c)
    BY <1>0, <1>6
  <2> HIDE DEF Free
  <2>2. Good(off[c - 1]) /\ Free(off[c - 1], c - 1)
    OBVIOUS
  <2> QED BY <1>0, <1>2, <2>1, <2>2
<1>9. NumCrtcs \in A
  <2> HIDE DEF A
  <2>1. 0..NumCrtcs \subseteq A
    BY <1>0, <1>7, <1>8, LoopKeeps
  <2> QED BY <1>0, <2>1
<1>10. Good(T) /\ Free(T, NumCrtcs)
  BY <1>1, <1>9
<1> QED BY <1>0, <1>10 DEF Good, Unused

\* Both loops: what holds before them still does, and no unused CRTC has a mode.
LEMMA DisableUnusedIs ==
    ASSUME vtSema \in BOOLEAN, foreign \in BOOLEAN,
           NEW to \in Maps, NEW cur, NEW on \in [Crtcs -> BOOLEAN], NEW md, NEW dpms, NEW rep,
           NEW S, OffInv(S, to, on, md, dpms, rep),
           NEW T, T = DisableUnused([crtc |-> to, current |-> cur], S, on)
    PROVE  /\ OffInv(T, to, on, md, dpms, rep)
           /\ vtSema /\ T.refused = "none" => Unused(T.kernel, on)
<1> DEFINE U == OutputsOff([crtc |-> to, current |-> cur], S)
<1>1. T = CrtcsOff(U, on)
  BY DEF DisableUnused
<1> HIDE DEF U
<1>2. /\ OffInv(U, to, on, md, dpms, rep)
      /\ vtSema /\ U.refused = "none" => Cleared(U.kernel, to, NumOutputs)
  BY OutputsOffIs DEF U
<1> QED BY <1>1, <1>2, CrtcsOffIs

\* What the driver and RandR make of it when all is done: the CRTCs that are off are
\* marked so, and the connectors that came back are driven.
LEMMA Settled ==
    ASSUME vtSema \in BOOLEAN, foreign \in BOOLEAN,
           NEW K, NEW cur, NEW to, NEW on, NEW md, NEW dpms, NEW rep, NEW dpms1, NEW rep1,
           Routing(K, cur, to, on, md, dpms, rep),
           \A o \in Outputs : to[o] # None /\ dpms1[to[o]] => dpms[to[o]],
           \A o \in Outputs : o \in rep => o \in rep1 \/ K.conn[o] = to[o]
    PROVE  Routing(K, cur, to, on, md, dpms1, rep1)
BY DEF Routing, Drives

-----------------------------------------------------------------------------
(* RandR *)

\* CRTC c is given the outputs O.
Given(c, O, to) ==
    /\ to \in Maps
    /\ \A o \in Outputs : to[o] = IF o \in O THEN c ELSE IF crtc[o] = c THEN None ELSE crtc[o]

\* A request for a set of a mode that the kernel does not accept names a connector that
\* is gone, or another owner of the VT has routed.
LEMMA RandRAccepts ==
    ASSUME RouteInv, refused = "none", vtSema,
           NEW c \in Crtcs, NEW O \in SUBSET Outputs, NEW m \in Nat \ {Off},
           NEW to, Given(c, O, to),
           NEW req, req = drmmode_crtc_set_mode([crtc |-> to, current |-> current_crtc], c, m),
           ~Accepts(kernel, req)
    PROVE  Reason(req) # "inconsistent"
<1> SUFFICES ASSUME Reason(req) = "inconsistent" PROVE FALSE
  OBVIOUS
<1> DEFINE A == Applied(kernel, req)
<1>1. /\ ~foreign /\ \A o \in DOMAIN req.conn : output_id[o]
      /\ \A o \in Outputs : current_crtc[o] # None => output_id[o] /\ o \notin replugged
  BY ReasonIs DEF RouteInv, Types
<1>2. /\ Believes(current_crtc, crtc, enabled) /\ Unused(kernel, enabled)
      /\ Knows(kernel, current_crtc) /\ Drives(kernel, crtc, dpms_mode, replugged)
      /\ Sound(kernel) /\ kernel \in Kernels /\ current_crtc \in Maps /\ crtc \in Maps
  BY <1>1 DEF RouteInv, Routing, Types
<1>3. IsSet(A, kernel, to, current_crtc, c, m)
  BY <1>2, SetApplied DEF Given
<1>4. ASSUME NEW d \in Crtcs \ {c}, kernel.crtc[d] # Off,
             NEW o \in Outputs, current_crtc[o] = d, to[o] # c
      PROVE  kernel.conn[o] = d
  <2>1. d # None
    BY DEF Crtcs, None
  <2>2. crtc[o] # c
    BY <1>2, <1>4 DEF Believes, Crtcs, None
  <2>3. to[o] = crtc[o]
    BY <1>4, <2>2 DEF Given
  <2>4. enabled[d]
    BY <1>2, <1>4 DEF Unused
  <2>5. crtc[o] = d
    BY <1>2, <1>4, <2>1, <2>4 DEF Believes
  <2> QED BY <1>1, <1>2, <1>4, <2>1, <2>5 DEF Drives
<1>5. \A d \in Crtcs \ {c} :
         kernel.crtc[d] # Off /\ (\E o \in Outputs : current_crtc[o] = d /\ to[o] # c)
         => \E o \in Outputs : kernel.conn[o] = d /\ to[o] # c
  BY <1>4
<1>6. Consistent(A)
  <2> HIDE DEF A
  <2> QED BY <1>2, <1>3, <1>5, SetConsistent DEF Given
<1> QED BY <1>1, <1>6 DEF Accepts

\* A set of a mode that is accepted routes as the driver believes.
LEMMA RandRRoutes ==
    ASSUME RouteInv, refused = "none", vtSema,
           NEW c \in Crtcs, NEW O \in SUBSET Outputs, NEW m \in Nat \ {Off},
           NEW to, Given(c, O, to),
           NEW A, IsSet(A, kernel, to, current_crtc, c, m),
           NEW new, new = Adopt([crtc |-> to, current |-> current_crtc], c)
    PROVE  Routing(A, new, to, [enabled EXCEPT ![c] = TRUE], [mode EXCEPT ![c] = m],
                   [d \in Crtcs |-> d = c \/ dpms_mode[d]], replugged)
<1> DEFINE on == [enabled EXCEPT ![c] = TRUE]
           md == [mode EXCEPT ![c] = m]
           dpms == [d \in Crtcs |-> d = c \/ dpms_mode[d]]
<1>1. /\ \A d \in Crtcs : on[d] = (d = c \/ enabled[d])
      /\ \A d \in Crtcs : md[d] = IF d = c THEN m ELSE mode[d]
      /\ \A d \in Crtcs : dpms[d] = (d = c \/ dpms_mode[d])
  BY DEF RouteInv, Types
<1> HIDE DEF on, md, dpms
<1>2. /\ Believes(current_crtc, crtc, enabled) /\ OwnModes(kernel, enabled, mode)
      /\ Unused(kernel, enabled) /\ Sound(kernel) /\ kernel \in Kernels
      /\ current_crtc \in Maps /\ crtc \in Maps
      /\ ~foreign => Knows(kernel, current_crtc) /\ Drives(kernel, crtc, dpms_mode, replugged)
  BY DEF RouteInv, Routing, Types
<1>3. to \in Maps /\ \A o \in Outputs : to[o] = IF o \in O THEN c
                                                ELSE IF crtc[o] = c THEN None ELSE crtc[o]
  BY DEF Given
<1>4. \A o \in Outputs : new[o] = IF to[o] = c THEN c
                                  ELSE IF current_crtc[o] = c THEN None ELSE current_crtc[o]
  BY <1>2, <1>3, AdoptIs
<1>5. c # None
  BY DEF Crtcs, None
<1>6. \A o \in Outputs : /\ to[o] \in Crtcs \cup {None} /\ crtc[o] \in Crtcs \cup {None}
                         /\ current_crtc[o] \in Crtcs \cup {None}
  BY <1>2, <1>3 DEF Maps
<1>7. Believes(new, to, on)
  <2> SUFFICES ASSUME NEW o \in Outputs
               PROVE  /\ to[o] # None => on[to[o]] /\ new[o] = to[o]
                      /\ to[o] = None /\ new[o] # None => ~on[new[o]]
    BY DEF Believes
  <2>1. /\ crtc[o] # None => enabled[crtc[o]] /\ current_crtc[o] = crtc[o]
        /\ crtc[o] = None /\ current_crtc[o] # None => ~enabled[current_crtc[o]]
    BY <1>2 DEF Believes
  <2>2. CASE to[o] = c
    BY <1>1, <1>4, <1>5, <2>2
  <2>3. CASE to[o] # c /\ to[o] # None
    <3>1. to[o] = crtc[o] /\ to[o] \in Crtcs
      BY <1>3, <1>6, <2>3
    <3> QED BY <1>1, <1>4, <2>1, <2>3, <3>1
  <2>4. CASE to[o] = None
    <3>1. o \notin O /\ (crtc[o] = c \/ crtc[o] = None)
      BY <1>3, <1>5, <2>4
    <3>2. new[o] # None => /\ new[o] = current_crtc[o] /\ current_crtc[o] # c
                           /\ current_crtc[o] \in Crtcs
      BY <1>4, <1>5, <1>6, <2>4
    <3> QED BY <1>1, <1>5, <2>1, <2>4, <3>1, <3>2
  <2> QED BY <2>2, <2>3, <2>4
<1>8. OwnModes(A, on, md)
  <2> SUFFICES ASSUME NEW d \in Crtcs, A.crtc[d] # Off PROVE A.crtc[d] = md[d]
    BY DEF OwnModes
  <2>1. CASE d = c
    BY <1>1, <2>1 DEF IsSet
  <2>2. CASE d # c
    <3>1. A.crtc[d] = kernel.crtc[d] /\ kernel.crtc[d] # Off
      BY <2>2 DEF IsSet
    <3> QED BY <1>1, <1>2, <2>2, <3>1 DEF OwnModes, Unused
  <2> QED BY <2>1, <2>2
<1>9. ASSUME ~foreign PROVE Knows(A, new)
  BY <1>2, <1>3, <1>9, SetKnows
<1>10. ASSUME ~foreign PROVE Drives(A, to, dpms, replugged)
  <2> SUFFICES ASSUME NEW o \in Outputs, to[o] # None, dpms[to[o]] \/ A.crtc[to[o]] # Off,
                      output_id[o], o \notin replugged
               PROVE  A.conn[o] = to[o]
    BY DEF Drives
  <2>1. A.conn[o] = SetConn(to, current_crtc, c, o, kernel.conn[o])
    BY DEF IsSet
  <2>2. CASE to[o] = c
    BY <2>1, <2>2 DEF SetConn
  <2>3. CASE to[o] # c
    <3>1. to[o] = crtc[o] /\ to[o] \in Crtcs
      BY <1>3, <1>6, <2>3
    <3>2. current_crtc[o] = crtc[o]
      BY <1>2, <3>1 DEF Believes, Crtcs, None
    <3>3. dpms_mode[to[o]] \/ kernel.crtc[to[o]] # Off
      BY <1>1, <2>3, <3>1 DEF IsSet
    <3>4. kernel.conn[o] = crtc[o]
      BY <1>2, <1>10, <3>1, <3>3 DEF Drives
    <3> QED BY <2>1, <2>3, <3>1, <3>2, <3>4 DEF SetConn
  <2> QED BY <2>2, <2>3
<1> QED BY <1>7, <1>8, <1>9, <1>10 DEF Routing, on, md, dpms

\* The outputs RandR leaves to the CRTCs.
LEMMA GivenIs ==
    ASSUME Types, NEW c \in Crtcs, NEW O \in SUBSET Outputs,
           NEW to, to = [o \in Outputs |-> IF o \in O THEN c
                                           ELSE IF crtc[o] = c THEN None ELSE crtc[o]]
    PROVE  Given(c, O, to)
BY DEF Types, Maps, Given

\* A mode is not Off.
LEMMA ModesArePositive ==
    ASSUME NEW c \in Crtcs
    PROVE  /\ Modes[c] \subseteq Nat \ {Off}
           /\ (CHOOSE m \in Modes[c] : TRUE) \in Nat \ {Off}
<1>1. Modes[c] \in (SUBSET (1..NumModes)) \ {{}} /\ NumModes \in Nat
  BY ModeSetAssumption DEF Crtcs
<1>2. Modes[c] \subseteq Nat \ {Off}
  BY <1>1 DEF Off
<1> QED BY <1>1, <1>2

\* The mode of a CRTC is set and the rest turned off.
LEMMA SetStep ==
    ASSUME RouteInv, NEW c \in Crtcs, NEW O \in SUBSET Outputs, NEW m \in Modes[c],
           NEW out \in {"set", "lost"}, RandRSet(c, O, m, out)
    PROVE  RouteInv'
<1> DEFINE to  == [o \in Outputs |-> IF o \in O THEN c
                                     ELSE IF crtc[o] = c THEN None ELSE crtc[o]]
           D   == [crtc |-> to, current |-> current_crtc]
           on  == [enabled EXCEPT ![c] = TRUE]
           md  == [mode EXCEPT ![c] = m]
           up  == [d \in Crtcs |-> d = c \/ dpms_mode[d]]
           req == drmmode_crtc_set_mode(D, c, m)
           A   == Applied(kernel, req)
           new == Adopt(D, c)
           S   == State(D, c, m, out)
           T   == DisableUnused(D, S, on)
<1>1. /\ refused = "none" /\ vtSema /\ Accepts(kernel, req)
      /\ crtc' = to /\ enabled' = on /\ mode' = md
      /\ dpms_mode' = [d \in Crtcs |-> (d = c \/ dpms_mode[d]) /\ on[d]]
      /\ kernel' = T.kernel /\ current_crtc' = T.current /\ refused' = T.refused
      /\ UNCHANGED <<vtSema, output_id, foreign>>
      /\ replugged' = {o \in replugged : kernel'.conn[o] # crtc'[o]}
  BY DEF RandRSet, Going, SetModeOutcome, Settle
<1>2. Types /\ m \in Nat \ {Off}
  BY ModesArePositive DEF RouteInv
<1>3. Given(c, O, to)
  BY <1>2, GivenIs
<1>4. to \in Maps /\ on \in [Crtcs -> BOOLEAN] /\ md \in [Crtcs -> Nat \ {Off}]
  BY <1>2, <1>3 DEF Given, Types
<1>5. S = IF out = "set" THEN [kernel |-> A, current |-> new, refused |-> "none"]
          ELSE [kernel |-> kernel, current |-> current_crtc, refused |-> "lost"]
  <2> HIDE DEF A, new
  <2>1. CASE out = "set"
    BY <1>1, <2>1 DEF State, Why, First, A, new
  <2>2. CASE out = "lost"
    BY <1>1, <2>2 DEF State, Why, First
  <2> QED BY <2>1, <2>2
<1>6. IsSet(A, kernel, to, current_crtc, c, m)
  <2> HIDE DEF A
  <2> QED BY <1>2, <1>4, SetApplied DEF Types, A
<1>7. new \in Maps
  <2> HIDE DEF to
  <2> QED BY <1>2, <1>4, AdoptIs DEF Types
<1>8. Routing(A, new, to, on, md, up, replugged)
  <2> HIDE DEF A, to
  <2> QED BY <1>1, <1>2, <1>3, <1>6, RandRRoutes
<1>9. OffInv(S, to, on, md, up, replugged)
  <2> HIDE DEF A, new, to, on, md, up, S
  <2>1. CASE out = "set"
    <3>1. S.kernel = A /\ S.current = new /\ S.refused = "none" /\ S \in OffStates
      BY <1>5, <1>6, <1>7, <2>1 DEF OffStates, IsSet, Reasons
    <3>2. Consistent(A)
      BY <1>1 DEF Accepts, A
    <3>3. Sound(A)
      BY <1>2, <1>4, <1>6, <3>2, SetSound DEF RouteInv, Types
    <3> QED BY <1>8, <3>1, <3>3 DEF OffInv
  <2>2. CASE out = "lost"
    <3>1. S.kernel = kernel /\ S.refused = "lost" /\ S \in OffStates
      BY <1>2, <1>5, <2>2 DEF OffStates, Reasons, Types
    <3> QED BY <3>1 DEF OffInv, RouteInv
  <2> QED BY <2>1, <2>2
<1>10. /\ OffInv(T, to, on, md, up, replugged)
       /\ vtSema /\ T.refused = "none" => Unused(T.kernel, on)
  <2> HIDE DEF S, to, on, md, up
  <2> QED BY <1>2, <1>4, <1>9, DisableUnusedIs DEF Types
<1> HIDE DEF to, on, md, S, T, A, new
<1>11. \A o \in Outputs : o \in replugged => o \in replugged' \/ kernel'.conn[o] = crtc'[o]
  BY <1>1
<1>12. up \in [Crtcs -> BOOLEAN] /\ dpms_mode' \in [Crtcs -> BOOLEAN]
  BY <1>1, <1>2, <1>4 DEF Types
<1>13. \A o \in Outputs : to[o] # None /\ dpms_mode'[to[o]] => up[to[o]]
  BY <1>1, <1>4 DEF Maps
<1> HIDE DEF up
<1>14. Types'
  BY <1>1, <1>2, <1>4, <1>10, <1>12 DEF Types, OffInv, OffStates
<1>15. Sound(kernel)' /\ (refused # "inconsistent")'
  BY <1>1, <1>10 DEF OffInv, Sound, Consistent
<1>16. ASSUME refused' = "none"
       PROVE  /\ Routing(kernel, current_crtc, crtc, enabled, mode, dpms_mode, replugged)'
              /\ Unused(kernel, enabled)'
  <2>1. Routing(T.kernel, T.current, to, on, md, up, replugged)
    BY <1>1, <1>10, <1>16 DEF OffInv
  <2>2. Routing(T.kernel, T.current, to, on, md, dpms_mode', replugged')
    BY <1>1, <1>2, <1>11, <1>13, <2>1, Settled DEF Types
  <2>3. Unused(T.kernel, on)
    BY <1>1, <1>10, <1>16
  <2> QED BY <1>1, <2>2, <2>3 DEF Routing, Believes, OwnModes, Knows, Drives, Unused
<1> QED BY <1>14, <1>15, <1>16 DEF RouteInv

\* It is not set: the server's configuration is put back.
LEMMA NotSetStep ==
    ASSUME RouteInv, NEW c \in Crtcs, NEW O \in SUBSET Outputs, NEW m \in Modes[c],
           NEW out \in {"blob", "refused"}, RandRSet(c, O, m, out)
    PROVE  RouteInv'
<1> DEFINE to  == [o \in Outputs |-> IF o \in O THEN c
                                     ELSE IF crtc[o] = c THEN None ELSE crtc[o]]
           D   == [crtc |-> to, current |-> current_crtc]
           req == drmmode_crtc_set_mode(D, c, m)
<1>1. /\ refused = "none"
      /\ refused' = First(refused, Why(D, c, m, out))
      /\ UNCHANGED <<crtc, enabled, mode, dpms_mode, current_crtc, kernel>>
      /\ UNCHANGED <<vtSema, output_id, foreign>>
      /\ replugged' = {o \in replugged : kernel'.conn[o] # crtc'[o]}
  BY DEF RandRSet, Going, Settle, serverVars
<1>2. Types /\ m \in Nat \ {Off}
  BY ModesArePositive DEF RouteInv
<1>3. Given(c, O, to)
  BY <1>2, GivenIs
<1>4. refused' \in Reasons \ {"inconsistent"}
  <2> HIDE DEF to
  <2>1. CASE out = "blob"
    BY <1>1, <2>1 DEF Why, First, Reasons
  <2>2. CASE out = "refused" /\ (~vtSema \/ Accepts(kernel, req))
    BY <1>1, <2>2 DEF Why, First, Reasons
  <2>3. CASE out = "refused" /\ vtSema /\ ~Accepts(kernel, req)
    <3>1. refused' = Reason(req)
      BY <1>1, <2>3 DEF Why, First
    <3> HIDE DEF req
    <3>2. Reason(req) \in Reasons
      BY <1>2, ReasonIs DEF Types
    <3>3. Reason(req) # "inconsistent"
      BY <1>1, <1>2, <1>3, <2>3, RandRAccepts DEF Types, req
    <3> QED BY <3>1, <3>2, <3>3
  <2> QED BY <1>2, <2>1, <2>2, <2>3 DEF Types
<1> HIDE DEF to, D, req
<1>5. \A o \in Outputs : o \in replugged => o \in replugged' \/ kernel.conn[o] = crtc[o]
  BY <1>1
<1>6. Types'
  BY <1>1, <1>2, <1>4 DEF Types
<1>7. Routing(kernel, current_crtc, crtc, enabled, mode, dpms_mode, replugged')
  BY <1>1, <1>2, <1>5, Settled DEF RouteInv, Types
<1>8. Routing(kernel, current_crtc, crtc, enabled, mode, dpms_mode, replugged)'
  BY <1>1, <1>7 DEF Routing, Believes, OwnModes, Knows, Drives
<1> QED
  BY <1>1, <1>4, <1>6, <1>8 DEF RouteInv, Sound, Consistent, Unused

\* A CRTC's mode is taken away.
LEMMA DisableStep ==
    ASSUME RouteInv, NEW c \in Crtcs, RandRDisable(c)
    PROVE  RouteInv'
<1> DEFINE to == [o \in Outputs |-> IF crtc[o] = c THEN None ELSE crtc[o]]
           D  == [crtc |-> to, current |-> current_crtc]
           on == [enabled EXCEPT ![c] = FALSE]
           S  == [kernel |-> kernel, current |-> current_crtc, refused |-> refused]
           T  == DisableUnused(D, S, on)
<1>1. /\ refused = "none" /\ enabled[c]
      /\ crtc' = to /\ enabled' = on /\ mode' = mode
      /\ dpms_mode' = [d \in Crtcs |-> dpms_mode[d] /\ on[d]]
      /\ kernel' = T.kernel /\ current_crtc' = T.current /\ refused' = T.refused
      /\ UNCHANGED <<vtSema, output_id, foreign>>
      /\ replugged' = {o \in replugged : kernel'.conn[o] # crtc'[o]}
  BY DEF RandRDisable, Going, AfterDisable, Settle
<1>2. Types /\ Routing(kernel, current_crtc, crtc, enabled, mode, dpms_mode, replugged)
  BY <1>1 DEF RouteInv
<1>3. /\ to \in Maps /\ on \in [Crtcs -> BOOLEAN]
      /\ \A o \in Outputs : to[o] = IF crtc[o] = c THEN None ELSE crtc[o]
      /\ \A d \in Crtcs : on[d] = (d # c /\ enabled[d])
  BY <1>2 DEF Types, Maps
<1>4. S \in OffStates /\ S.kernel = kernel /\ S.current = current_crtc /\ S.refused = refused
  BY <1>2 DEF Types, OffStates
<1> HIDE DEF to, on, S, T
<1>5. Routing(kernel, current_crtc, to, on, mode, dpms_mode, replugged)
  <2>1. Believes(current_crtc, to, on)
    <3> SUFFICES ASSUME NEW o \in Outputs
                 PROVE  /\ to[o] # None => on[to[o]] /\ current_crtc[o] = to[o]
                        /\ to[o] = None /\ current_crtc[o] # None => ~on[current_crtc[o]]
      BY DEF Believes
    <3>1. /\ crtc[o] # None => enabled[crtc[o]] /\ current_crtc[o] = crtc[o]
          /\ crtc[o] = None /\ current_crtc[o] # None => ~enabled[current_crtc[o]]
      BY <1>2 DEF Routing, Believes
    <3>2. crtc[o] \in Crtcs \cup {None} /\ current_crtc[o] \in Crtcs \cup {None} /\ c # None
      BY <1>2 DEF Types, Maps, Crtcs, None
    <3> QED BY <1>3, <3>1, <3>2
  <2>2. OwnModes(kernel, enabled, mode) => OwnModes(kernel, on, mode)
    BY <1>3 DEF OwnModes
  <2>3. Drives(kernel, crtc, dpms_mode, replugged) => Drives(kernel, to, dpms_mode, replugged)
    BY <1>3 DEF Drives
  <2> QED BY <1>2, <2>1, <2>2, <2>3 DEF Routing, Types
<1>6. OffInv(S, to, on, mode, dpms_mode, replugged)
  BY <1>4, <1>5 DEF OffInv, RouteInv
<1>7. /\ OffInv(T, to, on, mode, dpms_mode, replugged)
      /\ vtSema /\ T.refused = "none" => Unused(T.kernel, on)
  BY <1>2, <1>3, <1>6, DisableUnusedIs DEF Types, T, D
<1> HIDE DEF D
<1>8. \A o \in Outputs : o \in replugged => o \in replugged' \/ kernel'.conn[o] = crtc'[o]
  BY <1>1
<1>9. dpms_mode' \in [Crtcs -> BOOLEAN]
  BY <1>1, <1>2, <1>3 DEF Types
<1>10. \A o \in Outputs : to[o] # None /\ dpms_mode'[to[o]] => dpms_mode[to[o]]
  BY <1>1, <1>3 DEF Maps
<1>11. Types'
  BY <1>1, <1>2, <1>3, <1>7, <1>9 DEF Types, OffInv, OffStates
<1>12. Sound(kernel)' /\ (refused # "inconsistent")'
  BY <1>1, <1>7 DEF OffInv, Sound, Consistent
<1>13. ASSUME refused' = "none"
       PROVE  /\ Routing(kernel, current_crtc, crtc, enabled, mode, dpms_mode, replugged)'
              /\ (vtSema => Unused(kernel, enabled))'
  <2>1. Routing(T.kernel, T.current, to, on, mode, dpms_mode, replugged)
    BY <1>1, <1>7, <1>13 DEF OffInv
  <2>2. Routing(T.kernel, T.current, to, on, mode, dpms_mode', replugged')
    BY <1>1, <1>2, <1>8, <1>10, <2>1, Settled DEF Types
  <2>3. vtSema => Unused(T.kernel, on)
    BY <1>1, <1>7, <1>13
  <2> QED BY <1>1, <2>2, <2>3 DEF Routing, Believes, OwnModes, Knows, Drives, Unused
<1> QED BY <1>11, <1>12, <1>13 DEF RouteInv

-----------------------------------------------------------------------------
(* DPMS *)

\* The request of DPMS leaves each connector that is there with its CRTC, or with none.
LEMMA DpmsApplied ==
    ASSUME RouteInv, refused = "none", NEW on \in BOOLEAN,
           NEW req, req = DpmsRequest([crtc |-> crtc, current |-> current_crtc], on),
           NEW A, A = Applied(kernel, req)
    PROVE  /\ A \in Kernels
           /\ \A o \in Outputs : A.conn[o] = IF on /\ output_id[o] THEN crtc[o] ELSE None
           /\ \A d \in Crtcs : A.crtc[d] = IF on /\ Used(crtc, d) THEN mode[d] ELSE Off
<1> DEFINE D == [crtc |-> crtc, current |-> current_crtc]
           props(d) == crtc_add_dpms_props(D, d, on, mode[d])
           names(o) == {d \in Crtcs : o \in DOMAIN props(d).conn}
           last(o)  == CHOOSE d \in names(o) : \A e \in names(o) : e <= d
           C        == {p \in Outputs : crtc[p] = None \/ names(p) # {}}
           conn     == [o \in C |-> IF names(o) = {} THEN None ELSE props(last(o)).conn[o]]
           md       == [d \in Crtcs |-> props(d).crtc[d]]
<1>1. req = [conn |-> conn, crtc |-> md]
  BY DEF DpmsRequest
<1>2. \A d \in Crtcs : Outs(D, d) = {o \in Outputs : crtc[o] = d /\ output_id[o]}
  BY DEF Outs
<1>3. \A d \in Crtcs :
         /\ DOMAIN props(d).conn = {o \in Outputs : (crtc[o] # d /\ current_crtc[o] = d)
                                                    \/ (crtc[o] = d /\ output_id[o])}
         /\ \A o \in DOMAIN props(d).conn :
               props(d).conn[o] = IF on /\ crtc[o] = d /\ output_id[o] THEN d ELSE None
         /\ props(d).crtc[d] = IF on /\ Used(crtc, d) THEN mode[d] ELSE Off
  BY <1>2 DEF crtc_add_dpms_props, Used
<1>4. Types /\ Believes(current_crtc, crtc, enabled) /\ Sound(kernel)
  BY DEF RouteInv, Routing
<1> HIDE DEF props
<1>5. ASSUME NEW o \in Outputs
      PROVE  names(o) = IF crtc[o] = None
                          THEN {d \in Crtcs : d = current_crtc[o]}
                          ELSE {d \in Crtcs : d = crtc[o] /\ output_id[o]}
  <2>1. /\ crtc[o] # None => current_crtc[o] = crtc[o]
        /\ \A d \in Crtcs : d # None
    BY <1>4 DEF Believes, Crtcs, None
  <2>2. \A d \in Crtcs : d \in names(o) <=> \/ crtc[o] # d /\ current_crtc[o] = d
                                            \/ crtc[o] = d /\ output_id[o]
    BY <1>3
  <2> HIDE DEF names
  <2>3. names(o) \subseteq Crtcs
    BY DEF names
  <2> QED BY <2>1, <2>2, <2>3
<1>6. ASSUME NEW o \in C
      PROVE  conn[o] = IF on /\ output_id[o] THEN crtc[o] ELSE None
  <2>1. CASE names(o) = {}
    <3>1. crtc[o] = None
      BY <2>1
    <3> QED BY <2>1, <3>1
  <2>2. CASE names(o) # {}
    <3>1. last(o) \in names(o)
      <4>1. PICK d \in names(o) : names(o) = {d}
        BY <1>5, <2>2
      <4>2. d <= d
        BY DEF Crtcs
      <4> HIDE DEF names
      <4>3. \E e \in names(o) : \A f \in names(o) : f <= e
        BY <4>1, <4>2
      <4> QED BY <4>3
    <3>2. /\ last(o) \in Crtcs /\ o \in DOMAIN props(last(o)).conn
          /\ last(o) # None
      <4> HIDE DEF last
      <4>1. last(o) \in Crtcs /\ o \in DOMAIN props(last(o)).conn
        BY <3>1
      <4> QED BY <4>1 DEF Crtcs, None
    <3>3. conn[o] = props(last(o)).conn[o]
      BY <2>2
    <3>4. /\ crtc[o] = None => crtc[o] # last(o)
          /\ crtc[o] # None => last(o) = crtc[o]
      BY <1>5, <3>1, <3>2
    <3> HIDE DEF last, names, conn
    <3> QED BY <1>3, <3>2, <3>3, <3>4
  <2> QED BY <2>1, <2>2
<1>7. \A o \in Outputs : o \notin C => crtc[o] # None /\ ~output_id[o]
  <2> SUFFICES ASSUME NEW o \in Outputs, o \notin C PROVE crtc[o] # None /\ ~output_id[o]
    OBVIOUS
  <2>1. crtc[o] # None /\ names(o) = {}
    OBVIOUS
  <2>2. crtc[o] \in Crtcs
    BY <1>4, <2>1 DEF Types, Maps
  <2> HIDE DEF names
  <2> QED BY <1>5, <2>1, <2>2
<1>8. /\ C \in SUBSET Outputs /\ Crtcs \in SUBSET Crtcs
      /\ conn \in [C -> Crtcs \cup {None}] /\ md \in [Crtcs -> Nat]
  <2>1. \A o \in C : conn[o] \in Crtcs \cup {None}
    BY <1>4, <1>6 DEF Types, Maps
  <2>2. \A d \in Crtcs : md[d] \in Nat
    BY <1>3, <1>4 DEF Types, Off
  <2> HIDE DEF names, last
  <2> QED BY <2>1, <2>2
<1>9. /\ A \in Kernels
      /\ \A o \in Outputs : A.conn[o] = IF o \in C THEN conn[o] ELSE kernel.conn[o]
      /\ \A d \in Crtcs : A.crtc[d] = IF d \in Crtcs THEN md[d] ELSE kernel.crtc[d]
  <2> HIDE DEF C, conn, md
  <2> QED BY <1>1, <1>4, <1>8, AppliedIs DEF Types
<1>10. \A d \in Crtcs : md[d] = IF on /\ Used(crtc, d) THEN mode[d] ELSE Off
  BY <1>3
<1> HIDE DEF C, conn, md
<1>11. \A o \in Outputs : ~output_id[o] => kernel.conn[o] = None
  BY <1>4 DEF Sound
<1>12. \A o \in Outputs : A.conn[o] = IF on /\ output_id[o] THEN crtc[o] ELSE None
  BY <1>6, <1>7, <1>9, <1>11
<1> QED BY <1>9, <1>10, <1>12

\* DPMS turns all on or off.
LEMMA DpmsStep ==
    ASSUME RouteInv, NEW on \in BOOLEAN, drmmode_set_dpms(on)
    PROVE  RouteInv'
<1> DEFINE req == DpmsRequest([crtc |-> crtc, current |-> current_crtc], on)
           A   == Applied(kernel, req)
<1>1. /\ refused = "none" /\ vtSema
      /\ dpms_mode' = [c \in Crtcs |-> IF enabled[c] THEN on ELSE dpms_mode[c]]
      /\ UNCHANGED <<vtSema, crtc, enabled, mode, current_crtc, output_id, foreign>>
      /\ replugged' = {o \in replugged : kernel'.conn[o] # crtc'[o]}
      /\ \/ Accepts(kernel, req) /\ kernel' = A /\ refused' = refused
         \/ refused' = First(refused, "no blob") /\ kernel' = kernel
         \/ ~Accepts(kernel, req) /\ refused' = First(refused, Reason(req)) /\ kernel' = kernel
  BY DEF drmmode_set_dpms, Going, Settle
<1>2. /\ A \in Kernels
      /\ \A o \in Outputs : A.conn[o] = IF on /\ output_id[o] THEN crtc[o] ELSE None
      /\ \A d \in Crtcs : A.crtc[d] = IF on /\ Used(crtc, d) THEN mode[d] ELSE Off
  <2> HIDE DEF A
  <2> QED BY <1>1, DpmsApplied DEF A
<1>3. /\ Types /\ Believes(current_crtc, crtc, enabled) /\ Sound(kernel)
      /\ \A o \in Outputs : crtc[o] \in Crtcs \cup {None}
      /\ \A d \in Crtcs : d # None /\ mode[d] # Off
  <2>1. Types /\ Believes(current_crtc, crtc, enabled) /\ Sound(kernel)
    BY <1>1 DEF RouteInv, Routing
  <2>2. \A d \in Crtcs : d # None /\ mode[d] # Off
    BY <2>1 DEF Types, Crtcs, None
  <2> QED BY <2>1, <2>2 DEF Types, Maps
<1>4. Consistent(A)
  <2> HIDE DEF A
  <2> SUFFICES ASSUME NEW d \in Crtcs
               PROVE  A.crtc[d] # Off <=> \E o \in Outputs : A.conn[o] = d
    BY DEF Consistent
  <2>1. A.crtc[d] # Off <=> on /\ Used(crtc, d)
    BY <1>2, <1>3
  <2>2. \A o \in Outputs : A.conn[o] = d <=> on /\ output_id[o] /\ crtc[o] = d
    BY <1>2, <1>3
  <2> QED BY <2>1, <2>2 DEF Used
<1>5. ASSUME ~Accepts(kernel, req) PROVE Reason(req) \in Reasons \ {"none", "inconsistent"}
  <2> HIDE DEF req
  <2>1. ~\A o \in DOMAIN req.conn : output_id[o]
    BY <1>4, <1>5 DEF Accepts
  <2> QED BY <1>3, <2>1, ReasonIs DEF Types
<1> HIDE DEF A, req
<1>6. dpms_mode' \in [Crtcs -> BOOLEAN]
  BY <1>1, <1>3 DEF Types
<1>7. CASE kernel' = A /\ refused' = refused
  <2>1. Types'
    BY <1>1, <1>2, <1>3, <1>6, <1>7 DEF Types
  <2>2. Sound(A)
    <3>1. \A o \in Outputs : A.conn[o] # None => output_id[o]
      BY <1>2
    <3> QED BY <1>4, <3>1 DEF Sound
  <2>3. Knows(A, current_crtc)
    BY <1>2, <1>3 DEF Knows, Believes
  <2>4. ASSUME NEW d \in Crtcs, A.crtc[d] # Off PROVE enabled[d] /\ A.crtc[d] = mode[d] /\ on
    <3>1. on /\ Used(crtc, d) /\ A.crtc[d] = mode[d]
      BY <1>2, <2>4
    <3>2. PICK o \in Outputs : crtc[o] = d
      BY <3>1 DEF Used
    <3> QED BY <1>3, <3>1, <3>2 DEF Believes
  <2>5. Drives(A, crtc, dpms_mode', replugged')
    <3> SUFFICES ASSUME NEW o \in Outputs, crtc[o] # None,
                        dpms_mode'[crtc[o]] \/ A.crtc[crtc[o]] # Off, output_id[o]
                 PROVE  A.conn[o] = crtc[o]
      BY DEF Drives
    <3>1. crtc[o] \in Crtcs /\ enabled[crtc[o]]
      BY <1>3 DEF Believes
    <3>2. on
      BY <1>1, <2>4, <3>1
    <3> QED BY <1>2, <3>2
  <2>6. OwnModes(A, enabled, mode) /\ Unused(A, enabled)
    BY <1>3, <2>4 DEF OwnModes, Unused, Types
  <2>7. Routing(A, current_crtc, crtc, enabled, mode, dpms_mode', replugged')
    BY <1>3, <2>3, <2>5, <2>6 DEF Routing
  <2>8. Sound(kernel)' /\ (refused # "inconsistent")'
    BY <1>1, <1>7, <2>2 DEF Sound, Consistent
  <2>9. Routing(kernel, current_crtc, crtc, enabled, mode, dpms_mode, replugged)'
    BY <1>1, <1>7, <2>7 DEF Routing, Believes, OwnModes, Knows, Drives
  <2>10. Unused(kernel, enabled)'
    BY <1>1, <1>7, <2>6 DEF Unused
  <2> QED BY <2>1, <2>8, <2>9, <2>10 DEF RouteInv
<1>8. CASE kernel' = kernel /\ refused' \in Reasons \ {"none", "inconsistent"}
  <2>1. Types'
    BY <1>1, <1>3, <1>6, <1>8 DEF Types
  <2> QED BY <1>1, <1>3, <1>8, <2>1 DEF RouteInv, Sound, Consistent
<1>9. "no blob" \in Reasons \ {"none", "inconsistent"}
  BY DEF Reasons
<1> QED BY <1>1, <1>5, <1>7, <1>8, <1>9 DEF First

-----------------------------------------------------------------------------
(* Leaving the VT; connectors that come and go *)

\* The VT goes to an owner that routes as it likes.
LEMMA LeaveStep ==
    ASSUME RouteInv, LeaveVT
    PROVE  RouteInv'
<1>1. PICK conn \in Maps :
        /\ \A o \in Outputs : conn[o] # None => output_id[o]
        /\ kernel' = [conn |-> conn,
                      crtc |-> [c \in Crtcs |-> IF \E o \in Outputs : conn[o] = c
                                                THEN CHOOSE m \in Modes[c] : TRUE ELSE Off]]
        /\ foreign' = (foreign \/ conn # kernel.conn)
  BY DEF LeaveVT, Maps
<1>2. /\ refused = "none" /\ vtSema' = FALSE
      /\ UNCHANGED <<crtc, enabled, mode, dpms_mode, current_crtc, output_id, replugged,
          refused>>
  BY DEF LeaveVT, Going, serverVars
<1>3. /\ kernel'.conn = conn /\ kernel' \in Kernels
      /\ \A c \in Crtcs : kernel'.crtc[c] # Off <=> \E o \in Outputs : conn[o] = c
  <2> DEFINE f == [c \in Crtcs |-> IF \E o \in Outputs : conn[o] = c
                                   THEN CHOOSE m \in Modes[c] : TRUE ELSE Off]
  <2>1. \A c \in Crtcs : (CHOOSE m \in Modes[c] : TRUE) \in Nat \ {Off} /\ Off \in Nat
    BY ModesArePositive DEF Off
  <2>2. f \in [Crtcs -> Nat] /\ \A c \in Crtcs : f[c] # Off <=> \E o \in Outputs : conn[o] = c
    BY <2>1
  <2>3. kernel' = [conn |-> conn, crtc |-> f]
    BY <1>1
  <2> HIDE DEF f
  <2> QED BY <2>2, <2>3 DEF Kernels
<1>4. Types /\ Sound(kernel)
      /\ Routing(kernel, current_crtc, crtc, enabled, mode, dpms_mode, replugged)
  BY <1>2 DEF RouteInv
<1>5. Types'
  BY <1>1, <1>2, <1>3, <1>4 DEF Types
<1>6. Sound(kernel)'
  BY <1>1, <1>2, <1>3 DEF Sound, Consistent
<1>7. ASSUME ~foreign'
      PROVE  (Knows(kernel, current_crtc) /\ Drives(kernel, crtc, dpms_mode, replugged))'
  <2>1. ~foreign /\ conn = kernel.conn
    BY <1>1, <1>4, <1>7 DEF Types
  <2>2. Knows(kernel, current_crtc) /\ Drives(kernel, crtc, dpms_mode, replugged)
    BY <1>4, <2>1 DEF Routing
  <2>3. \A c \in Crtcs : kernel'.crtc[c] # Off <=> kernel.crtc[c] # Off
    BY <1>3, <1>4, <2>1 DEF Sound, Consistent
  <2>4. Knows(kernel, current_crtc)'
    BY <1>2, <1>3, <2>1, <2>2 DEF Knows
  <2>5. \A o \in Outputs : crtc[o] # None => crtc[o] \in Crtcs
    BY <1>4 DEF Types, Maps
  <2>6. Drives(kernel, crtc, dpms_mode, replugged)'
    BY <1>2, <1>3, <2>1, <2>2, <2>3, <2>5 DEF Drives
  <2> QED BY <2>4, <2>6
<1>8. Believes(current_crtc, crtc, enabled)'
  BY <1>2, <1>4 DEF Routing, Believes
<1> QED BY <1>2, <1>5, <1>6, <1>7, <1>8 DEF RouteInv, Routing

\* A connector goes, and its CRTC with the last one.
LEMMA UnplugStep ==
    ASSUME RouteInv, NEW o \in Outputs, Unplug(o)
    PROVE  RouteInv'
<1> DEFINE conn == [kernel.conn EXCEPT ![o] = None]
<1>1. /\ refused = "none"
      /\ output_id' = [output_id EXCEPT ![o] = FALSE]
      /\ replugged' = replugged \cup {o}
      /\ UNCHANGED <<vtSema, crtc, enabled, mode, dpms_mode, current_crtc, foreign, refused>>
  BY DEF Unplug, Going, serverVars
<1>2. Types /\ Sound(kernel)
      /\ Routing(kernel, current_crtc, crtc, enabled, mode, dpms_mode, replugged)
      /\ (vtSema => Unused(kernel, enabled))
  BY <1>1 DEF RouteInv
<1>3. kernel' = [conn |-> conn,
                 crtc |-> [c \in Crtcs |-> IF \E p \in Outputs : conn[p] = c
                                           THEN kernel.crtc[c] ELSE Off]]
  <2>1. [kernel EXCEPT !.conn[o] = None] = [conn |-> conn, crtc |-> kernel.crtc]
    BY <1>2 DEF Types, Kernels
  <2> DEFINE K == [kernel EXCEPT !.conn[o] = None]
  <2>2. kernel' = [K EXCEPT !.crtc = [c \in Crtcs |-> IF \E p \in Outputs : K.conn[p] = c
                                                      THEN K.crtc[c] ELSE Off]]
    BY DEF Unplug
  <2>3. K = [conn |-> conn, crtc |-> kernel.crtc]
    BY <2>1
  <2> HIDE DEF K, conn
  <2>4. K.conn = conn /\ K.crtc = kernel.crtc
    BY <2>3
  <2> QED BY <2>2, <2>3, <2>4
<1>4. conn \in Maps /\ \A p \in Outputs : conn[p] = IF p = o THEN None ELSE kernel.conn[p]
  BY <1>2 DEF Types, Kernels, Maps
<1> HIDE DEF conn
<1>5. \A c \in Crtcs : c # None
      /\ (kernel.crtc[c] # Off <=> \E p \in Outputs : kernel.conn[p] = c)
  BY <1>2 DEF Sound, Consistent, Crtcs, None
<1>6. /\ kernel'.conn = conn /\ kernel' \in Kernels
      /\ \A c \in Crtcs : kernel'.crtc[c] = IF \E p \in Outputs : conn[p] = c
                                            THEN kernel.crtc[c] ELSE Off
  <2> DEFINE f == [c \in Crtcs |-> IF \E p \in Outputs : conn[p] = c
                                   THEN kernel.crtc[c] ELSE Off]
  <2>1. f \in [Crtcs -> Nat]
    BY <1>2 DEF Types, Kernels, Off
  <2>2. kernel' = [conn |-> conn, crtc |-> f]
    BY <1>3
  <2>3. kernel' \in Kernels /\ kernel'.conn = conn /\ kernel'.crtc = f
    <3> HIDE DEF f
    <3> QED BY <1>4, <2>1, <2>2 DEF Kernels
  <2> QED BY <2>3
<1>7. \A c \in Crtcs : (\E p \in Outputs : conn[p] = c) => \E p \in Outputs : kernel.conn[p] = c
  BY <1>4, <1>5
<1>8. \A c \in Crtcs : /\ kernel'.crtc[c] # Off <=> \E p \in Outputs : conn[p] = c
                       /\ kernel'.crtc[c] # Off => kernel'.crtc[c] = kernel.crtc[c]
  BY <1>5, <1>6, <1>7
<1>9. Types'
  BY <1>1, <1>2, <1>6 DEF Types
<1>10. Sound(kernel)'
  <2>1. \A p \in Outputs : output_id'[p] = IF p = o THEN FALSE ELSE output_id[p]
    BY <1>1, <1>2 DEF Types
  <2> QED BY <1>1, <1>2, <1>4, <1>6, <1>8, <2>1 DEF Sound, Consistent
<1>11. Believes(current_crtc, crtc, enabled)'
  BY <1>1, <1>2 DEF Routing, Believes
<1>12. (vtSema => OwnModes(kernel, enabled, mode) /\ Unused(kernel, enabled))'
  BY <1>1, <1>2, <1>8 DEF Routing, OwnModes, Unused
<1>13. ASSUME ~foreign PROVE Knows(kernel, current_crtc)'
  BY <1>1, <1>2, <1>4, <1>6, <1>13 DEF Routing, Knows
<1>14. ASSUME ~foreign PROVE Drives(kernel, crtc, dpms_mode, replugged)'
  <2>1. Drives(kernel, crtc, dpms_mode, replugged)
    BY <1>2, <1>14 DEF Routing
  <2> SUFFICES ASSUME NEW p \in Outputs, crtc[p] # None,
                      dpms_mode[crtc[p]] \/ kernel'.crtc[crtc[p]] # Off,
                      output_id'[p], p \notin replugged, p # o
               PROVE  kernel'.conn[p] = crtc[p]
    BY <1>1 DEF Drives
  <2>2. crtc[p] \in Crtcs /\ output_id[p]
    BY <1>1, <1>2 DEF Types, Maps
  <2>3. kernel.conn[p] = crtc[p]
    BY <1>8, <2>1, <2>2 DEF Drives
  <2> QED BY <1>4, <1>6, <2>3
<1> QED BY <1>1, <1>2, <1>9, <1>10, <1>11, <1>12, <1>13, <1>14 DEF RouteInv, Routing

\* A connector comes back.
LEMMA ReplugStep ==
    ASSUME RouteInv, NEW o \in Outputs, Replug(o)
    PROVE  RouteInv'
<1>1. /\ refused = "none" /\ ~output_id[o]
      /\ output_id' = [output_id EXCEPT ![o] = TRUE]
      /\ replugged' = replugged \cup {o}
      /\ UNCHANGED <<vtSema, crtc, enabled, mode, dpms_mode, current_crtc, kernel, foreign,
          refused>>
  BY DEF Replug, Going, serverVars
<1>2. Types /\ Sound(kernel)
      /\ Routing(kernel, current_crtc, crtc, enabled, mode, dpms_mode, replugged)
      /\ (vtSema => Unused(kernel, enabled))
  BY <1>1 DEF RouteInv
<1>3. Types'
  BY <1>1, <1>2 DEF Types
<1>4. \A p \in Outputs : output_id'[p] = IF p = o THEN TRUE ELSE output_id[p]
  BY <1>1, <1>2 DEF Types
<1>5. Sound(kernel)'
  BY <1>1, <1>2, <1>4 DEF Sound, Consistent
<1>6. ASSUME ~foreign PROVE Drives(kernel, crtc, dpms_mode, replugged)'
  BY <1>1, <1>2, <1>4, <1>6 DEF Routing, Drives
<1>7. (Believes(current_crtc, crtc, enabled) /\ (vtSema => OwnModes(kernel, enabled, mode)))'
  BY <1>1, <1>2 DEF Routing, Believes, OwnModes
<1>8. ASSUME ~foreign PROVE Knows(kernel, current_crtc)'
  BY <1>1, <1>2, <1>8 DEF Routing, Knows
<1> QED BY <1>1, <1>2, <1>3, <1>5, <1>6, <1>7, <1>8 DEF RouteInv, Routing, Unused

-----------------------------------------------------------------------------
(* Entering the VT *)

EnterStates == [kernel : Kernels, current : Maps, failed : Reasons]

\* What holds of the loop's state E all along.
EnterInv(E) ==
    /\ E \in EnterStates
    /\ Sound(E.kernel)
    /\ E.failed # "inconsistent"
    /\ E.failed = "none" =>
         /\ Believes(E.current, crtc, enabled)
         /\ ~foreign => Knows(E.kernel, E.current)

\* What is done when the CRTCs up to n are: each has its mode or none, and its outputs.
Restored(E, n) ==
    E.failed = "none" =>
      /\ \A d \in Crtcs : d <= n /\ E.kernel.crtc[d] # Off =>
                            enabled[d] /\ E.kernel.crtc[d] = mode[d]
      /\ \A o \in Outputs : crtc[o] # None /\ crtc[o] <= n /\ output_id[o] =>
                              E.kernel.conn[o] = crtc[o]

\* The routing after a CRTC was detached.
LEMMA DetachedIs ==
    ASSUME NEW K \in Kernels, NEW c \in Crtcs, Sound(K)
    PROVE  /\ Detached(K, c) \in Kernels /\ Sound(Detached(K, c))
           /\ \A o \in Outputs :
                 Detached(K, c).conn[o] = IF K.conn[o] = c THEN None ELSE K.conn[o]
           /\ \A d \in Crtcs : Detached(K, c).crtc[d] = IF d = c THEN Off ELSE K.crtc[d]
<1> DEFINE conn == [o \in Outputs |-> IF K.conn[o] = c THEN None ELSE K.conn[o]]
           md   == [K.crtc EXCEPT ![c] = Off]
<1>1. Detached(K, c) = [conn |-> conn, crtc |-> md]
  BY DEF Detached
<1>2. conn \in Maps /\ md \in [Crtcs -> Nat]
  BY DEF Kernels, Maps, Off
<1>3. /\ \A o \in Outputs : conn[o] = IF K.conn[o] = c THEN None ELSE K.conn[o]
      /\ \A d \in Crtcs : d # None /\ md[d] = IF d = c THEN Off ELSE K.crtc[d]
  <2>1. \A d \in Crtcs : d # None
    BY DEF Crtcs, None
  <2> QED BY <2>1 DEF Kernels
<1> HIDE DEF conn, md
<1>4. Detached(K, c) \in Kernels
  BY <1>1, <1>2 DEF Kernels
<1>5. Consistent([conn |-> conn, crtc |-> md])
  BY <1>3 DEF Sound, Consistent
<1>6. \A o \in Outputs : conn[o] # None => output_id[o]
  BY <1>3 DEF Sound
<1> QED BY <1>1, <1>3, <1>4, <1>5, <1>6 DEF Sound

\* One CRTC.
LEMMA DesiredStep ==
    ASSUME Types, NEW E, EnterInv(E), NEW c \in Crtcs, NEW T, T = DesiredMode(E, c)
    PROVE  /\ EnterInv(T)
           /\ Restored(E, c - 1) => Restored(T, c)
<1> DEFINE D   == [crtc |-> crtc, current |-> E.current]
           req == drmmode_crtc_set_mode(D, c, mode[c])
           A   == Applied(E.kernel, req)
           new == Adopt(D, c)
           X   == Detached(E.kernel, c)
<1>0. /\ E \in EnterStates /\ E.kernel \in Kernels /\ E.current \in Maps
      /\ Sound(E.kernel) /\ E.failed \in Reasons /\ E.failed # "inconsistent"
  BY DEF EnterInv, EnterStates
<1>1. /\ mode[c] \in Nat \ {Off} /\ crtc \in Maps /\ foreign \in BOOLEAN
      /\ \A d \in Crtcs : d <= c => d <= c - 1 \/ d = c
      /\ \A o \in Outputs : crtc[o] # None => crtc[o] \in Crtcs
  BY DEF Types, Maps, Crtcs
<1>2. \/ E.failed # "none" /\ T = E
      \/ E.failed = "none" /\ ~enabled[c] /\ T = [E EXCEPT !.kernel = X]
      \/ E.failed = "none" /\ T = [E EXCEPT !.failed = "no blob"]
      \/ /\ E.failed = "none" /\ enabled[c] /\ Accepts(E.kernel, req)
         /\ T = [kernel |-> A, current |-> new, failed |-> "none"]
      \/ /\ E.failed = "none" /\ enabled[c] /\ ~Accepts(E.kernel, req)
         /\ T = [E EXCEPT !.failed = Reason(req)]
  <2> HIDE DEF A, new, X
  <2> QED BY DEF DesiredMode, A, new, X
<1>3. IsSet(A, E.kernel, crtc, E.current, c, mode[c])
  <2> HIDE DEF A
  <2> QED BY <1>0, <1>1, SetApplied DEF A
<1>4. new \in Maps /\ \A o \in Outputs : new[o] = IF crtc[o] = c THEN c
                                                  ELSE IF E.current[o] = c THEN None
                                                  ELSE E.current[o]
  <2> HIDE DEF new
  <2> QED BY <1>0, <1>1, AdoptIs DEF new
<1>5. /\ X \in Kernels /\ Sound(X)
      /\ \A o \in Outputs : X.conn[o] = IF E.kernel.conn[o] = c THEN None ELSE E.kernel.conn[o]
      /\ \A d \in Crtcs : X.crtc[d] = IF d = c THEN Off ELSE E.kernel.crtc[d]
  <2> HIDE DEF X
  <2> QED BY <1>0, DetachedIs DEF X
<1>6. ASSUME E.failed = "none", Reason(req) = "inconsistent" PROVE Accepts(E.kernel, req)
  <2>1. /\ ~foreign /\ \A o \in DOMAIN req.conn : output_id[o]
        /\ Believes(E.current, crtc, enabled) /\ Knows(E.kernel, E.current)
    BY <1>1, <1>6, ReasonIs DEF EnterInv
  <2>2. ASSUME NEW d \in Crtcs \ {c}, E.kernel.crtc[d] # Off
        PROVE  \E o \in Outputs : E.kernel.conn[o] = d /\ crtc[o] # c
    <3>1. PICK o \in Outputs : E.kernel.conn[o] = d
      BY <1>0, <2>2 DEF Sound, Consistent
    <3>2. d # None
      BY DEF Crtcs, None
    <3>3. E.current[o] = d
      BY <2>1, <3>1, <3>2 DEF Knows
    <3>4. crtc[o] # c
      BY <2>1, <3>3 DEF Believes, Crtcs, None
    <3> QED BY <3>1, <3>4
  <2> HIDE DEF A, req
  <2>3. Consistent(A)
    BY <1>0, <1>1, <1>3, <2>1, <2>2, SetConsistent
  <2> QED BY <2>1, <2>3 DEF Accepts, A
<1> HIDE DEF A, new, X, req
<1>7. CASE E.failed # "none" /\ T = E
  BY <1>7 DEF Restored
<1>8. CASE E.failed = "none" /\ ~enabled[c] /\ T = [E EXCEPT !.kernel = X]
  <2>1. T.kernel = X /\ T.current = E.current /\ T.failed = "none" /\ T \in EnterStates
    BY <1>0, <1>5, <1>8 DEF EnterStates
  <2>2. Believes(E.current, crtc, enabled) /\ (~foreign => Knows(E.kernel, E.current))
    BY <1>8 DEF EnterInv
  <2>3. ~foreign => Knows(X, E.current)
    BY <1>5, <2>2 DEF Knows
  <2>4. EnterInv(T)
    BY <1>5, <2>1, <2>2, <2>3 DEF EnterInv
  <2>5. ASSUME Restored(E, c - 1) PROVE Restored(T, c)
    <3>1. \A o \in Outputs : crtc[o] # None => crtc[o] # c
      BY <1>8, <2>2 DEF Believes
    <3>2. \A d \in Crtcs : d <= c /\ X.crtc[d] # Off => enabled[d] /\ X.crtc[d] = mode[d]
      BY <1>1, <1>5, <1>8, <2>5 DEF Restored
    <3>3. \A o \in Outputs : crtc[o] # None /\ crtc[o] <= c /\ output_id[o]
          => X.conn[o] = crtc[o]
      BY <1>1, <1>5, <1>8, <2>5, <3>1 DEF Restored
    <3> QED BY <2>1, <3>2, <3>3 DEF Restored
  <2> QED BY <2>4, <2>5
<1>9. CASE E.failed = "none" /\ T = [E EXCEPT !.failed = "no blob"]
  <2>1. /\ T.kernel = E.kernel /\ T.failed = "no blob" /\ T \in EnterStates
        /\ T.failed # "none" /\ T.failed # "inconsistent"
    BY <1>0, <1>9 DEF EnterStates, Reasons
  <2> QED BY <1>0, <2>1 DEF EnterInv, Restored
<1>10. CASE /\ E.failed = "none" /\ enabled[c] /\ Accepts(E.kernel, req)
            /\ T = [kernel |-> A, current |-> new, failed |-> "none"]
  <2>1. T.kernel = A /\ T.current = new /\ T.failed = "none" /\ T \in EnterStates
    BY <1>3, <1>4, <1>10 DEF EnterStates, Reasons, IsSet
  <2>2. Believes(E.current, crtc, enabled) /\ (~foreign => Knows(E.kernel, E.current))
    BY <1>10 DEF EnterInv
  <2>3. Sound(A)
    <3>1. Consistent(A)
      BY <1>10 DEF Accepts, A
    <3> QED BY <1>0, <1>1, <1>3, <3>1, SetSound
  <2>4. Believes(new, crtc, enabled)
    <3>1. \A d \in Crtcs : d # None
      BY DEF Crtcs, None
    <3> QED BY <1>1, <1>4, <1>10, <2>2, <3>1 DEF Believes
  <2>5. ~foreign => Knows(A, new)
    BY <1>0, <1>1, <1>3, <2>2, SetKnows DEF new
  <2>6. EnterInv(T)
    BY <2>1, <2>3, <2>4, <2>5 DEF EnterInv
  <2>7. ASSUME Restored(E, c - 1) PROVE Restored(T, c)
    <3>1. ASSUME NEW d \in Crtcs, d <= c, A.crtc[d] # Off
          PROVE  enabled[d] /\ A.crtc[d] = mode[d]
      <4>1. CASE d = c
        BY <1>3, <1>10, <3>1, <4>1 DEF IsSet
      <4>2. CASE d # c
        <5>1. A.crtc[d] = E.kernel.crtc[d] /\ d <= c - 1
          BY <1>1, <1>3, <3>1, <4>2 DEF IsSet
        <5> QED BY <1>10, <2>7, <3>1, <5>1 DEF Restored
      <4> QED BY <4>1, <4>2
    <3>2. ASSUME NEW o \in Outputs, crtc[o] # None, crtc[o] <= c, output_id[o]
          PROVE  A.conn[o] = crtc[o]
      <4>1. A.conn[o] = SetConn(crtc, E.current, c, o, E.kernel.conn[o])
        BY <1>3 DEF IsSet
      <4>2. CASE crtc[o] = c
        BY <3>2, <4>1, <4>2 DEF SetConn
      <4>3. CASE crtc[o] # c
        <5>1. E.current[o] = crtc[o]
          BY <2>2, <3>2 DEF Believes
        <5>2. E.kernel.conn[o] = crtc[o]
          BY <1>1, <1>10, <2>7, <3>2, <4>3 DEF Restored
        <5> QED BY <4>1, <4>3, <5>1, <5>2 DEF SetConn
      <4> QED BY <4>2, <4>3
    <3> QED BY <2>1, <3>1, <3>2 DEF Restored
  <2> QED BY <2>6, <2>7
<1>11. CASE /\ E.failed = "none" /\ enabled[c] /\ ~Accepts(E.kernel, req)
            /\ T = [E EXCEPT !.failed = Reason(req)]
  <2>1. Reason(req) \in Reasons \ {"none", "inconsistent"}
    BY <1>1, <1>6, <1>11, ReasonIs
  <2>2. T.kernel = E.kernel /\ T.failed = Reason(req) /\ T \in EnterStates
    BY <1>0, <1>11, <2>1 DEF EnterStates
  <2> QED BY <1>0, <2>1, <2>2 DEF EnterInv, Restored
<1> QED BY <1>2, <1>7, <1>8, <1>9, <1>10, <1>11

\* The loop over the CRTCs.
LEMMA DesiredModesIs ==
    ASSUME Types, NEW E, EnterInv(E), NEW T, T = DesiredModes(E)
    PROVE  EnterInv(T) /\ Restored(T, NumCrtcs)
<1> DEFINE St == {x \in EnterStates : EnterInv(x)}
           set == CHOOSE r : r = [c \in 0..NumCrtcs |->
                                    IF c = 0 THEN E ELSE DesiredMode(r[c - 1], c)]
<1>0. NumCrtcs \in Nat /\ Crtcs = 1..NumCrtcs
  BY ModeSetAssumption DEF Crtcs
<1>1. T = set[NumCrtcs]
  BY DEF DesiredModes
<1>2. \A x, c : EnterInv(x) /\ c \in Crtcs =>
                   /\ EnterInv(DesiredMode(x, c))
                   /\ Restored(x, c - 1) => Restored(DesiredMode(x, c), c)
  BY DesiredStep
<1>3. \A x : EnterInv(x) => x \in EnterStates
  BY DEF EnterInv
<1>4. Restored(E, 0)
  <2>1. \A d \in Crtcs : ~(d <= 0)
    BY <1>0
  <2>2. \A o \in Outputs : crtc[o] # None => crtc[o] \in Crtcs
    BY DEF Types, Maps
  <2> QED BY <2>1, <2>2 DEF Restored
<1>5. \E r : r = [c \in 0..NumCrtcs |-> IF c = 0 THEN E ELSE DesiredMode(r[c - 1], c)]
  <2> DEFINE F == [c \in 1..NumCrtcs |-> [x \in St |-> DesiredMode(x, c)]]
  <2>1. Body(F, NumCrtcs, St)
    BY <1>0, <1>2, <1>3 DEF Body
  <2>2. \A x \in St, c \in 1..NumCrtcs : F[c][x] = DesiredMode(x, c)
    OBVIOUS
  <2>3. E \in St
    BY <1>3
  <2> HIDE DEF F, St
  <2>4. PICK r : Run(r, F, NumCrtcs, St, E)
    BY <1>0, <2>1, <2>3, LoopRuns
  <2>5. \A c \in 0..NumCrtcs : r[c] = IF c = 0 THEN E ELSE DesiredMode(r[c - 1], c)
    <3>1. \A c \in 1..NumCrtcs : c \in 0..NumCrtcs /\ c - 1 \in 0..NumCrtcs /\ c # 0
      BY <1>0
    <3>2. \A c \in 0..NumCrtcs : c = 0 \/ c \in 1..NumCrtcs
      BY <1>0
    <3> QED BY <2>2, <2>4, <3>1, <3>2 DEF Run
  <2> QED BY <2>4, <2>5 DEF Run
<1>6. set = [c \in 0..NumCrtcs |-> IF c = 0 THEN E ELSE DesiredMode(set[c - 1], c)]
  BY <1>5
<1> HIDE DEF set
<1> DEFINE A == {c \in 0..NumCrtcs : EnterInv(set[c]) /\ Restored(set[c], c)}
<1>7. 0 \in A
  <2>1. set[0] = E
    BY <1>0, <1>6
  <2> QED BY <1>0, <1>4, <2>1
<1>8. \A c \in 1..NumCrtcs : c - 1 \in A => c \in A
  <2> SUFFICES ASSUME NEW c \in 1..NumCrtcs, c - 1 \in A PROVE c \in A
    OBVIOUS
  <2>1. set[c] = DesiredMode(set[c - 1], c)
    BY <1>0, <1>6
  <2>2. EnterInv(set[c - 1]) /\ Restored(set[c - 1], c - 1)
    OBVIOUS
  <2> QED BY <1>0, <1>2, <2>1, <2>2
<1>9. NumCrtcs \in A
  <2> HIDE DEF A
  <2>1. 0..NumCrtcs \subseteq A
    BY <1>0, <1>7, <1>8, LoopKeeps
  <2> QED BY <1>0, <2>1
<1> QED BY <1>1, <1>9

\* The VT comes back: a mode that cannot be set is noted as refused.
LEMMA EnterStep ==
    ASSUME RouteInv, EnterVT
    PROVE  RouteInv'
<1> DEFINE E == [kernel |-> kernel, current |-> current_crtc, failed |-> "none"]
           T == DesiredModes(E)
<1>1. /\ refused = "none" /\ vtSema' = TRUE
      /\ kernel' = T.kernel /\ current_crtc' = T.current
      /\ refused' = First(refused, T.failed)
      /\ foreign' = \E o \in Outputs : T.kernel.conn[o] \notin {None, T.current[o]}
      /\ dpms_mode' = [c \in Crtcs |-> dpms_mode[c] \/ enabled[c]]
      /\ UNCHANGED <<crtc, enabled, mode, output_id>>
      /\ replugged' = {o \in replugged : kernel'.conn[o] # crtc'[o]}
  BY DEF EnterVT, Going, Settle
<1>2. Types /\ Sound(kernel)
      /\ Routing(kernel, current_crtc, crtc, enabled, mode, dpms_mode, replugged)
  BY <1>1 DEF RouteInv
<1>3. EnterInv(E)
  <2>1. E.kernel = kernel /\ E.current = current_crtc /\ E.failed = "none" /\ E \in EnterStates
    BY <1>2 DEF EnterStates, Reasons, Types
  <2> QED BY <1>2, <2>1 DEF EnterInv, Routing
<1> HIDE DEF E
<1>4. EnterInv(T) /\ Restored(T, NumCrtcs)
  <2> HIDE DEF T
  <2> QED BY <1>2, <1>3, DesiredModesIs DEF T
<1> HIDE DEF T
<1>5. /\ T.kernel \in Kernels /\ T.current \in Maps /\ T.failed \in Reasons \ {"inconsistent"}
      /\ Sound(T.kernel) /\ refused' = T.failed
  BY <1>1, <1>4 DEF EnterInv, EnterStates, First
<1>6. Types'
  <2>1. dpms_mode' \in [Crtcs -> BOOLEAN]
    BY <1>1, <1>2 DEF Types
  <2>2. foreign' \in BOOLEAN
    BY <1>1
  <2> QED BY <1>1, <1>2, <1>5, <2>1, <2>2 DEF Types
<1>7. Sound(kernel)' /\ (refused # "inconsistent")'
  BY <1>1, <1>5 DEF Sound, Consistent
<1>8. ASSUME refused' = "none"
      PROVE  (/\ Routing(kernel, current_crtc, crtc, enabled, mode, dpms_mode, replugged)
              /\ Unused(kernel, enabled))'
  <2>1. Believes(T.current, crtc, enabled)
    BY <1>4, <1>5, <1>8 DEF EnterInv
  <2>2. \A d \in Crtcs : d <= NumCrtcs
    BY ModeSetAssumption DEF Crtcs
  <2>3. \A d \in Crtcs : T.kernel.crtc[d] # Off => enabled[d] /\ T.kernel.crtc[d] = mode[d]
    BY <1>4, <1>5, <1>8, <2>2 DEF Restored
  <2>4. \A o \in Outputs : crtc[o] # None /\ output_id[o] => T.kernel.conn[o] = crtc[o]
    <3>1. \A o \in Outputs : crtc[o] # None => crtc[o] \in Crtcs
      BY <1>2 DEF Types, Maps
    <3> QED BY <1>4, <1>5, <1>8, <2>2, <3>1 DEF Restored
  <2>5. Believes(current_crtc, crtc, enabled)'
    BY <1>1, <2>1 DEF Believes
  <2>6. (OwnModes(kernel, enabled, mode) /\ Unused(kernel, enabled))'
    BY <1>1, <1>2, <2>3 DEF OwnModes, Unused, Types
  <2>7. ~foreign' => Knows(kernel, current_crtc)'
    BY <1>1 DEF Knows
  <2>8. Drives(kernel, crtc, dpms_mode, replugged)'
    BY <1>1, <2>4 DEF Drives
  <2> QED BY <2>5, <2>6, <2>7, <2>8 DEF Routing
<1> QED BY <1>6, <1>7, <1>8 DEF RouteInv

-----------------------------------------------------------------------------
(* The theorems *)

\* The driver starts with nothing routed.
LEMMA RouteInit ==
    ASSUME Init
    PROVE  RouteInv
<1>1. Types
  <2>1. \A c \in Crtcs : (CHOOSE m \in Modes[c] : TRUE) \in Nat \ {Off}
    BY ModesArePositive
  <2>2. mode \in [Crtcs -> Nat \ {Off}]
    BY <2>1 DEF Init
  <2>3. kernel \in Kernels
    BY DEF Init, Kernels, Maps, None, Off
  <2> QED BY <2>2, <2>3 DEF Init, Types, Maps, Reasons
<1>2. /\ \A o \in Outputs : kernel.conn[o] = None /\ crtc[o] = None /\ current_crtc[o] = None
      /\ \A c \in Crtcs : kernel.crtc[c] = Off /\ c # None
  BY DEF Init, Crtcs, None
<1>3. Sound(kernel)
  BY <1>2 DEF Sound, Consistent
<1>4. /\ Routing(kernel, current_crtc, crtc, enabled, mode, dpms_mode, replugged)
      /\ Unused(kernel, enabled)
  BY <1>2 DEF Routing, Believes, OwnModes, Knows, Drives, Unused
<1>5. refused # "inconsistent"
  BY DEF Init
<1> QED BY <1>1, <1>3, <1>4, <1>5 DEF RouteInv

\* No step of the driver, the kernel or a cable breaks the invariant.
LEMMA RouteNext ==
    ASSUME RouteInv, [Next]_vars
    PROVE  RouteInv'
<1>1. ASSUME NEW c \in Crtcs, NEW O \in SUBSET Outputs \ {{}}, NEW out \in Outcomes,
             NEW m \in Modes[c], RandRSet(c, O, m, out)
      PROVE  RouteInv'
  <2>1. O \in SUBSET Outputs
    OBVIOUS
  <2>2. CASE out \in {"set", "lost"}
    BY <1>1, <2>1, <2>2, SetStep
  <2>3. CASE out \in {"blob", "refused"}
    BY <1>1, <2>1, <2>3, NotSetStep
  <2> QED BY <2>2, <2>3 DEF Outcomes
<1>2. ASSUME NEW c \in Crtcs, RandRDisable(c) PROVE RouteInv'
  BY <1>2, DisableStep
<1>3. ASSUME NEW on \in BOOLEAN, drmmode_set_dpms(on) PROVE RouteInv'
  BY <1>3, DpmsStep
<1>4. CASE LeaveVT
  BY <1>4, LeaveStep
<1>5. CASE EnterVT
  BY <1>5, EnterStep
<1>6. ASSUME NEW o \in Outputs, Unplug(o) PROVE RouteInv'
  BY <1>6, UnplugStep
<1>7. ASSUME NEW o \in Outputs, Replug(o) PROVE RouteInv'
  BY <1>7, ReplugStep
<1>8. CASE UNCHANGED vars
  BY <1>8 DEF vars, serverVars, RouteInv, Types, Sound, Consistent, Routing, Believes, OwnModes,
              Knows, Drives, Unused
<1> QED BY <1>1, <1>2, <1>3, <1>4, <1>5, <1>6, <1>7, <1>8 DEF Next

\* What the driver keeps of the routing and the kernel's own agree as RouteInv says,
\* for any number of CRTCs and outputs, through RandR, DPMS, VT switches and cables.
THEOREM RoutingCorrect == Spec => []RouteInv
<1>1. Init => RouteInv
  BY RouteInit
<1>2. RouteInv /\ [Next]_vars => RouteInv'
  BY RouteNext
<1> QED BY <1>1, <1>2, PTL DEF Spec

\* No atomic request of drmmode_display.c is refused for what it asks of connectors and
\* CRTCs, the orphaned ones included.
THEOREM RequestsAreConsistent == Spec => []RequestsConsistent
<1>1. RouteInv => RequestsConsistent
  BY DEF RouteInv, RequestsConsistent
<1> QED BY <1>1, RoutingCorrect, PTL

\* Unless requests are refused, the kernel drives what RandR and DPMS asked for.
THEOREM KernelIsFollowed == Spec => []KernelFollows
<1>1. RouteInv => KernelFollows
  <2> SUFFICES ASSUME RouteInv, Clean PROVE KernelFollows
    BY DEF KernelFollows
  <2>1. /\ Types /\ Sound(kernel)
        /\ Believes(current_crtc, crtc, enabled) /\ OwnModes(kernel, enabled, mode)
        /\ Unused(kernel, enabled) /\ Knows(kernel, current_crtc)
        /\ Drives(kernel, crtc, dpms_mode, replugged)
    BY DEF Clean, RouteInv, Routing
  <2>2. \A c \in Crtcs : kernel.crtc[c] # Off => enabled[c] /\ kernel.crtc[c] = mode[c]
    BY <2>1 DEF OwnModes, Unused, Types
  <2>3. ASSUME NEW c \in Crtcs, enabled[c], dpms_mode[c],
               \A o \in Wanted(c) : output_id[o] /\ o \notin replugged
        PROVE  {o \in Outputs : kernel.conn[o] = c} = Wanted(c)
    <3>1. c # None
      BY DEF Crtcs, None
    <3>2. ASSUME NEW o \in Outputs, crtc[o] = c PROVE kernel.conn[o] = c
      BY <2>1, <2>3, <3>1, <3>2 DEF Drives, Wanted
    <3>3. ASSUME NEW o \in Outputs, kernel.conn[o] = c PROVE crtc[o] = c
      <4>1. current_crtc[o] = c
        BY <2>1, <3>1, <3>3 DEF Knows
      <4> QED BY <2>1, <2>3, <3>1, <4>1 DEF Believes
    <3> QED BY <3>2, <3>3 DEF Wanted
  <2> QED BY <2>2, <2>3 DEF KernelFollows
<1> QED BY <1>1, RoutingCorrect, PTL

\* current_crtc is what the kernel routes, so that no orphaned CRTC is overlooked.
THEOREM CurrentCrtcIsKnown == Spec => []CurrentCrtcKnown
<1>1. RouteInv => CurrentCrtcKnown
  BY DEF RouteInv, Routing, Clean, Knows, CurrentCrtcKnown
<1> QED BY <1>1, RoutingCorrect, PTL

=============================================================================
