--------------------------- MODULE ExaPixmapProofs ---------------------------
(***************************************************************************)
(* Proofs about module ExaPixmap, for any number of pixmaps, buffers and   *)
(* descriptors.                                                            *)
(***************************************************************************)
EXTENDS ExaPixmap, FiniteSetTheorems, WellFoundedInduction, TLAPS

-----------------------------------------------------------------------------
(* The invariant *)

\* A bo is made for a buffer and has a handle.
BoRecord == [handle : Handles, of : Buffers, ptr : Buffers \cup {None}]
Priv == [dumb : BOOLEAN, bo : BoRecord \cup {NoBo}, fd : Fds \cup {None}, owned : BOOLEAN,
         pDat : BOOLEAN]

\* The values the variables can have.
ExaTypes ==
    /\ handles \in [Handles -> Buffers \cup {None}]
    /\ fds \in [Fds -> Buffers \cup {None}]
    /\ clients \subseteq Buffers
    /\ priv \in [Pixmaps -> Priv]
    /\ lost \in [fds : SUBSET Fds, handles : SUBSET Handles]
    /\ twins \in BOOLEAN

\* With handles H, a buffer has one at most.
Single(H) == \A g, h \in Handles : H[g] = H[h] /\ H[g] # None => g = h

\* With handles H and pixmaps P, the handle a pixmap has is that of its buffer, which no
\* other pixmap has, and its mapping is of that buffer.
Named(H, P) ==
    \A p \in Pixmaps : P[p].bo # NoBo =>
      /\ H[P[p].bo.handle] = P[p].bo.of
      /\ P[p].bo.ptr \in {None, P[p].bo.of}
      /\ \A q \in Pixmaps \ {p} : P[q].bo.of # P[p].bo.of

\* With handles H, of which L were dropped, and pixmaps P: every other handle that names a
\* buffer is a pixmap's.
Taken(H, L, P) ==
    \A h \in Handles \ L : H[h] # None => \E p \in Pixmaps : P[p].bo.handle = h

OneHandle == Single(handles)
BoInv     == ~twins => Named(handles, priv)
HandleInv == Taken(handles, lost.handles, priv)

\* A bo is the pixmap's own, and a pixmap with a descriptor has one.
OwnInv == \A p \in Pixmaps : /\ priv[p].bo # NoBo => priv[p].owned
                             /\ priv[p].fd # None => priv[p].bo # NoBo

\* With the table T of descriptors, of which L were dropped, and pixmaps P: a descriptor
\* that was dropped stays open; it is none of a pixmap's, whose descriptors are open and of
\* its buffer.  Every other one that is open is a pixmap's.
Descriptors(T, L, P) ==
    /\ \A f \in L : T[f] # None
    /\ \A f \in Fds \ L : T[f] # None => \E p \in Pixmaps : P[p].fd = f
    /\ \A p \in Pixmaps : P[p].fd # None =>
         /\ T[P[p].fd] = P[p].bo.of /\ P[p].fd \notin L
         /\ \A q \in Pixmaps \ {p} : P[q].fd # P[p].fd

FdInv == Descriptors(fds, lost.fds, priv)

ExaInv == ExaTypes /\ OneHandle /\ BoInv /\ OwnInv /\ FdInv /\ HandleInv

-----------------------------------------------------------------------------
(* Numbers *)

\* A set of numbers that is not empty has a least one.
LEMMA LeastOne ==
    ASSUME NEW S \in SUBSET Nat, S # {}
    PROVE  Min(S) \in S
<1> DEFINE R == {p \in Nat \X Nat : p[1] < p[2]}
<1>1. IsWellFoundedOn(R, Nat)
  BY NatLessThanWellFounded DEF OpToRel
<1>2. PICK k \in S : \A j \in S : ~(<<j, k>> \in R)
  <2> HIDE DEF R
  <2>1. QED
    BY <1>1, WFMin
<1>3. ASSUME NEW j \in S PROVE k <= j
  <2>1. k \in Nat /\ j \in Nat
    OBVIOUS
  <2>2. <<j, k>> \in R <=> j < k
    BY <2>1
  <2>3. QED
    BY <1>2, <2>1, <2>2
<1>4. \E x \in S : \A y \in S : x <= y
  BY <1>3
<1>5. QED
  BY <1>4 DEF Min

\* A buffer that has no handle can be given one: there are as many handles as buffers.
LEMMA HandleIsLeft ==
    ASSUME ExaTypes, OneHandle, NEW b \in Buffers, \A h \in Handles : handles[h] # b
    PROVE  Min(FreeHandles) \in Handles /\ handles[Min(FreeHandles)] = None
<1>1. NumBuffers \in Nat
  BY ExaPixmapAssumption
<1>2. FreeHandles # {}
  <2> SUFFICES ASSUME FreeHandles = {} PROVE FALSE
    OBVIOUS
  <2>1. IsFiniteSet(Buffers) /\ Cardinality(Buffers) = NumBuffers
    <3>1. 0 \in Int /\ 1 \in Int /\ NumBuffers \in Int /\ 1 <= NumBuffers + 1
      BY <1>1
    <3>2. QED
      BY <1>1, <3>1, FS_Interval DEF Buffers
  <2>2. IsFiniteSet(Buffers \ {b}) /\ Cardinality(Buffers \ {b}) = NumBuffers - 1
    BY <2>1, FS_RemoveElement
  <2>3. handles \in [Handles -> Buffers \ {b}]
    BY DEF ExaTypes, FreeHandles
  <2>4. NumBuffers - 1 < NumBuffers
    BY <1>1
  <2>5. \E g, h \in Handles : g # h /\ handles[g] = handles[h]
    BY <2>1, <2>2, <2>3, <2>4, FS_PigeonHole DEF Handles
  <2>6. \A h \in Handles : handles[h] # None
    BY DEF FreeHandles
  <2>7. QED
    BY <2>5, <2>6 DEF OneHandle, Single
<1>3. FreeHandles \in SUBSET Nat
  BY <1>1 DEF FreeHandles, Handles, Buffers
<1>4. Min(FreeHandles) \in FreeHandles
  BY <1>2, <1>3, LeastOne
<1>5. QED
  BY <1>4 DEF FreeHandles

\* The descriptor that is given out was free.
LEMMA FdIsFree ==
    ASSUME NEW S \in SUBSET FreeFds, S # {}
    PROVE  Min(S) \in S /\ Min(S) \in Fds /\ fds[Min(S)] = None /\ Min(S) # None
<1>1. NumFds \in Nat /\ FreeFds \subseteq Fds
  BY ExaPixmapAssumption DEF FreeFds
<1>2. S \in SUBSET Nat
  BY <1>1 DEF Fds
<1>3. Min(S) \in S
  BY <1>2, LeastOne
<1>4. Min(S) \in 1..NumFds
  BY <1>1, <1>3 DEF Fds
<1>5. QED
  BY <1>3, <1>4 DEF FreeFds, Fds, None

\* The buffer that is made was nobody's.
LEMMA BufferIsNew ==
    ASSUME ExaTypes, Buffers \ InUse # {}
    PROVE  LET b == Min(Buffers \ InUse)
           IN  /\ b \in Buffers /\ b # None
               /\ \A h \in Handles : handles[h] # b
               /\ \A f \in Fds : fds[f] # b
<1> DEFINE b == Min(Buffers \ InUse)
<1>1. NumBuffers \in Nat
  BY ExaPixmapAssumption
<1>2. Buffers \ InUse \in SUBSET Nat
  BY <1>1 DEF Buffers
<1>3. b \in Buffers \ InUse
  BY <1>2, LeastOne
<1> HIDE DEF b
<1>4. b \in 1..NumBuffers
  BY <1>3 DEF Buffers
<1>5. b # None
  BY <1>1, <1>4 DEF None
<1>6. (\A h \in Handles : handles[h] # b) /\ (\A f \in Fds : fds[f] # b)
  BY <1>3 DEF InUse
<1>7. QED
  BY <1>3, <1>5, <1>6 DEF b

-----------------------------------------------------------------------------
(* Descriptors *)

\* A descriptor is opened and dropped.
LEMMA FdDropped ==
    ASSUME NEW T \in [Fds -> Buffers \cup {None}], NEW L \in SUBSET Fds, NEW P,
           Descriptors(T, L, P),
           NEW f \in Fds, T[f] = None, NEW b \in Buffers, b # None,
           \A p \in Pixmaps : P[p].fd = None \/ P[p].bo.of # None
    PROVE  Descriptors([T EXCEPT ![f] = b], L \cup {f}, P)
<1> DEFINE U == [T EXCEPT ![f] = b]
<1>1. \A g \in Fds : U[g] = IF g = f THEN b ELSE T[g]
  OBVIOUS
<1>2. \A p \in Pixmaps : P[p].fd # None => P[p].fd # f
  BY DEF Descriptors
<1>3. \A g \in L \cup {f} : U[g] # None
  BY <1>1 DEF Descriptors
<1>4. \A g \in Fds \ (L \cup {f}) : U[g] # None => \E p \in Pixmaps : P[p].fd = g
  BY <1>1 DEF Descriptors
<1>5. ASSUME NEW p \in Pixmaps, P[p].fd # None
      PROVE  /\ U[P[p].fd] = P[p].bo.of /\ P[p].fd \notin L \cup {f}
             /\ \A q \in Pixmaps \ {p} : P[q].fd # P[p].fd
  <2>1. /\ T[P[p].fd] = P[p].bo.of /\ P[p].fd \notin L
        /\ \A q \in Pixmaps \ {p} : P[q].fd # P[p].fd
    BY <1>5 DEF Descriptors
  <2>2. P[p].fd # f
    BY <1>2, <1>5
  <2>3. U[P[p].fd] = T[P[p].fd]
    BY <2>2
  <2>4. QED
    BY <2>1, <2>2, <2>3
<1>6. QED
  BY <1>3, <1>4, <1>5 DEF Descriptors

\* A descriptor is opened and given to a pixmap that has none.
LEMMA FdGiven ==
    ASSUME NEW T \in [Fds -> Buffers \cup {None}], NEW L \in SUBSET Fds,
           NEW P \in [Pixmaps -> Priv], Descriptors(T, L, P),
           NEW f \in Fds, T[f] = None, NEW b \in Buffers, b # None,
           \A p \in Pixmaps : P[p].fd = None \/ P[p].bo.of # None,
           NEW x \in Pixmaps, P[x].fd = None,
           NEW r \in Priv, r.fd = f, r.bo.of = b
    PROVE  Descriptors([T EXCEPT ![f] = b], L, [P EXCEPT ![x] = r])
<1> DEFINE U == [T EXCEPT ![f] = b]
           Q == [P EXCEPT ![x] = r]
<1>1. \A g \in Fds : U[g] = IF g = f THEN b ELSE T[g]
  OBVIOUS
<1>2. \A p \in Pixmaps : Q[p] = IF p = x THEN r ELSE P[p]
  OBVIOUS
<1>3. \A p \in Pixmaps : P[p].fd # None => P[p].fd # f
  BY DEF Descriptors
<1>4. f \notin L /\ f # None
  <2>1. f \notin L
    BY DEF Descriptors
  <2>2. f # None
    BY ExaPixmapAssumption DEF Fds, None
  <2>3. QED
    BY <2>1, <2>2
<1>5. \A g \in L : U[g] # None
  BY <1>1 DEF Descriptors
<1>6. ASSUME NEW g \in Fds \ L, U[g] # None PROVE \E p \in Pixmaps : Q[p].fd = g
  <2>1. CASE g = f
    BY <1>2, <2>1
  <2>2. CASE g # f
    <3>1. PICK p \in Pixmaps : P[p].fd = g
      BY <1>1, <1>6, <2>2 DEF Descriptors
    <3>2. p # x
      BY <1>1, <1>6, <3>1, <2>2, ExaPixmapAssumption DEF Fds, None
    <3>3. QED
      BY <1>2, <3>1, <3>2
  <2>3. QED
    BY <2>1, <2>2
<1>7. ASSUME NEW p \in Pixmaps, Q[p].fd # None
      PROVE  /\ U[Q[p].fd] = Q[p].bo.of /\ Q[p].fd \notin L
             /\ \A q \in Pixmaps \ {p} : Q[q].fd # Q[p].fd
  <2>1. CASE p = x
    BY <1>1, <1>2, <1>3, <1>4, <2>1
  <2>2. CASE p # x
    <3>1. Q[p] = P[p]
      BY <1>2, <2>2
    <3>2. /\ T[P[p].fd] = P[p].bo.of /\ P[p].fd \notin L
          /\ \A q \in Pixmaps \ {p} : P[q].fd # P[p].fd
      BY <1>7, <3>1 DEF Descriptors
    <3>3. P[p].fd # f /\ U[P[p].fd] = T[P[p].fd]
      BY <1>3, <1>7, <3>1
    <3>4. QED
      BY <1>2, <3>1, <3>2, <3>3
  <2>3. QED
    BY <2>1, <2>2
<1>8. QED
  BY <1>5, <1>6, <1>7 DEF Descriptors

\* A pixmap without descriptor gets or loses something else.
LEMMA FdNotGiven ==
    ASSUME NEW T, NEW L, NEW P \in [Pixmaps -> Priv], Descriptors(T, L, P),
           NEW x \in Pixmaps, NEW r \in Priv, r.fd = P[x].fd,
           r.fd = None \/ r.bo.of = P[x].bo.of
    PROVE  Descriptors(T, L, [P EXCEPT ![x] = r])
<1> DEFINE Q == [P EXCEPT ![x] = r]
<1>1. \A p \in Pixmaps : /\ Q[p].fd = P[p].fd
                         /\ P[p].fd = None \/ Q[p].bo.of = P[p].bo.of
  OBVIOUS
<1> HIDE DEF Q
<1>2. Descriptors(T, L, Q)
  BY <1>1 DEF Descriptors
<1>3. QED
  BY <1>2 DEF Q

\* A pixmap is destroyed and its descriptor closed.
LEMMA FdClosed ==
    ASSUME NEW T \in [Fds -> Buffers \cup {None}], NEW L \in SUBSET Fds,
           NEW P \in [Pixmaps -> Priv], Descriptors(T, L, P),
           NEW x \in Pixmaps, P[x].fd # None
    PROVE  Descriptors([T EXCEPT ![P[x].fd] = None], L, [P EXCEPT ![x] = NoPriv])
<1> DEFINE f == P[x].fd
           U == [T EXCEPT ![f] = None]
           Q == [P EXCEPT ![x] = NoPriv]
<1>1. f \in Fds
  BY DEF Priv
<1>2. \A g \in Fds : U[g] = IF g = f THEN None ELSE T[g]
  OBVIOUS
<1>3. \A p \in Pixmaps : Q[p] = IF p = x THEN NoPriv ELSE P[p]
  OBVIOUS
<1>4. NoPriv.fd = None
  BY DEF NoPriv
<1>5. f \notin L /\ \A p \in Pixmaps \ {x} : P[p].fd # f
  BY DEF Descriptors
<1>6. \A g \in L : U[g] # None
  BY <1>2, <1>5 DEF Descriptors
<1>7. ASSUME NEW g \in Fds \ L, U[g] # None PROVE \E p \in Pixmaps : Q[p].fd = g
  <2>1. g # f /\ T[g] # None
    BY <1>2, <1>7
  <2>2. PICK p \in Pixmaps : P[p].fd = g
    BY <2>1 DEF Descriptors
  <2>3. p # x
    BY <2>1, <2>2
  <2>4. QED
    BY <1>3, <2>2, <2>3
<1>8. ASSUME NEW p \in Pixmaps, Q[p].fd # None
      PROVE  /\ U[Q[p].fd] = Q[p].bo.of /\ Q[p].fd \notin L
             /\ \A q \in Pixmaps \ {p} : Q[q].fd # Q[p].fd
  <2>1. p # x /\ Q[p] = P[p]
    BY <1>3, <1>4, <1>8
  <2>2. /\ T[P[p].fd] = P[p].bo.of /\ P[p].fd \notin L
        /\ \A q \in Pixmaps \ {p} : P[q].fd # P[p].fd
    BY <1>8, <2>1 DEF Descriptors
  <2>3. P[p].fd # f /\ P[p].fd \in Fds
    BY <1>5, <1>8, <2>1 DEF Priv
  <2>4. U[P[p].fd] = T[P[p].fd]
    BY <1>2, <2>3
  <2>5. QED
    BY <1>3, <1>4, <1>8, <2>1, <2>2, <2>4
<1>9. QED
  BY <1>6, <1>7, <1>8 DEF Descriptors

-----------------------------------------------------------------------------
(* Handles *)

\* Importing a buffer gives the handle it has, or one that was free.
LEMMA HandleOfImport ==
    ASSUME ExaTypes, OneHandle, NEW b \in Buffers
    PROVE  LET h == FDToHandle(b)
           IN  /\ h \in Handles /\ handles[h] \in {None, b}
               /\ \A g \in Handles : handles[g] = b => g = h
<1>1. b # None
  BY ExaPixmapAssumption DEF Buffers, None
<1>2. CASE \E h \in Handles : handles[h] = b
  <2>1. FDToHandle(b) = CHOOSE h \in Handles : handles[h] = b
    BY <1>2 DEF FDToHandle
  <2>2. FDToHandle(b) \in Handles /\ handles[FDToHandle(b)] = b
    BY <1>2, <2>1
  <2>3. QED
    BY <1>1, <2>2 DEF OneHandle, Single
<1>3. CASE ~ \E h \in Handles : handles[h] = b
  <2>1. FDToHandle(b) = Min(FreeHandles)
    BY <1>3 DEF FDToHandle
  <2>2. Min(FreeHandles) \in Handles /\ handles[Min(FreeHandles)] = None
    BY <1>3, HandleIsLeft
  <2>3. QED
    BY <1>3, <2>1, <2>2
<1>4. QED
  BY <1>2, <1>3

\* A buffer is given a handle that was free, or the one it has.
LEMMA HandleGiven ==
    ASSUME NEW H \in [Handles -> Buffers \cup {None}], Single(H),
           NEW b \in Buffers, NEW h \in Handles, H[h] \in {None, b},
           \A g \in Handles : H[g] = b => g = h
    PROVE  Single([H EXCEPT ![h] = b])
BY DEF Single

\* A handle is closed, if it is one.
LEMMA HandleClosed ==
    ASSUME NEW H \in [Handles -> Buffers \cup {None}], Single(H), NEW h
    PROVE  Single([H EXCEPT ![h] = None])
BY DEF Single

\* A handle that is not of a pixmap's buffer changes.
LEMMA NamedElsewhere ==
    ASSUME NEW H \in [Handles -> Buffers \cup {None}], NEW P \in [Pixmaps -> Priv],
           Named(H, P), NEW b \in Buffers, \A q \in Pixmaps : P[q].bo.of # b,
           NEW h \in Handles, H[h] \in {None, b}, NEW c
    PROVE  Named([H EXCEPT ![h] = c], P)
<1>1. ASSUME NEW p \in Pixmaps, P[p].bo # NoBo
      PROVE  [H EXCEPT ![h] = c][P[p].bo.handle] = H[P[p].bo.handle]
  <2>1. P[p].bo \in BoRecord
    BY <1>1 DEF Priv
  <2>2. P[p].bo.of # None /\ P[p].bo.handle \in Handles
    BY <2>1, ExaPixmapAssumption DEF BoRecord, Buffers, None
  <2>3. H[P[p].bo.handle] = P[p].bo.of
    BY <1>1 DEF Named
  <2>4. P[p].bo.handle # h
    BY <2>2, <2>3
  <2>5. QED
    BY <2>2, <2>4
<1>2. QED
  BY <1>1 DEF Named

\* A pixmap without buffer is given one that no pixmap has.
LEMMA NamedGiven ==
    ASSUME NEW H \in [Handles -> Buffers \cup {None}], NEW P \in [Pixmaps -> Priv],
           Named(H, P), NEW b \in Buffers, \A q \in Pixmaps : P[q].bo.of # b,
           NEW h \in Handles, H[h] \in {None, b},
           NEW x \in Pixmaps, P[x].bo = NoBo, NEW r \in Priv, r.bo = Bo(h, b)
    PROVE  Named([H EXCEPT ![h] = b], [P EXCEPT ![x] = r])
<1> DEFINE G == [H EXCEPT ![h] = b]
           Q == [P EXCEPT ![x] = r]
<1>1. Named(G, P)
  BY NamedElsewhere
<1>2. \A p \in Pixmaps : Q[p] = IF p = x THEN r ELSE P[p]
  OBVIOUS
<1>3. r.bo.handle = h /\ r.bo.of = b /\ r.bo.ptr = None
  BY DEF Bo
<1>4. G[h] = b
  OBVIOUS
<1> HIDE DEF G, Q
<1>5. ASSUME NEW p \in Pixmaps, Q[p].bo # NoBo
      PROVE  /\ G[Q[p].bo.handle] = Q[p].bo.of
             /\ Q[p].bo.ptr \in {None, Q[p].bo.of}
             /\ \A q \in Pixmaps \ {p} : Q[q].bo.of # Q[p].bo.of
  <2>1. CASE p = x
    BY <1>2, <1>3, <1>4, <2>1
  <2>2. CASE p # x
    <3>1. Q[p] = P[p]
      BY <1>2, <2>2
    <3>2. /\ G[P[p].bo.handle] = P[p].bo.of
          /\ P[p].bo.ptr \in {None, P[p].bo.of}
          /\ \A q \in Pixmaps \ {p} : P[q].bo.of # P[p].bo.of
      BY <1>1, <1>5, <3>1 DEF Named
    <3>3. \A q \in Pixmaps \ {p} : Q[q].bo.of # P[p].bo.of
      BY <1>2, <1>3, <3>2
    <3>4. QED
      BY <3>1, <3>2, <3>3
  <2>3. QED
    BY <2>1, <2>2
<1>6. QED
  BY <1>5 DEF Named, G, Q

\* A pixmap goes, and with it the handle of its buffer.
LEMMA NamedClosed ==
    ASSUME NEW H \in [Handles -> Buffers \cup {None}], NEW P \in [Pixmaps -> Priv],
           Named(H, P), NEW x \in Pixmaps, P[x].bo # NoBo
    PROVE  Named([H EXCEPT ![P[x].bo.handle] = None], [P EXCEPT ![x] = NoPriv])
<1> DEFINE h == P[x].bo.handle
           G == [H EXCEPT ![h] = None]
           Q == [P EXCEPT ![x] = NoPriv]
<1>1. \A p \in Pixmaps : Q[p] = IF p = x THEN NoPriv ELSE P[p]
  OBVIOUS
<1>2. NoPriv.bo = NoBo /\ NoBo.of = None
  BY DEF NoPriv, NoBo
<1>3. ASSUME NEW p \in Pixmaps, Q[p].bo # NoBo
      PROVE  /\ G[Q[p].bo.handle] = Q[p].bo.of
             /\ Q[p].bo.ptr \in {None, Q[p].bo.of}
             /\ \A q \in Pixmaps \ {p} : Q[q].bo.of # Q[p].bo.of
  <2>1. p # x /\ Q[p] = P[p]
    BY <1>1, <1>2, <1>3
  <2>2. /\ H[P[p].bo.handle] = P[p].bo.of
        /\ P[p].bo.ptr \in {None, P[p].bo.of}
        /\ \A q \in Pixmaps \ {p} : P[q].bo.of # P[p].bo.of
    BY <1>3, <2>1 DEF Named
  <2>3. P[p].bo \in BoRecord
    BY <1>3, <2>1 DEF Priv
  <2>4. P[p].bo.of # None /\ P[p].bo.handle \in Handles
    BY <2>3, ExaPixmapAssumption DEF BoRecord, Buffers, None
  <2>5. H[h] = P[x].bo.of /\ P[x].bo.of # P[p].bo.of
    <3>1. H[h] = P[x].bo.of
      BY DEF Named
    <3>2. QED
      BY <2>1, <2>2, <3>1
  <2>6. P[p].bo.handle # h
    BY <2>2, <2>5
  <2>7. G[P[p].bo.handle] = H[P[p].bo.handle]
    BY <2>4, <2>6
  <2>8. \A q \in Pixmaps \ {p} : Q[q].bo.of # P[p].bo.of
    BY <1>1, <1>2, <2>2, <2>4
  <2>9. QED
    BY <2>1, <2>2, <2>7, <2>8
<1>4. QED
  BY <1>3 DEF Named

\* A pixmap without buffer gets or loses something else.
LEMMA NamedKept ==
    ASSUME NEW H, NEW P \in [Pixmaps -> Priv], Named(H, P),
           NEW x \in Pixmaps, P[x].bo = NoBo, NEW r \in Priv, r.bo = NoBo
    PROVE  Named(H, [P EXCEPT ![x] = r])
<1> DEFINE Q == [P EXCEPT ![x] = r]
<1>1. \A p \in Pixmaps : Q[p].bo = P[p].bo
  OBVIOUS
<1> HIDE DEF Q
<1>2. Named(H, Q)
  BY <1>1 DEF Named
<1>3. QED
  BY <1>2 DEF Q

\* A pixmap without buffer is given a handle.
LEMMA TakenGiven ==
    ASSUME NEW H \in [Handles -> Buffers \cup {None}], NEW L,
           NEW P \in [Pixmaps -> Priv], Taken(H, L, P), NEW h \in Handles, NEW b,
           NEW x \in Pixmaps, P[x].bo = NoBo, NEW r \in Priv, r.bo.handle = h
    PROVE  Taken([H EXCEPT ![h] = b], L, [P EXCEPT ![x] = r])
<1> DEFINE G == [H EXCEPT ![h] = b]
           Q == [P EXCEPT ![x] = r]
<1>1. \A p \in Pixmaps : Q[p] = IF p = x THEN r ELSE P[p]
  OBVIOUS
<1>2. ASSUME NEW g \in Handles \ L, G[g] # None PROVE \E p \in Pixmaps : Q[p].bo.handle = g
  <2>1. CASE g = h
    BY <1>1, <2>1
  <2>2. CASE g # h
    <3>1. H[g] # None /\ g # None
      BY <1>2, <2>2, ExaPixmapAssumption DEF Handles, Buffers, None
    <3>2. PICK p \in Pixmaps : P[p].bo.handle = g
      BY <3>1 DEF Taken
    <3>3. p # x
      BY <3>1, <3>2 DEF NoBo
    <3>4. QED
      BY <1>1, <3>2, <3>3
  <2>3. QED
    BY <2>1, <2>2
<1>3. QED
  BY <1>2 DEF Taken

\* A handle is closed, if it is one, or dropped.
LEMMA TakenElsewhere ==
    ASSUME NEW H \in [Handles -> Buffers \cup {None}], NEW L, NEW P, Taken(H, L, P), NEW h
    PROVE  /\ Taken([H EXCEPT ![h] = None], L, P)
           /\ \A b : Taken([H EXCEPT ![h] = b], L \cup {h}, P)
BY DEF Taken

\* A pixmap goes, and with it the handle it has, if any.
LEMMA TakenClosed ==
    ASSUME NEW H \in [Handles -> Buffers \cup {None}], NEW L,
           NEW P \in [Pixmaps -> Priv], Taken(H, L, P), NEW x \in Pixmaps
    PROVE  Taken([H EXCEPT ![P[x].bo.handle] = None], L, [P EXCEPT ![x] = NoPriv])
<1> DEFINE h == P[x].bo.handle
           G == [H EXCEPT ![h] = None]
           Q == [P EXCEPT ![x] = NoPriv]
<1>1. \A p \in Pixmaps : p # x => Q[p] = P[p]
  OBVIOUS
<1>2. ASSUME NEW g \in Handles \ L, G[g] # None PROVE \E p \in Pixmaps : Q[p].bo.handle = g
  <2>1. g # h /\ H[g] # None
    BY <1>2
  <2>2. PICK p \in Pixmaps : P[p].bo.handle = g
    BY <2>1 DEF Taken
  <2>3. p # x
    BY <2>1, <2>2
  <2>4. QED
    BY <1>1, <2>2, <2>3
<1>3. QED
  BY <1>2 DEF Taken

\* A pixmap without handle gets or loses something else.
LEMMA TakenKept ==
    ASSUME NEW H, NEW L, NEW P \in [Pixmaps -> Priv], Taken(H, L, P),
           NEW x \in Pixmaps, NEW r \in Priv, r.bo.handle = P[x].bo.handle
    PROVE  Taken(H, L, [P EXCEPT ![x] = r])
<1> DEFINE Q == [P EXCEPT ![x] = r]
<1>1. \A p \in Pixmaps : Q[p].bo.handle = P[p].bo.handle
  OBVIOUS
<1> HIDE DEF Q
<1>2. Taken(H, L, Q)
  BY <1>1 DEF Taken
<1>3. QED
  BY <1>2 DEF Q

-----------------------------------------------------------------------------
(* Parts of the steps *)

\* None is neither a buffer nor a handle nor a descriptor.
LEMMA NoneApart == None \notin Buffers /\ None \notin Handles /\ None \notin Fds
BY ExaPixmapAssumption DEF None, Buffers, Handles, Fds

\* A bo of a handle and a buffer is a record of the right kind.
LEMMA BoTyped ==
    ASSUME NEW h \in Handles, NEW b \in Buffers
    PROVE  /\ Bo(h, b) \in BoRecord /\ Bo(h, b) # NoBo
           /\ Bo(h, b).handle = h /\ Bo(h, b).of = b /\ Bo(h, b).ptr = None
BY NoneApart DEF Bo, BoRecord, NoBo

\* What a pixmap is before it has a buffer.
LEMMA PrivTyped ==
    /\ NoPriv \in Priv /\ Empty \in Priv
    /\ NoPriv.bo = NoBo /\ NoPriv.fd = None /\ Empty.bo = NoBo /\ Empty.fd = None
    /\ Empty.dumb
    /\ NoBo.handle = None /\ NoBo.of = None /\ NoBo.ptr = None
BY DEF NoPriv, Empty, Priv, NoBo

\* A pixmap with a descriptor has a buffer.
LEMMA FdOfBuffer ==
    ASSUME ExaTypes, OwnInv
    PROVE  \A p \in Pixmaps : priv[p].fd = None \/ priv[p].bo.of # None
<1> SUFFICES ASSUME NEW p \in Pixmaps, priv[p].fd # None PROVE priv[p].bo.of # None
  OBVIOUS
<1>1. priv[p].bo # NoBo
  BY DEF OwnInv
<1>2. priv[p].bo \in BoRecord
  BY <1>1 DEF ExaTypes, Priv
<1>3. QED
  BY <1>2, NoneApart DEF BoRecord

\* A buffer that no handle names is no pixmap's.
LEMMA BufferOfNone ==
    ASSUME ExaTypes, BoInv, ~twins, NEW b \in Buffers, \A h \in Handles : handles[h] # b
    PROVE  \A q \in Pixmaps : priv[q].bo.of # b
<1> SUFFICES ASSUME NEW q \in Pixmaps, priv[q].bo.of = b PROVE FALSE
  OBVIOUS
<1>1. priv[q].bo # NoBo
  BY NoneApart, PrivTyped
<1>2. priv[q].bo \in BoRecord
  BY <1>1 DEF ExaTypes, Priv
<1>3. handles[priv[q].bo.handle] = priv[q].bo.of
  BY <1>1 DEF BoInv, Named
<1>4. QED
  BY <1>2, <1>3 DEF BoRecord

\* A pixmap without buffer is given one, that no pixmap has unless there were twins.
LEMMA BufferGiven ==
    ASSUME ExaInv, NEW p \in Pixmaps, priv[p].bo = NoBo,
           NEW b \in Buffers, NEW h \in Handles, handles[h] \in {None, b},
           \A g \in Handles : handles[g] = b => g = h,
           NEW r \in Priv, r.bo = Bo(h, b), r.owned,
           ~twins' => ~twins /\ \A q \in Pixmaps : priv[q].bo.of # b,
           handles' = [handles EXCEPT ![h] = b],
           priv' = [priv EXCEPT ![p] = r],
           lost'.handles = lost.handles
    PROVE  OneHandle' /\ BoInv' /\ OwnInv' /\ HandleInv'
<1> DEFINE G == [handles EXCEPT ![h] = b]
           Q == [priv EXCEPT ![p] = r]
<1>1. handles \in [Handles -> Buffers \cup {None}] /\ priv \in [Pixmaps -> Priv]
  BY DEF ExaInv, ExaTypes
<1>2. r.bo.handle = h
  BY BoTyped
<1>3. Single(G)
  BY <1>1, HandleGiven DEF ExaInv, OneHandle
<1>4. ~twins' => Named(G, Q)
  BY <1>1, NamedGiven DEF ExaInv, BoInv
<1>5. Taken(G, lost.handles, Q)
  BY <1>1, <1>2, TakenGiven DEF ExaInv, HandleInv
<1>6. OwnInv'
  <2> SUFFICES ASSUME NEW q \in Pixmaps
               PROVE  /\ Q[q].bo # NoBo => Q[q].owned
                      /\ Q[q].fd # None => Q[q].bo # NoBo
    BY DEF OwnInv
  <2>1. CASE q = p
    BY <1>1, <2>1, BoTyped
  <2>2. CASE q # p
    BY <1>1, <2>2 DEF ExaInv, OwnInv
  <2>3. QED
    BY <2>1, <2>2
<1>7. OneHandle'
  BY <1>3 DEF OneHandle
<1>8. BoInv'
  BY <1>4 DEF BoInv
<1>9. HandleInv'
  BY <1>5 DEF HandleInv
<1>10. QED
  BY <1>6, <1>7, <1>8, <1>9

\* A pixmap without buffer becomes another one without buffer.
LEMMA NoBufferGiven ==
    ASSUME ExaInv, NEW p \in Pixmaps, priv[p].bo = NoBo, NEW r \in Priv,
           r.bo = NoBo, r.fd = None,
           priv' = [priv EXCEPT ![p] = r], UNCHANGED <<handles, fds, clients, lost, twins>>
    PROVE  ExaInv'
<1>1. /\ handles \in [Handles -> Buffers \cup {None}] /\ priv \in [Pixmaps -> Priv]
      /\ fds \in [Fds -> Buffers \cup {None}]
  BY DEF ExaInv, ExaTypes
<1>2. priv[p].fd = None
  BY DEF ExaInv, OwnInv
<1>3. ExaTypes'
  BY <1>1 DEF ExaInv, ExaTypes
<1>4. OneHandle'
  BY DEF ExaInv, OneHandle
<1>5. BoInv'
  BY <1>1, NamedKept DEF ExaInv, BoInv
<1>6. OwnInv'
  BY <1>1 DEF ExaInv, OwnInv
<1>7. FdInv'
  <2>1. Descriptors(fds, lost.fds, [priv EXCEPT ![p] = r])
    BY <1>1, <1>2, FdNotGiven DEF ExaInv, FdInv
  <2>2. QED
    BY <2>1 DEF FdInv
<1>8. HandleInv'
  <2>1. Taken(handles, lost.handles, [priv EXCEPT ![p] = r])
    BY <1>1, TakenKept DEF ExaInv, HandleInv
  <2>2. QED
    BY <2>1 DEF HandleInv
<1>9. QED
  BY <1>3, <1>4, <1>5, <1>6, <1>7, <1>8 DEF ExaInv

\* Nothing of the driver changes.
LEMMA DriverKept ==
    ASSUME ExaInv, UNCHANGED <<handles, fds, priv, lost, twins>>, clients' \subseteq Buffers
    PROVE  ExaInv'
BY DEF ExaInv, ExaTypes, OneHandle, BoInv, OwnInv, FdInv, HandleInv

-----------------------------------------------------------------------------
(* The steps *)

LEMMA ClientMakesStep ==
    ASSUME ExaInv, ClientMakes PROVE ExaInv'
<1>1. clients' \subseteq Buffers
  BY BufferIsNew DEF ExaInv, ExaTypes, ClientMakes
<1>2. QED
  BY <1>1, DriverKept DEF ClientMakes

LEMMA CreateDumbStep ==
    ASSUME ExaInv, NEW p \in Pixmaps, LS_CreateDumbPixmap(p) PROVE ExaInv'
<1> DEFINE b == Min(Buffers \ InUse)
           h == Min(FreeHandles)
           f == Min(FreeFds)
           r == [Empty EXCEPT !.bo = Bo(h, b), !.owned = TRUE]
<1>1. b \in Buffers /\ b # None /\ \A g \in Handles : handles[g] # b
  BY BufferIsNew DEF ExaInv, LS_CreateDumbPixmap
<1>2. h \in Handles /\ handles[h] = None
  BY <1>1, HandleIsLeft DEF ExaInv
<1>3. f \in Fds /\ fds[f] = None /\ f # None
  BY FdIsFree DEF LS_CreateDumbPixmap
<1>4. priv[p].bo = NoBo /\ priv[p].fd = None
  BY PrivTyped DEF LS_CreateDumbPixmap, Created
<1>5. /\ handles' = [handles EXCEPT ![h] = b] /\ fds' = [fds EXCEPT ![f] = b]
      /\ lost' = [lost EXCEPT !.fds = @ \cup {f}] /\ priv' = [priv EXCEPT ![p] = r]
      /\ UNCHANGED <<clients, twins>>
  BY DEF LS_CreateDumbPixmap
<1> HIDE DEF b, h, f
<1>6. r \in Priv /\ r.bo = Bo(h, b) /\ r.owned /\ r.fd = None
  <2>1. Bo(h, b) \in BoRecord
    BY <1>1, <1>2, BoTyped
  <2>2. QED
    BY <2>1, PrivTyped DEF Priv, Empty, NoPriv
<1> HIDE DEF r
<1>7. ~twins' => ~twins /\ \A q \in Pixmaps : priv[q].bo.of # b
  BY <1>1, <1>5, BufferOfNone DEF ExaInv
<1>8. OneHandle' /\ BoInv' /\ OwnInv' /\ HandleInv'
  <2>1. lost'.handles = lost.handles
    BY <1>5 DEF ExaInv, ExaTypes
  <2>2. QED
    BY <1>1, <1>2, <1>4, <1>5, <1>6, <1>7, <2>1, BufferGiven
<1>9. ExaTypes'
  BY <1>1, <1>2, <1>3, <1>5, <1>6 DEF ExaInv, ExaTypes
<1>10. FdInv'
  <2>1. /\ fds \in [Fds -> Buffers \cup {None}] /\ lost.fds \in SUBSET Fds
        /\ priv \in [Pixmaps -> Priv] /\ Descriptors(fds, lost.fds, priv)
    BY DEF ExaInv, ExaTypes, FdInv
  <2>2. \A q \in Pixmaps : priv[q].fd = None \/ priv[q].bo.of # None
    BY FdOfBuffer DEF ExaInv
  <2>3. Descriptors(fds', lost.fds \cup {f}, priv)
    BY <1>1, <1>3, <1>5, <2>1, <2>2, FdDropped
  <2>4. Descriptors(fds', lost.fds \cup {f}, priv')
    BY <1>4, <1>5, <1>6, <2>1, <2>3, FdNotGiven
  <2>5. lost'.fds = lost.fds \cup {f}
    BY <1>5 DEF ExaInv, ExaTypes
  <2>6. QED
    BY <2>4, <2>5 DEF FdInv
<1>11. QED
  BY <1>8, <1>9, <1>10 DEF ExaInv

LEMMA CreateDumbFailsStep ==
    ASSUME ExaInv, NEW p \in Pixmaps, LS_CreateDumbPixmapFails(p) PROVE ExaInv'
<1> DEFINE b == Min(Buffers \ InUse)
           h == Min(FreeHandles)
<1>1. b \in Buffers /\ b # None /\ \A g \in Handles : handles[g] # b
  BY BufferIsNew DEF ExaInv, LS_CreateDumbPixmapFails
<1>2. h \in Handles /\ handles[h] = None
  BY <1>1, HandleIsLeft DEF ExaInv
<1>3. /\ handles' = [handles EXCEPT ![h] = b]
      /\ lost' = [lost EXCEPT !.handles = @ \cup {h}]
      /\ UNCHANGED <<fds, priv, clients, twins>>
  BY DEF LS_CreateDumbPixmapFails
<1> HIDE DEF b, h
<1>4. handles \in [Handles -> Buffers \cup {None}] /\ priv \in [Pixmaps -> Priv]
  BY DEF ExaInv, ExaTypes
<1>5. lost'.fds = lost.fds /\ lost'.handles = lost.handles \cup {h}
  BY <1>3 DEF ExaInv, ExaTypes
<1>6. ExaTypes'
  BY <1>1, <1>2, <1>3 DEF ExaInv, ExaTypes
<1>7. OneHandle'
  <2>1. Single([handles EXCEPT ![h] = b])
    BY <1>1, <1>2, <1>4, HandleGiven DEF ExaInv, OneHandle
  <2>2. QED
    BY <1>3, <2>1 DEF OneHandle
<1>8. BoInv'
  <2>1. SUFFICES ASSUME ~twins PROVE Named([handles EXCEPT ![h] = b], priv)
    BY <1>3 DEF BoInv
  <2>2. \A q \in Pixmaps : priv[q].bo.of # b
    BY <1>1, <2>1, BufferOfNone DEF ExaInv
  <2>3. QED
    BY <1>1, <1>2, <1>4, <2>1, <2>2, NamedElsewhere DEF ExaInv, BoInv
<1>9. OwnInv' /\ FdInv'
  BY <1>3, <1>5 DEF ExaInv, OwnInv, FdInv
<1>10. HandleInv'
  <2>1. Taken([handles EXCEPT ![h] = b], lost.handles \cup {h}, priv)
    BY <1>4, TakenElsewhere DEF ExaInv, HandleInv
  <2>2. QED
    BY <1>3, <1>5, <2>1 DEF HandleInv
<1>11. QED
  BY <1>6, <1>7, <1>8, <1>9, <1>10 DEF ExaInv

LEMMA CreateEmptyStep ==
    ASSUME ExaInv, NEW p \in Pixmaps,
           LS_CreateDumbPixmapEmpty(p) \/ LS_CreateExaPixmap(p)
    PROVE  ExaInv'
<1>1. priv[p].bo = NoBo
  BY PrivTyped DEF LS_CreateDumbPixmapEmpty, LS_CreateExaPixmap, Created
<1>2. PICK r \in {Empty, [NoPriv EXCEPT !.pDat = TRUE]} : priv' = [priv EXCEPT ![p] = r]
  BY DEF LS_CreateDumbPixmapEmpty, LS_CreateExaPixmap
<1>3. r \in Priv /\ r.bo = NoBo /\ r.fd = None
  BY <1>2 DEF Empty, NoPriv, Priv
<1>4. UNCHANGED <<handles, fds, clients, lost, twins>>
  BY DEF LS_CreateDumbPixmapEmpty, LS_CreateExaPixmap
<1>5. QED
  BY <1>1, <1>2, <1>3, <1>4, NoBufferGiven

LEMMA FailsStep ==
    ASSUME ExaInv, NEW p \in Pixmaps, LS_CreateExaPixmapFails(p) \/ AccessFails(p)
    PROVE  ExaInv'
<1>1. UNCHANGED <<handles, fds, clients, priv, lost, twins>>
  BY DEF LS_CreateExaPixmapFails, AccessFails
<1>2. QED
  BY <1>1, DriverKept DEF ExaInv, ExaTypes

LEMMA FromFdsStep ==
    ASSUME ExaInv, NEW p \in Pixmaps, NEW b \in Buffers, ms_exa_pixmap_from_fds(p, b)
    PROVE  ExaInv'
<1> DEFINE h == FDToHandle(b)
           f == Min(FreeFds)
           r == [Empty EXCEPT !.bo = Bo(h, b), !.fd = f, !.owned = TRUE]
<1>1. b # None
  BY NoneApart
<1>2. /\ h \in Handles /\ handles[h] \in {None, b}
      /\ \A g \in Handles : handles[g] = b => g = h
  BY HandleOfImport DEF ExaInv
<1>3. f \in Fds /\ fds[f] = None /\ f # None
  BY FdIsFree DEF ms_exa_pixmap_from_fds
<1>4. priv[p].bo = NoBo /\ priv[p].fd = None
  BY PrivTyped DEF ms_exa_pixmap_from_fds, Created
<1>5. /\ handles' = [handles EXCEPT ![h] = b] /\ fds' = [fds EXCEPT ![f] = b]
      /\ priv' = [priv EXCEPT ![p] = r] /\ twins' = Twin(b)
      /\ UNCHANGED <<clients, lost>>
  BY DEF ms_exa_pixmap_from_fds, ms_exa_set_pixmap_bo
<1> HIDE DEF h, f
<1>6. r \in Priv /\ r.bo = Bo(h, b) /\ r.owned /\ r.fd = f /\ r.bo.of = b
  <2>1. Bo(h, b) \in BoRecord /\ Bo(h, b).of = b
    BY <1>2, BoTyped
  <2>2. QED
    BY <1>3, <2>1, PrivTyped DEF Priv, Empty, NoPriv
<1> HIDE DEF r
<1>7. ~twins' => ~twins /\ \A q \in Pixmaps : priv[q].bo.of # b
  BY <1>5 DEF Twin
<1>8. OneHandle' /\ BoInv' /\ OwnInv' /\ HandleInv'
  BY <1>2, <1>4, <1>5, <1>6, <1>7, BufferGiven
<1>9. ExaTypes'
  BY <1>2, <1>3, <1>5, <1>6 DEF ExaInv, ExaTypes, Twin
<1>10. FdInv'
  <2>1. /\ fds \in [Fds -> Buffers \cup {None}] /\ lost.fds \in SUBSET Fds
        /\ priv \in [Pixmaps -> Priv] /\ Descriptors(fds, lost.fds, priv)
    BY DEF ExaInv, ExaTypes, FdInv
  <2>2. \A q \in Pixmaps : priv[q].fd = None \/ priv[q].bo.of # None
    BY FdOfBuffer DEF ExaInv
  <2>3. Descriptors(fds', lost.fds, priv')
    BY <1>1, <1>3, <1>4, <1>5, <1>6, <2>1, <2>2, FdGiven
  <2>4. QED
    BY <1>5, <2>3 DEF FdInv
<1>11. QED
  BY <1>8, <1>9, <1>10 DEF ExaInv

LEMMA FromFdsFailsStep ==
    ASSUME ExaInv, NEW p \in Pixmaps, NEW b \in Buffers, ms_exa_pixmap_from_fds_fails(p, b)
    PROVE  ExaInv'
<1> DEFINE h == FDToHandle(b)
<1>1. h \in Handles /\ handles[h] \in {None, b}
  BY HandleOfImport DEF ExaInv
<1>2. /\ handles' = [handles EXCEPT ![h] = None] /\ twins' = Twin(b)
      /\ UNCHANGED <<fds, priv, clients, lost>>
  BY DEF ms_exa_pixmap_from_fds_fails, dumb_bo_destroy, Bo
<1> HIDE DEF h
<1>3. handles \in [Handles -> Buffers \cup {None}] /\ priv \in [Pixmaps -> Priv]
  BY DEF ExaInv, ExaTypes
<1>4. ExaTypes'
  BY <1>2 DEF ExaInv, ExaTypes, Twin
<1>5. OneHandle'
  <2>1. Single([handles EXCEPT ![h] = None])
    BY <1>3, HandleClosed DEF ExaInv, OneHandle
  <2>2. QED
    BY <1>2, <2>1 DEF OneHandle
<1>6. BoInv'
  <2>1. SUFFICES ASSUME ~twins' PROVE Named([handles EXCEPT ![h] = None], priv)
    BY <1>2 DEF BoInv
  <2>2. ~twins /\ \A q \in Pixmaps : priv[q].bo.of # b
    BY <1>2, <2>1 DEF Twin
  <2>3. QED
    BY <1>1, <1>3, <2>2, NamedElsewhere DEF ExaInv, BoInv
<1>7. OwnInv' /\ FdInv'
  BY <1>2 DEF ExaInv, OwnInv, FdInv
<1>8. HandleInv'
  <2>1. Taken([handles EXCEPT ![h] = None], lost.handles, priv)
    BY <1>3, TakenElsewhere DEF ExaInv, HandleInv
  <2>2. QED
    BY <1>2, <2>1 DEF HandleInv
<1>9. QED
  BY <1>4, <1>5, <1>6, <1>7, <1>8 DEF ExaInv

LEMMA EglFdsStep ==
    ASSUME ExaInv, NEW p \in Pixmaps, ms_exa_egl_fds_from_pixmap(p) PROVE ExaInv'
<1>1. priv[p].bo \in BoRecord
  BY DEF ExaInv, ExaTypes, Priv, ms_exa_egl_fds_from_pixmap
<1>2. handles[priv[p].bo.handle] \in Buffers
  BY <1>1 DEF ExaInv, ExaTypes, BoRecord, ms_exa_egl_fds_from_pixmap
<1>3. clients' \subseteq Buffers
  BY <1>2 DEF ExaInv, ExaTypes, ms_exa_egl_fds_from_pixmap
<1>4. QED
  BY <1>3, DriverKept DEF ms_exa_egl_fds_from_pixmap

LEMMA BackStep ==
    ASSUME ExaInv, NEW p \in Pixmaps, ms_exa_back_pixmap_from_fd(p) PROVE ExaInv'
<1> DEFINE b == Min(Buffers \ InUse)
           h == FDToHandle(b)
           f == Min(FreeFds)
           g == Min(FreeFds \ {f})
           r == [Empty EXCEPT !.bo = Bo(h, b), !.fd = g, !.owned = TRUE]
<1>1. b \in Buffers /\ b # None /\ \A i \in Handles : handles[i] # b
  BY BufferIsNew DEF ExaInv, ms_exa_back_pixmap_from_fd
<1>2. /\ h \in Handles /\ handles[h] \in {None, b}
      /\ \A i \in Handles : handles[i] = b => i = h
  BY <1>1, HandleOfImport DEF ExaInv
<1>3. FreeFds # {} /\ FreeFds \ {f} # {}
  <2>1. Cardinality(FreeFds) >= 2
    BY DEF ms_exa_back_pixmap_from_fd
  <2>2. FreeFds # {}
    BY <2>1, FS_EmptySet
  <2>3. FreeFds # {f}
    BY <2>1, FS_Singleton
  <2>4. QED
    BY <2>2, <2>3
<1>4. f \in Fds /\ fds[f] = None /\ f # None
  BY <1>3, FdIsFree
<1>5. g \in Fds /\ fds[g] = None /\ g # None /\ g # f
  BY <1>3, FdIsFree
<1>6. priv[p].bo = NoBo /\ priv[p].fd = None
  BY PrivTyped DEF ms_exa_back_pixmap_from_fd
<1>7. /\ handles' = [handles EXCEPT ![h] = b]
      /\ fds' = [[fds EXCEPT ![f] = b] EXCEPT ![g] = b]
      /\ priv' = [priv EXCEPT ![p] = r]
      /\ lost' = [lost EXCEPT !.fds = @ \cup {f}]
      /\ UNCHANGED <<clients, twins>>
  BY DEF ms_exa_back_pixmap_from_fd, ms_exa_set_pixmap_bo
<1> HIDE DEF b, h, f, g
<1>8. r \in Priv /\ r.bo = Bo(h, b) /\ r.owned /\ r.fd = g /\ r.bo.of = b
  <2>1. Bo(h, b) \in BoRecord /\ Bo(h, b).of = b
    BY <1>1, <1>2, BoTyped
  <2>2. QED
    BY <1>5, <2>1, PrivTyped DEF Priv, Empty, NoPriv
<1> HIDE DEF r
<1>9. ~twins' => ~twins /\ \A q \in Pixmaps : priv[q].bo.of # b
  BY <1>1, <1>7, BufferOfNone DEF ExaInv
<1>10. OneHandle' /\ BoInv' /\ OwnInv' /\ HandleInv'
  <2>1. lost'.handles = lost.handles
    BY <1>7 DEF ExaInv, ExaTypes
  <2>2. QED
    BY <1>1, <1>2, <1>6, <1>7, <1>8, <1>9, <2>1, BufferGiven
<1>11. ExaTypes'
  BY <1>1, <1>2, <1>4, <1>5, <1>7, <1>8 DEF ExaInv, ExaTypes
<1>12. FdInv'
  <2>1. /\ fds \in [Fds -> Buffers \cup {None}] /\ lost.fds \in SUBSET Fds
        /\ priv \in [Pixmaps -> Priv] /\ Descriptors(fds, lost.fds, priv)
    BY DEF ExaInv, ExaTypes, FdInv
  <2>2. \A q \in Pixmaps : priv[q].fd = None \/ priv[q].bo.of # None
    BY FdOfBuffer DEF ExaInv
  <2> DEFINE T == [fds EXCEPT ![f] = b]
             L == lost.fds \cup {f}
  <2>3. Descriptors(T, L, priv)
    BY <1>1, <1>4, <2>1, <2>2, FdDropped
  <2>4. T \in [Fds -> Buffers \cup {None}] /\ T[g] = None /\ L \in SUBSET Fds
    BY <1>1, <1>4, <1>5, <2>1
  <2> HIDE DEF T, L
  <2>5. Descriptors([T EXCEPT ![g] = b], L, [priv EXCEPT ![p] = r])
    BY <1>1, <1>5, <1>6, <1>8, <2>1, <2>2, <2>3, <2>4, FdGiven
  <2>6. lost'.fds = L
    BY <1>7 DEF ExaInv, ExaTypes, L
  <2>7. QED
    BY <1>7, <2>5, <2>6 DEF FdInv, T
<1>13. QED
  BY <1>10, <1>11, <1>12 DEF ExaInv

LEMMA BackFailsStep ==
    ASSUME ExaInv, NEW p \in Pixmaps, ms_exa_back_pixmap_from_fd_fails(p) PROVE ExaInv'
<1> DEFINE b == Min(Buffers \ InUse)
           f == Min(FreeFds)
<1>1. b \in Buffers /\ b # None
  BY BufferIsNew DEF ExaInv, ms_exa_back_pixmap_from_fd_fails
<1>2. f \in Fds /\ fds[f] = None
  BY FdIsFree DEF ms_exa_back_pixmap_from_fd_fails
<1>3. /\ fds' = [fds EXCEPT ![f] = b] /\ lost' = [lost EXCEPT !.fds = @ \cup {f}]
      /\ UNCHANGED <<handles, clients, priv, twins>>
  BY DEF ms_exa_back_pixmap_from_fd_fails
<1> HIDE DEF b, f
<1>4. lost'.fds = lost.fds \cup {f} /\ lost'.handles = lost.handles
  BY <1>3 DEF ExaInv, ExaTypes
<1>5. ExaTypes'
  BY <1>1, <1>2, <1>3 DEF ExaInv, ExaTypes
<1>6. OneHandle' /\ BoInv' /\ OwnInv' /\ HandleInv'
  BY <1>3, <1>4 DEF ExaInv, OneHandle, BoInv, OwnInv, HandleInv
<1>7. FdInv'
  <2>1. fds \in [Fds -> Buffers \cup {None}] /\ lost.fds \in SUBSET Fds
    BY DEF ExaInv, ExaTypes
  <2>2. \A q \in Pixmaps : priv[q].fd = None \/ priv[q].bo.of # None
    BY FdOfBuffer DEF ExaInv
  <2>3. Descriptors([fds EXCEPT ![f] = b], lost.fds \cup {f}, priv)
    BY <1>1, <1>2, <2>1, <2>2, FdDropped DEF ExaInv, FdInv
  <2>4. QED
    BY <1>3, <1>4, <2>3 DEF FdInv
<1>8. QED
  BY <1>5, <1>6, <1>7 DEF ExaInv

LEMMA AccessStep ==
    ASSUME ExaInv, NEW p \in Pixmaps, Access(p) PROVE ExaInv'
<1> DEFINE c == handles[priv[p].bo.handle]
           r == [priv[p] EXCEPT !.bo.ptr = c]
<1>1. /\ handles \in [Handles -> Buffers \cup {None}] /\ priv \in [Pixmaps -> Priv]
      /\ priv[p] \in Priv
  BY DEF ExaInv, ExaTypes
<1>2. priv[p].bo # NoBo
  BY DEF Access, Offscreen
<1>3. priv[p].bo \in BoRecord
  BY <1>1, <1>2 DEF Priv
<1>4. c \in Buffers
  BY <1>1, <1>3 DEF BoRecord, Access
<1>5. /\ priv' = [priv EXCEPT ![p] = r]
      /\ UNCHANGED <<handles, fds, clients, lost, twins>>
  BY DEF Access
<1>6. /\ r.bo \in BoRecord /\ r.bo.handle = priv[p].bo.handle /\ r.bo.of = priv[p].bo.of
      /\ r.bo.ptr = c
  BY <1>1, <1>3, <1>4 DEF BoRecord, Priv
<1>7. r \in Priv /\ r.fd = priv[p].fd /\ r.owned = priv[p].owned
  BY <1>1, <1>6 DEF Priv
<1> HIDE DEF r
<1>8. \A q \in Pixmaps : priv'[q] = IF q = p THEN r ELSE priv[q]
  BY <1>1, <1>5
<1>9. ExaTypes'
  BY <1>5, <1>7 DEF ExaInv, ExaTypes
<1>10. OneHandle'
  BY <1>5 DEF ExaInv, OneHandle
<1>11. BoInv'
  <2>1. SUFFICES ASSUME ~twins, NEW q \in Pixmaps, priv'[q].bo # NoBo
                 PROVE  /\ handles[priv'[q].bo.handle] = priv'[q].bo.of
                        /\ priv'[q].bo.ptr \in {None, priv'[q].bo.of}
                        /\ \A o \in Pixmaps \ {q} : priv'[o].bo.of # priv'[q].bo.of
    BY <1>5 DEF BoInv, Named
  <2>2. \A o \in Pixmaps : /\ priv'[o].bo.handle = priv[o].bo.handle
                           /\ priv'[o].bo.of = priv[o].bo.of
    BY <1>6, <1>8
  <2>3. priv[q].bo # NoBo
    BY <1>2, <1>8, <2>1
  <2>4. /\ handles[priv[q].bo.handle] = priv[q].bo.of
        /\ priv[q].bo.ptr \in {None, priv[q].bo.of}
        /\ \A o \in Pixmaps \ {q} : priv[o].bo.of # priv[q].bo.of
    BY <2>1, <2>3 DEF ExaInv, BoInv, Named
  <2>5. priv'[q].bo.ptr \in {None, priv[q].bo.of}
    BY <1>6, <1>8, <2>4
  <2>6. QED
    BY <2>2, <2>4, <2>5
<1>12. OwnInv'
  <2>1. r.bo # NoBo
    BY <1>6, NoneApart DEF NoBo, BoRecord
  <2>2. QED
    BY <1>2, <1>7, <1>8, <2>1 DEF ExaInv, OwnInv
<1>13. FdInv'
  <2>1. Descriptors(fds, lost.fds, [priv EXCEPT ![p] = r])
    BY <1>1, <1>6, <1>7, FdNotGiven DEF ExaInv, FdInv
  <2>2. QED
    BY <1>5, <2>1 DEF FdInv
<1>14. HandleInv'
  <2>1. Taken(handles, lost.handles, [priv EXCEPT ![p] = r])
    BY <1>1, <1>6, <1>7, TakenKept DEF ExaInv, HandleInv
  <2>2. QED
    BY <1>5, <2>1 DEF HandleInv
<1>15. QED
  BY <1>9, <1>10, <1>11, <1>12, <1>13, <1>14 DEF ExaInv

LEMMA DestroyStep ==
    ASSUME ExaInv, NEW p \in Pixmaps, LS_DestroyDumbPixmap(p) PROVE ExaInv'
<1> DEFINE h == priv[p].bo.handle
           G == [handles EXCEPT ![h] = None]
           Q == [priv EXCEPT ![p] = NoPriv]
<1>1. /\ handles \in [Handles -> Buffers \cup {None}] /\ priv \in [Pixmaps -> Priv]
      /\ fds \in [Fds -> Buffers \cup {None}] /\ lost.fds \in SUBSET Fds
  BY DEF ExaInv, ExaTypes
<1>2. /\ fds' = IF priv[p].fd # None THEN [fds EXCEPT ![priv[p].fd] = None] ELSE fds
      /\ priv' = Q /\ UNCHANGED <<clients, lost, twins>>
  BY DEF LS_DestroyDumbPixmap
<1>3. handles' = G
  <2>1. CASE priv[p].bo # NoBo
    BY <2>1 DEF LS_DestroyDumbPixmap, dumb_bo_destroy, ExaInv, OwnInv
  <2>2. CASE priv[p].bo = NoBo
    <3>1. h \notin Handles
      BY <2>2, NoneApart, PrivTyped
    <3>2. G = handles
      BY <1>1, <3>1
    <3>3. QED
      BY <2>2, <3>2 DEF LS_DestroyDumbPixmap
  <2>3. QED
    BY <2>1, <2>2
<1>4. \A q \in Pixmaps : Q[q] = IF q = p THEN NoPriv ELSE priv[q]
  BY <1>1
<1>5. ExaTypes'
  <2>1. G \in [Handles -> Buffers \cup {None}] /\ Q \in [Pixmaps -> Priv]
    BY <1>1, PrivTyped
  <2>2. fds' \in [Fds -> Buffers \cup {None}]
    BY <1>1, <1>2
  <2>3. QED
    BY <1>2, <1>3, <2>1, <2>2 DEF ExaInv, ExaTypes
<1>6. OneHandle'
  <2>1. Single(G)
    BY <1>1, HandleClosed DEF ExaInv, OneHandle
  <2>2. QED
    BY <1>3, <2>1 DEF OneHandle
<1>7. BoInv'
  <2>1. SUFFICES ASSUME ~twins PROVE Named(G, Q)
    BY <1>2, <1>3 DEF BoInv
  <2>2. Named(handles, priv)
    BY <2>1 DEF ExaInv, BoInv
  <2>3. CASE priv[p].bo # NoBo
    BY <1>1, <2>2, <2>3, NamedClosed
  <2>4. CASE priv[p].bo = NoBo
    <3>1. G = handles
      BY <1>1, <2>4, NoneApart, PrivTyped
    <3>2. Named(handles, Q)
      BY <1>1, <2>2, <2>4, NamedKept, PrivTyped
    <3>3. QED
      BY <3>1, <3>2
  <2>5. QED
    BY <2>3, <2>4
<1>8. OwnInv'
  BY <1>2, <1>4, PrivTyped DEF ExaInv, OwnInv
<1>9. FdInv'
  <2>1. Descriptors(fds, lost.fds, priv)
    BY DEF ExaInv, FdInv
  <2>2. Descriptors(fds', lost.fds, Q)
    <3>1. CASE priv[p].fd # None
      BY <1>1, <1>2, <2>1, <3>1, FdClosed
    <3>2. CASE priv[p].fd = None
      BY <1>1, <1>2, <2>1, <3>2, FdNotGiven, PrivTyped
    <3>3. QED
      BY <3>1, <3>2
  <2>3. QED
    BY <1>2, <2>2 DEF FdInv
<1>10. HandleInv'
  <2>1. Taken(G, lost.handles, Q)
    BY <1>1, TakenClosed DEF ExaInv, HandleInv
  <2>2. QED
    BY <1>2, <1>3, <2>1 DEF HandleInv
<1>11. QED
  BY <1>5, <1>6, <1>7, <1>8, <1>9, <1>10 DEF ExaInv

-----------------------------------------------------------------------------
LEMMA ExaInit ==
    Init => ExaInv
<1> SUFFICES ASSUME Init PROVE ExaInv
  OBVIOUS
<1>1. \A p \in Pixmaps : priv[p] = NoPriv
  BY DEF Init
<1>2. ExaTypes
  BY PrivTyped DEF Init, ExaTypes
<1>3. OneHandle /\ HandleInv
  BY DEF Init, OneHandle, Single, HandleInv, Taken
<1>4. BoInv /\ OwnInv
  BY <1>1, PrivTyped DEF BoInv, Named, OwnInv
<1>5. FdInv
  BY <1>1, PrivTyped DEF Init, FdInv, Descriptors
<1>6. QED
  BY <1>2, <1>3, <1>4, <1>5 DEF ExaInv

LEMMA ExaStep ==
    ExaInv /\ [Next]_vars => ExaInv'
<1> SUFFICES ASSUME ExaInv, [Next]_vars PROVE ExaInv'
  OBVIOUS
<1>1. CASE UNCHANGED vars
  BY <1>1, DriverKept DEF vars, ExaInv, ExaTypes
<1>2. CASE ClientMakes
  BY <1>2, ClientMakesStep
<1>3. ASSUME NEW b \in Buffers, ClientDrops(b) PROVE ExaInv'
  BY <1>3, DriverKept DEF ClientDrops, ExaInv, ExaTypes
<1>4. ASSUME NEW p \in Pixmaps, OfPixmap(p) PROVE ExaInv'
  BY <1>4, CreateDumbStep, CreateDumbFailsStep, CreateEmptyStep, FailsStep, FromFdsStep,
     FromFdsFailsStep, EglFdsStep, BackStep, BackFailsStep, AccessStep, DestroyStep
     DEF OfPixmap
<1>5. QED
  BY <1>1, <1>2, <1>3, <1>4 DEF Next

\* The inductive invariant holds in every state the server reaches.
THEOREM ExaCorrect ==
    Spec => []ExaInv
<1>1. QED
  BY ExaInit, ExaStep, PTL DEF Spec

\* As long as no two pixmaps have the same buffer, the handle of a pixmap's bo names the
\* buffer the bo was made for, and only that buffer is mapped for it (dumb_bo.c:106-127,
\* dri3.c:190-212, fake_exa.c:552-577).
THEOREM HandlesAreKept ==
    Spec => []HandlesKept
<1>1. ExaInv => HandlesKept
  BY DEF ExaInv, BoInv, Named, HandlesKept, Created
<1>2. QED
  BY <1>1, ExaCorrect, PTL

\* Every descriptor and every handle of the server that it did not drop is that of a pixmap,
\* a descriptor of one pixmap alone (fake_exa.c:553-574, loongson_pixmap.c:259-266,
\* dri3.c:204-212).
THEOREM EverythingIsOwned ==
    Spec => []Owned
<1>1. ASSUME ExaInv PROVE Owned
  <2>1. \A p \in Pixmaps : priv[p].fd # None \/ priv[p].bo.handle # None => p \in Created
    BY PrivTyped DEF Created
  <2>2. \A f \in Fds \ lost.fds : fds[f] # None => \E p \in Created : priv[p].fd = f
    BY <1>1, <2>1, NoneApart DEF ExaInv, FdInv, Descriptors
  <2>3. \A p \in Created : priv[p].fd # None =>
          /\ fds[priv[p].fd] = priv[p].bo.of /\ priv[p].fd \notin lost.fds
          /\ \A q \in Created \ {p} : priv[q].fd # priv[p].fd
    BY <1>1 DEF ExaInv, FdInv, Descriptors, Created
  <2>4. \A h \in Handles \ lost.handles :
          handles[h] # None => \E p \in Created : priv[p].bo.handle = h
    BY <1>1, <2>1, NoneApart DEF ExaInv, HandleInv, Taken
  <2>5. QED
    BY <2>2, <2>3, <2>4 DEF Owned
<1>2. QED
  BY <1>1, ExaCorrect, PTL
=============================================================================
