--------------------------- MODULE HotplugProofs ---------------------------
(***************************************************************************)
(* Proofs about module Hotplug, for any number of ports, object ids, CRTCs *)
(* and lessees.                                                            *)
(*                                                                         *)
(* OutputInv.  OutputsRight is not inductive: between the list of          *)
(* connectors and the last output that is made from it, connectors come    *)
(* and go.  The strengthening says that a connector an output has is there *)
(* or its going was not seen, so that an id that is given on is noticed    *)
(* (odd); and that the connectors still to be given an output have none.   *)
(*                                                                         *)
(* LesseesKnown is inductive with the types: a lease is created only if    *)
(* the kernel grants it, and is forgotten only if the lessee is not listed *)
(* or the kernel revoked it.                                               *)
(***************************************************************************)
EXTENDS Hotplug, FiniteSetTheorems, SequenceTheorems, TLAPS

-----------------------------------------------------------------------------
(* Types *)

USE DEF setup, drmmode_crtc_set_mode

\* An output record.
OutputRecord == [name : Ports \cup {None}, output_id : Ids \cup {None}, link : BOOLEAN,
    crtc : BOOLEAN]

\* The values the variables can have.
HotplugTypes ==
    /\ connectors \in [Ids -> Ports \cup {None}]
    /\ linkBad \subseteq Ids
    /\ uevent \in BOOLEAN
    /\ lessees \in [LesseeIds -> {NoLessee} \cup [crtc : Crtcs, connector : Ids]]
    /\ vtSema \in BOOLEAN
    /\ output \in Seq(OutputRecord)
    /\ leases \in [Crtcs -> [output : Nat, lessee_id : LesseeIds \cup {None}]]
    /\ zaphod \in BOOLEAN /\ atomic_modeset \in BOOLEAN
    /\ pc \in {"idle", "detect", "resources", "init", "validate", "info", "dead"}
    /\ found \subseteq Ids
    /\ unseen \subseteq Ids
    /\ odd \subseteq {"call", "id", "name"}

-----------------------------------------------------------------------------
(* Sequences *)

\* A function on 1..n is a sequence.
LEMMA FunctionIsSeq ==
    ASSUME NEW S, NEW n \in Nat, NEW f \in [1..n -> S]
    PROVE  f \in Seq(S) /\ Len(f) = n
<1>1. f \in Seq(S)
  BY SeqDef
<1>2. Len(f) \in Nat /\ DOMAIN f = 1..Len(f) /\ DOMAIN f = 1..n
  BY <1>1, LenProperties
<1>3. Len(f) = n
  <2>1. CASE n = 0
    BY <1>2, <2>1
  <2>2. CASE n # 0
    <3>1. n \in 1..Len(f)
      BY <1>2, <2>2
    <3>2. Len(f) \in 1..n
      BY <1>2, <3>1
    <3>3. QED
      BY <1>2, <3>1, <3>2
  <2>3. QED
    BY <2>1, <2>2
<1>4. QED
  BY <1>1, <1>3

\* A finite set as a sequence: its elements, each once.
LEMMA SetToSeqIs ==
    ASSUME NEW S, IsFiniteSet(S)
    PROVE  /\ SetToSeq(S) \in Seq(S)
           /\ \A j, k \in 1..Len(SetToSeq(S)) : SetToSeq(S)[j] = SetToSeq(S)[k] => j = k
<1> DEFINE n == Cardinality(S)
<1>1. n \in Nat /\ ExistsBijection(1..n, S)
  BY FS_CardinalityType
<1>2. \E f \in [1..n -> S] : IsInjective(f)
  BY <1>1 DEF ExistsBijection, Bijection, Injection, IsInjective
<1>3. SetToSeq(S) \in [1..n -> S] /\ IsInjective(SetToSeq(S))
  BY <1>2 DEF SetToSeq
<1>4. SetToSeq(S) \in Seq(S) /\ Len(SetToSeq(S)) = n
  BY <1>1, <1>3, FunctionIsSeq
<1>5. QED
  BY <1>3, <1>4 DEF IsInjective

\* A set of positions that is not empty has a first one.
LEMMA FirstPosition ==
    ASSUME NEW S \in SUBSET Nat, S # {}
    PROVE  \E k \in S : \A j \in S : k <= j
<1> DEFINE R == {p \in Nat \X Nat : p[1] < p[2]}
<1>1. IsWellFoundedOn(R, Nat)
  BY NatLessThanWellFounded DEF OpToRel
<1>2. PICK k \in S : \A j \in S : ~(<<j, k>> \in R)
  <2> HIDE DEF R
  <2>1. QED
    BY <1>1, WFMin
<1>3. ASSUME NEW j \in S PROVE k <= j
  <2>1. k \in Nat /\ j \in Nat
    OBVIOUS
  <2>2. <<j, k>> \in R <=> j < k
    BY <2>1
  <2>3. QED
    BY <1>2, <2>1, <2>2
<1>4. QED
  BY <1>3

-----------------------------------------------------------------------------
(* Outputs *)

\* No two outputs have the same connector.
Apart(out) ==
    \A j, k \in 1..Len(out) :
       j # k /\ out[j].output_id # None => out[j].output_id # out[k].output_id

\* The outputs have connectors in I, or none.
Known(out, I) == \A k \in 1..Len(out) : out[k].output_id \in I \cup {None}

\* An output whose connector exists has its name, if C gives the connectors.
Named(out, C) ==
    \A k \in 1..Len(out), id \in Ids :
       out[k].output_id = id /\ C[id] # None => C[id] = out[k].name

\* OutputsRight, and: a connector that an output has exists or was not seen going, and the
\* connectors found have no output.
OutputInv ==
    /\ Apart(output)
    /\ Known(output, Present \cup unseen)
    /\ odd \cap {"id", "name"} = {} => Named(output, connectors)
    /\ pc = "init" => \A k \in Outputs : output[k].output_id \notin found

\* The outputs in new are those in out, but some are gone.
SomeGone(out, new) ==
    /\ Len(new) = Len(out)
    /\ \A k \in 1..Len(out) : /\ new[k].name = out[k].name
                              /\ new[k].output_id \in {out[k].output_id, None}

\* They are as right as those in out.
LEMMA GoneAreRight ==
    ASSUME NEW out, NEW new, SomeGone(out, new), NEW I, NEW C
    PROVE  /\ Apart(out) => Apart(new)
           /\ Known(out, I) => Known(new, I)
           /\ None \notin Ids /\ Named(out, C) => Named(new, C)
<1>1. Apart(out) => Apart(new)
  BY DEF SomeGone, Apart
<1>2. Known(out, I) => Known(new, I)
  BY DEF SomeGone, Known
<1>3. None \notin Ids /\ Named(out, C) => Named(new, C)
  BY DEF SomeGone, Named
<1>4. QED
  BY <1>1, <1>2, <1>3

\* What drmmode_output_detect finds.
LEMMA DetectedIs ==
    ASSUME HotplugTypes
    PROVE  Detected \in Seq(OutputRecord) /\ SomeGone(output, Detected)
<1>1. Len(output) \in Nat /\ \A k \in Outputs : output[k] \in OutputRecord
  BY DEF HotplugTypes, Outputs
<1>2. ASSUME NEW o \in OutputRecord
      PROVE  /\ drmmode_output_detect(o) \in OutputRecord
             /\ drmmode_output_detect(o).name = o.name
             /\ drmmode_output_detect(o).output_id \in {o.output_id, None}
  <2>1. [o EXCEPT !.output_id = Gone] \in OutputRecord
    BY DEF OutputRecord, Gone
  <2>2. [o EXCEPT !.link = o.output_id \in linkBad] \in OutputRecord
    <3>1. (o.output_id \in linkBad) \in BOOLEAN
      OBVIOUS
    <3>2. QED
      BY <3>1 DEF OutputRecord
  <2>3. drmmode_output_detect(o) \in {o, [o EXCEPT !.output_id = Gone],
                                      [o EXCEPT !.link = o.output_id \in linkBad]}
    BY DEF drmmode_output_detect
  <2>4. QED
    BY <2>1, <2>2, <2>3 DEF OutputRecord, Gone
<1>3. Detected \in [1..Len(output) -> OutputRecord]
  BY <1>1, <1>2 DEF Detected, Outputs
<1>4. Detected \in Seq(OutputRecord) /\ Len(Detected) = Len(output)
  BY <1>1, <1>3, FunctionIsSeq
<1>5. QED
  BY <1>1, <1>2, <1>4 DEF SomeGone, Detected, Outputs

\* The outputs that are left when those whose connector is not listed are gone.
Listed == [k \in Outputs |-> IF output[k].output_id \in Present THEN output[k]
                             ELSE [output[k] EXCEPT !.output_id = Gone]]

\* They have connectors that are listed.
LEMMA ListedIs ==
    ASSUME HotplugTypes
    PROVE  /\ Listed \in Seq(OutputRecord) /\ SomeGone(output, Listed)
           /\ Known(Listed, Present)
           /\ \A k \in 1..Len(Listed) :
                 Listed[k].output_id \in {output[j].output_id : j \in Outputs} \cup {None}
<1>1. Len(output) \in Nat /\ \A k \in Outputs : output[k] \in OutputRecord
  BY DEF HotplugTypes, Outputs
<1>2. \A o \in OutputRecord : /\ [o EXCEPT !.output_id = Gone] \in OutputRecord
                              /\ [o EXCEPT !.output_id = Gone].name = o.name
                              /\ [o EXCEPT !.output_id = Gone].output_id = None
  BY DEF OutputRecord, Gone
<1>3. Listed \in [1..Len(output) -> OutputRecord]
  BY <1>1, <1>2 DEF Listed, Outputs
<1>4. Listed \in Seq(OutputRecord) /\ Len(Listed) = Len(output)
  BY <1>1, <1>3, FunctionIsSeq
<1>5. SomeGone(output, Listed)
  BY <1>1, <1>2, <1>4 DEF SomeGone, Listed, Outputs
<1>6. Known(Listed, Present)
  BY <1>1, <1>2, <1>4 DEF Known, Listed, Outputs
<1>7. QED
  BY <1>4, <1>5, <1>6 DEF SomeGone, Outputs

\* An output is made for connector id.
LEMMA OutputMade ==
    ASSUME HotplugTypes, NEW id \in Ids,
           Apart(output), NEW I, id \in I, Known(output, I),
           \A k \in Outputs : output[k].output_id # id,
           NEW o \in OutputRecord, o.output_id = id
    PROVE  /\ Append(output, o) \in Seq(OutputRecord)
           /\ Apart(Append(output, o))
           /\ Known(Append(output, o), I)
           /\ o.name = connectors[id] /\ Named(output, connectors)
                => Named(Append(output, o), connectors)
           /\ \A k \in 1..Len(Append(output, o)) :
                 Append(output, o)[k].output_id \in {output[j].output_id : j \in Outputs} \cup {id}
<1> DEFINE new == Append(output, o)
<1>1. /\ Len(output) \in Nat /\ \A k \in Outputs : output[k] \in OutputRecord
      /\ output \in Seq(OutputRecord)
  BY DEF HotplugTypes, Outputs
<1>2. /\ new \in Seq(OutputRecord) /\ Len(new) = Len(output) + 1
      /\ \A k \in Outputs : new[k] = output[k]
      /\ new[Len(output) + 1] = o
  BY <1>1 DEF Outputs
<1>3. 1..Len(new) = Outputs \cup {Len(output) + 1}
  BY <1>1, <1>2 DEF Outputs
<1> HIDE DEF new
<1>4. Apart(new)
  BY <1>2, <1>3 DEF Apart, Outputs
<1>5. Known(new, I)
  BY <1>2, <1>3 DEF Known, Outputs
<1>6. o.name = connectors[id] /\ Named(output, connectors) => Named(new, connectors)
  BY <1>2, <1>3 DEF Named, Outputs
<1>7. \A k \in 1..Len(new) : new[k].output_id \in {output[j].output_id : j \in Outputs} \cup {id}
  BY <1>2, <1>3
<1>8. QED
  BY <1>2, <1>4, <1>5, <1>6, <1>7 DEF new

\* An output gets connector id, or one is made for it.
LEMMA HookedIs ==
    ASSUME HotplugTypes, NEW id \in Present,
           Apart(output), NEW I, id \in I, Known(output, I),
           \A k \in Outputs : output[k].output_id # id
    PROVE  /\ Hooked(output, id) \in Seq(OutputRecord)
           /\ Apart(Hooked(output, id))
           /\ Known(Hooked(output, id), I)
           /\ Named(output, connectors) => Named(Hooked(output, id), connectors)
           /\ \A k \in 1..Len(Hooked(output, id)) :
                 Hooked(output, id)[k].output_id \in {output[j].output_id : j \in Outputs} \cup {id}
<1>1. /\ Len(output) \in Nat /\ \A k \in Outputs : output[k] \in OutputRecord
      /\ output \in Seq(OutputRecord) /\ DOMAIN output = Outputs
  BY DEF HotplugTypes, Outputs
<1>2. id \in Ids /\ connectors[id] \in Ports \cup {None}
  BY DEF Present, HotplugTypes
<1> DEFINE same == {k \in Outputs : output[k].name = connectors[id]}
<1>3. CASE same = {}
  <2> DEFINE o == Record(connectors[id], id, id \in linkBad)
  <2>1. o \in OutputRecord /\ o.output_id = id /\ o.name = connectors[id]
    <3>1. (id \in linkBad) \in BOOLEAN
      OBVIOUS
    <3>2. QED
      BY <1>2, <3>1 DEF Record, OutputRecord
  <2>2. Hooked(output, id) = Append(output, o)
    BY <1>1, <1>3 DEF Hooked
  <2> HIDE DEF o
  <2>3. QED
    BY <1>2, <2>1, <2>2, OutputMade
<1>4. CASE same # {}
  <2>1. PICK k \in same : k = CHOOSE i \in same : \A j \in same : i <= j
    <3>1. same \in SUBSET Nat
      BY <1>1 DEF Outputs
    <3>2. \E i \in same : \A j \in same : i <= j
      BY <1>4, <3>1, FirstPosition
    <3>3. QED
      BY <3>2
  <2> DEFINE new == [output EXCEPT ![k].output_id = id]
  <2>2. Hooked(output, id) = new
    BY <1>1, <1>4, <2>1 DEF Hooked
  <2>3. k \in Outputs /\ output[k].name = connectors[id] /\ output[k] \in OutputRecord
    BY <1>1, <2>1
  <2>4. [output[k] EXCEPT !.output_id = id] \in OutputRecord
    BY <1>2, <2>3 DEF OutputRecord
  <2>5. output \in [1..Len(output) -> OutputRecord]
    BY <1>1 DEF Outputs
  <2>6. /\ new \in [1..Len(output) -> OutputRecord]
        /\ \A j \in Outputs \ {k} : new[j] = output[j]
        /\ new[k].output_id = id /\ new[k].name = output[k].name
    BY <2>3, <2>4, <2>5 DEF Outputs, OutputRecord
  <2>7. new \in Seq(OutputRecord) /\ 1..Len(new) = Outputs
    BY <1>1, <2>6, FunctionIsSeq DEF Outputs
  <2> HIDE DEF new
  <2>8. Apart(new)
    BY <2>3, <2>6, <2>7 DEF Apart, Outputs
  <2>9. Known(new, I)
    BY <2>6, <2>7 DEF Known, Outputs
  <2>10. Named(output, connectors) => Named(new, connectors)
    BY <2>3, <2>6, <2>7 DEF Named, Outputs
  <2>11. \A j \in 1..Len(new) : new[j].output_id \in {output[i].output_id : i \in Outputs} \cup {id}
    BY <2>6, <2>7
  <2>12. QED
    BY <2>2, <2>7, <2>8, <2>9, <2>10, <2>11
<1>5. QED
  BY <1>3, <1>4

-----------------------------------------------------------------------------
(* The variables keep their types *)

\* At start, outputs were made of connectors that are there.
LEMMA AtStart ==
    ASSUME Init
    PROVE  HotplugTypes /\ OutputInv
<1>1. connectors \in [Ids -> Ports \cup {None}]
  BY DEF Init
<1>2. PICK made \in SUBSET Present :
             /\ output = SetToSeq({Record(connectors[id], id, FALSE) : id \in made})
             /\ odd = IF made = Present THEN {} ELSE {"call"}
  <2>1. Init => \E made \in SUBSET Present :
                  /\ output = SetToSeq({Record(connectors[id], id, FALSE) : id \in made})
                  /\ odd = IF made = Present THEN {} ELSE {"call"}
    BY PTL DEF Init
  <2>2. QED
    BY <2>1
<1> DEFINE S == {Record(connectors[id], id, FALSE) : id \in made}
<1>3. IsFiniteSet(S)
  <2>1. IsFiniteSet(made)
    BY HotplugAssumption, FS_Subset DEF Present
  <2> DEFINE f == [id \in made |-> Record(connectors[id], id, FALSE)]
  <2>2. f \in Surjection(made, S)
    BY DEF Surjection
  <2>3. QED
    BY <2>1, <2>2, FS_Surjection
<1>4. /\ output \in Seq(S)
      /\ \A j, k \in 1..Len(output) : output[j] = output[k] => j = k
  BY <1>2, <1>3, SetToSeqIs
<1>5. \A r \in S : /\ r \in OutputRecord /\ r.output_id \in Present
                   /\ r.name = connectors[r.output_id]
                   /\ r = Record(connectors[r.output_id], r.output_id, FALSE)
  <2> SUFFICES ASSUME NEW id \in made
               PROVE  LET r == Record(connectors[id], id, FALSE)
                      IN  /\ r \in OutputRecord /\ r.output_id \in Present
                          /\ r.name = connectors[r.output_id]
                          /\ r = Record(connectors[r.output_id], r.output_id, FALSE)
    BY Zenon
  <2>1. id \in Ids /\ id \in Present /\ connectors[id] \in Ports \cup {None}
    BY <1>1 DEF Present
  <2>2. QED
    BY <2>1 DEF Record, OutputRecord
<1>6. \A k \in 1..Len(output) : output[k] \in S
  <2> HIDE DEF S
  <2>1. QED
    BY <1>4
<1>7. output \in Seq(OutputRecord)
  <2>1. Len(output) \in Nat /\ output \in [1..Len(output) -> S]
    BY <1>4, LenProperties
  <2>2. output \in [1..Len(output) -> OutputRecord]
    BY <1>5, <2>1
  <2> HIDE DEF S
  <2>3. QED
    BY <2>1, <2>2, SeqDef
<1>8. HotplugTypes
  <2>1. /\ lessees \in [LesseeIds -> {NoLessee} \cup [crtc : Crtcs, connector : Ids]]
        /\ leases \in [Crtcs -> [output : Nat, lessee_id : LesseeIds \cup {None}]]
    BY DEF Init, NoLease
  <2>2. odd \subseteq {"call", "id", "name"}
    BY <1>2
  <2>3. /\ linkBad = {} /\ uevent = FALSE /\ vtSema = TRUE /\ zaphod \in BOOLEAN
        /\ atomic_modeset \in BOOLEAN
        /\ pc = "idle" /\ found = {} /\ unseen = {}
    BY DEF Init
  <2>4. QED
    BY <1>1, <1>7, <2>1, <2>2, <2>3 DEF HotplugTypes
<1> HIDE DEF S
<1>9. Apart(output)
  <2> SUFFICES ASSUME NEW j \in 1..Len(output), NEW k \in 1..Len(output),
                      output[j].output_id = output[k].output_id
               PROVE  j = k
    BY DEF Apart
  <2>1. output[j] \in S /\ output[k] \in S
    BY <1>6
  <2>2. /\ output[j] = Record(connectors[output[j].output_id], output[j].output_id, FALSE)
        /\ output[k] = Record(connectors[output[k].output_id], output[k].output_id, FALSE)
    BY <1>5, <2>1
  <2>3. output[j] = output[k]
    BY <2>2
  <2>4. QED
    BY <1>4, <2>3
<1>10. Known(output, Present \cup unseen)
  BY <1>5, <1>6 DEF Known
<1>11. Named(output, connectors)
  BY <1>5, <1>6 DEF Named
<1>12. QED
  BY <1>8, <1>9, <1>10, <1>11 DEF OutputInv, Init

\* The kernel's steps keep the types.
LEMMA KernelTypes ==
    ASSUME HotplugTypes,
           \/ \E p \in Ports : Plug(p)
           \/ \E id \in Ids : Unplug(id) \/ Degrade(id)
           \/ \E i \in LesseeIds : CloseLessee(i)
    PROVE  HotplugTypes'
<1>1. ASSUME NEW p \in Ports, Plug(p) PROVE HotplugTypes'
  <2>1. connectors' \in [Ids -> Ports \cup {None}]
    BY <1>1 DEF Plug, HotplugTypes
  <2>2. odd' \subseteq {"call", "id", "name"}
    BY <1>1 DEF Plug, HotplugTypes
  <2>3. QED
    BY <1>1, <2>1, <2>2 DEF Plug, HotplugTypes, driver
<1>2. ASSUME NEW id \in Ids, Unplug(id) PROVE HotplugTypes'
  <2>1. connectors' \in [Ids -> Ports \cup {None}]
    BY <1>2 DEF Unplug, HotplugTypes
  <2>2. QED
    BY <1>2, <2>1 DEF Unplug, HotplugTypes, driver
<1>3. ASSUME NEW id \in Ids, Degrade(id) PROVE HotplugTypes'
  BY <1>3 DEF Degrade, HotplugTypes, driver
<1>4. ASSUME NEW i \in LesseeIds, CloseLessee(i) PROVE HotplugTypes'
  <2>1. lessees' \in [LesseeIds -> {NoLessee} \cup [crtc : Crtcs, connector : Ids]]
    BY <1>4 DEF CloseLessee, HotplugTypes
  <2>2. QED
    BY <1>4, <2>1 DEF CloseLessee, HotplugTypes, driver
<1>5. QED
  BY <1>1, <1>2, <1>3, <1>4

\* The server's steps outside the handler keep the types.
LEMMA ServerTypes ==
    ASSUME HotplugTypes,
           \/ Receive \/ Probe \/ LeaveVT \/ EnterVT \/ EnterVTFails
           \/ \E k \in Outputs : Configure(k)
           \/ \E c \in Crtcs : drmmode_terminate_lease(c)
           \/ \E c \in Crtcs, k \in Outputs : drmmode_create_lease(c, k)
               \/ drmmode_create_lease_gone(c, k)
    PROVE  HotplugTypes'
<1>0. \A k \in Outputs : output[k] \in OutputRecord /\ k \in Nat
  BY DEF HotplugTypes, Outputs
<1>1. CASE Receive \/ LeaveVT \/ EnterVTFails
  <2>1. pc' \in {"idle", "detect", "dead"} \/ pc' = pc
    BY <1>1 DEF Receive, LeaveVT, EnterVTFails
  <2>2. QED
    BY <1>1, <2>1 DEF Receive, LeaveVT, EnterVTFails, HotplugTypes, kernel
<1>2. CASE Probe
  BY <1>2, DetectedIs DEF Probe, HotplugTypes, kernel
<1>3. CASE EnterVT
  <2>1. leases' \in [Crtcs -> [output : Nat, lessee_id : LesseeIds \cup {None}]]
    <3>1. drmmode_validate_leases \in [Crtcs -> [output : Nat,
          lessee_id : LesseeIds \cup {None}]]
      BY DEF drmmode_validate_leases, HotplugTypes, NoLease
    <3>2. QED
      BY <1>3, <3>1 DEF EnterVT, HotplugTypes
  <2>2. odd' \subseteq {"call", "id", "name"}
    BY <1>3 DEF EnterVT, HotplugTypes, NoFault, Fault
  <2>3. linkBad' \subseteq Ids
    BY <1>3 DEF EnterVT, HotplugTypes
  <2>4. QED
    BY <1>3, <2>1, <2>2, <2>3 DEF EnterVT, HotplugTypes
<1>4. ASSUME NEW k \in Outputs, Configure(k) PROVE HotplugTypes'
  <2>1. output' \in Seq(OutputRecord)
    <3>1. [output[k] EXCEPT !.crtc = ~@] \in OutputRecord
      BY <1>0 DEF OutputRecord
    <3>2. output \in Seq(OutputRecord)
          /\ output' = [output EXCEPT ![k] = [output[k] EXCEPT !.crtc = ~@]]
      BY <1>4 DEF Configure, HotplugTypes
    <3>3. QED
      BY <3>1, <3>2 DEF Outputs
  <2>2. QED
    BY <1>4, <2>1 DEF Configure, HotplugTypes
<1>5. ASSUME NEW c \in Crtcs, drmmode_terminate_lease(c) PROVE HotplugTypes'
  <2>1. lessees' \in [LesseeIds -> {NoLessee} \cup [crtc : Crtcs, connector : Ids]]
    BY <1>5 DEF drmmode_terminate_lease, HotplugTypes
  <2>2. leases' \in [Crtcs -> [output : Nat, lessee_id : LesseeIds \cup {None}]]
    BY <1>5 DEF drmmode_terminate_lease, HotplugTypes, NoLease
  <2>3. QED
    BY <1>5, <2>1, <2>2 DEF drmmode_terminate_lease, HotplugTypes
<1>6. ASSUME NEW c \in Crtcs, NEW k \in Outputs, drmmode_create_lease(c, k) PROVE HotplugTypes'
  <2>1. output[k].output_id \in Ids
    BY <1>0, <1>6 DEF drmmode_create_lease, OutputRecord, Gone
  <2>2. lessees' \in [LesseeIds -> {NoLessee} \cup [crtc : Crtcs, connector : Ids]]
    BY <1>6, <2>1 DEF drmmode_create_lease, HotplugTypes
  <2>3. leases' \in [Crtcs -> [output : Nat, lessee_id : LesseeIds \cup {None}]]
    BY <1>0, <1>6 DEF drmmode_create_lease, HotplugTypes
  <2>4. QED
    BY <1>6, <2>2, <2>3 DEF drmmode_create_lease, HotplugTypes
<1>7. ASSUME NEW c, NEW k, drmmode_create_lease_gone(c, k) PROVE HotplugTypes'
  BY <1>7 DEF drmmode_create_lease_gone, HotplugTypes, kernel
<1>8. QED
  BY <1>1, <1>2, <1>3, <1>4, <1>5, <1>6, <1>7

\* The handler's steps keep the types.
LEMMA HandlerTypes ==
    ASSUME HotplugTypes, OutputInv, HandlerStep
    PROVE  HotplugTypes'
<1>1. CASE DetectLinks \/ GetInfo
  <2>1. output' \in Seq(OutputRecord)
    BY <1>1, DetectedIs DEF DetectLinks, GetInfo
  <2>2. odd' \subseteq {"call", "id", "name"}
    BY <1>1 DEF DetectLinks, GetInfo, HotplugTypes, NoFault, Fault
  <2>3. linkBad' \subseteq Ids
    BY <1>1 DEF DetectLinks, GetInfo, HotplugTypes, kernel
  <2>4. pc' \in {"resources", "idle"}
    BY <1>1 DEF DetectLinks, GetInfo
  <2>5. UNCHANGED <<connectors, uevent, lessees, vtSema, leases, setup, found, unseen>>
    BY <1>1 DEF DetectLinks, GetInfo, kernel
  <2>6. QED
    BY <2>1, <2>2, <2>3, <2>4, <2>5 DEF HotplugTypes
<1>2. CASE DetectLinksGone
  BY <1>2 DEF DetectLinksGone, HotplugTypes, kernel
<1>3. CASE GetResources
  <2>1. output' \in {output, Listed}
    BY <1>3 DEF GetResources, Listed
  <2>2. output' \in Seq(OutputRecord)
    BY <2>1, ListedIs DEF HotplugTypes
  <2>3. odd' \subseteq {"call", "id", "name"} /\ found' \subseteq Ids /\ unseen' \subseteq Ids
    BY <1>3 DEF GetResources, HotplugTypes, NoFault, Fault, Present
  <2>4. pc' \in {"init", "validate", "info"}
    BY <1>3 DEF GetResources
  <2>5. UNCHANGED <<connectors, linkBad, uevent, lessees, vtSema, leases, setup>>
    BY <1>3 DEF GetResources, kernel
  <2>6. QED
    BY <2>2, <2>3, <2>4, <2>5 DEF HotplugTypes
<1>4. CASE drmmode_output_init
  <2>1. /\ pc = "init"
        /\ \/ output' = output
           \/ \E id \in found \cap Present : output' \in {Hooked(output, id),
               Unnamed(output, id)}
    BY <1>4 DEF drmmode_output_init
  <2>2. output' \in Seq(OutputRecord)
    <3> SUFFICES ASSUME NEW id \in found \cap Present
                 PROVE  /\ Hooked(output, id) \in Seq(OutputRecord)
                        /\ Unnamed(output, id) \in Seq(OutputRecord)
      BY <2>1 DEF HotplugTypes
    <3>1. /\ id \in Present /\ id \in Ids /\ id \in Present \cup unseen
          /\ \A k \in Outputs : output[k].output_id # id
      BY <2>1 DEF OutputInv, Present
    <3>2. Hooked(output, id) \in Seq(OutputRecord)
      BY <3>1, HookedIs DEF OutputInv
    <3>3. Record(None, id, id \in linkBad) \in OutputRecord
      <4>1. (id \in linkBad) \in BOOLEAN
        OBVIOUS
      <4>2. QED
        BY <3>1, <4>1 DEF Record, OutputRecord
    <3>4. Unnamed(output, id) \in Seq(OutputRecord)
      BY <3>3 DEF Unnamed, HotplugTypes
    <3>5. QED
      BY <3>2, <3>4
  <2>3. odd' \subseteq {"call", "id", "name"} /\ found' \subseteq Ids
    BY <1>4 DEF drmmode_output_init, HotplugTypes, NoFault, Fault
  <2>4. pc' \in {"init", "validate"}
    BY <1>4 DEF drmmode_output_init
  <2>5. UNCHANGED <<connectors, linkBad, uevent, lessees, vtSema, leases, setup, unseen>>
    BY <1>4 DEF drmmode_output_init, kernel
  <2>6. QED
    BY <2>2, <2>3, <2>4, <2>5 DEF HotplugTypes
<1>5. CASE ValidateLeases
  <2>1. leases' \in [Crtcs -> [output : Nat, lessee_id : LesseeIds \cup {None}]]
    <3>1. drmmode_validate_leases \in [Crtcs -> [output : Nat,
          lessee_id : LesseeIds \cup {None}]]
      BY DEF drmmode_validate_leases, HotplugTypes, NoLease
    <3>2. QED
      BY <1>5, <3>1 DEF ValidateLeases, HotplugTypes
  <2>2. odd' \subseteq {"call", "id", "name"}
    BY <1>5 DEF ValidateLeases, HotplugTypes, NoFault, Fault
  <2>3. QED
    BY <1>5, <2>1, <2>2 DEF ValidateLeases, HotplugTypes, kernel
<1>6. QED
  BY <1>1, <1>2, <1>3, <1>4, <1>5 DEF HandlerStep

\* Every step keeps the types.
LEMMA TypesStep ==
    ASSUME HotplugTypes, OutputInv, [Next]_vars
    PROVE  HotplugTypes'
<1>1. CASE UNCHANGED vars
  BY <1>1 DEF vars, kernel, driver, HotplugTypes
<1>2. QED
  BY <1>1, KernelTypes, ServerTypes, HandlerTypes DEF Next

-----------------------------------------------------------------------------
(* Outputs have the connectors they are named after *)

\* Steps that look at outputs, or leave them alone.
LEMMA OutputsKept ==
    ASSUME OutputInv, SomeGone(output, output'), UNCHANGED <<connectors, unseen>>,
           odd \cap {"id", "name"} \subseteq odd',
           pc' = "init" => pc = "init" /\ output' = output /\ found' \subseteq found
    PROVE  OutputInv'
<1>1. None \notin Ids
  BY HotplugAssumption
<1>2. Apart(output') /\ Known(output', Present \cup unseen)
  BY GoneAreRight DEF OutputInv
<1>3. odd' \cap {"id", "name"} = {} => Named(output', connectors)
  BY <1>1, GoneAreRight DEF OutputInv
<1>4. Present' = Present
  BY DEF Present
<1>5. pc' = "init" => \A k \in Outputs' : output'[k].output_id \notin found'
  BY DEF OutputInv, Outputs
<1>6. QED
  BY <1>2, <1>3, <1>4, <1>5 DEF OutputInv

\* A connector comes; an output that has its id has it from one whose going was not seen.
LEMMA OutputsPlug ==
    ASSUME OutputInv, NEW p \in Ports, Plug(p)
    PROVE  OutputInv'
<1>1. PICK id \in Ids \ Present : /\ connectors' = [connectors EXCEPT ![id] = p]
                                  /\ odd' = IF id \in unseen THEN odd \cup {"id"} ELSE odd
  BY DEF Plug
<1>2. UNCHANGED <<output, unseen, found, pc>>
  BY DEF Plug, driver
<1>3. Present \subseteq Present'
  BY <1>1, HotplugAssumption DEF Present
<1>4. Known(output', Present' \cup unseen')
  BY <1>2, <1>3 DEF OutputInv, Known
<1>5. ASSUME odd' \cap {"id", "name"} = {} PROVE Named(output', connectors')
  <2>1. id \notin unseen /\ odd \cap {"id", "name"} = {}
    BY <1>1, <1>5
  <2>2. \A k \in 1..Len(output) : output[k].output_id # id
    BY <2>1, HotplugAssumption DEF OutputInv, Known
  <2>3. Named(output, connectors)
    BY <2>1 DEF OutputInv
  <2>4. QED
    BY <1>1, <1>2, <2>2, <2>3 DEF Named
<1>6. QED
  BY <1>2, <1>4, <1>5 DEF OutputInv, Outputs

\* A connector goes, which the driver has not seen.
LEMMA OutputsUnplug ==
    ASSUME OutputInv, NEW id \in Ids, Unplug(id)
    PROVE  OutputInv'
<1>1. /\ connectors' = [connectors EXCEPT ![id] = None] /\ unseen' = unseen \cup {id}
      /\ UNCHANGED <<output, found, pc, odd>>
  BY DEF Unplug, driver
<1>2. Present \subseteq Present' \cup {id}
  BY <1>1 DEF Present
<1>3. Known(output', Present' \cup unseen')
  BY <1>1, <1>2 DEF OutputInv, Known
<1>4. Named(output, connectors) => Named(output', connectors')
  BY <1>1 DEF Named
<1>5. QED
  BY <1>1, <1>3, <1>4 DEF OutputInv, Outputs

\* The connectors are listed: those that went have been seen going.
LEMMA OutputsListed ==
    ASSUME HotplugTypes, OutputInv, output' = Listed, UNCHANGED <<connectors, odd>>,
           found' = Present \ {output[k].output_id : k \in Outputs}, unseen' = {}
    PROVE  OutputInv'
<1>1. /\ SomeGone(output, Listed)
      /\ Known(Listed, Present)
      /\ \A k \in 1..Len(Listed) :
            Listed[k].output_id \in {output[j].output_id : j \in Outputs} \cup {None}
  BY ListedIs
<1>2. None \notin Ids /\ Present' = Present /\ None \notin found'
  BY HotplugAssumption DEF Present
<1>3. Apart(output') /\ (Named(output, connectors) => Named(output', connectors'))
  BY <1>1, <1>2, GoneAreRight DEF OutputInv
<1>4. Known(output', Present' \cup unseen')
  BY <1>1, <1>2 DEF Known
<1>5. \A k \in Outputs' : output'[k].output_id \notin found'
  BY <1>1, <1>2 DEF Outputs
<1>6. QED
  BY <1>3, <1>4, <1>5 DEF OutputInv

\* A connector that was found gets an output.
LEMMA OutputsMade ==
    ASSUME HotplugTypes, OutputInv, drmmode_output_init
    PROVE  OutputInv'
<1>1. pc = "init" /\ UNCHANGED <<connectors, unseen>>
  BY DEF drmmode_output_init, kernel
<1>2. CASE output' = output
  <2>1. odd \subseteq odd' /\ found' \subseteq found
    BY DEF drmmode_output_init, NoFault, Fault
  <2>2. SomeGone(output, output')
    BY <1>2 DEF SomeGone
  <2>3. QED
    BY <1>1, <1>2, <2>1, <2>2, OutputsKept
<1>3. ASSUME output' # output PROVE OutputInv'
  <2>1. PICK id \in found \cap Present :
               /\ found' = found \ {id}
               /\ \/ NoFault /\ output' = Hooked(output, id)
                  \/ Fault({"name"}) /\ output' = Unnamed(output, id)
    BY <1>3 DEF drmmode_output_init
  <2>2. /\ id \in Present /\ id \in Ids /\ id \in Present \cup unseen /\ Present' = Present
        /\ \A k \in Outputs : output[k].output_id # id
        /\ \A k \in Outputs : output[k].output_id \notin found
    BY <1>1, <2>1 DEF OutputInv, Present
  <2>3. /\ Apart(output') /\ Known(output', Present \cup unseen)
        /\ \A k \in 1..Len(output') :
              output'[k].output_id \in {output[j].output_id : j \in Outputs} \cup {id}
    <3>1. CASE output' = Hooked(output, id)
      BY <2>2, <3>1, HookedIs DEF OutputInv
    <3>2. CASE output' = Unnamed(output, id)
      <4> DEFINE o == Record(None, id, id \in linkBad)
      <4>1. o \in OutputRecord /\ o.output_id = id
        <5>1. (id \in linkBad) \in BOOLEAN
          OBVIOUS
        <5>2. QED
          BY <2>2, <5>1 DEF Record, OutputRecord
      <4>2. output' = Append(output, o)
        BY <3>2 DEF Unnamed
      <4> HIDE DEF o
      <4>3. QED
        BY <2>2, <4>1, <4>2, OutputMade DEF OutputInv
    <3>3. QED
      BY <2>1, <3>1, <3>2
  <2>4. ASSUME odd' \cap {"id", "name"} = {} PROVE Named(output', connectors')
    <3>1. output' = Hooked(output, id) /\ odd \cap {"id", "name"} = {}
      BY <2>1, <2>4 DEF NoFault, Fault
    <3>2. Named(output, connectors)
      BY <3>1 DEF OutputInv
    <3>3. QED
      BY <1>1, <2>2, <3>1, <3>2, HookedIs DEF OutputInv
  <2>5. \A k \in Outputs' : output'[k].output_id \notin found'
    BY <2>1, <2>2, <2>3 DEF Outputs
  <2>6. QED
    BY <1>1, <2>2, <2>3, <2>4, <2>5 DEF OutputInv
<1>4. QED
  BY <1>2, <1>3

\* Every step keeps outputs and connectors together.
LEMMA OutputsStep ==
    ASSUME HotplugTypes, OutputInv, [Next]_vars
    PROVE  OutputInv'
<1>0. SomeGone(output, output)
  BY DEF SomeGone
<1>1. ASSUME NEW p \in Ports, Plug(p) PROVE OutputInv'
  BY <1>1, OutputsPlug
<1>2. ASSUME NEW id \in Ids, Unplug(id) PROVE OutputInv'
  BY <1>2, OutputsUnplug
<1>3. CASE \/ \E id \in Ids : Degrade(id)
           \/ \E i \in LesseeIds : CloseLessee(i)
           \/ UNCHANGED vars
  <2>1. UNCHANGED <<connectors, output, unseen, odd, pc, found>>
    BY <1>3 DEF Degrade, CloseLessee, vars, kernel, driver
  <2>2. QED
    BY <1>0, <2>1, OutputsKept
<1>4. CASE Probe \/ DetectLinks \/ GetInfo
  <2>1. output' = Detected /\ pc' # "init" /\ UNCHANGED <<connectors, unseen>>
        /\ odd \subseteq odd'
    BY <1>4 DEF Probe, DetectLinks, GetInfo, kernel, NoFault, Fault, HotplugTypes
  <2>2. QED
    BY <2>1, DetectedIs, OutputsKept
<1>5. ASSUME NEW k \in Outputs, Configure(k) PROVE OutputInv'
  <2>1. /\ output' = [output EXCEPT ![k].crtc = ~@] /\ pc' # "init"
        /\ UNCHANGED <<connectors, unseen, odd>>
    BY <1>5 DEF Configure
  <2>2. output \in Seq(OutputRecord) /\ \A j \in 1..Len(output) : output[j] \in OutputRecord
    BY DEF HotplugTypes
  <2>3. SomeGone(output, output')
    BY <2>1, <2>2 DEF SomeGone, OutputRecord, Outputs
  <2>4. QED
    BY <2>1, <2>3, OutputsKept
<1>6. CASE \/ Receive \/ LeaveVT \/ EnterVT \/ EnterVTFails \/ DetectLinksGone \/ ValidateLeases
           \/ \E c \in Crtcs : drmmode_terminate_lease(c)
           \/ \E c \in Crtcs, k \in Outputs :
                 drmmode_create_lease(c, k) \/ drmmode_create_lease_gone(c, k)
  <2>1. UNCHANGED <<connectors, output, unseen>> /\ pc' # "init"
    BY <1>6 DEF Receive, LeaveVT, EnterVT, EnterVTFails, DetectLinksGone, ValidateLeases,
                drmmode_terminate_lease, drmmode_create_lease, drmmode_create_lease_gone, kernel
  <2>2. odd \cap {"id", "name"} \subseteq odd'
    BY <1>6 DEF Receive, LeaveVT, EnterVT, EnterVTFails, DetectLinksGone, ValidateLeases,
                drmmode_terminate_lease, drmmode_create_lease, drmmode_create_lease_gone,
                NoFault, Fault
  <2>3. QED
    BY <1>0, <2>1, <2>2, OutputsKept
<1>7. CASE GetResources
  <2>1. CASE pc' # "init"
    <3>1. UNCHANGED <<connectors, output, unseen>> /\ odd \subseteq odd'
      BY <1>7, <2>1 DEF GetResources, kernel, NoFault, Fault
    <3>2. QED
      BY <1>0, <2>1, <3>1, OutputsKept
  <2>2. CASE pc' = "init"
    <3>1. /\ output' = Listed /\ unseen' = {} /\ UNCHANGED <<connectors, odd>>
          /\ found' = Present \ {output[k].output_id : k \in Outputs}
      BY <1>7, <2>2 DEF GetResources, Listed, kernel, NoFault
    <3>2. QED
      BY <3>1, OutputsListed
  <2>3. QED
    BY <2>1, <2>2
<1>8. CASE drmmode_output_init
  BY <1>8, OutputsMade
<1>9. QED
  BY <1>1, <1>2, <1>3, <1>4, <1>5, <1>6, <1>7, <1>8 DEF Next, HandlerStep

-----------------------------------------------------------------------------
(* Leases *)

\* The kernel's lessees come and go with a lease.
LEMMA LesseesStep ==
    ASSUME HotplugTypes, LesseesKnown, [Next]_vars
    PROVE  LesseesKnown'
<1>1. ASSUME Alive' \subseteq Alive, \A i \in Alive' : lessees'[i] = lessees[i],
             \A i \in Alive' : leases'[lessees[i].crtc].lessee_id = leases[lessees[i].crtc].lessee_id
      PROVE  LesseesKnown'
  BY <1>1 DEF LesseesKnown
<1>2. \A i \in Alive : lessees[i].crtc \in Crtcs
  BY DEF HotplugTypes, Alive
<1>3. CASE UNCHANGED <<lessees, leases>>
  BY <1>1, <1>3 DEF Alive
<1>4. ASSUME NEW i \in LesseeIds, CloseLessee(i) PROVE LesseesKnown'
  <2>1. lessees' = [lessees EXCEPT ![i] = NoLessee] /\ leases' = leases
    BY <1>4 DEF CloseLessee, driver
  <2>2. Alive' = Alive \ {i} /\ \A j \in Alive' : lessees'[j] = lessees[j]
    BY <2>1 DEF Alive, HotplugTypes
  <2>3. QED
    BY <1>1, <2>1, <2>2
<1>5. ASSUME NEW c \in Crtcs, NEW k \in Outputs, drmmode_create_lease(c, k) PROVE LesseesKnown'
  <2>1. PICK i \in LesseeIds \ Alive :
          /\ lessees' = [lessees EXCEPT ![i] = [crtc |-> c, connector |-> output[k].output_id]]
          /\ leases' = [leases EXCEPT ![c] = [output |-> k, lessee_id |-> i]]
    BY <1>5 DEF drmmode_create_lease
  <2>2. \A j \in Alive : lessees[j].crtc # c
    BY <1>5 DEF drmmode_create_lease, Grantable
  <2>3. Alive' \subseteq Alive \cup {i} /\ \A j \in Alive : lessees'[j] = lessees[j]
    BY <2>1 DEF Alive, HotplugTypes
  <2>4. lessees'[i].crtc = c /\ leases'[c].lessee_id = i
    BY <2>1 DEF HotplugTypes
  <2>5. \A j \in Alive : leases'[lessees[j].crtc] = leases[lessees[j].crtc]
    BY <1>2, <2>1, <2>2 DEF HotplugTypes
  <2>6. QED
    BY <2>3, <2>4, <2>5 DEF LesseesKnown
<1>6. ASSUME NEW c \in Crtcs, drmmode_terminate_lease(c) PROVE LesseesKnown'
  <2>1. /\ leases[c].lessee_id \in Alive
        /\ lessees' = [lessees EXCEPT ![leases[c].lessee_id] = NoLessee]
        /\ leases' = [leases EXCEPT ![c] = NoLease]
    BY <1>6 DEF drmmode_terminate_lease
  <2>2. /\ Alive' = Alive \ {leases[c].lessee_id}
        /\ \A j \in Alive' : lessees'[j] = lessees[j]
    BY <2>1 DEF Alive, HotplugTypes
  <2>3. \A j \in Alive' : lessees[j].crtc # c
    BY <2>2 DEF LesseesKnown
  <2>4. \A j \in Alive' : leases'[lessees[j].crtc] = leases[lessees[j].crtc]
    BY <1>2, <2>1, <2>2, <2>3 DEF HotplugTypes
  <2>5. QED
    BY <1>1, <2>2, <2>4
<1>7. CASE EnterVT \/ ValidateLeases
  <2>1. lessees' = lessees /\ (leases' = leases \/ leases' = drmmode_validate_leases)
    BY <1>7 DEF EnterVT, ValidateLeases, kernel
  <2>2. \A i \in Alive : drmmode_validate_leases[lessees[i].crtc] = leases[lessees[i].crtc]
    BY <1>2 DEF drmmode_validate_leases, LesseesKnown
  <2>3. QED
    BY <1>1, <2>1, <2>2 DEF Alive
<1>8. CASE \/ DetectLinks \/ DetectLinksGone \/ GetResources \/ drmmode_output_init \/ GetInfo
           \/ Receive \/ Probe \/ LeaveVT \/ EnterVTFails
           \/ \E p \in Ports : Plug(p)
           \/ \E id \in Ids : Unplug(id) \/ Degrade(id)
           \/ \E k \in Outputs : Configure(k)
           \/ \E c \in Crtcs, k \in Outputs : drmmode_create_lease_gone(c, k)
           \/ UNCHANGED vars
  <2>1. UNCHANGED <<lessees, leases>>
    BY <1>8 DEF DetectLinks, DetectLinksGone, GetResources, drmmode_output_init, GetInfo,
                Receive, Probe, LeaveVT, EnterVTFails, Plug, Unplug, Degrade, Configure,
                drmmode_create_lease_gone, kernel, driver, vars
  <2>2. QED
    BY <1>3, <2>1
<1>9. QED
  BY <1>4, <1>5, <1>6, <1>7, <1>8 DEF Next, HandlerStep

-----------------------------------------------------------------------------
(* The theorems *)

\* What the driver knows of connectors and lessees.
HotplugInv == HotplugTypes /\ OutputInv /\ LesseesKnown

\* The inductive invariant: the driver's outputs and leases follow the kernel's.
THEOREM HotplugCorrect == Spec => []HotplugInv
<1>1. Init => HotplugInv
  <2>1. Init => LesseesKnown
    BY DEF Init, LesseesKnown, Alive
  <2>2. QED
    BY <2>1, AtStart DEF HotplugInv
<1>2. HotplugInv /\ [Next]_vars => HotplugInv'
  BY TypesStep, OutputsStep, LesseesStep DEF HotplugInv
<1>3. QED
  BY <1>1, <1>2, PTL DEF Spec

\* An output has the connector it is named after, and no other output has it, however
\* connectors come and go between the calls of the uevent handler (drmmode_output_init and
\* the search for outputs whose connector has gone).
THEOREM OutputsAreRight == Spec => []OutputsRight
<1>1. HotplugInv => OutputsRight
  <2> SUFFICES ASSUME HotplugInv PROVE OutputsRight
    OBVIOUS
  <2>1. \A j, k \in Outputs :
          j # k /\ output[j].output_id # Gone => output[j].output_id # output[k].output_id
    BY DEF HotplugInv, OutputInv, Apart, Outputs, Gone
  <2>2. ASSUME odd \cap {"id", "name"} = {}, NEW k \in Outputs, output[k].output_id \in Present
        PROVE  connectors[output[k].output_id] = output[k].name
    BY <2>2 DEF HotplugInv, OutputInv, Named, Outputs, Present
  <2>3. QED
    BY <2>1, <2>2 DEF OutputsRight
<1>2. QED
  BY <1>1, HotplugCorrect, PTL

\* The driver ends no lease whose lessee still draws (drmmode_validate_leases,
\* drmmode_terminate_lease).
THEOREM LesseesAreKnown == Spec => []LesseesKnown
<1>1. HotplugInv => LesseesKnown
  BY DEF HotplugInv
<1>2. QED
  BY <1>1, HotplugCorrect, PTL
=============================================================================
