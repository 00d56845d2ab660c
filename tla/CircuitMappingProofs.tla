------------------------ MODULE CircuitMappingProofs ------------------------
(***************************************************************************)
(* The preprocessing a circuit is given (Circuit::MapCorrToCircuit): the   *)
(* pools never run out, and every gate has its own mask, for every circuit *)
(* the calls build, every configuration of FromConfig, every batch size,   *)
(* threshold and number of clients.                                        *)
(***************************************************************************)
EXTENDS CircuitProofs

USE BatchAssumption DEF Pad

-----------------------------------------------------------------------------
(* Pools *)

\* Rounded up to a multiple of d.
LEMMA Rounding ==
    ASSUME NEW a \in Nat, NEW d \in Nat \ {0}
    PROVE  ((a + d - 1) \div d) * d >= a /\ ((a + d - 1) \div d) \in Nat
  <1> DEFINE q == (a + d - 1) \div d
             r == (a + d - 1) % d
  <1>1. q \in Nat /\ r \in 0 .. d - 1 /\ a + d - 1 = d * q + r
    OBVIOUS
  <1>2. q * d \in Nat /\ q * d = d * q
    BY <1>1
  <1> HIDE DEF q, r
  <1>3. q * d >= a
    <2> DEFINE p == q * d
    <2>1. p \in Nat /\ r \in 0 .. d - 1 /\ a + d - 1 = p + r
      BY <1>1, <1>2
    <2> HIDE DEF p
    <2>2. p >= a
      BY <2>1
    <2> QED
      BY <2>2 DEF p
  <1> QED
    BY <1>1, <1>3 DEF q

\* Whole blocks are dealt, at least as many sharings as are asked for.
LEMMA BlocksEnough ==
    ASSUME NEW a \in Nat
    PROVE  NBlocks(a) * (Threshold + 1) \in Nat /\ NBlocks(a) * (Threshold + 1) >= a
  <1>1. Threshold + 1 \in Nat \ {0}
    BY BatchAssumption
  <1>2. NBlocks(a) * (Threshold + 1) >= a /\ NBlocks(a) \in Nat
    BY ONLY <1>1, Rounding DEF NBlocks
  <1> QED
    BY <1>1, <1>2

\* Finitely many layers of finitely many batches.
LEMMA BatchesCounted ==
    ASSUME NEW layers, IsFiniteSet(DOMAIN layers),
           \A c \in DOMAIN layers : \E n \in Nat : DOMAIN layers[c] = 1 .. n
    PROVE  NBatches(layers) \in Nat
  <1> DEFINE S == DOMAIN layers
             T == {{c} \X DOMAIN layers[c] : c \in S}
             f == [c \in S |-> {c} \X DOMAIN layers[c]]
  <1>1. f \in Surjection(S, T)
    BY DEF Surjection
  <1>2. IsFiniteSet(T)
    BY <1>1, FS_Surjection
  <1>3. ASSUME NEW B \in T PROVE IsFiniteSet(B)
    <2>1. PICK c \in S : B = {c} \X DOMAIN layers[c]
      OBVIOUS
    <2>2. PICK n \in Nat : DOMAIN layers[c] = 1 .. n
      OBVIOUS
    <2>3. IsFiniteSet({c}) /\ IsFiniteSet(1 .. n)
      <3>1. IsFiniteSet({c})
        BY ONLY FS_Singleton
      <3>2. 1 \in Int /\ n \in Int
        BY ONLY n \in Nat
      <3>3. IsFiniteSet(1 .. n)
        BY ONLY <3>2, FS_Interval
      <3> QED
        BY <3>1, <3>3
    <2>4. IsFiniteSet({c} \X (1 .. n))
      BY <2>3, FS_Product
    <2> QED
      BY <2>1, <2>2, <2>4
  <1>4. IsFiniteSet(UNION T)
    BY <1>2, <1>3, FS_UNION
  <1> QED
    BY <1>4, FS_CardinalityType DEF NBatches

\* A sequence's elements are numbered.
LEMMA SequenceDomain ==
    ASSUME NEW S, NEW s \in Seq(S)
    PROVE  \E n \in Nat : DOMAIN s = 1 .. n
  <1> WITNESS Len(s) \in Nat
  <1> QED
    OBVIOUS

Leaves == OfKind("input") \cup OfKind("mult")

\* There are as many individual shares to take as input and multiplication gates.
LEMMA KindsFinite ==
    ASSUME GatesInv
    PROVE  /\ \A kind : IsFiniteSet(OfKind(kind)) /\ Cardinality(OfKind(kind)) \in Nat
           /\ IsFiniteSet(Leaves) /\ Cardinality(Leaves) = NIndShrs /\ NIndShrs \in Nat
  <1>1. Len(gates) \in Nat /\ DOMAIN gates = 1 .. Len(gates) /\ IsFiniteSet(1 .. Len(gates))
    BY GatesFacts, FS_Interval
  <1>2. ASSUME NEW kind PROVE IsFiniteSet(OfKind(kind)) /\ Cardinality(OfKind(kind)) \in Nat
    <2>1. OfKind(kind) \in SUBSET (1 .. Len(gates))
      BY <1>1 DEF OfKind
    <2> QED
      BY <2>1, <1>1, FS_Subset, FS_CardinalityType
  <1>3. OfKind("input") \cap OfKind("mult") = {}
    BY DEF OfKind
  <1>4. IsFiniteSet(Leaves) /\ Cardinality(Leaves) = NIndShrs
    <2>1. /\ IsFiniteSet(Leaves)
          /\ Cardinality(Leaves) = Cardinality(OfKind("input")) + Cardinality(OfKind("mult"))
                                   - Cardinality(OfKind("input") \cap OfKind("mult"))
      BY <1>2, FS_Union DEF Leaves
    <2>2. Cardinality(OfKind("input") \cap OfKind("mult")) = 0
      BY <1>3, FS_EmptySet
    <2> QED
      BY <2>1, <2>2, <1>2 DEF NIndShrs, mSize
  <1> QED
    BY <1>2, <1>4, FS_CardinalityType

\* GenCorrelator's counts of batches are numbers.
LEMMA BatchCountsNat ==
    ASSUME IndInv
    PROVE  NMultBatches \in Nat /\ NInOutBatches \in Nat
  <1>1. NMultBatches \in Nat
    <2>1. multLayers \in Seq(Seq(Seq(Nat)))
      BY DEF IndInv, MultInv
    <2>2. DOMAIN multLayers = 1 .. Len(multLayers) /\ Len(multLayers) \in Nat
      BY ONLY <2>1
    <2>3. IsFiniteSet(DOMAIN multLayers)
      BY ONLY <2>2, FS_Interval
    <2>4. \A c \in DOMAIN multLayers : multLayers[c] \in Seq(Seq(Nat))
      BY ONLY <2>1
    <2>5. \A c \in DOMAIN multLayers : \E n \in Nat : DOMAIN multLayers[c] = 1 .. n
      BY ONLY <2>4, SequenceDomain, Zenon
    <2> QED
      BY ONLY <2>3, <2>5, BatchesCounted DEF NMultBatches
  <1>2. NBatches(inputLayers) \in Nat
    <2>1. DOMAIN inputLayers = Clients /\ \A c \in Clients : inputLayers[c] \in Seq(Seq(Nat))
      BY DEF IndInv, InputInv, Filled
    <2>2. \A c \in Clients : \E n \in Nat : DOMAIN inputLayers[c] = 1 .. n
      BY ONLY <2>1, SequenceDomain, Zenon
    <2> QED
      BY <2>1, <2>2, ClientAssumption, BatchesCounted
  <1>3. NBatches(outputLayers) \in Nat
    <2>1. DOMAIN outputLayers = Clients /\ \A c \in Clients : outputLayers[c] \in Seq(Seq(Nat))
      BY DEF IndInv, OutputInv, Filled
    <2>2. \A c \in Clients : \E n \in Nat : DOMAIN outputLayers[c] = 1 .. n
      BY ONLY <2>1, SequenceDomain, Zenon
    <2> QED
      BY <2>1, <2>2, ClientAssumption, BatchesCounted
  <1> QED
    BY <1>1, <1>2, <1>3 DEF NInOutBatches

-----------------------------------------------------------------------------
(* The loops over gates *)

\* Operators of the mapping depend on gates and layers only.
LEMMA SameLayout ==
    ASSUME UNCHANGED <<gates, layout>>
    PROVE  /\ \A kind : OfKind(kind)' = OfKind(kind)
           /\ NIndShrs' = NIndShrs /\ NMultBatches' = NMultBatches /\ NInOutBatches' = NInOutBatches
           /\ Wires' = Wires /\ ToMap' = ToMap /\ (WiresInv => WiresInv')
           /\ \A g : Leaf(g)' = Leaf(g)
  <1>1. \A kind : OfKind(kind)' = OfKind(kind)
    BY DEF OfKind
  <1>2. NIndShrs' = NIndShrs
    BY <1>1 DEF NIndShrs, mSize
  <1>3. NMultBatches' = NMultBatches /\ NInOutBatches' = NInOutBatches
    BY DEF NMultBatches, NInOutBatches, layout
  <1>4. Wires' = Wires
    BY <1>1 DEF Wires
  <1>5. ToMap' = ToMap
    BY <1>1 DEF ToMap, GetDepth, layout
  <1>6. WiresInv => WiresInv'
    BY <1>1, <1>4 DEF WiresInv
  <1>7. \A g : Leaf(g)' = Leaf(g)
    BY DEF Leaf
  <1> QED
    BY <1>1, <1>2, <1>3, <1>4, <1>5, <1>6, <1>7

\* MapCorrToCircuit visits every gate.
LEMMA AllVisited ==
    ASSUME IndInv
    PROVE  ToMap = DOMAIN gates
  <1>1. ToMap = OfKind("input") \cup OfKind("mult") \cup OfKind("add") \cup OfKind("output")
    <2>1. \A l \in 1 .. GetDepth : ToSet(flatMultLayers[l]) \subseteq OfKind("mult")
      BY DEF IndInv, LayersInv
    <2>2. \A g \in OfKind("mult") : \E l \in 1 .. GetDepth : g \in ToSet(flatMultLayers[l])
      BY DEF IndInv, LayersInv
    <2>3. UNION {ToSet(flatMultLayers[l]) : l \in 1 .. GetDepth} = OfKind("mult")
      BY ONLY <2>1, <2>2
    <2> QED
      BY ONLY <2>3 DEF ToMap
  <1> QED
    BY <1>1 DEF IndInv, GatesInv, OfKind

\* The share the next input or multiplication gate takes is there.
LEMMA ShareLeft ==
    ASSUME GatesInv, MasksInv, NEW g \in DOMAIN gates, g \notin Mapped, Leaf(g)
    PROVE  /\ corr.ctrIndShrs \in Nat
           /\ ReadAt(IndShrs(NIndShrs), corr.ctrIndShrs) = corr.ctrIndShrs
           /\ Cardinality(MappedLeaves \cup {g}) = corr.ctrIndShrs + 1
  <1>1. IsFiniteSet(Leaves) /\ Cardinality(Leaves) = NIndShrs /\ NIndShrs \in Nat
    BY KindsFinite
  <1>2. MappedLeaves \in SUBSET Leaves /\ MappedLeaves \cup {g} \in SUBSET Leaves
    BY DEF MasksInv, MappedLeaves, Leaves, Leaf, OfKind
  <1>3. /\ IsFiniteSet(MappedLeaves) /\ Cardinality(MappedLeaves) \in Nat
        /\ Cardinality(MappedLeaves \cup {g}) <= NIndShrs
    BY <1>1, <1>2, FS_Subset, FS_CardinalityType
  <1>4. g \notin MappedLeaves
    BY DEF MappedLeaves
  <1>5. Cardinality(MappedLeaves \cup {g}) = Cardinality(MappedLeaves) + 1
    BY <1>3, <1>4, FS_AddElement
  <1>6. corr.ctrIndShrs \in Nat /\ corr.ctrIndShrs < NIndShrs
    BY <1>1, <1>3, <1>5 DEF MasksInv
  <1>7. ReadAt(IndShrs(NIndShrs), corr.ctrIndShrs) = corr.ctrIndShrs
    <2> DEFINE n == NBlocks(NIndShrs) * (Threshold + 1)
               k == corr.ctrIndShrs
    <2>1. n \in Nat /\ k \in Nat /\ k < n
      BY <1>1, <1>6, BlocksEnough
    <2> HIDE DEF n, k
    <2>2. Len(Below(n)) = n /\ Below(n)[k + 1] = k
      BY <2>1 DEF Below
    <2>3. ReadAt(Below(n), k) = k
      BY ONLY <2>1, <2>2 DEF ReadAt
    <2> QED
      BY <2>3 DEF n, k, IndShrs
  <1> QED
    BY <1>5, <1>6, <1>7 DEF MasksInv

\* "Previous (left&right) gates are already handled" (correlator.h).
LEMMA OperandsHandled ==
    ASSUME IndInv, WiresInv, NEW g \in ToMap \ Mapped, PopulateIndvShrs(g)
    PROVE  /\ gates[g].kind = "add" => gates[g].left \in Mapped /\ gates[g].right \in Mapped
           /\ gates[g].kind = "output" => gates[g].left \in Mapped
  <1>1. ToMap = DOMAIN gates
    BY AllVisited
  <1>2. \A h \in DOMAIN gates \ Mapped : ~VisitedBefore(h, g)
    BY <1>1 DEF PopulateIndvShrs
  <1>3. ASSUME gates[g].kind = "add", NEW h \in Wires, h < g PROVE h \in Mapped
    <2>1. h \in DOMAIN gates /\ gates[h].kind \in {"input", "add", "mult"}
      BY DEF Wires, OfKind
    <2>2. VisitedBefore(h, g)
      BY <1>3, <2>1 DEF VisitedBefore, Loop
    <2> QED
      BY <2>1, <2>2, <1>2
  <1>4. ASSUME gates[g].kind = "output", NEW h \in Wires PROVE h \in Mapped
    <2>1. h \in DOMAIN gates /\ gates[h].kind \in {"input", "add", "mult"}
      BY DEF Wires, OfKind
    <2>2. VisitedBefore(h, g)
      BY <1>4, <2>1 DEF VisitedBefore, Loop
    <2> QED
      BY <2>1, <2>2, <1>2
  <1>5. g \in DOMAIN gates
    BY <1>1
  <1> QED
    BY <1>3, <1>4, <1>5 DEF WiresInv, OfKind

\* One turn of the loops over gates.
LEMMA Visit ==
    ASSUME IndInv, WiresInv, PoolsFilled, MasksInv,
           NEW g \in ToMap \ Mapped, PopulateIndvShrs(g)
    PROVE  corr'.phase = "filled" /\ PoolsFilled' /\ MasksInv'
  <1> DEFINE e == NewMask(g)
             k == corr.ctrIndShrs
  <1>1. UNCHANGED <<gates, layout>> /\ g \in DOMAIN gates /\ g \notin Mapped
    BY AllVisited DEF PopulateIndvShrs
  <1>2. corr' = [phase |-> "filled", indShrs |-> IndShrs(NIndShrs),
                 multBatchFIPrep |-> MultBatchFIPrep(NMultBatches),
                 ioBatchFIPrep |-> IOBatchFIPrep(NMultBatches, NInOutBatches),
                 ctrIndShrs |-> IF Leaf(g) THEN k + 1 ELSE k,
                 mapIndShrs |-> [h \in Mapped \cup {g} |-> IF h = g THEN e ELSE MaskOf(h)]]
    <2> DEFINE m == corr.mapIndShrs
               mult == MultBatchFIPrep(NMultBatches)
               io == IOBatchFIPrep(NMultBatches, NInOutBatches)
               shrs == IndShrs(NIndShrs)
               k1 == IF Leaf(g) THEN k + 1 ELSE k
               m1 == [h \in Mapped \cup {g} |-> IF h = g THEN e ELSE MaskOf(h)]
    <2>1. corr = [phase |-> "filled", indShrs |-> shrs, multBatchFIPrep |-> mult, ioBatchFIPrep |-> io,
                  ctrIndShrs |-> k, mapIndShrs |-> m]
      BY DEF PoolsFilled
    <2>2. corr' = [corr EXCEPT !.ctrIndShrs = k1, !.mapIndShrs = m1]
      BY Zenon DEF PopulateIndvShrs
    <2> HIDE DEF k, m, mult, io, shrs, k1, m1
    <2>3. corr' = [phase |-> "filled", indShrs |-> shrs, multBatchFIPrep |-> mult, ioBatchFIPrep |-> io,
                   ctrIndShrs |-> k1, mapIndShrs |-> m1]
      BY ONLY <2>1, <2>2
    <2> QED
      BY ONLY <2>3 DEF mult, io, shrs, k1, m1
  <1>3. corr.indShrs = IndShrs(NIndShrs)
    BY DEF PoolsFilled
  <1> HIDE DEF e
  <1>4. /\ corr'.phase = "filled" /\ PoolsFilled'
        /\ corr'.ctrIndShrs = IF Leaf(g) THEN k + 1 ELSE k
        /\ corr'.mapIndShrs = [h \in Mapped \cup {g} |-> IF h = g THEN e ELSE MaskOf(h)]
    BY <1>1, <1>2, SameLayout DEF PoolsFilled
  <1>5. /\ Mapped' = Mapped \cup {g} /\ corr'.mapIndShrs[g] = e
        /\ \A h \in Mapped : corr'.mapIndShrs[h] = corr.mapIndShrs[h]
    BY <1>1, <1>4 DEF Mapped, MaskOf
  <1>6. MappedLeaves' = MappedLeaves \cup (IF Leaf(g) THEN {g} ELSE {})
    BY <1>1, <1>5, SameLayout DEF MappedLeaves
  <1>7. gates[g].kind \in {"input", "add", "mult", "output"} /\ (Leaf(g) <=> gates[g].kind \in {"input", "mult"})
    BY <1>1 DEF IndInv, GatesInv, Leaf
  <1>8. Leaf(g) => /\ k \in Nat /\ e = <<k>>
                   /\ Cardinality(MappedLeaves \cup {g}) = k + 1
    BY <1>1, <1>3, <1>7, ShareLeft DEF IndInv, e, NewMask
  <1>9. gates[g].kind = "add" =>
           /\ gates[g].left \in Mapped /\ gates[g].right \in Mapped
           /\ e = corr.mapIndShrs[gates[g].left] \o corr.mapIndShrs[gates[g].right]
    BY OperandsHandled DEF e, NewMask, MaskOf
  <1>10. gates[g].kind = "output" => gates[g].left \in Mapped /\ e = corr.mapIndShrs[gates[g].left]
    BY OperandsHandled DEF e, NewMask, MaskOf
  <1>11. \A kind : OfKind(kind)' = OfKind(kind)
    BY <1>1, SameLayout
  <1>m1. Mapped' \subseteq DOMAIN gates'
    BY <1>1, <1>5 DEF MasksInv
  <1>m2. corr'.ctrIndShrs = Cardinality(MappedLeaves')
    BY <1>4, <1>6, <1>8 DEF MasksInv
  <1>m3. \A h \in Mapped' : corr'.mapIndShrs[h] \in Seq(Nat)
    <2>1. \A h \in Mapped : corr.mapIndShrs[h] \in Seq(Nat)
      BY DEF MasksInv
    <2>2. e \in Seq(Nat)
      <3>1. CASE Leaf(g)
        <4>1. \A n \in Nat : <<n>> \in Seq(Nat)
          OBVIOUS
        <4> QED
          BY ONLY <4>1, <3>1, <1>8, Zenon
      <3>2. CASE gates[g].kind = "add"
        <4>1. PICK s, t \in Seq(Nat) : e = s \o t
          BY ONLY <3>2, <2>1, <1>9, Zenon
        <4> QED
          BY ONLY <4>1
      <3>3. CASE gates[g].kind = "output"
        BY ONLY <3>3, <2>1, <1>10, Zenon
      <3> QED
        BY ONLY <3>1, <3>2, <3>3, <1>7
    <2> QED
      BY <2>1, <2>2, <1>5
  <1>m4. \A h \in MappedLeaves' : \E i \in 0 .. corr'.ctrIndShrs - 1 : corr'.mapIndShrs[h] = <<i>>
    <2> SUFFICES ASSUME NEW h \in MappedLeaves'
                 PROVE  \E i \in 0 .. corr'.ctrIndShrs - 1 : corr'.mapIndShrs[h] = <<i>>
      OBVIOUS
    <2>0. k \in Nat /\ k <= corr'.ctrIndShrs /\ corr'.ctrIndShrs \in Nat /\ (Leaf(g) => k < corr'.ctrIndShrs)
      <3>1. k \in Nat
        BY KindsFinite, FS_Subset, FS_CardinalityType DEF MasksInv, MappedLeaves, Leaves, OfKind, Leaf, IndInv
      <3> QED
        BY <3>1, <1>4
    <2>1. CASE h \in MappedLeaves
      <3>1. PICK i \in 0 .. k - 1 : corr.mapIndShrs[h] = <<i>>
        BY <2>1 DEF MasksInv
      <3>2. i \in 0 .. corr'.ctrIndShrs - 1 /\ corr'.mapIndShrs[h] = <<i>>
        BY <3>1, <2>0, <2>1, <1>5 DEF MappedLeaves
      <3> QED
        BY <3>2
    <2>2. CASE h \notin MappedLeaves
      <3>1. h = g /\ Leaf(g)
        BY <2>2, <1>6
      <3>2. k \in 0 .. corr'.ctrIndShrs - 1 /\ corr'.mapIndShrs[h] = <<k>>
        BY <3>1, <2>0, <1>5, <1>8
      <3> QED
        BY <3>2
    <2> QED
      BY <2>1, <2>2
  <1>m5. \A h, j \in MappedLeaves' : h # j => corr'.mapIndShrs[h] # corr'.mapIndShrs[j]
    <2>1. \A h, j \in MappedLeaves : h # j => corr'.mapIndShrs[h] # corr'.mapIndShrs[j]
      BY <1>5 DEF MasksInv, MappedLeaves
    <2>2. ASSUME Leaf(g), NEW h \in MappedLeaves PROVE corr'.mapIndShrs[h] # corr'.mapIndShrs[g]
      <3>1. PICK i \in 0 .. k - 1 : corr.mapIndShrs[h] = <<i>>
        BY DEF MasksInv
      <3>2. i # k /\ corr'.mapIndShrs[h] = <<i>> /\ corr'.mapIndShrs[g] = <<k>>
        BY <3>1, <2>2, <1>5, <1>8 DEF MappedLeaves
      <3> QED
        BY ONLY <3>2
    <2> QED
      BY <2>1, <2>2, <1>6
  <1>m6. \A h \in Mapped' \cap OfKind("add")' :
            /\ gates'[h].left \in Mapped' /\ gates'[h].right \in Mapped'
            /\ corr'.mapIndShrs[h] = corr'.mapIndShrs[gates'[h].left] \o corr'.mapIndShrs[gates'[h].right]
    <2>1. ASSUME NEW h \in Mapped \cap OfKind("add")
          PROVE  /\ gates[h].left \in Mapped /\ gates[h].right \in Mapped
                 /\ corr.mapIndShrs[h] = corr.mapIndShrs[gates[h].left] \o corr.mapIndShrs[gates[h].right]
      BY DEF MasksInv
    <2>2. \A h \in Mapped \cap OfKind("add") :
            /\ gates[h].left \in Mapped' /\ gates[h].right \in Mapped'
            /\ corr'.mapIndShrs[h] = corr'.mapIndShrs[gates[h].left] \o corr'.mapIndShrs[gates[h].right]
      BY ONLY <2>1, <1>5
    <2>3. g \in OfKind("add") =>
            /\ gates[g].left \in Mapped' /\ gates[g].right \in Mapped'
            /\ corr'.mapIndShrs[g] = corr'.mapIndShrs[gates[g].left] \o corr'.mapIndShrs[gates[g].right]
      BY <1>9, <1>5 DEF OfKind
    <2>4. gates' = gates
      BY <1>1
    <2> QED
      BY ONLY <2>2, <2>3, <2>4, <1>5, <1>11
  <1>m7. \A h \in Mapped' \cap OfKind("output")' :
            gates'[h].left \in Mapped' /\ corr'.mapIndShrs[h] = corr'.mapIndShrs[gates'[h].left]
    <2>1. ASSUME NEW h \in Mapped \cap OfKind("output")
          PROVE  gates[h].left \in Mapped /\ corr.mapIndShrs[h] = corr.mapIndShrs[gates[h].left]
      BY DEF MasksInv
    <2>2. g \in OfKind("output") =>
            gates[g].left \in Mapped' /\ corr'.mapIndShrs[g] = corr'.mapIndShrs[gates[g].left]
      BY <1>10, <1>5 DEF OfKind
    <2>3. gates' = gates
      BY <1>1
    <2> QED
      BY ONLY <2>1, <2>2, <2>3, <1>5, <1>11
  <1> QED
    BY <1>4, <1>m1, <1>m2, <1>m3, <1>m4, <1>m5, <1>m6, <1>m7 DEF MasksInv

\* FIPrepRecv leaves the pools filled and no gate mapped.
LEMMA Filling ==
    ASSUME IndInv, FIPrepRecv, CountsTaken
    PROVE  corr'.phase = "filled" /\ PoolsFilled' /\ MasksInv'
  <1>1. corr' = [phase |-> "filled", indShrs |-> IndShrs(NIndShrs),
                 multBatchFIPrep |-> MultBatchFIPrep(NMultBatches),
                 ioBatchFIPrep |-> IOBatchFIPrep(NMultBatches, NInOutBatches),
                 ctrIndShrs |-> 0, mapIndShrs |-> << >>]
    BY DEF FIPrepRecv, CountsTaken
  <1>2. corr'.phase = "filled" /\ PoolsFilled'
    BY <1>1, SameLayout DEF FIPrepRecv, PoolsFilled
  <1>3. corr'.ctrIndShrs = 0 /\ Mapped' = {}
    BY <1>1 DEF Mapped
  <1>4. MappedLeaves' = {}
    BY <1>3 DEF MappedLeaves
  <1>5. Cardinality({}) = 0
    BY FS_EmptySet
  <1> QED
    BY ONLY <1>2, <1>3, <1>4, <1>5 DEF MasksInv

\* What is read from a pool of at least n elements.
LEMMA ReadInside ==
    ASSUME NEW n \in Nat, NEW size \in Nat, n <= size, NEW pool, DOMAIN pool = 1 .. size, Len(pool) = size
    PROVE  DOMAIN ReadAll(pool, n) = 1 .. n /\ \A i \in 1 .. n : ReadAll(pool, n)[i] = pool[i]
  BY DEF ReadAll, ReadAt

\* The zero sharings for the batches.
LEMMA ZerosEnough ==
    ASSUME NEW m \in Nat, NEW nIO \in Nat
    PROVE  \E size \in Nat : /\ nIO <= size
                             /\ DOMAIN IOBatchFIPrep(m, nIO) = 1 .. size /\ Len(IOBatchFIPrep(m, nIO)) = size
                             /\ \A i \in 1 .. size : IOBatchFIPrep(m, nIO)[i] \in Nat
  <1> DEFINE total == NBlocks(3 * m + nIO) * (Threshold + 1)
  <1>1. 3 * m + nIO \in Nat
    OBVIOUS
  <1>2. total \in Nat /\ total >= 3 * m + nIO
    BY <1>1, BlocksEnough
  <1>3. IOBatchFIPrep(m, nIO) = [i \in 1 .. total - m |-> IF i <= 2 * m THEN i - 1 ELSE m + i - 1]
    BY DEF IOBatchFIPrep
  <1> HIDE DEF total
  <1>4. total - m \in Nat /\ nIO <= total - m
    BY ONLY <1>2, m \in Nat, nIO \in Nat
  <1> WITNESS total - m \in Nat
  <1> QED
    BY ONLY <1>3, <1>4, m \in Nat

\* All gates are mapped, and the pools suffice for the batches.
LEMMA Mapping ==
    ASSUME IndInv, PoolsFilled, MasksInv, PopulateBatches
    PROVE  corr'.phase = "mapped" /\ OwnShare' /\ LinearRight'
  <1> DEFINE io == IOBatchFIPrep(NMultBatches, NInOutBatches)
             mult == MultBatchFIPrep(NMultBatches)
  <1>1. UNCHANGED <<gates, layout>> /\ DOMAIN gates \subseteq Mapped
    BY AllVisited DEF PopulateBatches
  <1>2. corr.ioBatchFIPrep = io /\ corr.multBatchFIPrep = mult
    BY DEF PoolsFilled
  <1>3. corr' = [phase |-> "mapped", mapIndShrs |-> corr.mapIndShrs,
                 mapIO |-> ReadAll(io, NInOutBatches), mapMult |-> ReadAll(mult, NMultBatches)]
    BY <1>2 DEF PopulateBatches
  <1>4. NMultBatches \in Nat /\ NInOutBatches \in Nat
    BY BatchCountsNat
  <1>5. DOMAIN corr.mapIndShrs = DOMAIN gates
    BY <1>1 DEF MasksInv, Mapped
  <1>6. \A g \in DOMAIN gates : corr.mapIndShrs[g] \in Seq(Nat)
    BY <1>5 DEF MasksInv, Mapped
  <1>7. \A s \in Seq(Nat) : OutOfRange \notin ToSet(s) /\ Default \notin ToSet(s)
    <2>1. \A s \in Seq(Nat) : \A i \in DOMAIN s : s[i] \in Nat
      OBVIOUS
    <2>2. OutOfRange \notin Nat /\ Default \notin Nat
      BY DEF OutOfRange, Default
    <2> QED
      BY ONLY <2>1, <2>2 DEF ToSet
  <1>8. \A kind : OfKind(kind)' = OfKind(kind)
    BY <1>1, SameLayout
  <1>9. OutOfRange \notin ToSet(ReadAll(io, NInOutBatches))
    <2>1. PICK size \in Nat : /\ NInOutBatches <= size /\ DOMAIN io = 1 .. size /\ Len(io) = size
                              /\ \A i \in 1 .. size : io[i] \in Nat
      BY <1>4, ZerosEnough
    <2> HIDE DEF io
    <2>2. /\ DOMAIN ReadAll(io, NInOutBatches) = 1 .. NInOutBatches
          /\ \A i \in 1 .. NInOutBatches : ReadAll(io, NInOutBatches)[i] = io[i]
      BY <1>4, <2>1, ReadInside
    <2>3. \A i \in 1 .. NInOutBatches : io[i] # OutOfRange
      BY <1>4, <2>1 DEF OutOfRange
    <2> QED
      BY ONLY <2>2, <2>3 DEF ToSet
  <1>10. \A b \in DOMAIN ReadAll(mult, NMultBatches) :
            DOMAIN ReadAll(mult, NMultBatches)[b] = {"mShrO1", "mShrO2", "mShrO3"}
    <2> DEFINE m == NMultBatches
    <2>1. m \in Nat
      BY <1>4
    <2> HIDE DEF m
    <2>2. DOMAIN MultBatchFIPrep(m) = 1 .. m /\ Len(MultBatchFIPrep(m)) = m
      BY <2>1 DEF MultBatchFIPrep
    <2>3. \A b \in 1 .. m : DOMAIN MultBatchFIPrep(m)[b] = {"mShrO1", "mShrO2", "mShrO3"}
      BY <2>1 DEF MultBatchFIPrep
    <2>4. m <= m
      BY <2>1
    <2>5. /\ DOMAIN ReadAll(MultBatchFIPrep(m), m) = 1 .. m
          /\ \A b \in 1 .. m : ReadAll(MultBatchFIPrep(m), m)[b] = MultBatchFIPrep(m)[b]
      BY ONLY <2>1, <2>2, <2>4, ReadInside
    <2>6. \A b \in DOMAIN ReadAll(MultBatchFIPrep(m), m) :
             DOMAIN ReadAll(MultBatchFIPrep(m), m)[b] = {"mShrO1", "mShrO2", "mShrO3"}
      BY ONLY <2>3, <2>5
    <2> QED
      BY <2>6 DEF m
  <1> HIDE DEF io, mult
  <1>11. /\ corr'.phase = "mapped" /\ corr'.mapIndShrs = corr.mapIndShrs
         /\ corr'.mapIO = ReadAll(io, NInOutBatches) /\ corr'.mapMult = ReadAll(mult, NMultBatches)
    BY ONLY <1>3
  <1>12. \A g, h \in OfKind("input") \cup OfKind("mult") : g # h => corr.mapIndShrs[g] # corr.mapIndShrs[h]
    <2>1. OfKind("input") \cup OfKind("mult") \subseteq MappedLeaves
      BY <1>1 DEF OfKind, MappedLeaves, Leaf
    <2> QED
      BY <2>1 DEF MasksInv
  <1>13. OwnShare'
    BY ONLY <1>5, <1>6, <1>7, <1>8, <1>9, <1>10, <1>11, <1>12 DEF OwnShare
  <1>14. \A g \in OfKind("add") : corr.mapIndShrs[g] =
            corr.mapIndShrs[gates[g].left] \o corr.mapIndShrs[gates[g].right]
    BY <1>1 DEF MasksInv, OfKind
  <1>15. \A g \in OfKind("output") : corr.mapIndShrs[g] = corr.mapIndShrs[gates[g].left]
    BY <1>1 DEF MasksInv, OfKind
  <1>16. LinearRight'
    BY ONLY <1>1, <1>5, <1>6, <1>7, <1>8, <1>11, <1>14, <1>15 DEF LinearRight
  <1> QED
    BY <1>11, <1>13, <1>16

-----------------------------------------------------------------------------
(* The calls *)

\* The phases tell the correlator's forms apart.
LEMMA Phases ==
    /\ corr = NoCorrelator => corr.phase = "none"
    /\ CountsTaken => corr.phase = "made"
  BY DEF NoCorrelator, CountsTaken

\* What the correlator is at, by its phase.
LEMMA ByPhase ==
    ASSUME CorrInv
    PROVE  /\ corr.phase # "none" => isNetworkSet
           /\ corr.phase = "made" => CountsTaken
           /\ corr.phase = "filled" => PoolsFilled /\ MasksInv
           /\ corr.phase = "mapped" => OwnShare /\ LinearRight
  BY Phases, Zenon DEF CorrInv

\* Before the circuit is closed there is no correlator.
LEMMA NotYet ==
    ASSUME OrderInv, CorrInv, ~isClosed, UNCHANGED <<isNetworkSet, corr>>
    PROVE  CorrInv'
  <1>1. corr = NoCorrelator
    BY DEF OrderInv, CorrInv
  <1> QED
    BY <1>1 DEF CorrInv, NoCorrelator

\* A gate is made on wires that are there.
LEMMA GateWires ==
    ASSUME GatesInv, WiresInv, NEW k \in {"input", "add", "mult", "output"}, NEW o, NEW left, NEW right,
           k \in {"input", "output"} => o \in Clients,
           k = "add" => left \in Wires /\ right \in Wires,
           k = "output" => left \in Wires,
           NewGate(k, o, left, right)
    PROVE  WiresInv'
  <1> DEFINE e == [kind |-> k, owner |-> o, left |-> left, right |-> right]
  <1>1. gates' = Append(gates, e) /\ e.left = left /\ e.right = right
    BY DEF NewGate
  <1>2. gates \in Seq(ToSet(gates)) /\ Len(gates) \in Nat /\ DOMAIN gates = 1 .. Len(gates)
    BY GatesFacts DEF GatesInv
  <1> HIDE DEF e
  <1>3. PICK n \in Nat : n = NewId /\ Made(n, k, o)
    BY NewGateMade
  <1>4. n = Len(gates) + 1 /\ \A kind : OfKind(kind)' = OfKind(kind) \cup IF kind = k THEN {n} ELSE {}
    BY <1>3 DEF Made
  <1>5. (\A i \in DOMAIN gates : gates'[i] = gates[i]) /\ gates'[n] = e
    <2>1. (\A i \in 1 .. Len(gates) : gates'[i] = gates[i]) /\ gates'[Len(gates) + 1] = e
      BY <1>1, <1>2, AppendSet
    <2> QED
      BY ONLY <2>1, <1>2, <1>4
  <1>6. Wires \subseteq Wires'
    BY ONLY <1>4 DEF Wires
  <1>7. \A kind : OfKind(kind) \subseteq DOMAIN gates
    BY DEF OfKind
  <1>8. \A w \in Wires : w < n
    BY <1>2, <1>4, <1>7 DEF Wires
  <1>9. ASSUME NEW g \in OfKind("add")'
        PROVE  /\ gates'[g].left \in Wires' /\ gates'[g].left < g
               /\ gates'[g].right \in Wires' /\ gates'[g].right < g
    <2>1. CASE g \in OfKind("add")
      BY <2>1, <1>5, <1>6, <1>7 DEF WiresInv
    <2>2. CASE g \notin OfKind("add")
      <3>1. k = "add" /\ g = n
        BY <2>2, <1>4
      <3> QED
        BY <3>1, <1>1, <1>5, <1>6, <1>8
    <2> QED
      BY <2>1, <2>2
  <1>10. ASSUME NEW g \in OfKind("output")' PROVE gates'[g].left \in Wires'
    <2>1. CASE g \in OfKind("output")
      BY <2>1, <1>5, <1>6, <1>7 DEF WiresInv
    <2>2. CASE g \notin OfKind("output")
      <3>1. k = "output" /\ g = n
        BY <2>2, <1>4
      <3> QED
        BY <3>1, <1>1, <1>5, <1>6
    <2> QED
      BY <2>1, <2>2
  <1> QED
    BY <1>9, <1>10 DEF WiresInv

\* A call that adds an input gate.
LEMMA InputMap ==
    ASSUME IndInv, MapInv, NEW c \in Clients, Input(c)
    PROVE  MapInv'
  <1>1. NewGate("input", c, Pad, Pad) /\ ~inputsClosed /\ UNCHANGED <<isNetworkSet, corr>>
    BY DEF Input, MayInput
  <1>2. ~isClosed
    BY <1>1 DEF IndInv, OrderInv
  <1>3. WiresInv'
    BY <1>1, GateWires DEF IndInv, MapInv
  <1> QED
    BY <1>1, <1>2, <1>3, NotYet DEF IndInv, MapInv

\* A call that adds an addition.
LEMMA AddMap ==
    ASSUME IndInv, MapInv, NEW l \in Wires, NEW r \in Wires, Add(l, r)
    PROVE  MapInv'
  <1>1. NewGate("add", Pad, l, r) /\ ~isClosed /\ UNCHANGED <<isNetworkSet, corr>>
    BY DEF Add, MayAdd
  <1>2. WiresInv'
    BY <1>1, GateWires DEF IndInv, MapInv
  <1> QED
    BY <1>1, <1>2, NotYet DEF IndInv, MapInv

\* A call that adds a multiplication.
LEMMA MultMap ==
    ASSUME IndInv, MapInv, Mult
    PROVE  MapInv'
  <1>1. NewGate("mult", Pad, Pad, Pad) /\ ~lastClosed /\ UNCHANGED <<isNetworkSet, corr>>
    BY DEF Mult, MayMult
  <1>2. ~isClosed
    BY <1>1 DEF IndInv, OrderInv
  <1>3. WiresInv'
    BY <1>1, GateWires DEF IndInv, MapInv
  <1> QED
    BY <1>1, <1>2, <1>3, NotYet DEF IndInv, MapInv

\* A call that adds an output.
LEMMA OutputMap ==
    ASSUME IndInv, MapInv, NEW c \in Clients, NEW g \in Wires, Output(c, g)
    PROVE  MapInv'
  <1>1. NewGate("output", c, g, Pad) /\ ~isClosed /\ UNCHANGED <<isNetworkSet, corr>>
    BY DEF Output, MayOutput
  <1>2. WiresInv'
    BY <1>1, GateWires DEF IndInv, MapInv
  <1> QED
    BY <1>1, <1>2, NotYet DEF IndInv, MapInv

\* Layers are closed while there is no correlator.
LEMMA CloseMap ==
    ASSUME IndInv, MapInv, NewLayer \/ LastLayer \/ CloseInputs \/ CloseOutputs
    PROVE  MapInv'
  <1>1. UNCHANGED <<gates, isNetworkSet, corr>> /\ (~lastClosed \/ ~inputsClosed \/ ~isClosed)
    BY DEF NewLayer, LastLayer, CloseInputs, CloseOutputs, MayMult, MayOutput
  <1>2. ~isClosed
    BY <1>1 DEF IndInv, OrderInv
  <1>3. WiresInv'
    <2>1. \A kind : OfKind(kind)' = OfKind(kind)
      BY <1>1, SameGates
    <2> QED
      BY <2>1, <1>1 DEF MapInv, WiresInv, Wires
  <1> QED
    BY <1>1, <1>2, <1>3, NotYet DEF IndInv, MapInv

\* A step that changes nothing the correlator is about.
LEMMA SameCorrelator ==
    ASSUME MapInv, UNCHANGED <<gates, layout, corr>>, isNetworkSet => isNetworkSet'
    PROVE  MapInv'
  <1>1. /\ \A kind : OfKind(kind)' = OfKind(kind)
        /\ NIndShrs' = NIndShrs /\ NMultBatches' = NMultBatches /\ NInOutBatches' = NInOutBatches
        /\ WiresInv' /\ \A g : Leaf(g)' = Leaf(g)
    BY SameLayout DEF MapInv
  <1>2. PoolsFilled => PoolsFilled'
    BY <1>1 DEF PoolsFilled
  <1>3. Mapped' = Mapped /\ MappedLeaves' = MappedLeaves
    BY <1>1 DEF Mapped, MappedLeaves
  <1>4. MasksInv => MasksInv'
    BY <1>1, <1>3 DEF MasksInv
  <1>5. OwnShare => OwnShare'
    BY <1>1 DEF OwnShare
  <1>6. LinearRight => LinearRight'
    BY <1>1 DEF LinearRight
  <1>7. CountsTaken => CountsTaken'
    BY <1>1 DEF CountsTaken
  <1>8. CorrInv'
    <2>1. corr' = corr /\ (corr = NoCorrelator \/ isNetworkSet')
      BY DEF MapInv, CorrInv
    <2>2. NoCorrelator' = NoCorrelator
      BY DEF NoCorrelator
    <2>3. CorrInv
      BY DEF MapInv
    <2> QED
      BY ONLY <2>1, <2>2, <2>3, <1>2, <1>4, <1>5, <1>6, <1>7, Zenon DEF CorrInv
  <1> QED
    BY <1>1, <1>8 DEF MapInv

\* SetNetwork, GenCorrelator, FIPrepRecv and the mapping.
LEMMA PrepareMap ==
    ASSUME IndInv, MapInv, SetNetwork \/ GenCorrelator \/ FIPrepRecv \/ MapCorrToCircuit
    PROVE  MapInv'
  <1>1. CASE SetNetwork
    BY <1>1, SameCorrelator DEF SetNetwork
  <1>2. CASE GenCorrelator
    <2>1. UNCHANGED <<gates, layout, isNetworkSet>> /\ isNetworkSet
      BY <1>2 DEF GenCorrelator
    <2>2. corr' = [phase |-> "made", nIndShrs |-> NIndShrs, nMultBatches |-> NMultBatches,
                   nInOutBatches |-> NInOutBatches]
      BY <1>2 DEF GenCorrelator
    <2>3. CountsTaken' /\ isNetworkSet' /\ WiresInv'
      BY <2>1, <2>2, SameLayout DEF CountsTaken, MapInv
    <2> QED
      BY ONLY <2>3, Zenon DEF MapInv, CorrInv
  <1>3. CASE FIPrepRecv
    <2>1. UNCHANGED <<gates, layout, isNetworkSet>> /\ corr.phase = "made"
      BY <1>3 DEF FIPrepRecv
    <2>2. isNetworkSet /\ CountsTaken
      BY <2>1, ByPhase DEF MapInv
    <2>3. corr'.phase = "filled" /\ PoolsFilled' /\ MasksInv'
      BY <1>3, <2>2, Filling
    <2>4. WiresInv' /\ isNetworkSet'
      BY <2>1, <2>2, SameLayout DEF MapInv
    <2> QED
      BY ONLY <2>3, <2>4, Zenon DEF MapInv, CorrInv
  <1>4. CASE MapCorrToCircuit
    <2>1. corr.phase = "filled" /\ ((\E g \in ToMap \ Mapped : PopulateIndvShrs(g)) \/ PopulateBatches)
      BY <1>4 DEF MapCorrToCircuit
    <2>2. UNCHANGED <<gates, layout, isNetworkSet>>
      BY <2>1 DEF PopulateIndvShrs, PopulateBatches
    <2>3. WiresInv /\ isNetworkSet /\ PoolsFilled /\ MasksInv
      BY <2>1, ByPhase DEF MapInv
    <2>4. \/ corr'.phase = "filled" /\ PoolsFilled' /\ MasksInv'
          \/ corr'.phase = "mapped" /\ OwnShare' /\ LinearRight'
      BY <2>1, <2>3, Visit, Mapping
    <2>5. WiresInv' /\ isNetworkSet'
      BY <2>2, <2>3, SameLayout
    <2> QED
      BY ONLY <2>4, <2>5, Zenon DEF MapInv, CorrInv
  <1> QED
    BY <1>1, <1>2, <1>3, <1>4

\* No gate, no correlator.
LEMMA InitMap == Init => MapInv
  <1> SUFFICES ASSUME Init PROVE MapInv
    OBVIOUS
  <1>1. \A kind : OfKind(kind) = {}
    BY DEF Init, OfKind
  <1> QED
    BY <1>1 DEF Init, MapInv, WiresInv, CorrInv

\* MapInv is preserved, given the layout's IndInv.
LEMMA StepMap == IndInv /\ MapInv /\ [Next]_vars => MapInv'
  <1> SUFFICES ASSUME IndInv, MapInv, [Next]_vars PROVE MapInv'
    OBVIOUS
  <1>1. CASE Build
    BY <1>1, InputMap, AddMap, MultMap, OutputMap, CloseMap DEF Build
  <1>2. CASE UNCHANGED vars
    BY <1>2, SameCorrelator DEF vars, layout
  <1> QED
    BY <1>1, <1>2, PrepareMap DEF Next

\* What the invariant says of a finished mapping.
LEMMA MapImplies == MapInv => OwnShare /\ LinearRight
  <1> SUFFICES ASSUME MapInv, corr.phase = "mapped" PROVE OwnShare /\ LinearRight
    BY Zenon DEF OwnShare, LinearRight
  <1> QED
    BY ByPhase DEF MapInv

\* However the calls build a circuit, the pools suffice for the mapping and
\* every gate is given the mask it should have, once the gates its mask is made
\* of have theirs (offline.cc, correlator.h).
THEOREM MappingCorrect == Spec => [](OwnShare /\ LinearRight)
  BY InitInd, StepInd, InitMap, StepMap, MapImplies, PTL DEF Spec

-----------------------------------------------------------------------------
(* Circuit::FromConfig *)

\* An addition or a multiplication leaves the inputs as they are.
LEMMA InputsKept ==
    ASSUME GatesInv, NEW k \in {"add", "mult"}, NEW o, NEW left, NEW right, NewGate(k, o, left, right)
    PROVE  OfKind("input")' = OfKind("input")
  <1>1. PICK n \in Nat : Made(n, k, o)
    BY NewGateMade
  <1> QED
    BY <1>1 DEF Made

\* FromConfig makes the inputs first.
LEMMA FirstInit == FInit => InputsFirst
  <1> SUFFICES ASSUME FInit PROVE InputsFirst
    OBVIOUS
  <1>1. gates = <<>> /\ pc \in {"validate", "free"}
    BY DEF FInit, Init
  <1>2. OfKind("input") = {} /\ DOMAIN gates = {}
    BY <1>1 DEF OfKind
  <1> QED
    BY <1>1, <1>2 DEF InputsFirst

\* No input is made after another kind of gate.
LEMMA FirstStep == BuildInv /\ InputsFirst /\ [FNext]_fvars => InputsFirst'
  <1> SUFFICES ASSUME BuildInv, InputsFirst, [FNext]_fvars PROVE InputsFirst'
    OBVIOUS
  <1>0. IndInv /\ GatesInv
    BY DEF BuildInv, IndInv
  <1>1. ASSUME UNCHANGED <<gates, pc, config>> PROVE InputsFirst'
    <2>1. nInputs' = nInputs /\ OfKind("input")' = OfKind("input")
      BY <1>1, SameConfig, SameGates
    <2> QED
      BY <1>1, <2>1 DEF InputsFirst
  <1>2. ASSUME pc' \notin {"validate", "inputs", "add", "mult", "mult2"} PROVE InputsFirst'
    BY <1>2 DEF InputsFirst
  <1>3. CASE Validate
    <2>1. pc = "validate" /\ UNCHANGED gates /\ pc' \in {"thrown", "fpe", "inputs"}
      BY <1>3 DEF Validate, Goto, vars
    <2>2. OfKind("input")' = OfKind("input")
      BY <2>1, SameGates
    <2> QED
      BY <2>1, <2>2 DEF InputsFirst
  <1>4. CASE AddInput
    <2>1. pc = "inputs" /\ pc' = "inputs" /\ ctr < nInputs /\ Input(OwnerOf(config.inp_gates, ctr))
      BY <1>4 DEF AddInput, Goto
    <2>2. config \in Configs /\ ctr \in Nat /\ Accepted
      BY <2>1 DEF BuildInv, AcceptedInv, Building
    <2>3. PICK o \in Clients : Input(o)
      BY <2>1, <2>2, AcceptedFacts, OwnerIsClient DEF nInputs
    <2>4. GatesInv' /\ \E n \in Nat : Made(n, "input", o)
      BY <2>3, <1>0, NewGateMade DEF Input
    <2>5. PICK n \in Nat : Made(n, "input", o)
      BY <2>4
    <2>6. OfKind("input")' = OfKind("input") \cup {n} /\ Len(gates') = n /\ n = Len(gates) + 1 /\ Len(gates) \in Nat
      BY <2>5 DEF Made
    <2>7. DOMAIN gates = 1 .. Len(gates) /\ DOMAIN gates' = 1 .. Len(gates')
      BY <2>4, <1>0, GatesFacts DEF GatesInv
    <2>8. DOMAIN gates = OfKind("input")
      BY <2>1 DEF InputsFirst
    <2>9. DOMAIN gates' = OfKind("input")'
      <3>1. \A l \in Nat : 1 .. l + 1 = (1 .. l) \cup {l + 1}
        OBVIOUS
      <3>2. DOMAIN gates' = (1 .. Len(gates)) \cup {n}
        BY ONLY <3>1, <2>6, <2>7
      <3> QED
        BY ONLY <3>2, <2>6, <2>7, <2>8
    <2> QED
      BY ONLY <2>1, <2>9 DEF InputsFirst
  <1>5. CASE EndInputs
    <2>1. pc = "inputs" /\ pc' = "add" /\ ctr = nInputs /\ UNCHANGED <<gates, config>>
      BY <1>5 DEF EndInputs, CloseInputs, Goto
    <2>2. Count("input") = nInputs /\ DOMAIN gates = OfKind("input")
      <3>1. Count("input") = ctr
        BY <2>1 DEF BuildInv, InputsInv
      <3>2. DOMAIN gates = OfKind("input")
        BY <2>1 DEF InputsFirst
      <3> QED
        BY <3>1, <3>2, <2>1
    <2>3. Len(gates) \in Nat /\ DOMAIN gates = 1 .. Len(gates)
      BY <1>0, GatesFacts
    <2>4. Cardinality(1 .. Len(gates)) = Len(gates)
      <3> DEFINE l == Len(gates)
      <3>1. l \in Nat
        BY <2>3
      <3> HIDE DEF l
      <3>2. Cardinality(1 .. l) = IF 1 > l THEN 0 ELSE l - 1 + 1
        BY ONLY <3>1, FS_Interval
      <3>3. Cardinality(1 .. l) = l
        BY ONLY <3>1, <3>2
      <3> QED
        BY <3>3 DEF l
    <2>5. nInputs = Len(gates)
      BY ONLY <2>2, <2>3, <2>4 DEF Count
    <2>6. nInputs' = nInputs /\ OfKind("input")' = OfKind("input")
      BY <2>1, SameConfig, SameGates
    <2> QED
      BY ONLY <2>1, <2>2, <2>3, <2>5, <2>6 DEF InputsFirst
  <1>6. ASSUME pc \in {"add", "mult", "mult2"}, UNCHANGED config, OfKind("input")' = OfKind("input"),
               pc' \notin {"validate", "inputs"}
        PROVE  InputsFirst'
    <2>1. nInputs' = nInputs
      BY <1>6, SameConfig
    <2>2. 1 .. nInputs \subseteq OfKind("input")
      BY <1>6 DEF InputsFirst
    <2> QED
      BY ONLY <2>1, <2>2, <1>6 DEF InputsFirst
  <1>7. CASE AddPair
    <2>1. pc = "add" /\ ctr < config.width \div 2 /\ UNCHANGED config /\ pc' \in {"mult", "oob"}
      BY <1>7 DEF AddPair, Goto
    <2>2. \E x, y : Add(x, y)
      BY <1>7, <2>1, PairsExist DEF AddPair
    <2>3. OfKind("input")' = OfKind("input")
      BY <2>2, <1>0, InputsKept DEF Add
    <2> QED
      BY <2>1, <2>3, <1>6
  <1>8. CASE MultFirst \/ MultSecond
    <2>1. pc \in {"mult", "mult2"} /\ UNCHANGED config /\ pc' \in {"add", "mult2"} /\ Mult
      BY <1>8 DEF MultFirst, MultSecond, Goto
    <2>2. OfKind("input")' = OfKind("input")
      BY <2>1, <1>0, InputsKept DEF Mult
    <2> QED
      BY <2>1, <2>2, <1>6
  <1>9. CASE NextLayer
    <2>1. pc = "add" /\ UNCHANGED <<gates, config>> /\ pc' = "add"
      BY <1>9 DEF NextLayer, NewLayer, Goto
    <2>2. OfKind("input")' = OfKind("input")
      BY <2>1, SameGates
    <2> QED
      BY <2>1, <2>2, <1>6
  <1>10. CASE EndLayers \/ AddOutput \/ EndOutputs \/ Prepare \/ FreeCall
    <2>1. pc' \in {"outputs", "fpe", "oob", "built", "free"}
      BY <1>10 DEF EndLayers, AddOutput, EndOutputs, Prepare, FreeCall, Goto
    <2> QED
      BY <2>1, <1>2
  <1>11. CASE UNCHANGED fvars
    BY <1>11, <1>1 DEF fvars, vars
  <1> QED
    BY <1>3, <1>4, <1>5, <1>7, <1>8, <1>9, <1>10, <1>11 DEF FNext

\* The operands of a pair are inputs, or multiplications of the layer before.
LEMMA PairWires ==
    ASSUME BuildInv, InputsFirst, pc = "add", ctr < config.width \div 2,
           NEW i \in {PairIndex(0), PairIndex(1)}
    PROVE  PairSource[i] \in Wires
  <1>1. i \in DOMAIN PairSource
    BY PairsExist
  <1>2. IndInv /\ GetDepth \in Nat \ {0}
    BY GrowthFacts
  <1>3. CASE GetDepth = 1
    <2>1. PairSource = [j \in 1 .. nInputs |-> j]
      BY <1>3 DEF PairSource
    <2>2. 1 .. nInputs \subseteq OfKind("input")
      BY DEF InputsFirst
    <2> QED
      BY ONLY <1>1, <2>1, <2>2 DEF Wires
  <1>4. CASE GetDepth # 1
    <2>1. PairSource = flatMultLayers[GetDepth - 1]
      BY <1>4 DEF PairSource
    <2>2. GetDepth - 1 \in 1 .. GetDepth
      BY <1>2, <1>4
    <2>3. ToSet(flatMultLayers[GetDepth - 1]) \subseteq OfKind("mult")
      BY <1>2, <2>2 DEF IndInv, LayersInv
    <2> QED
      BY ONLY <1>1, <2>1, <2>3 DEF ToSet, Wires
  <1> QED
    BY <1>3, <1>4

\* FromConfig's steps are calls on wires that are there.
LEMMA FStepMap == BuildInv /\ InputsFirst /\ MapInv /\ [FNext]_fvars => MapInv'
  <1> SUFFICES ASSUME BuildInv, InputsFirst, MapInv, [FNext]_fvars PROVE MapInv'
    OBVIOUS
  <1>0. IndInv
    BY DEF BuildInv
  <1>1. ASSUME [Next]_vars PROVE MapInv'
    BY <1>0, <1>1, StepMap
  <1>2. CASE AddInput
    <2>1. pc = "inputs" /\ ctr < nInputs /\ Input(OwnerOf(config.inp_gates, ctr))
      BY <1>2 DEF AddInput
    <2>2. config \in Configs /\ ctr \in Nat /\ Accepted
      BY <2>1 DEF BuildInv, AcceptedInv, Building
    <2>3. PICK o \in Clients : Input(o)
      BY <2>1, <2>2, AcceptedFacts, OwnerIsClient DEF nInputs
    <2> QED
      BY <2>3, <1>0, InputMap
  <1>3. CASE AddPair
    <2> DEFINE x == PairSource[PairIndex(0)]
               y == PairSource[PairIndex(1)]
    <2>1. pc = "add" /\ ctr < config.width \div 2
      BY <1>3 DEF AddPair
    <2>2. Add(x, y)
      BY <1>3, <2>1, PairsExist DEF AddPair
    <2>3. x \in Wires /\ y \in Wires
      BY <2>1, PairWires
    <2> HIDE DEF x, y
    <2> QED
      BY <2>2, <2>3, <1>0, AddMap
  <1>4. CASE AddOutput
    <2>1. pc = "outputs" /\ ctr < nOutputs
      BY <1>4 DEF AddOutput
    <2>2. CASE config.width = 0 \/ config.depth = 0
      <3>1. UNCHANGED vars
        BY <2>2, <1>4, Zenon DEF AddOutput
      <3> QED
        BY <3>1, <1>1
    <2>3. CASE config.width # 0 /\ config.depth # 0
      <3> DEFINE w == flatMultLayers[config.depth][(ctr % config.width) + 1]
      <3>1. (ctr % config.width) + 1 \in DOMAIN flatMultLayers[config.depth]
        BY <2>1, <2>3, OutputWireExists
      <3>2. Output(OwnerOf(config.out_gates, ctr), w)
        BY <3>1, <2>3, <1>4, Zenon DEF AddOutput
      <3>3. config \in Configs /\ Accepted /\ ctr \in Nat /\ config.depth \in Nat /\ GetDepth \in Nat
        BY <2>1, OutputsFacts
      <3>4. OwnerOf(config.out_gates, ctr) \in Clients
        BY <2>1, <3>3, AcceptedFacts, OwnerIsClient DEF nOutputs
      <3>5. config.depth \in 1 .. GetDepth
        <4>1. config.depth > 0
          BY <3>3, <2>3
        <4>2. config.depth > 0 => GetDepth = config.depth
          BY <2>1, Zenon DEF BuildInv, OutputsInv
        <4> QED
          BY <4>1, <4>2, <3>3
      <3>6. w \in ToSet(flatMultLayers[config.depth])
        BY ONLY <3>1 DEF ToSet
      <3>7. w \in Wires
        <4>1. ToSet(flatMultLayers[config.depth]) \subseteq OfKind("mult")
          BY <1>0, <3>5 DEF IndInv, LayersInv
        <4> QED
          BY ONLY <4>1, <3>6 DEF Wires
      <3> HIDE DEF w
      <3> QED
        BY <3>2, <3>4, <3>7, <1>0, OutputMap
    <2> QED
      BY <2>2, <2>3
  <1>5. CASE Validate \/ UNCHANGED fvars
    <2>1. UNCHANGED vars
      BY <1>5 DEF Validate, fvars
    <2> QED
      BY <2>1, <1>1
  <1>6. CASE EndInputs \/ MultFirst \/ MultSecond \/ NextLayer \/ EndLayers \/ EndOutputs \/ Prepare \/ FreeCall
    <2>1. Next
      BY <1>6, Zenon DEF EndInputs, MultFirst, MultSecond, NextLayer, EndLayers, EndOutputs, Prepare, FreeCall,
         Next, Build
    <2> QED
      BY <2>1, <1>1
  <1> QED
    BY <1>2, <1>3, <1>4, <1>5, <1>6 DEF FNext

MappingInv == BuildInv /\ InputsFirst /\ MapInv

\* The whole inductive invariant for FromConfig.
LEMMA MappingInvHolds == FSpec => []MappingInv
  <1>1. FInit => MappingInv
    BY InitBuild, FirstInit, InitMap DEF FInit, MappingInv
  <1>2. MappingInv /\ [FNext]_fvars => MappingInv'
    BY StepBuild, FirstStep, FStepMap DEF MappingInv
  <1> QED
    BY <1>1, <1>2, PTL DEF FSpec

\* The pools of preprocessing never run out while they are mapped to the gates
\* and batches of a circuit, and no two input or multiplication gates share a
\* mask (GenCorrelator, GenIndShrsPartiesReceive, GenZeroPartiesReceive,
\* MapCorrToCircuit), for every circuit FromConfig or the calls build.
THEOREM EveryGateOwnShare == FSpec => []OwnShare
  <1>1. MappingInv => OwnShare
    BY MapImplies DEF MappingInv
  <1> QED
    BY <1>1, MappingInvHolds, PTL

\* The masks of additions and outputs are the sums of, and the same as, their
\* operands' masks: the loops of MapCorrToCircuit visit the gates in
\* topological order, as correlator.h says of them.
THEOREM MasksTopological == FSpec => []LinearRight
  <1>1. MappingInv => LinearRight
    BY MapImplies DEF MappingInv
  <1> QED
    BY <1>1, MappingInvHolds, PTL
=============================================================================
