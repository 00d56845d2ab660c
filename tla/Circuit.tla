------------------------------ MODULE Circuit ------------------------------
(***************************************************************************)
(* Building a TurboPack circuit (tp::Circuit) and allocating its           *)
(* preprocessing (tp::Correlator), by the calls a party makes:             *)
(* Input, Add, Mult, NewLayer, LastLayer, Output, CloseInputs,             *)
(* CloseOutputs, SetNetwork, GenCorrelator with SetThreshold, the          *)
(* function-independent preprocessing, and MapCorrToCircuit.               *)
(*                                                                         *)
(* A gate is its position in gates, the order of creation.  Gates go into  *)
(* batches of mBatchSize; a layer is a sequence of batches.  Shares are    *)
(* named by their index in the pool they come from; which share of which   *)
(* pool a gate or a batch gets is all this module is about.  Values are in *)
(* module TurboPack.                                                       *)
(***************************************************************************)
EXTENDS Integers, Sequences, SequencesExt, FiniteSetsExt, Functions, TLC

CONSTANTS
    Clients,          \* the owners of inputs and outputs, 0 .. n_clients-1
    mBatchSize,
    Threshold         \* t, the argument of SetThreshold

ASSUME BatchAssumption == mBatchSize \in Nat \ {0} /\ Threshold \in Nat
ASSUME ClientAssumption == Clients # {} /\ Clients \subseteq Nat /\ IsFiniteSet(Clients)

Pad == 0              \* every padding gate of a layer

VARIABLES
    gates,            \* all gates made so far, [kind, owner, left, right]
    inputLayers, outputLayers,     \* per client, a sequence of batches
    multLayers,       \* a sequence of layers
    flatMultLayers,   \* the same gates without batches or padding
    width,            \* mWidth
    inputsClosed,     \* CloseInputs was called; the code does not remember this
    lastClosed,       \* nor that LastLayer was called
    isClosed, isNetworkSet,
    corr              \* the correlator, or NoCorrelator

vars == <<gates, inputLayers, outputLayers, multLayers, flatMultLayers, width,
          inputsClosed, lastClosed, isClosed, isNetworkSet, corr>>
layout == <<inputLayers, outputLayers, multLayers, flatMultLayers, width>>

NoCorrelator == [phase |-> "none"]

OfKind(kind) == {g \in DOMAIN gates : gates[g].kind = kind}
mSize == Cardinality(OfKind("mult"))
GetDepth == Len(multLayers)

-----------------------------------------------------------------------------
(* Layers: the same code for input, multiplication and output gates. *)

EmptyLayer == << <<>> >>

LayerAppend(layer, g) ==
    IF Len(Last(layer)) < mBatchSize
    THEN [layer EXCEPT ![Len(layer)] = Append(@, g)]
    ELSE Append(layer, <<g>>)

LayerClose(layer) ==
    [layer EXCEPT ![Len(layer)] =
        [i \in 1 .. mBatchSize |-> IF i <= Len(@) THEN @[i] ELSE Pad]]

-----------------------------------------------------------------------------
Init ==
    /\ gates = <<>>
    /\ inputLayers = [c \in Clients |-> EmptyLayer]
    /\ outputLayers = [c \in Clients |-> EmptyLayer]
    /\ multLayers = <<EmptyLayer>>
    /\ flatMultLayers = << <<>> >>
    /\ width = 0
    /\ inputsClosed = FALSE /\ lastClosed = FALSE
    /\ isClosed = FALSE /\ isNetworkSet = FALSE
    /\ corr = NoCorrelator

\* The order FromConfig and every test keep: inputs, CloseInputs, layers,
\* LastLayer, outputs, CloseOutputs, then the network.  The code checks only
\* the last of these (SetNetwork); that callers keep the rest is assumed.
MayInput == ~inputsClosed
MayMult == inputsClosed /\ ~lastClosed
MayAdd == inputsClosed /\ ~isClosed
MayOutput == lastClosed /\ ~isClosed

NewGate(kind, owner, left, right) ==
    gates' = Append(gates, [kind |-> kind, owner |-> owner, left |-> left, right |-> right])
NewId == Len(gates) + 1

Input(owner) ==
    /\ MayInput
    /\ NewGate("input", owner, Pad, Pad)
    /\ inputLayers' = [inputLayers EXCEPT ![owner] = LayerAppend(@, NewId)]
    /\ UNCHANGED <<outputLayers, multLayers, flatMultLayers, width,
                   inputsClosed, lastClosed, isClosed, isNetworkSet, corr>>

\* Gates a gate may be built on.
Wires == OfKind("input") \cup OfKind("add") \cup OfKind("mult")

\* The operands' order is irrelevant, so the model only builds left <= right.
Add(left, right) ==
    /\ MayAdd
    /\ NewGate("add", Pad, left, right)
    /\ UNCHANGED <<layout, inputsClosed, lastClosed, isClosed, isNetworkSet, corr>>

\* Which wires are multiplied makes no difference to layers, batches and masks.
Mult ==
    /\ MayMult
    /\ NewGate("mult", Pad, Pad, Pad)
    /\ multLayers' = [multLayers EXCEPT ![Len(multLayers)] = LayerAppend(@, NewId)]
    /\ flatMultLayers' = [flatMultLayers EXCEPT ![Len(flatMultLayers)] = Append(@, NewId)]
    /\ UNCHANGED <<inputLayers, outputLayers, width,
                   inputsClosed, lastClosed, isClosed, isNetworkSet, corr>>

Output(owner, gate) ==
    /\ MayOutput
    /\ NewGate("output", owner, gate, Pad)
    /\ outputLayers' = [outputLayers EXCEPT ![owner] = LayerAppend(@, NewId)]
    /\ UNCHANGED <<inputLayers, multLayers, flatMultLayers, width,
                   inputsClosed, lastClosed, isClosed, isNetworkSet, corr>>

WidthNow == Max({width, Len(Last(flatMultLayers))})
ClosedLast == [multLayers EXCEPT ![Len(multLayers)] = LayerClose(@)]

NewLayer ==
    /\ MayMult
    /\ width' = WidthNow
    /\ flatMultLayers' = Append(flatMultLayers, <<>>)
    /\ multLayers' = Append(ClosedLast, EmptyLayer)
    /\ UNCHANGED <<gates, inputLayers, outputLayers,
                   inputsClosed, lastClosed, isClosed, isNetworkSet, corr>>

\* Mutant: the last layer is not padded.
LastLayerUnpadded ==
    /\ MayMult
    /\ width' = WidthNow
    /\ flatMultLayers' = Append(flatMultLayers, <<>>)
    /\ lastClosed' = TRUE
    /\ UNCHANGED <<gates, inputLayers, outputLayers, multLayers,
                   inputsClosed, isClosed, isNetworkSet, corr>>

LastLayer ==
    /\ MayMult
    /\ width' = WidthNow
    /\ flatMultLayers' = Append(flatMultLayers, <<>>)
    /\ multLayers' = ClosedLast
    /\ lastClosed' = TRUE
    /\ UNCHANGED <<gates, inputLayers, outputLayers,
                   inputsClosed, isClosed, isNetworkSet, corr>>

CloseInputs ==
    /\ ~inputsClosed
    /\ inputLayers' = [c \in Clients |-> LayerClose(inputLayers[c])]
    /\ inputsClosed' = TRUE
    /\ UNCHANGED <<gates, outputLayers, multLayers, flatMultLayers, width,
                   lastClosed, isClosed, isNetworkSet, corr>>

CloseOutputs ==
    /\ MayOutput
    /\ outputLayers' = [c \in Clients |-> LayerClose(outputLayers[c])]
    /\ isClosed' = TRUE
    /\ UNCHANGED <<gates, inputLayers, multLayers, flatMultLayers, width,
                   inputsClosed, lastClosed, isNetworkSet, corr>>

\* Throws unless isClosed; a call that throws changes nothing.
SetNetwork ==
    /\ isClosed /\ ~isNetworkSet
    /\ isNetworkSet' = TRUE
    /\ UNCHANGED <<gates, layout, inputsClosed, lastClosed, isClosed, corr>>

-----------------------------------------------------------------------------
(* The correlator. *)

\* The batches of all layers are counted.
NBatches(layers) == Cardinality(UNION {{c} \X DOMAIN layers[c] : c \in DOMAIN layers})

\* Mutant: the last, partial block of dealings is left out.
NBlocksRoundedDown(amount) == amount \div (Threshold + 1)

\* Sharings are dealt in blocks; one block yields Threshold+1 of them.
NBlocks(amount) == (amount + (Threshold + 1) - 1) \div (Threshold + 1)

NIndShrs == Cardinality(OfKind("input")) + mSize
NMultBatches == NBatches(multLayers)
NInOutBatches == NBatches(inputLayers) + NBatches(outputLayers)

\* Throws unless isNetworkSet.
GenCorrelator ==
    /\ isNetworkSet /\ corr.phase = "none"
    /\ corr' = [phase |-> "made", nIndShrs |-> NIndShrs,
                nMultBatches |-> NMultBatches, nInOutBatches |-> NInOutBatches]
    /\ UNCHANGED <<gates, layout, inputsClosed, lastClosed, isClosed, isNetworkSet>>

Below(n) == [i \in 1 .. n |-> i - 1]

IndShrs(n) == Below(NBlocks(n) * (Threshold + 1))

\* GenZeroPartiesReceive: the zero sharings 0, 1, ... in the order they are
\* made go to the multiplication batches and to mIOBatchFIPrep.  The else
\* belongs to the third if only: the first 2m of them go to both.
MultBatchFIPrep(m) ==
    [b \in 1 .. m |-> [mShrO1 |-> b - 1, mShrO2 |-> m + b - 1, mShrO3 |-> 2 * m + b - 1]]
IOBatchFIPrep(m, nIO) ==
    LET total == NBlocks(3 * m + nIO) * (Threshold + 1)
    IN [i \in 1 .. total - m |-> IF i <= 2 * m THEN i - 1 ELSE m + i - 1]

\* FIPrepRecv, as far as it decides how many sharings there are and where they
\* are kept.  No gate has been mapped.
FIPrepRecv ==
    /\ corr.phase = "made"
    /\ corr' = [phase |-> "filled", indShrs |-> IndShrs(corr.nIndShrs),
                multBatchFIPrep |-> MultBatchFIPrep(corr.nMultBatches),
                ioBatchFIPrep |-> IOBatchFIPrep(corr.nMultBatches, corr.nInOutBatches),
                ctrIndShrs |-> 0, mapIndShrs |-> << >>]
    /\ UNCHANGED <<gates, layout, inputsClosed, lastClosed, isClosed, isNetworkSet>>

Default == -1         \* what std::map::operator[] makes of a missing gate
OutOfRange == -2      \* what is read past the end of a vector

ReadAt(pool, ctr) == IF ctr < Len(pool) THEN pool[ctr + 1] ELSE OutOfRange
ReadAll(pool, n) == [i \in 1 .. n |-> ReadAt(pool, i - 1)]

Leaf(g) == gates[g].kind \in {"input", "mult"}

\* MapCorrToCircuit visits the inputs, the multiplications layer by layer, the
\* additions, and the outputs.
ToMap == OfKind("input") \cup (UNION {ToSet(flatMultLayers[l]) : l \in 1 .. GetDepth})
         \cup OfKind("add") \cup OfKind("output")

\* Mutant: additions before multiplications.
LoopAddsFirst(kind) ==
    CASE kind = "input" -> 1 [] kind = "add" -> 2 [] kind = "mult" -> 3 [] OTHER -> 4

\* The number of the loop that visits the gates of a kind.
Loop(kind) ==
    CASE kind = "input" -> 1 [] kind = "mult" -> 2 [] kind = "add" -> 3 [] OTHER -> 4

FlatBefore(h, g) ==
    \E l, m \in 1 .. GetDepth : \E i \in DOMAIN flatMultLayers[l], j \in DOMAIN flatMultLayers[m] :
        flatMultLayers[l][i] = h /\ flatMultLayers[m][j] = g /\ (l < m \/ (l = m /\ i < j))

VisitedBefore(h, g) ==
    \/ Loop(gates[h].kind) < Loop(gates[g].kind)
    \/ gates[h].kind = gates[g].kind /\ IF gates[g].kind = "mult" THEN FlatBefore(h, g) ELSE h < g

Mapped == DOMAIN corr.mapIndShrs

\* mMapIndShrs of a gate, a sum of individual shares kept as the sequence of
\* them.  A gate not yet visited reads as Default.
MaskOf(h) == IF h \in Mapped THEN corr.mapIndShrs[h] ELSE <<Default>>
NewMask(g) ==
    CASE gates[g].kind = "add"    -> MaskOf(gates[g].left) \o MaskOf(gates[g].right)
      [] gates[g].kind = "output" -> MaskOf(gates[g].left)
      [] OTHER                    -> <<ReadAt(corr.indShrs, corr.ctrIndShrs)>>

\* The next turn of the loops over gates.
PopulateIndvShrs(g) ==
    /\ \A h \in ToMap \ Mapped : ~VisitedBefore(h, g)
    /\ corr' = [corr EXCEPT !.ctrIndShrs = IF Leaf(g) THEN @ + 1 ELSE @,
                            !.mapIndShrs = [h \in Mapped \cup {g} |->
                                                IF h = g THEN NewMask(g) ELSE MaskOf(h)]]
    /\ UNCHANGED <<gates, layout, inputsClosed, lastClosed, isClosed, isNetworkSet>>

\* Batches take their sharings one after the other: input batches, output
\* batches, then multiplication batches from a pool of their own.
PopulateBatches ==
    /\ ToMap \subseteq Mapped
    /\ corr' = [phase |-> "mapped", mapIndShrs |-> corr.mapIndShrs,
                mapIO |-> ReadAll(corr.ioBatchFIPrep, NInOutBatches),
                mapMult |-> ReadAll(corr.multBatchFIPrep, NMultBatches)]
    /\ UNCHANGED <<gates, layout, inputsClosed, lastClosed, isClosed, isNetworkSet>>

MapCorrToCircuit ==
    /\ corr.phase = "filled"
    /\ (\E g \in ToMap \ Mapped : PopulateIndvShrs(g)) \/ PopulateBatches

Build ==
    \/ \E c \in Clients : Input(c)
    \/ \E r \in Wires : \E l \in {w \in Wires : w <= r} : Add(l, r)
    \/ Mult
    \/ \E c \in Clients, g \in Wires : Output(c, g)
    \/ NewLayer \/ LastLayer \/ CloseInputs \/ CloseOutputs

Next == Build \/ SetNetwork \/ GenCorrelator \/ FIPrepRecv \/ MapCorrToCircuit

Spec == Init /\ [][Next]_vars

-----------------------------------------------------------------------------
(* Properties. *)

AllLayers == {inputLayers[c] : c \in Clients} \cup {outputLayers[c] : c \in Clients}
             \cup ToSet(multLayers)

\* Where gate g is: the layer, the batch, the place in it.
Slots(g) ==
    {s \in UNION {{layer} \X (DOMAIN layer) \X (1 .. mBatchSize) : layer \in AllLayers} :
        s[3] \in DOMAIN s[1][s[2]] /\ s[1][s[2]][s[3]] = g}

\* The assertion commented out in GetMultGate: the idx-th gate of a layer is in
\* batch idx / mBatchSize at idx % mBatchSize.  Every multiplication is in one
\* of the layers MapCorrToCircuit walks, and every input, output and
\* multiplication sits in exactly one batch slot.  Once the network is set every
\* batch is full, so that the loops over mBatchSize gates stay inside it.
SlotIsFlat ==
    /\ isNetworkSet => \A layer \in AllLayers : \A batch \in ToSet(layer) : Len(batch) = mBatchSize
    /\ \A g \in DOMAIN gates :
          Cardinality(Slots(g)) = IF gates[g].kind = "add" THEN 0 ELSE 1
    /\ \A l \in 1 .. GetDepth : \A i \in 1 .. Len(flatMultLayers[l]) :
           multLayers[l][((i - 1) \div mBatchSize) + 1][((i - 1) % mBatchSize) + 1]
               = flatMultLayers[l][i]
    /\ UNION {ToSet(flatMultLayers[l]) : l \in 1 .. GetDepth} = OfKind("mult")

\* The mapping never reads past the end of a pool (GenCorrelator's counts and
\* the rounding to blocks provide for every gate and every batch), and no two
\* input or multiplication gates share an individual sharing: their masks are
\* independent.
OwnShare ==
    corr.phase = "mapped" =>
        /\ \A g \in DOMAIN corr.mapIndShrs : OutOfRange \notin ToSet(corr.mapIndShrs[g])
        /\ OutOfRange \notin ToSet(corr.mapIO)
        /\ \A b \in DOMAIN corr.mapMult : DOMAIN corr.mapMult[b] = {"mShrO1", "mShrO2", "mShrO3"}
        /\ \A g, h \in OfKind("input") \cup OfKind("mult") :
              g # h => corr.mapIndShrs[g] # corr.mapIndShrs[h]

\* "This is done in topological order, so previous (left&right) gates are
\* already handled": an addition's mask is the sum of its operands' masks and
\* an output's mask its wire's, as these stand at the end, and no gate was read
\* before it was filled in.
LinearRight ==
    corr.phase = "mapped" =>
        /\ DOMAIN corr.mapIndShrs = DOMAIN gates
        /\ \A g \in DOMAIN gates : Default \notin ToSet(corr.mapIndShrs[g])
        /\ \A g \in OfKind("add") : corr.mapIndShrs[g] =
               corr.mapIndShrs[gates[g].left] \o corr.mapIndShrs[gates[g].right]
        /\ \A g \in OfKind("output") : corr.mapIndShrs[g] = corr.mapIndShrs[gates[g].left]


-----------------------------------------------------------------------------
(* The inductive invariant behind SlotIsFlat *)

\* A layer of the gates G: all batches but the last are full, every gate of G
\* has a slot of its own, the others are padding, and a gate is in no later
\* batch than its number.
Filled(layer, G) ==
    /\ layer \in Seq(Seq(Nat)) /\ Len(layer) > 0
    /\ \A b \in 1 .. Len(layer) : /\ Len(layer[b]) <= mBatchSize
                                  /\ b < Len(layer) => Len(layer[b]) = mBatchSize
    /\ \A b \in 1 .. Len(layer) : \A i \in 1 .. Len(layer[b]) :
          layer[b][i] = Pad \/ (layer[b][i] \in G /\ b <= layer[b][i])
    /\ \A g \in G : \E b \in 1 .. Len(layer) : \E i \in 1 .. Len(layer[b]) : layer[b][i] = g
    /\ \A b, c \in 1 .. Len(layer) : \A i \in 1 .. Len(layer[b]) : \A j \in 1 .. Len(layer[c]) :
          layer[b][i] = layer[c][j] /\ layer[b][i] # Pad => b = c /\ i = j

Full(layer) == \A b \in 1 .. Len(layer) : Len(layer[b]) = mBatchSize

\* A layer that may still grow, when there are n gates: a batch is started for
\* a gate, but for the first.
Growing(layer, n) ==
    /\ Len(layer) <= n + 1
    /\ Len(layer[Len(layer)]) = mBatchSize => Len(layer) <= n

\* The gates s, in this order, from the first slot of the layer on.
Batch(i) == ((i - 1) \div mBatchSize) + 1
Place(i) == ((i - 1) % mBatchSize) + 1
InOrder(layer, s) ==
    /\ s \in Seq(Nat)
    /\ (Len(layer) - 1) * mBatchSize <= Len(s) /\ Len(s) <= Len(layer) * mBatchSize
    /\ Len(layer) > 1 => Len(s) > (Len(layer) - 1) * mBatchSize
    /\ \A i \in 1 .. Len(s) : /\ Batch(i) \in 1 .. Len(layer)
                              /\ Place(i) \in 1 .. Len(layer[Batch(i)])
                              /\ layer[Batch(i)][Place(i)] = s[i]
NoPadding(layer, s) == Len(s) = (Len(layer) - 1) * mBatchSize + Len(layer[Len(layer)])

GatesOf(kind, c) == {g \in OfKind(kind) : gates[g].owner = c}

GatesInv ==
    /\ gates \in Seq(ToSet(gates))
    /\ \A g \in DOMAIN gates : gates[g].kind \in {"input", "add", "mult", "output"}
    /\ \A g \in OfKind("input") \cup OfKind("output") : gates[g].owner \in Clients

OrderInv == (isNetworkSet => isClosed) /\ (isClosed => lastClosed) /\ (lastClosed => inputsClosed)

InputInv ==
    /\ DOMAIN inputLayers = Clients
    /\ \A c \in Clients :
          /\ Filled(inputLayers[c], GatesOf("input", c))
          /\ IF inputsClosed THEN Full(inputLayers[c]) ELSE Growing(inputLayers[c], Len(gates))

OutputInv ==
    /\ DOMAIN outputLayers = Clients
    /\ \A c \in Clients :
          /\ Filled(outputLayers[c], GatesOf("output", c))
          /\ IF isClosed THEN Full(outputLayers[c]) ELSE Growing(outputLayers[c], Len(gates))

MultInv ==
    /\ multLayers \in Seq(Seq(Seq(Nat))) /\ Len(multLayers) > 0
    /\ flatMultLayers \in Seq(Seq(Nat))
    /\ Len(flatMultLayers) = IF lastClosed THEN GetDepth + 1 ELSE GetDepth
    /\ lastClosed => flatMultLayers[GetDepth + 1] = <<>>
    /\ \A l \in 1 .. GetDepth :
          /\ Filled(multLayers[l], ToSet(flatMultLayers[l]))
          /\ InOrder(multLayers[l], flatMultLayers[l])
          /\ l < GetDepth \/ lastClosed => Full(multLayers[l])
    /\ ~lastClosed => /\ Growing(multLayers[GetDepth], Len(gates))
                      /\ NoPadding(multLayers[GetDepth], flatMultLayers[GetDepth])

\* Every multiplication is in one layer.
LayersInv ==
    /\ \A l \in 1 .. GetDepth : ToSet(flatMultLayers[l]) \subseteq OfKind("mult")
    /\ \A g \in OfKind("mult") : \E l \in 1 .. GetDepth : g \in ToSet(flatMultLayers[l])
    /\ \A l, m \in 1 .. GetDepth : \A g \in ToSet(flatMultLayers[l]) :
          g \in ToSet(flatMultLayers[m]) => l = m

IndInv == GatesInv /\ OrderInv /\ InputInv /\ OutputInv /\ MultInv /\ LayersInv


-----------------------------------------------------------------------------
(* The inductive invariant behind OwnShare and LinearRight, next to IndInv *)

\* A gate is built on gates made before it.
WiresInv ==
    /\ \A g \in OfKind("add") : /\ gates[g].left \in Wires /\ gates[g].left < g
                                /\ gates[g].right \in Wires /\ gates[g].right < g
    /\ \A g \in OfKind("output") : gates[g].left \in Wires

\* The counts, and then the pools, are those of the circuit as it still is.
CountsTaken ==
    corr = [phase |-> "made", nIndShrs |-> NIndShrs,
            nMultBatches |-> NMultBatches, nInOutBatches |-> NInOutBatches]
PoolsFilled ==
    corr = [phase |-> "filled", indShrs |-> IndShrs(NIndShrs),
            multBatchFIPrep |-> MultBatchFIPrep(NMultBatches),
            ioBatchFIPrep |-> IOBatchFIPrep(NMultBatches, NInOutBatches),
            ctrIndShrs |-> corr.ctrIndShrs, mapIndShrs |-> corr.mapIndShrs]

\* In the middle of the loops over gates: as many shares are taken as input and
\* multiplication gates were visited, each by one of them, and the masks of
\* the other gates are made of these.
MappedLeaves == {g \in Mapped : Leaf(g)}
MasksInv ==
    /\ Mapped \subseteq DOMAIN gates
    /\ corr.ctrIndShrs = Cardinality(MappedLeaves)
    /\ \A g \in Mapped : corr.mapIndShrs[g] \in Seq(Nat)
    /\ \A g \in MappedLeaves : \E k \in 0 .. corr.ctrIndShrs - 1 : corr.mapIndShrs[g] = <<k>>
    /\ \A g, h \in MappedLeaves : g # h => corr.mapIndShrs[g] # corr.mapIndShrs[h]
    /\ \A g \in Mapped \cap OfKind("add") :
          /\ gates[g].left \in Mapped /\ gates[g].right \in Mapped
          /\ corr.mapIndShrs[g] = corr.mapIndShrs[gates[g].left] \o corr.mapIndShrs[gates[g].right]
    /\ \A g \in Mapped \cap OfKind("output") :
          gates[g].left \in Mapped /\ corr.mapIndShrs[g] = corr.mapIndShrs[gates[g].left]

CorrInv ==
    /\ corr # NoCorrelator => isNetworkSet
    /\ \/ corr = NoCorrelator
       \/ CountsTaken
       \/ corr.phase = "filled" /\ PoolsFilled /\ MasksInv
       \/ corr.phase = "mapped" /\ OwnShare /\ LinearRight

MapInv == WiresInv /\ CorrInv
=============================================================================
