---------------------------- MODULE CircuitProofs ---------------------------
(***************************************************************************)
(* The layers and batches of a circuit, for every circuit, batch size and  *)
(* number of clients; and Circuit::FromConfig for every configuration.     *)
(***************************************************************************)
EXTENDS CircuitFromConfig, FiniteSetTheorems, SequenceTheorems, WellFoundedInduction, TLAPS

USE BatchAssumption DEF Pad

-----------------------------------------------------------------------------
(* Sequences and slots *)

LEMMA SequenceFacts ==
    ASSUME NEW S, NEW s \in Seq(S), NEW e \in S
    PROVE  /\ Append(s, e) \in Seq(S)
           /\ Len(s) \in Nat /\ Len(Append(s, e)) = Len(s) + 1
           /\ \A i \in 1 .. Len(s) : Append(s, e)[i] = s[i] /\ s[i] \in S
           /\ Append(s, e)[Len(s) + 1] = e
           /\ DOMAIN s = 1 .. Len(s) /\ DOMAIN Append(s, e) = 1 .. Len(s) + 1
  OBVIOUS

LEMMA ReplaceFacts ==
    ASSUME NEW S, NEW s \in Seq(S), NEW e \in S, NEW n \in 1 .. Len(s)
    PROVE  /\ [s EXCEPT ![n] = e] \in Seq(S)
           /\ Len([s EXCEPT ![n] = e]) = Len(s)
           /\ [s EXCEPT ![n] = e][n] = e
           /\ \A i \in 1 .. Len(s) : i # n => [s EXCEPT ![n] = e][i] = s[i]
  OBVIOUS

LEMMA AppendSet ==
    ASSUME NEW S, NEW s \in Seq(S), NEW e
    PROVE  /\ ToSet(Append(s, e)) = ToSet(s) \cup {e}
           /\ s \in Seq(ToSet(s))
           /\ Append(s, e) \in Seq(ToSet(Append(s, e)))
           /\ Len(Append(s, e)) = Len(s) + 1
           /\ \A i \in 1 .. Len(s) : Append(s, e)[i] = s[i]
           /\ Append(s, e)[Len(s) + 1] = e
  <1> DEFINE T == S \cup {e}
  <1>1. s \in Seq(T) /\ e \in T
    OBVIOUS
  <1> HIDE DEF T
  <1>2. /\ Append(s, e) \in Seq(T)
        /\ Len(s) \in Nat /\ Len(Append(s, e)) = Len(s) + 1
        /\ \A i \in 1 .. Len(s) : Append(s, e)[i] = s[i]
        /\ Append(s, e)[Len(s) + 1] = e
        /\ DOMAIN s = 1 .. Len(s) /\ DOMAIN Append(s, e) = 1 .. Len(s) + 1
    BY <1>1, SequenceFacts
  <1>3. ToSet(Append(s, e)) = ToSet(s) \cup {e}
    <2>1. \A i \in 1 .. Len(s) + 1 : i \in 1 .. Len(s) \/ i = Len(s) + 1
      BY <1>2
    <2>2. 1 .. Len(s) \subseteq 1 .. Len(s) + 1 /\ Len(s) + 1 \in 1 .. Len(s) + 1
      BY <1>2
    <2> QED
      BY ONLY <1>2, <2>1, <2>2 DEF ToSet
  <1>4. s \in Seq(ToSet(s))
    BY DEF ToSet
  <1>5. Append(s, e) \in Seq(ToSet(Append(s, e)))
    BY <1>2 DEF ToSet
  <1> QED
    BY <1>2, <1>3, <1>4, <1>5

\* Multiples of the batch size; the i-th gate is in slot (i - 1) of a row of
\* slots cut into batches.
LEMMA BatchPlace ==
    ASSUME NEW q \in Nat, NEW r \in 0 .. mBatchSize - 1, NEW i \in Nat, i = q * mBatchSize + r + 1
    PROVE  Batch(i) = q + 1 /\ Place(i) = r + 1
  <1>1. i - 1 = q * mBatchSize + r
    OBVIOUS
  <1>2. (i - 1) \div mBatchSize = q
    BY <1>1
  <1>3. (i - 1) % mBatchSize = r
    BY <1>1
  <1> QED
    BY <1>2, <1>3 DEF Batch, Place

-----------------------------------------------------------------------------
(* LayerAppend and LayerClose *)

\* The batch and the place in it that LayerAppend gives the next gate.
NewBatch(layer) == IF Len(layer[Len(layer)]) < mBatchSize THEN Len(layer) ELSE Len(layer) + 1
NewPlace(layer) == IF Len(layer[Len(layer)]) < mBatchSize THEN Len(layer[Len(layer)]) + 1 ELSE 1

\* What LayerAppend does to the slots of a layer.
LEMMA AppendSlots ==
    ASSUME NEW layer \in Seq(Seq(Nat)), Len(layer) > 0, NEW g \in Nat,
           \A b \in 1 .. Len(layer) : /\ Len(layer[b]) <= mBatchSize
                                      /\ b < Len(layer) => Len(layer[b]) = mBatchSize
    PROVE  LET new == LayerAppend(layer, g)
               B == NewBatch(layer)
               J == NewPlace(layer)
           IN  /\ new \in Seq(Seq(Nat)) /\ Len(new) = B
               /\ \A b \in 1 .. B : b < B => Len(new[b]) = mBatchSize
               /\ Len(new[B]) = J /\ J \in 1 .. mBatchSize /\ B \in Nat
               /\ new[B][J] = g
               /\ \A b \in 1 .. B : \A i \in 1 .. Len(new[b]) :
                     \/ b = B /\ i = J
                     \/ b \in 1 .. Len(layer) /\ i \in 1 .. Len(layer[b]) /\ new[b][i] = layer[b][i]
               /\ \A b \in 1 .. Len(layer) : \A i \in 1 .. Len(layer[b]) :
                     /\ b \in 1 .. B /\ i \in 1 .. Len(new[b]) /\ new[b][i] = layer[b][i]
                     /\ b # B \/ i # J
  <1> DEFINE L == Len(layer)
             new == LayerAppend(layer, g)
             B == NewBatch(layer)
             J == NewPlace(layer)
  <1>1. L \in Nat /\ L \in 1 .. L /\ layer[L] \in Seq(Nat) /\ Len(layer[L]) \in Nat /\ Len(layer[L]) <= mBatchSize
    OBVIOUS
  <1>2. CASE Len(layer[L]) < mBatchSize
    <2> DEFINE last == Append(layer[L], g)
    <2>1. /\ last \in Seq(Nat) /\ Len(last) = Len(layer[L]) + 1
          /\ \A i \in 1 .. Len(layer[L]) : last[i] = layer[L][i]
          /\ last[Len(layer[L]) + 1] = g
      BY <1>1, SequenceFacts
    <2>2. new = [layer EXCEPT ![L] = last] /\ B = L /\ J = Len(layer[L]) + 1
      BY <1>2, <1>1 DEF LayerAppend, Last, NewBatch, NewPlace
    <2> HIDE DEF last, new, B, J
    <2>3. /\ new \in Seq(Seq(Nat)) /\ Len(new) = L
          /\ new[L] = last
          /\ \A b \in 1 .. L : b # L => new[b] = layer[b]
      BY <2>1, <2>2, <1>1, ReplaceFacts
    <2>4. \A b \in 1 .. B : b < B => Len(new[b]) = mBatchSize
      BY <2>2, <2>3, <1>1
    <2>5. Len(new[B]) = J /\ J \in 1 .. mBatchSize /\ B \in Nat /\ new[B][J] = g
      BY <2>1, <2>2, <2>3, <1>1, <1>2
    <2>6. ASSUME NEW b \in 1 .. B, NEW i \in 1 .. Len(new[b])
          PROVE  \/ b = B /\ i = J
                 \/ b \in 1 .. L /\ i \in 1 .. Len(layer[b]) /\ new[b][i] = layer[b][i]
      <3>1. CASE b = L
        BY <3>1, <2>1, <2>2, <2>3, <2>5, <1>1
      <3>2. CASE b # L
        BY <3>2, <2>2, <2>3
      <3> QED
        BY <3>1, <3>2
    <2>7. ASSUME NEW b \in 1 .. L, NEW i \in 1 .. Len(layer[b])
          PROVE  /\ b \in 1 .. B /\ i \in 1 .. Len(new[b]) /\ new[b][i] = layer[b][i]
                 /\ b # B \/ i # J
      <3>1. CASE b = L
        <4>1. new[b] = last /\ B = L /\ J = Len(layer[L]) + 1 /\ i \in 1 .. Len(layer[L])
          BY <3>1, <2>2, <2>3
        <4>2. i \in 1 .. Len(last) /\ i # J
          <5>1. Len(last) = Len(layer[L]) + 1 /\ Len(layer[L]) \in Nat
            BY <2>1, <1>1
          <5> QED
            BY ONLY <5>1, <4>1
        <4>3. last[i] = layer[b][i]
          BY <4>1, <3>1, <2>1
        <4> QED
          BY <4>1, <4>2, <4>3
      <3>2. CASE b # L
        BY <3>2, <2>2, <2>3
      <3> QED
        BY <3>1, <3>2
    <2> QED
      BY <2>2, <2>3, <2>4, <2>5, <2>6, <2>7 DEF new, B, J
  <1>3. CASE ~(Len(layer[L]) < mBatchSize)
    <2>1. new = Append(layer, <<g>>) /\ B = L + 1 /\ J = 1 /\ Len(layer[L]) = mBatchSize
      BY <1>3, <1>1 DEF LayerAppend, Last, NewBatch, NewPlace
    <2>2. <<g>> \in Seq(Nat) /\ Len(<<g>>) = 1 /\ <<g>>[1] = g
      OBVIOUS
    <2> HIDE DEF new, B, J
    <2>3. /\ new \in Seq(Seq(Nat)) /\ Len(new) = L + 1
          /\ new[L + 1] = <<g>>
          /\ \A b \in 1 .. L : new[b] = layer[b]
      BY <2>1, <2>2, <1>1, SequenceFacts
    <2>4. \A b \in 1 .. B : b < B => Len(new[b]) = mBatchSize
      BY <2>1, <2>3, <1>1
    <2>5. Len(new[B]) = J /\ J \in 1 .. mBatchSize /\ B \in Nat /\ new[B][J] = g
      BY <2>1, <2>2, <2>3, <1>1
    <2>6. ASSUME NEW b \in 1 .. B, NEW i \in 1 .. Len(new[b])
          PROVE  \/ b = B /\ i = J
                 \/ b \in 1 .. L /\ i \in 1 .. Len(layer[b]) /\ new[b][i] = layer[b][i]
      <3>1. b = B \/ b \in 1 .. L
        BY <2>1, <1>1
      <3>2. CASE b = B
        BY <3>2, <2>5, <2>1
      <3>3. CASE b \in 1 .. L
        BY <3>3, <2>3
      <3> QED
        BY <3>1, <3>2, <3>3
    <2>7. ASSUME NEW b \in 1 .. L, NEW i \in 1 .. Len(layer[b])
          PROVE  /\ b \in 1 .. B /\ i \in 1 .. Len(new[b]) /\ new[b][i] = layer[b][i]
                 /\ b # B \/ i # J
      BY <2>1, <2>3, <1>1
    <2> QED
      BY <2>1, <2>3, <2>4, <2>5, <2>6, <2>7 DEF new, B, J
  <1> QED
    BY <1>2, <1>3

LEMMA AppendFilled ==
    ASSUME NEW layer, NEW G, Filled(layer, G), NEW g \in Nat, g # Pad, g \notin G, Growing(layer, g - 1)
    PROVE  Filled(LayerAppend(layer, g), G \cup {g}) /\ Growing(LayerAppend(layer, g), g)
  <1> DEFINE new == LayerAppend(layer, g)
             B == NewBatch(layer)
             J == NewPlace(layer)
  <1>1. /\ layer \in Seq(Seq(Nat)) /\ Len(layer) > 0
        /\ \A b \in 1 .. Len(layer) : /\ Len(layer[b]) <= mBatchSize
                                      /\ b < Len(layer) => Len(layer[b]) = mBatchSize
    BY DEF Filled
  <1>a. \A b \in 1 .. Len(layer) : \A i \in 1 .. Len(layer[b]) :
           layer[b][i] = Pad \/ (layer[b][i] \in G /\ b <= layer[b][i])
    BY DEF Filled
  <1>b. \A h \in G : \E b \in 1 .. Len(layer) : \E i \in 1 .. Len(layer[b]) : layer[b][i] = h
    BY DEF Filled
  <1>c. \A b, c \in 1 .. Len(layer) : \A i \in 1 .. Len(layer[b]) : \A j \in 1 .. Len(layer[c]) :
           layer[b][i] = layer[c][j] /\ layer[b][i] # Pad => b = c /\ i = j
    BY DEF Filled
  <1>2. /\ new \in Seq(Seq(Nat)) /\ Len(new) = B
        /\ \A b \in 1 .. B : b < B => Len(new[b]) = mBatchSize
        /\ Len(new[B]) = J /\ J \in 1 .. mBatchSize /\ B \in Nat
        /\ new[B][J] = g
        /\ \A b \in 1 .. B : \A i \in 1 .. Len(new[b]) :
              \/ b = B /\ i = J
              \/ b \in 1 .. Len(layer) /\ i \in 1 .. Len(layer[b]) /\ new[b][i] = layer[b][i]
        /\ \A b \in 1 .. Len(layer) : \A i \in 1 .. Len(layer[b]) :
              /\ b \in 1 .. B /\ i \in 1 .. Len(new[b]) /\ new[b][i] = layer[b][i]
              /\ b # B \/ i # J
    BY ONLY <1>1, AppendSlots, g \in Nat, Zenon
  <1>3. /\ B \in {Len(layer), Len(layer) + 1} /\ Len(layer) \in Nat
        /\ B <= g /\ B > 0
    BY <1>1 DEF NewBatch, Growing
  <1> HIDE DEF new, B, J
  <1>4. Growing(new, g)
    BY <1>2, <1>3 DEF Growing
  <1>5. \A b \in 1 .. Len(new) : Len(new[b]) <= mBatchSize /\ (b < Len(new) => Len(new[b]) = mBatchSize)
    BY <1>2
  <1>6. ASSUME NEW b \in 1 .. Len(new), NEW i \in 1 .. Len(new[b])
        PROVE  new[b][i] = Pad \/ (new[b][i] \in G \cup {g} /\ b <= new[b][i])
    <2>1. CASE b = B /\ i = J
      BY <2>1, <1>2, <1>3
    <2>2. CASE b \in 1 .. Len(layer) /\ i \in 1 .. Len(layer[b]) /\ new[b][i] = layer[b][i]
      BY <2>2, <1>a
    <2> QED
      BY <2>1, <2>2, <1>2
  <1>7. ASSUME NEW h \in G \cup {g}
        PROVE  \E b \in 1 .. Len(new) : \E i \in 1 .. Len(new[b]) : new[b][i] = h
    <2>1. CASE h = g
      <3>1. B \in 1 .. Len(new) /\ J \in 1 .. Len(new[B]) /\ new[B][J] = g
        BY <1>2, <1>3
      <3> QED
        BY <3>1, <2>1
    <2>2. CASE h \in G
      <3>1. PICK b \in 1 .. Len(layer) : \E i \in 1 .. Len(layer[b]) : layer[b][i] = h
        BY <2>2, <1>b
      <3>2. PICK i \in 1 .. Len(layer[b]) : layer[b][i] = h
        BY <3>1
      <3>3. b \in 1 .. B /\ i \in 1 .. Len(new[b]) /\ new[b][i] = h
        BY <3>2, <1>2
      <3> QED
        BY <3>3, <1>2
    <2> QED
      BY <2>1, <2>2
  <1>8. ASSUME NEW b \in 1 .. Len(new), NEW c \in 1 .. Len(new),
               NEW i \in 1 .. Len(new[b]), NEW j \in 1 .. Len(new[c]),
               new[b][i] = new[c][j], new[b][i] # Pad
        PROVE  b = c /\ i = j
    <2>1. ASSUME NEW d \in 1 .. Len(layer), NEW k \in 1 .. Len(layer[d])
          PROVE  layer[d][k] # g
      BY <1>a
    <2>s. /\ \/ b = B /\ i = J
             \/ b \in 1 .. Len(layer) /\ i \in 1 .. Len(layer[b]) /\ new[b][i] = layer[b][i]
          /\ \/ c = B /\ j = J
             \/ c \in 1 .. Len(layer) /\ j \in 1 .. Len(layer[c]) /\ new[c][j] = layer[c][j]
      BY <1>2
    <2>2. (b = B /\ i = J) <=> new[b][i] = g
      BY <2>1, <2>s, <1>2
    <2>3. (c = B /\ j = J) <=> new[c][j] = g
      BY <2>1, <2>s, <1>2
    <2>4. CASE new[b][i] = g
      BY <2>2, <2>3, <2>4, <1>8
    <2>5. CASE new[b][i] # g
      <3>1. /\ b \in 1 .. Len(layer) /\ i \in 1 .. Len(layer[b]) /\ new[b][i] = layer[b][i]
            /\ c \in 1 .. Len(layer) /\ j \in 1 .. Len(layer[c]) /\ new[c][j] = layer[c][j]
        BY <2>2, <2>3, <2>5, <2>s, <1>8
      <3> QED
        <4>1. layer[b][i] = layer[c][j] /\ layer[b][i] # Pad
          BY <3>1, <1>8
        <4> HIDE DEF Pad
        <4> QED
          BY ONLY <4>1, <3>1, <1>c
    <2> QED
      BY <2>4, <2>5
  <1>9. Filled(new, G \cup {g})
    <2>1. new \in Seq(Seq(Nat)) /\ Len(new) > 0
      BY <1>2, <1>3
    <2>2. \A b \in 1 .. Len(new) : \A i \in 1 .. Len(new[b]) :
             new[b][i] = Pad \/ (new[b][i] \in G \cup {g} /\ b <= new[b][i])
      BY ONLY <1>6
    <2>3. \A b, c \in 1 .. Len(new) : \A i \in 1 .. Len(new[b]) : \A j \in 1 .. Len(new[c]) :
             new[b][i] = new[c][j] /\ new[b][i] # Pad => b = c /\ i = j
      BY ONLY <1>8
    <2>4. \A h \in G \cup {g} : \E b \in 1 .. Len(new) : \E i \in 1 .. Len(new[b]) : new[b][i] = h
      BY ONLY <1>7
    <2> QED
      BY ONLY <2>1, <2>2, <2>3, <2>4, <1>5, Zenon DEF Filled
  <1> QED
    BY <1>4, <1>9 DEF new

\* Every batch of a closed layer has the gates it had, and then padding.
LEMMA CloseSlots ==
    ASSUME NEW layer \in Seq(Seq(Nat)), Len(layer) > 0,
           \A b \in 1 .. Len(layer) : /\ Len(layer[b]) <= mBatchSize
                                      /\ b < Len(layer) => Len(layer[b]) = mBatchSize
    PROVE  LET new == LayerClose(layer)
           IN  /\ new \in Seq(Seq(Nat)) /\ Len(new) = Len(layer)
               /\ \A b \in 1 .. Len(layer) : Len(new[b]) = mBatchSize
               /\ \A b \in 1 .. Len(layer) : \A i \in 1 .. Len(new[b]) :
                     new[b][i] = Pad \/ (i \in 1 .. Len(layer[b]) /\ new[b][i] = layer[b][i])
               /\ \A b \in 1 .. Len(layer) : \A i \in 1 .. Len(layer[b]) :
                     i \in 1 .. Len(new[b]) /\ new[b][i] = layer[b][i]
  <1> DEFINE L == Len(layer)
             new == LayerClose(layer)
             last == [i \in 1 .. mBatchSize |-> IF i <= Len(layer[L]) THEN layer[L][i] ELSE Pad]
  <1>1. L \in Nat /\ L \in 1 .. L /\ layer[L] \in Seq(Nat) /\ Len(layer[L]) \in Nat /\ Len(layer[L]) <= mBatchSize
    OBVIOUS
  <1>2. last \in Seq(Nat) /\ Len(last) = mBatchSize
    BY <1>1
  <1>3. new = [layer EXCEPT ![L] = last]
    BY <1>1 DEF LayerClose
  <1>4. /\ \A i \in 1 .. mBatchSize : last[i] = Pad \/ (i \in 1 .. Len(layer[L]) /\ last[i] = layer[L][i])
        /\ \A i \in 1 .. Len(layer[L]) : i \in 1 .. mBatchSize /\ last[i] = layer[L][i]
    BY <1>1
  <1> HIDE DEF last, new
  <1>5. /\ new \in Seq(Seq(Nat)) /\ Len(new) = L /\ new[L] = last
        /\ \A b \in 1 .. L : b # L => new[b] = layer[b]
    BY <1>1, <1>2, <1>3, ReplaceFacts
  <1>6. ASSUME NEW b \in 1 .. L
        PROVE  /\ Len(new[b]) = mBatchSize
               /\ \A i \in 1 .. Len(new[b]) :
                     new[b][i] = Pad \/ (i \in 1 .. Len(layer[b]) /\ new[b][i] = layer[b][i])
               /\ \A i \in 1 .. Len(layer[b]) : i \in 1 .. Len(new[b]) /\ new[b][i] = layer[b][i]
    <2>1. CASE b = L
      <3>1. new[b] = last /\ layer[b] = layer[L]
        BY <2>1, <1>5
      <3> QED
        BY ONLY <3>1, <1>2, <1>4
    <2>2. CASE b # L
      <3>1. new[b] = layer[b] /\ b < L
        BY <2>2, <1>1, <1>5
      <3>2. Len(layer[b]) = mBatchSize
        BY <3>1
      <3> QED
        BY ONLY <3>1, <3>2
    <2> QED
      BY <2>1, <2>2
  <1> QED
    BY <1>5, <1>6 DEF new

LEMMA CloseFilled ==
    ASSUME NEW layer, NEW G, Filled(layer, G), Pad \notin G
    PROVE  Filled(LayerClose(layer), G) /\ Full(LayerClose(layer))
  <1> DEFINE new == LayerClose(layer)
  <1>1. /\ layer \in Seq(Seq(Nat)) /\ Len(layer) > 0
        /\ \A b \in 1 .. Len(layer) : /\ Len(layer[b]) <= mBatchSize
                                      /\ b < Len(layer) => Len(layer[b]) = mBatchSize
    BY DEF Filled
  <1>a. \A b \in 1 .. Len(layer) : \A i \in 1 .. Len(layer[b]) :
           layer[b][i] = Pad \/ (layer[b][i] \in G /\ b <= layer[b][i])
    BY DEF Filled
  <1>b. \A h \in G : \E b \in 1 .. Len(layer) : \E i \in 1 .. Len(layer[b]) : layer[b][i] = h
    BY DEF Filled
  <1>c. \A b, c \in 1 .. Len(layer) : \A i \in 1 .. Len(layer[b]) : \A j \in 1 .. Len(layer[c]) :
           layer[b][i] = layer[c][j] /\ layer[b][i] # Pad => b = c /\ i = j
    BY DEF Filled
  <1>2. /\ new \in Seq(Seq(Nat)) /\ Len(new) = Len(layer)
        /\ \A b \in 1 .. Len(layer) : Len(new[b]) = mBatchSize
    BY <1>1, CloseSlots
  <1>3. \A b \in 1 .. Len(layer) : \A i \in 1 .. Len(new[b]) :
           new[b][i] = Pad \/ (i \in 1 .. Len(layer[b]) /\ new[b][i] = layer[b][i])
    BY <1>1, CloseSlots
  <1>4. \A b \in 1 .. Len(layer) : \A i \in 1 .. Len(layer[b]) :
           i \in 1 .. Len(new[b]) /\ new[b][i] = layer[b][i]
    BY <1>1, CloseSlots
  <1> HIDE DEF new, Pad
  <1>5. Full(new) /\ \A b \in 1 .. Len(new) : Len(new[b]) <= mBatchSize
    BY <1>2 DEF Full
  <1>6. ASSUME NEW b \in 1 .. Len(new), NEW i \in 1 .. Len(new[b])
        PROVE  new[b][i] = Pad \/ (new[b][i] \in G /\ b <= new[b][i])
    BY <1>a, <1>2, <1>3
  <1>7. ASSUME NEW h \in G
        PROVE  \E b \in 1 .. Len(new) : \E i \in 1 .. Len(new[b]) : new[b][i] = h
    <2>1. PICK b \in 1 .. Len(layer) : \E i \in 1 .. Len(layer[b]) : layer[b][i] = h
      BY <1>b
    <2>2. PICK i \in 1 .. Len(layer[b]) : layer[b][i] = h
      BY <2>1
    <2>3. b \in 1 .. Len(new) /\ i \in 1 .. Len(new[b]) /\ new[b][i] = h
      BY <2>2, <1>2, <1>4
    <2> QED
      BY <2>3
  <1>8. ASSUME NEW b \in 1 .. Len(new), NEW c \in 1 .. Len(new),
               NEW i \in 1 .. Len(new[b]), NEW j \in 1 .. Len(new[c]),
               new[b][i] = new[c][j], new[b][i] # Pad
        PROVE  b = c /\ i = j
    <2>1. /\ b \in 1 .. Len(layer) /\ i \in 1 .. Len(layer[b]) /\ new[b][i] = layer[b][i]
          /\ c \in 1 .. Len(layer) /\ j \in 1 .. Len(layer[c]) /\ new[c][j] = layer[c][j]
      BY <1>2, <1>3, <1>8
    <2>2. layer[b][i] = layer[c][j] /\ layer[b][i] # Pad
      BY <2>1, <1>8
    <2> QED
      BY ONLY <2>1, <2>2, <1>c
  <1>9. Filled(new, G)
    <2>1. /\ new \in Seq(Seq(Nat)) /\ Len(new) > 0
          /\ \A b \in 1 .. Len(new) : Len(new[b]) <= mBatchSize /\ (b < Len(new) => Len(new[b]) = mBatchSize)
      BY <1>1, <1>2
    <2>2. \A b \in 1 .. Len(new) : \A i \in 1 .. Len(new[b]) :
             new[b][i] = Pad \/ (new[b][i] \in G /\ b <= new[b][i])
      BY <1>6
    <2>3. \A h \in G : \E b \in 1 .. Len(new) : \E i \in 1 .. Len(new[b]) : new[b][i] = h
      BY <1>7
    <2>4. \A b, c \in 1 .. Len(new) : \A i \in 1 .. Len(new[b]) : \A j \in 1 .. Len(new[c]) :
             new[b][i] = new[c][j] /\ new[b][i] # Pad => b = c /\ i = j
      BY <1>8
    <2> QED
      BY ONLY <2>1, <2>2, <2>3, <2>4, Zenon DEF Filled
  <1> QED
    BY <1>5, <1>9 DEF new

LEMMA Products ==
    ASSUME NEW q \in Nat, q > 0
    PROVE  /\ (q - 1) * mBatchSize \in Nat /\ q * mBatchSize \in Nat
           /\ q * mBatchSize = (q - 1) * mBatchSize + mBatchSize
           /\ ((q + 1) - 1) * mBatchSize = q * mBatchSize
  OBVIOUS

LEMMA AppendInOrder ==
    ASSUME NEW layer \in Seq(Seq(Nat)), Len(layer) > 0, NEW g \in Nat, NEW s,
           \A b \in 1 .. Len(layer) : /\ Len(layer[b]) <= mBatchSize
                                      /\ b < Len(layer) => Len(layer[b]) = mBatchSize,
           InOrder(layer, s), NoPadding(layer, s)
    PROVE  InOrder(LayerAppend(layer, g), Append(s, g)) /\ NoPadding(LayerAppend(layer, g), Append(s, g))
  <1> DEFINE new == LayerAppend(layer, g)
             B == NewBatch(layer)
             J == NewPlace(layer)
             t == Append(s, g)
  <1>1. /\ new \in Seq(Seq(Nat)) /\ Len(new) = B
        /\ Len(new[B]) = J /\ J \in 1 .. mBatchSize /\ B \in Nat /\ new[B][J] = g
    BY AppendSlots
  <1>2. \A b \in 1 .. Len(layer) : \A i \in 1 .. Len(layer[b]) :
           /\ b \in 1 .. B /\ i \in 1 .. Len(new[b]) /\ new[b][i] = layer[b][i]
           /\ b # B \/ i # J
    BY AppendSlots
  <1>3. /\ t \in Seq(Nat) /\ Len(s) \in Nat /\ Len(t) = Len(s) + 1
        /\ \A i \in 1 .. Len(s) : t[i] = s[i]
        /\ t[Len(s) + 1] = g
    BY SequenceFacts DEF InOrder
  <1>4. B > 0 /\ Len(s) = (B - 1) * mBatchSize + (J - 1)
    <2>1. Len(layer) \in Nat /\ layer[Len(layer)] \in Seq(Nat) /\ Len(layer[Len(layer)]) \in Nat
          /\ Len(layer[Len(layer)]) <= mBatchSize
      OBVIOUS
    <2>2. Len(s) = (Len(layer) - 1) * mBatchSize + Len(layer[Len(layer)])
      BY DEF NoPadding
    <2>3. CASE Len(layer[Len(layer)]) < mBatchSize
      <3>1. B = Len(layer) /\ J = Len(layer[Len(layer)]) + 1
        BY <2>1, <2>3 DEF NewBatch, NewPlace
      <3> HIDE DEF B, J
      <3> QED
        BY <3>1, <2>1, <2>2
    <2>4. CASE ~(Len(layer[Len(layer)]) < mBatchSize)
      <3>1. B = Len(layer) + 1 /\ J = 1 /\ Len(layer[Len(layer)]) = mBatchSize
        BY <2>1, <2>4 DEF NewBatch, NewPlace
      <3> QED
        BY <3>1, <2>1, <2>2, Products
    <2> QED
      BY <2>3, <2>4
  <1> HIDE DEF new, B, J, t
  <1>5. (B - 1) * mBatchSize \in Nat /\ B * mBatchSize = (B - 1) * mBatchSize + mBatchSize
    BY <1>1, <1>4, Products
  <1>6. Batch(Len(s) + 1) = B /\ Place(Len(s) + 1) = J
    <2>1. B - 1 \in Nat /\ J - 1 \in 0 .. mBatchSize - 1 /\ Len(s) + 1 \in Nat
          /\ Len(s) + 1 = (B - 1) * mBatchSize + (J - 1) + 1
      BY <1>1, <1>3, <1>4, <1>5
    <2>2. Batch(Len(s) + 1) = (B - 1) + 1 /\ Place(Len(s) + 1) = (J - 1) + 1
      BY ONLY <2>1, BatchPlace
    <2> QED
      BY <2>2, <1>1
  <1>7. NoPadding(new, t)
    <2>1. Len(t) = (Len(new) - 1) * mBatchSize + Len(new[Len(new)])
      BY <1>1, <1>3, <1>4, <1>5
    <2> QED
      BY ONLY <2>1 DEF NoPadding
  <1>8. /\ (Len(new) - 1) * mBatchSize <= Len(t) /\ Len(t) <= Len(new) * mBatchSize
        /\ Len(new) > 1 => Len(t) > (Len(new) - 1) * mBatchSize
    BY <1>1, <1>3, <1>4, <1>5
  <1>9. ASSUME NEW i \in 1 .. Len(t)
        PROVE  /\ Batch(i) \in 1 .. Len(new)
               /\ Place(i) \in 1 .. Len(new[Batch(i)])
               /\ new[Batch(i)][Place(i)] = t[i]
    <2>1. CASE i \in 1 .. Len(s)
      <3>1. /\ Batch(i) \in 1 .. Len(layer) /\ Place(i) \in 1 .. Len(layer[Batch(i)])
            /\ layer[Batch(i)][Place(i)] = s[i]
        BY <2>1 DEF InOrder
      <3> QED
        BY <3>1, <2>1, <1>1, <1>2, <1>3
    <2>2. CASE i = Len(s) + 1
      BY <2>2, <1>1, <1>3, <1>4, <1>6
    <2> QED
      BY <2>1, <2>2, <1>3
  <1>10. InOrder(new, t)
    BY ONLY <1>3, <1>8, <1>9 DEF InOrder
  <1> QED
    BY <1>7, <1>10 DEF new, t

LEMMA CloseInOrder ==
    ASSUME NEW layer \in Seq(Seq(Nat)), Len(layer) > 0, NEW s,
           \A b \in 1 .. Len(layer) : /\ Len(layer[b]) <= mBatchSize
                                      /\ b < Len(layer) => Len(layer[b]) = mBatchSize,
           InOrder(layer, s)
    PROVE  InOrder(LayerClose(layer), s)
  <1> DEFINE new == LayerClose(layer)
  <1>1. Len(new) = Len(layer)
    BY CloseSlots
  <1>2. \A b \in 1 .. Len(layer) : \A i \in 1 .. Len(layer[b]) :
           i \in 1 .. Len(new[b]) /\ new[b][i] = layer[b][i]
    BY CloseSlots
  <1> HIDE DEF new
  <1>3. ASSUME NEW i \in 1 .. Len(s)
        PROVE  /\ Batch(i) \in 1 .. Len(new)
               /\ Place(i) \in 1 .. Len(new[Batch(i)])
               /\ new[Batch(i)][Place(i)] = s[i]
    <2>1. /\ Batch(i) \in 1 .. Len(layer) /\ Place(i) \in 1 .. Len(layer[Batch(i)])
          /\ layer[Batch(i)][Place(i)] = s[i]
      BY DEF InOrder
    <2> QED
      BY <2>1, <1>1, <1>2
  <1>4. /\ s \in Seq(Nat)
        /\ (Len(new) - 1) * mBatchSize <= Len(s) /\ Len(s) <= Len(new) * mBatchSize
        /\ Len(new) > 1 => Len(s) > (Len(new) - 1) * mBatchSize
    BY <1>1 DEF InOrder
  <1>5. InOrder(new, s)
    BY ONLY <1>3, <1>4 DEF InOrder
  <1> QED
    BY <1>5 DEF new

LEMMA EmptyFacts ==
    ASSUME NEW n \in Nat
    PROVE  /\ EmptyLayer \in Seq(Seq(Nat))
           /\ Filled(EmptyLayer, {}) /\ Growing(EmptyLayer, n)
           /\ InOrder(EmptyLayer, <<>>) /\ NoPadding(EmptyLayer, <<>>)
  <1>1. /\ EmptyLayer \in Seq(Seq(Nat)) /\ Len(EmptyLayer) = 1 /\ EmptyLayer[1] = <<>>
        /\ Len(EmptyLayer[1]) = 0
    BY DEF EmptyLayer
  <1>2. Filled(EmptyLayer, {})
    BY <1>1 DEF Filled
  <1>3. Growing(EmptyLayer, n)
    BY <1>1 DEF Growing
  <1>4. <<>> \in Seq(Nat) /\ Len(<<>>) = 0
    OBVIOUS
  <1>5. NoPadding(EmptyLayer, <<>>)
    BY <1>1, <1>4 DEF NoPadding
  <1>6. InOrder(EmptyLayer, <<>>)
    BY <1>1, <1>4 DEF InOrder
  <1> QED
    BY <1>1, <1>2, <1>3, <1>5, <1>6

-----------------------------------------------------------------------------
(* A new gate, and the layers it does not go into *)

LEMMA GatesFacts ==
    ASSUME GatesInv
    PROVE  Len(gates) \in Nat /\ DOMAIN gates = 1 .. Len(gates)
  BY DEF GatesInv

\* Gate n, of kind k and owner o, is made.
Made(n, k, o) ==
    /\ n \in Nat /\ n # Pad /\ Len(gates) \in Nat /\ n = Len(gates) + 1 /\ Len(gates)' = n
    /\ n \notin DOMAIN gates
    /\ \A kind : OfKind(kind)' = OfKind(kind) \cup IF kind = k THEN {n} ELSE {}
    /\ \A kind, c : GatesOf(kind, c)' = GatesOf(kind, c) \cup IF kind = k /\ c = o THEN {n} ELSE {}

LEMMA NewGateMade ==
    ASSUME GatesInv, NEW k \in {"input", "add", "mult", "output"}, NEW o, NEW left, NEW right,
           k \in {"input", "output"} => o \in Clients, NewGate(k, o, left, right)
    PROVE  GatesInv' /\ \E n \in Nat : n = NewId /\ Made(n, k, o)
  <1> DEFINE e == [kind |-> k, owner |-> o, left |-> left, right |-> right]
  <1>1. gates' = Append(gates, e) /\ e.kind = k /\ e.owner = o
    BY DEF NewGate
  <1>2. /\ gates \in Seq(ToSet(gates))
        /\ Len(gates) \in Nat /\ DOMAIN gates = 1 .. Len(gates)
    BY GatesFacts DEF GatesInv
  <1> HIDE DEF e
  <1>3. /\ gates' \in Seq(ToSet(gates'))
        /\ Len(gates') = Len(gates) + 1
        /\ \A i \in 1 .. Len(gates) : gates'[i] = gates[i]
        /\ gates'[Len(gates) + 1] = e
    BY <1>1, <1>2, AppendSet
  <1>4. PICK n \in Nat : n = Len(gates) + 1
    BY <1>2
  <1>5. DOMAIN gates' = 1 .. n /\ DOMAIN gates = 1 .. n - 1 /\ n \notin DOMAIN gates /\ n # Pad
    BY <1>2, <1>3, <1>4
  <1>6. /\ \A g \in 1 .. n : g \in DOMAIN gates \/ g = n
        /\ \A g \in DOMAIN gates : g \in 1 .. n /\ g # n /\ gates'[g] = gates[g]
        /\ n \in 1 .. n /\ gates'[n] = e
    BY <1>2, <1>3, <1>4, <1>5
  <1>7. ASSUME NEW kind PROVE OfKind(kind)' = OfKind(kind) \cup IF kind = k THEN {n} ELSE {}
    BY ONLY <1>1, <1>5, <1>6 DEF OfKind
  <1>8. ASSUME NEW kind, NEW c
        PROVE  GatesOf(kind, c)' = GatesOf(kind, c) \cup IF kind = k /\ c = o THEN {n} ELSE {}
    <2>1. OfKind(kind) \subseteq DOMAIN gates
      BY DEF OfKind
    <2> QED
      BY ONLY <2>1, <1>1, <1>5, <1>6, <1>7 DEF GatesOf
  <1>9. Made(n, k, o)
    BY <1>2, <1>3, <1>4, <1>5, <1>7, <1>8 DEF Made
  <1>10. GatesInv'
    <2>1. \A g \in DOMAIN gates' : gates'[g].kind \in {"input", "add", "mult", "output"}
      BY <1>1, <1>5, <1>6 DEF GatesInv
    <2>2. \A g \in OfKind("input")' \cup OfKind("output")' : gates'[g].owner \in Clients
      <3>1. ASSUME NEW g \in DOMAIN gates, g \in OfKind("input") \cup OfKind("output")
            PROVE  gates'[g].owner \in Clients
        BY <3>1, <1>6 DEF GatesInv
      <3>2. k \in {"input", "output"} => gates'[n].owner \in Clients
        BY <1>1, <1>6
      <3> QED
        BY <3>1, <3>2, <1>7 DEF OfKind
    <2> QED
      BY <2>1, <2>2, <1>3 DEF GatesInv
  <1> QED
    BY <1>9, <1>10, <1>4 DEF NewId

LEMMA StillGrowing ==
    ASSUME NEW layer, NEW G, Filled(layer, G), NEW n \in Nat, Growing(layer, n)
    PROVE  Growing(layer, n + 1)
  BY DEF Growing, Filled

LEMMA OtherInputs ==
    ASSUME InputInv, NEW n, NEW k, NEW o, Made(n, k, o), k # "input", UNCHANGED <<inputLayers, inputsClosed>>
    PROVE  InputInv'
  <1>1. \A c : GatesOf("input", c)' = GatesOf("input", c)
    BY DEF Made
  <1>2. Len(gates) \in Nat /\ Len(gates)' = Len(gates) + 1
    BY DEF Made
  <1> QED
    BY <1>1, <1>2, StillGrowing DEF InputInv

LEMMA OtherOutputs ==
    ASSUME OutputInv, NEW n, NEW k, NEW o, Made(n, k, o), k # "output", UNCHANGED <<outputLayers, isClosed>>
    PROVE  OutputInv'
  <1>1. \A c : GatesOf("output", c)' = GatesOf("output", c)
    BY DEF Made
  <1>2. Len(gates) \in Nat /\ Len(gates)' = Len(gates) + 1
    BY DEF Made
  <1> QED
    BY <1>1, <1>2, StillGrowing DEF OutputInv

LEMMA OtherMults ==
    ASSUME MultInv, LayersInv, NEW n, NEW k, NEW o, Made(n, k, o), k # "mult",
           UNCHANGED <<multLayers, flatMultLayers, lastClosed>>
    PROVE  MultInv' /\ LayersInv'
  <1>1. OfKind("mult")' = OfKind("mult")
    BY DEF Made
  <1>2. Len(gates) \in Nat /\ Len(gates)' = Len(gates) + 1
    BY DEF Made
  <1>3. LayersInv'
    BY <1>1 DEF LayersInv, GetDepth
  <1>4. ~lastClosed => Growing(multLayers[GetDepth], Len(gates) + 1)
    <2>1. GetDepth \in 1 .. GetDepth /\ Filled(multLayers[GetDepth], ToSet(flatMultLayers[GetDepth]))
      BY DEF MultInv, GetDepth
    <2> QED
      BY <2>1, <1>2, StillGrowing DEF MultInv
  <1>5. MultInv'
    BY <1>2, <1>4 DEF MultInv, GetDepth
  <1> QED
    BY <1>3, <1>5

\* The layers when no gate is made.
LEMMA SameGates ==
    ASSUME UNCHANGED gates
    PROVE  /\ \A kind : OfKind(kind)' = OfKind(kind)
           /\ \A kind, c : GatesOf(kind, c)' = GatesOf(kind, c)
           /\ GatesInv => GatesInv'
           /\ InputInv /\ UNCHANGED <<inputLayers, inputsClosed>> => InputInv'
           /\ OutputInv /\ UNCHANGED <<outputLayers, isClosed>> => OutputInv'
           /\ MultInv /\ LayersInv /\ UNCHANGED <<multLayers, flatMultLayers, lastClosed>> => MultInv' /\ LayersInv'
  <1>1. /\ \A kind : OfKind(kind)' = OfKind(kind)
        /\ \A kind, c : GatesOf(kind, c)' = GatesOf(kind, c)
    BY DEF OfKind, GatesOf
  <1>2. GatesInv => GatesInv'
    BY <1>1 DEF GatesInv
  <1>3. InputInv /\ UNCHANGED <<inputLayers, inputsClosed>> => InputInv'
    BY <1>1 DEF InputInv
  <1>4. OutputInv /\ UNCHANGED <<outputLayers, isClosed>> => OutputInv'
    BY <1>1 DEF OutputInv
  <1>5. MultInv /\ UNCHANGED <<multLayers, flatMultLayers, lastClosed>> => MultInv'
    BY DEF MultInv, GetDepth
  <1>6. LayersInv /\ UNCHANGED <<multLayers, flatMultLayers, lastClosed>> => LayersInv'
    BY <1>1 DEF LayersInv, GetDepth
  <1> QED
    BY <1>1, <1>2, <1>3, <1>4, <1>5, <1>6

-----------------------------------------------------------------------------
(* The calls *)

LEMMA InputInd ==
    ASSUME IndInv, NEW o \in Clients, Input(o)
    PROVE  IndInv'
  <1>1. /\ ~inputsClosed /\ NewGate("input", o, Pad, Pad)
        /\ inputLayers' = [inputLayers EXCEPT ![o] = LayerAppend(inputLayers[o], NewId)]
        /\ UNCHANGED <<outputLayers, multLayers, flatMultLayers, inputsClosed, lastClosed, isClosed, isNetworkSet>>
    BY DEF Input, MayInput, IndInv, InputInv
  <1>2. GatesInv' /\ \E n \in Nat : n = NewId /\ Made(n, "input", o)
    BY <1>1, NewGateMade DEF IndInv
  <1>3. PICK n \in Nat : n = NewId /\ Made(n, "input", o)
    BY <1>2
  <1>4. OutputInv' /\ MultInv' /\ LayersInv'
    BY <1>1, <1>3, OtherOutputs, OtherMults DEF IndInv
  <1>5. OrderInv'
    BY <1>1 DEF IndInv, OrderInv
  <1>6. /\ DOMAIN inputLayers = Clients /\ DOMAIN inputLayers' = Clients
        /\ inputLayers'[o] = LayerAppend(inputLayers[o], n)
        /\ \A c \in Clients : c # o => inputLayers'[c] = inputLayers[c]
    BY <1>1, <1>3 DEF IndInv, InputInv
  <1>7. /\ GatesOf("input", o)' = GatesOf("input", o) \cup {n}
        /\ \A c \in Clients : c # o => GatesOf("input", c)' = GatesOf("input", c)
        /\ Len(gates)' = n /\ Len(gates) = n - 1 /\ n # Pad /\ n \notin DOMAIN gates
    <2>1. Len(gates)' = n /\ Len(gates) = n - 1 /\ n # Pad /\ n \notin DOMAIN gates
      BY <1>3 DEF Made
    <2>2. \A kind, c : GatesOf(kind, c)' = GatesOf(kind, c) \cup IF kind = "input" /\ c = o THEN {n} ELSE {}
      BY <1>3 DEF Made
    <2>3. GatesOf("input", o)' = GatesOf("input", o) \cup {n}
      BY <2>2, Zenon
    <2>4. ASSUME NEW c \in Clients, c # o PROVE GatesOf("input", c)' = GatesOf("input", c)
      BY <2>2, <2>4
    <2> QED
      BY <2>1, <2>3, <2>4
  <1>8. \A c \in Clients : Filled(inputLayers[c], GatesOf("input", c)) /\ Growing(inputLayers[c], n - 1)
    BY <1>1, <1>7 DEF IndInv, InputInv
  <1>9. Filled(inputLayers'[o], GatesOf("input", o)') /\ Growing(inputLayers'[o], n)
    <2>1. n \notin GatesOf("input", o)
      BY <1>7 DEF GatesOf, OfKind
    <2> QED
      BY <2>1, <1>6, <1>7, <1>8, AppendFilled
  <1>10. ASSUME NEW c \in Clients, c # o
         PROVE  Filled(inputLayers'[c], GatesOf("input", c)') /\ Growing(inputLayers'[c], n)
    <2>1. n - 1 \in Nat /\ (n - 1) + 1 = n
      BY <1>3 DEF Made
    <2> QED
      BY <2>1, <1>6, <1>7, <1>8, <1>10, StillGrowing
  <1>11. InputInv'
    BY <1>1, <1>6, <1>7, <1>9, <1>10 DEF InputInv
  <1> QED
    BY <1>2, <1>4, <1>5, <1>11 DEF IndInv

LEMMA OutputInd ==
    ASSUME IndInv, NEW o \in Clients, NEW gate, Output(o, gate)
    PROVE  IndInv'
  <1>1. /\ ~isClosed /\ NewGate("output", o, gate, Pad)
        /\ outputLayers' = [outputLayers EXCEPT ![o] = LayerAppend(outputLayers[o], NewId)]
        /\ UNCHANGED <<inputLayers, multLayers, flatMultLayers, inputsClosed, lastClosed, isClosed, isNetworkSet>>
    BY DEF Output, MayOutput, IndInv, OutputInv
  <1>2. GatesInv' /\ \E n \in Nat : n = NewId /\ Made(n, "output", o)
    BY <1>1, NewGateMade DEF IndInv
  <1>3. PICK n \in Nat : n = NewId /\ Made(n, "output", o)
    BY <1>2
  <1>4. InputInv' /\ MultInv' /\ LayersInv'
    BY <1>1, <1>3, OtherInputs, OtherMults DEF IndInv
  <1>5. OrderInv'
    BY <1>1 DEF IndInv, OrderInv
  <1>6. /\ DOMAIN outputLayers = Clients /\ DOMAIN outputLayers' = Clients
        /\ outputLayers'[o] = LayerAppend(outputLayers[o], n)
        /\ \A c \in Clients : c # o => outputLayers'[c] = outputLayers[c]
    BY <1>1, <1>3 DEF IndInv, OutputInv
  <1>7. /\ GatesOf("output", o)' = GatesOf("output", o) \cup {n}
        /\ \A c \in Clients : c # o => GatesOf("output", c)' = GatesOf("output", c)
        /\ Len(gates)' = n /\ Len(gates) = n - 1 /\ n # Pad /\ n \notin DOMAIN gates
    <2>1. Len(gates)' = n /\ Len(gates) = n - 1 /\ n # Pad /\ n \notin DOMAIN gates
      BY <1>3 DEF Made
    <2>2. \A kind, c : GatesOf(kind, c)' = GatesOf(kind, c) \cup IF kind = "output" /\ c = o THEN {n} ELSE {}
      BY <1>3 DEF Made
    <2>3. GatesOf("output", o)' = GatesOf("output", o) \cup {n}
      BY <2>2, Zenon
    <2>4. ASSUME NEW c \in Clients, c # o PROVE GatesOf("output", c)' = GatesOf("output", c)
      BY <2>2, <2>4
    <2> QED
      BY <2>1, <2>3, <2>4
  <1>8. \A c \in Clients : Filled(outputLayers[c], GatesOf("output", c)) /\ Growing(outputLayers[c], n - 1)
    BY <1>1, <1>7 DEF IndInv, OutputInv
  <1>9. Filled(outputLayers'[o], GatesOf("output", o)') /\ Growing(outputLayers'[o], n)
    <2>1. n \notin GatesOf("output", o)
      BY <1>7 DEF GatesOf, OfKind
    <2> QED
      BY <2>1, <1>6, <1>7, <1>8, AppendFilled
  <1>10. ASSUME NEW c \in Clients, c # o
         PROVE  Filled(outputLayers'[c], GatesOf("output", c)') /\ Growing(outputLayers'[c], n)
    <2>1. n - 1 \in Nat /\ (n - 1) + 1 = n
      BY <1>3 DEF Made
    <2> QED
      BY <2>1, <1>6, <1>7, <1>8, <1>10, StillGrowing
  <1>11. OutputInv'
    BY <1>1, <1>6, <1>7, <1>9, <1>10 DEF OutputInv
  <1> QED
    BY <1>2, <1>4, <1>5, <1>11 DEF IndInv

LEMMA AddInd ==
    ASSUME IndInv, NEW left, NEW right, Add(left, right)
    PROVE  IndInv'
  <1>1. /\ NewGate("add", Pad, left, right)
        /\ UNCHANGED <<inputLayers, outputLayers, multLayers, flatMultLayers>>
        /\ UNCHANGED <<inputsClosed, lastClosed, isClosed, isNetworkSet>>
    BY DEF Add, layout
  <1>2. GatesInv' /\ \E n \in Nat : n = NewId /\ Made(n, "add", Pad)
    BY <1>1, NewGateMade DEF IndInv
  <1>3. PICK n \in Nat : n = NewId /\ Made(n, "add", Pad)
    BY <1>2
  <1>4. InputInv' /\ OutputInv' /\ MultInv' /\ LayersInv'
    BY <1>1, <1>3, OtherInputs, OtherOutputs, OtherMults DEF IndInv
  <1>5. OrderInv'
    BY <1>1 DEF IndInv, OrderInv
  <1> QED
    BY <1>2, <1>4, <1>5 DEF IndInv

\* The gates of a layer, its last one replaced.
LEMMA MultInd ==
    ASSUME IndInv, Mult
    PROVE  IndInv'
  <1>0. PICK d \in Nat : d = GetDepth
    BY DEF IndInv, MultInv, GetDepth
  <1>1. /\ ~lastClosed /\ NewGate("mult", Pad, Pad, Pad) /\ d > 0 /\ d = Len(multLayers)
        /\ Len(flatMultLayers) = d
        /\ multLayers' = [multLayers EXCEPT ![d] = LayerAppend(multLayers[d], NewId)]
        /\ flatMultLayers' = [flatMultLayers EXCEPT ![d] = Append(flatMultLayers[d], NewId)]
        /\ UNCHANGED <<inputLayers, outputLayers, inputsClosed, lastClosed, isClosed, isNetworkSet>>
    BY <1>0 DEF Mult, MayMult, IndInv, MultInv, GetDepth
  <1>2. GatesInv' /\ \E n \in Nat : n = NewId /\ Made(n, "mult", Pad)
    BY <1>1, NewGateMade DEF IndInv
  <1>3. PICK n \in Nat : n = NewId /\ Made(n, "mult", Pad)
    BY <1>2
  <1>4. InputInv' /\ OutputInv'
    BY <1>1, <1>3, OtherInputs, OtherOutputs DEF IndInv
  <1>5. OrderInv'
    BY <1>1 DEF IndInv, OrderInv
  <1> DEFINE layer == multLayers[d]
             s == flatMultLayers[d]
             new == LayerAppend(layer, n)
             t == Append(s, n)
  <1>6. /\ multLayers \in Seq(Seq(Seq(Nat))) /\ flatMultLayers \in Seq(Seq(Nat)) /\ d \in 1 .. d
        /\ layer \in Seq(Seq(Nat)) /\ s \in Seq(Nat)
        /\ Filled(layer, ToSet(s)) /\ InOrder(layer, s) /\ NoPadding(layer, s) /\ Growing(layer, Len(gates))
    BY <1>0, <1>1 DEF IndInv, MultInv
  <1>7. /\ OfKind("mult")' = OfKind("mult") \cup {n}
        /\ Len(gates)' = n /\ Len(gates) = n - 1 /\ n # Pad /\ n \notin DOMAIN gates
    BY <1>3 DEF Made
  <1>8. \A l \in 1 .. d : ToSet(flatMultLayers[l]) \subseteq OfKind("mult")
    BY <1>0 DEF IndInv, LayersInv
  <1>9. \A l \in 1 .. d : n \notin ToSet(flatMultLayers[l])
    BY <1>7, <1>8 DEF OfKind
  <1>10. Filled(new, ToSet(t)) /\ Growing(new, n) /\ ToSet(t) = ToSet(s) \cup {n} /\ t \in Seq(Nat)
    <2>1. ToSet(t) = ToSet(s) \cup {n} /\ t \in Seq(Nat)
      BY <1>6, AppendSet, SequenceFacts
    <2>2. Filled(new, ToSet(s) \cup {n}) /\ Growing(new, n)
      BY <1>6, <1>7, <1>9, AppendFilled
    <2> QED
      BY <2>1, <2>2
  <1>11. InOrder(new, t) /\ NoPadding(new, t) /\ new \in Seq(Seq(Nat))
    <2>1. /\ Len(layer) > 0
          /\ \A b \in 1 .. Len(layer) : /\ Len(layer[b]) <= mBatchSize
                                        /\ b < Len(layer) => Len(layer[b]) = mBatchSize
      BY <1>6 DEF Filled
    <2>2. new \in Seq(Seq(Nat))
      BY <1>10 DEF Filled
    <2> QED
      BY <2>1, <2>2, <1>6, AppendInOrder
  <1>12. /\ multLayers' \in Seq(Seq(Seq(Nat))) /\ Len(multLayers') = d /\ multLayers'[d] = new
         /\ \A l \in 1 .. d : l # d => multLayers'[l] = multLayers[l]
    <2> HIDE DEF new
    <2>1. multLayers' = [multLayers EXCEPT ![d] = new]
      BY <1>1, <1>3 DEF new
    <2> QED
      BY <2>1, <1>1, <1>6, <1>11, ReplaceFacts
  <1>13. /\ flatMultLayers' \in Seq(Seq(Nat)) /\ Len(flatMultLayers') = d /\ flatMultLayers'[d] = t
         /\ \A l \in 1 .. d : l # d => flatMultLayers'[l] = flatMultLayers[l]
    <2> HIDE DEF t
    <2>1. flatMultLayers' = [flatMultLayers EXCEPT ![d] = t]
      BY <1>1, <1>3 DEF t
    <2> QED
      BY <2>1, <1>1, <1>6, <1>10, ReplaceFacts
  <1> HIDE DEF new, t, layer, s
  <1>14. ASSUME NEW l \in 1 .. d
         PROVE  /\ Filled(multLayers'[l], ToSet(flatMultLayers'[l]))
                /\ InOrder(multLayers'[l], flatMultLayers'[l])
                /\ l < d => Full(multLayers'[l])
    <2>1. CASE l = d
      <3>1. multLayers'[l] = new /\ flatMultLayers'[l] = t /\ ~(l < d)
        BY <2>1, <1>12, <1>13
      <3> QED
        BY <3>1, <1>10, <1>11
    <2>2. CASE l # d
      BY <2>2, <1>0, <1>12, <1>13 DEF IndInv, MultInv
    <2> QED
      BY <2>1, <2>2
  <1>15. MultInv'
    BY <1>1, <1>7, <1>10, <1>11, <1>12, <1>13, <1>14 DEF MultInv, GetDepth
  <1>16. LayersInv'
    <2>1. \A l \in 1 .. d : ToSet(flatMultLayers'[l]) \subseteq OfKind("mult")'
      BY <1>6, <1>7, <1>8, <1>10, <1>13 DEF s
    <2>2. ASSUME NEW g \in OfKind("mult")'
          PROVE  \E l \in 1 .. d : g \in ToSet(flatMultLayers'[l])
      <3>1. CASE g = n
        BY <3>1, <1>6, <1>10, <1>13
      <3>2. CASE g \in OfKind("mult")
        <4>1. PICK l \in 1 .. d : g \in ToSet(flatMultLayers[l])
          BY <3>2, <1>0 DEF IndInv, LayersInv
        <4>2. g \in ToSet(flatMultLayers'[l])
          BY <4>1, <1>10, <1>13 DEF s
        <4> QED
          BY <4>2
      <3> QED
        BY <3>1, <3>2, <1>7
    <2>3. ASSUME NEW l \in 1 .. d, NEW m \in 1 .. d, NEW g \in ToSet(flatMultLayers'[l]),
                 g \in ToSet(flatMultLayers'[m])
          PROVE  l = m
      <3>1. ASSUME NEW j \in 1 .. d, g \in ToSet(flatMultLayers'[j])
            PROVE  (j = d /\ g = n) \/ g \in ToSet(flatMultLayers[j])
        BY <3>1, <1>10, <1>13 DEF s
      <3>2. CASE g = n
        BY <3>1, <3>2, <2>3, <1>9
      <3>3. CASE g # n
        BY <3>1, <3>3, <2>3, <1>0 DEF IndInv, LayersInv
      <3> QED
        BY <3>2, <3>3
    <2> QED
      BY <2>1, <2>2, <2>3, <1>12 DEF LayersInv, GetDepth
  <1> QED
    BY <1>2, <1>4, <1>5, <1>15, <1>16 DEF IndInv

\* The last layer is closed: padded, with the gates it had.
LEMMA LastClosed ==
    ASSUME IndInv, NEW d \in Nat, d = GetDepth, ~lastClosed
    PROVE  /\ d > 0 /\ d \in 1 .. d /\ d = Len(multLayers) /\ Len(flatMultLayers) = d
           /\ ClosedLast \in Seq(Seq(Seq(Nat))) /\ Len(ClosedLast) = d
           /\ \A l \in 1 .. d : /\ Filled(ClosedLast[l], ToSet(flatMultLayers[l]))
                                /\ InOrder(ClosedLast[l], flatMultLayers[l])
                                /\ Full(ClosedLast[l])
  <1> DEFINE layer == multLayers[d]
             s == flatMultLayers[d]
             new == LayerClose(layer)
  <1>1. /\ d > 0 /\ d \in 1 .. d /\ d = Len(multLayers) /\ Len(flatMultLayers) = d
        /\ multLayers \in Seq(Seq(Seq(Nat))) /\ layer \in Seq(Seq(Nat))
        /\ \A l \in 1 .. d : /\ Filled(multLayers[l], ToSet(flatMultLayers[l]))
                             /\ InOrder(multLayers[l], flatMultLayers[l])
                             /\ l < d => Full(multLayers[l])
    BY DEF IndInv, MultInv, GetDepth
  <1>2. Pad \notin ToSet(s)
    <2>1. ToSet(s) \subseteq OfKind("mult")
      BY <1>1 DEF IndInv, LayersInv
    <2>2. DOMAIN gates = 1 .. Len(gates)
      BY GatesFacts DEF IndInv
    <2> QED
      BY <2>1, <2>2 DEF OfKind
  <1>3. Filled(new, ToSet(s)) /\ Full(new)
    BY <1>1, <1>2, CloseFilled
  <1>4. InOrder(new, s)
    <2>1. /\ Len(layer) > 0
          /\ \A b \in 1 .. Len(layer) : /\ Len(layer[b]) <= mBatchSize
                                        /\ b < Len(layer) => Len(layer[b]) = mBatchSize
      BY <1>1 DEF Filled
    <2>2. InOrder(layer, s)
      BY <1>1
    <2> QED
      BY <2>1, <2>2, <1>1, CloseInOrder
  <1>5. new \in Seq(Seq(Nat))
    BY <1>3 DEF Filled
  <1>6. ClosedLast = [multLayers EXCEPT ![d] = new]
    BY <1>1 DEF ClosedLast
  <1> HIDE DEF new
  <1>7. /\ ClosedLast \in Seq(Seq(Seq(Nat))) /\ Len(ClosedLast) = d /\ ClosedLast[d] = new
        /\ \A l \in 1 .. d : l # d => ClosedLast[l] = multLayers[l]
    BY <1>1, <1>5, <1>6, ReplaceFacts
  <1>8. ASSUME NEW l \in 1 .. d
        PROVE  /\ Filled(ClosedLast[l], ToSet(flatMultLayers[l]))
               /\ InOrder(ClosedLast[l], flatMultLayers[l])
               /\ Full(ClosedLast[l])
    <2>1. CASE l = d
      BY <2>1, <1>3, <1>4, <1>7
    <2>2. CASE l # d
      <3>1. l < d
        BY <2>2
      <3> QED
        BY <3>1, <2>2, <1>1, <1>7
    <2> QED
      BY <2>1, <2>2
  <1> QED
    BY <1>1, <1>7, <1>8

LEMMA NewLayerInd ==
    ASSUME IndInv, NewLayer
    PROVE  IndInv'
  <1>0. PICK d \in Nat : d = GetDepth
    BY DEF IndInv, MultInv, GetDepth
  <1>1. /\ ~lastClosed
        /\ flatMultLayers' = Append(flatMultLayers, <<>>)
        /\ multLayers' = Append(ClosedLast, EmptyLayer)
        /\ UNCHANGED <<gates, inputLayers, outputLayers, inputsClosed, lastClosed, isClosed, isNetworkSet>>
    BY DEF NewLayer, MayMult
  <1>2. GatesInv' /\ InputInv' /\ OutputInv' /\ OfKind("mult")' = OfKind("mult")
    BY <1>1, SameGates DEF IndInv
  <1>3. OrderInv'
    BY <1>1 DEF IndInv, OrderInv
  <1>4. /\ d > 0 /\ d \in 1 .. d /\ d = Len(multLayers) /\ Len(flatMultLayers) = d
        /\ ClosedLast \in Seq(Seq(Seq(Nat))) /\ Len(ClosedLast) = d
        /\ \A l \in 1 .. d : /\ Filled(ClosedLast[l], ToSet(flatMultLayers[l]))
                             /\ InOrder(ClosedLast[l], flatMultLayers[l])
                             /\ Full(ClosedLast[l])
    BY <1>0, <1>1, LastClosed
  <1>5. Len(gates) \in Nat
    BY GatesFacts DEF IndInv
  <1>6. /\ EmptyLayer \in Seq(Seq(Nat)) /\ Filled(EmptyLayer, {}) /\ Growing(EmptyLayer, Len(gates))
        /\ InOrder(EmptyLayer, <<>>) /\ NoPadding(EmptyLayer, <<>>)
    BY <1>5, EmptyFacts
  <1>7. /\ multLayers' \in Seq(Seq(Seq(Nat))) /\ Len(multLayers') = d + 1
        /\ \A l \in 1 .. d : multLayers'[l] = ClosedLast[l]
        /\ multLayers'[d + 1] = EmptyLayer
    BY <1>1, <1>4, <1>6, SequenceFacts
  <1>8. /\ flatMultLayers' \in Seq(Seq(Nat)) /\ Len(flatMultLayers') = d + 1
        /\ \A l \in 1 .. d : flatMultLayers'[l] = flatMultLayers[l]
        /\ flatMultLayers'[d + 1] = <<>>
    <2>1. flatMultLayers \in Seq(Seq(Nat)) /\ <<>> \in Seq(Nat)
      BY DEF IndInv, MultInv
    <2>2. flatMultLayers' = Append(flatMultLayers, <<>>) /\ Len(flatMultLayers) = d
      BY <1>1, <1>4
    <2> QED
      BY ONLY <2>1, <2>2, SequenceFacts
  <1>9. \A l \in 1 .. d + 1 : l \in 1 .. d \/ l = d + 1
    OBVIOUS
  <1>10. ToSet(<<>>) = {}
    BY DEF ToSet
  <1>11. ASSUME NEW l \in 1 .. d + 1
         PROVE  /\ Filled(multLayers'[l], ToSet(flatMultLayers'[l]))
                /\ InOrder(multLayers'[l], flatMultLayers'[l])
                /\ l < d + 1 => Full(multLayers'[l])
    <2>1. CASE l \in 1 .. d
      BY <2>1, <1>4, <1>7, <1>8
    <2>2. CASE l = d + 1
      <3>1. multLayers'[l] = EmptyLayer /\ flatMultLayers'[l] = <<>> /\ ~(l < d + 1)
        BY <2>2, <1>7, <1>8
      <3> QED
        BY <3>1, <1>6, <1>10
    <2> QED
      BY <2>1, <2>2, <1>9
  <1>12. MultInv'
    BY <1>1, <1>6, <1>7, <1>8, <1>11 DEF MultInv, GetDepth
  <1>13. LayersInv'
    <2>1. \A l \in 1 .. d + 1 : \A g \in ToSet(flatMultLayers'[l]) : l \in 1 .. d /\ g \in ToSet(flatMultLayers[l])
      BY <1>8, <1>9, <1>10
    <2>2. \A l \in 1 .. d + 1 : ToSet(flatMultLayers'[l]) \subseteq OfKind("mult")
      BY <2>1, <1>0 DEF IndInv, LayersInv
    <2>3. ASSUME NEW g \in OfKind("mult")
          PROVE  \E l \in 1 .. d + 1 : g \in ToSet(flatMultLayers'[l])
      <3>1. PICK l \in 1 .. d : g \in ToSet(flatMultLayers[l])
        BY <1>0 DEF IndInv, LayersInv
      <3>2. l \in 1 .. d + 1 /\ g \in ToSet(flatMultLayers'[l])
        BY <3>1, <1>8
      <3> QED
        BY <3>2
    <2>4. \A l, m \in 1 .. d + 1 : \A g \in ToSet(flatMultLayers'[l]) : g \in ToSet(flatMultLayers'[m]) => l = m
      BY <2>1, <1>0 DEF IndInv, LayersInv
    <2>5. GetDepth' = d + 1
      BY <1>7 DEF GetDepth
    <2> QED
      BY ONLY <2>2, <2>3, <2>4, <2>5, <1>2 DEF LayersInv
  <1> QED
    BY <1>2, <1>3, <1>12, <1>13 DEF IndInv

LEMMA LastLayerInd ==
    ASSUME IndInv, LastLayer
    PROVE  IndInv'
  <1>0. PICK d \in Nat : d = GetDepth
    BY DEF IndInv, MultInv, GetDepth
  <1>1. /\ ~lastClosed /\ lastClosed' /\ inputsClosed
        /\ flatMultLayers' = Append(flatMultLayers, <<>>)
        /\ multLayers' = ClosedLast
        /\ UNCHANGED <<gates, inputLayers, outputLayers, inputsClosed, isClosed, isNetworkSet>>
    BY DEF LastLayer, MayMult
  <1>2. GatesInv' /\ InputInv' /\ OutputInv' /\ OfKind("mult")' = OfKind("mult")
    BY <1>1, SameGates DEF IndInv
  <1>3. OrderInv'
    BY <1>1 DEF IndInv, OrderInv
  <1>4. /\ d > 0 /\ d \in 1 .. d /\ d = Len(multLayers) /\ Len(flatMultLayers) = d
        /\ ClosedLast \in Seq(Seq(Seq(Nat))) /\ Len(ClosedLast) = d
        /\ \A l \in 1 .. d : /\ Filled(ClosedLast[l], ToSet(flatMultLayers[l]))
                             /\ InOrder(ClosedLast[l], flatMultLayers[l])
                             /\ Full(ClosedLast[l])
    BY <1>0, <1>1, LastClosed
  <1>5. /\ flatMultLayers' \in Seq(Seq(Nat)) /\ Len(flatMultLayers') = d + 1
        /\ \A l \in 1 .. d : flatMultLayers'[l] = flatMultLayers[l]
        /\ flatMultLayers'[d + 1] = <<>>
    <2>1. flatMultLayers \in Seq(Seq(Nat)) /\ <<>> \in Seq(Nat)
      BY DEF IndInv, MultInv
    <2>2. flatMultLayers' = Append(flatMultLayers, <<>>) /\ Len(flatMultLayers) = d
      BY <1>1, <1>4
    <2> QED
      BY ONLY <2>1, <2>2, SequenceFacts
  <1>6. MultInv'
    BY <1>1, <1>4, <1>5 DEF MultInv, GetDepth
  <1>7. LayersInv'
    <2>1. GetDepth' = d /\ LayersInv
      BY <1>1, <1>4 DEF GetDepth, IndInv
    <2>2. /\ \A l \in 1 .. d : ToSet(flatMultLayers[l]) \subseteq OfKind("mult")
          /\ \A g \in OfKind("mult") : \E l \in 1 .. d : g \in ToSet(flatMultLayers[l])
          /\ \A l, m \in 1 .. d : \A g \in ToSet(flatMultLayers[l]) : g \in ToSet(flatMultLayers[m]) => l = m
      BY <2>1, <1>0 DEF LayersInv
    <2>3. /\ \A l \in 1 .. d : ToSet(flatMultLayers'[l]) \subseteq OfKind("mult")
          /\ \A l, m \in 1 .. d : \A g \in ToSet(flatMultLayers'[l]) : g \in ToSet(flatMultLayers'[m]) => l = m
      BY ONLY <2>2, <1>5
    <2>4. \A g \in OfKind("mult") : \E l \in 1 .. d : g \in ToSet(flatMultLayers'[l])
      BY ONLY <2>2, <1>5
    <2> QED
      BY ONLY <2>1, <2>3, <2>4, <1>2 DEF LayersInv
  <1> QED
    BY <1>2, <1>3, <1>6, <1>7 DEF IndInv

LEMMA CloseInputsInd ==
    ASSUME IndInv, CloseInputs
    PROVE  IndInv'
  <1>1. /\ inputLayers' = [c \in Clients |-> LayerClose(inputLayers[c])] /\ inputsClosed'
        /\ UNCHANGED <<gates, outputLayers, multLayers, flatMultLayers, lastClosed, isClosed, isNetworkSet>>
    BY DEF CloseInputs
  <1>2. /\ GatesInv' /\ OutputInv' /\ MultInv' /\ LayersInv'
        /\ \A kind, c : GatesOf(kind, c)' = GatesOf(kind, c)
    BY <1>1, SameGates DEF IndInv
  <1>3. OrderInv'
    BY <1>1 DEF IndInv, OrderInv
  <1>4. ASSUME NEW c \in Clients
        PROVE  Filled(inputLayers'[c], GatesOf("input", c)) /\ Full(inputLayers'[c])
    <2>1. Filled(inputLayers[c], GatesOf("input", c))
      BY DEF IndInv, InputInv
    <2>2. Pad \notin GatesOf("input", c)
      BY GatesFacts DEF IndInv, GatesOf, OfKind
    <2> QED
      BY <2>1, <2>2, <1>1, CloseFilled
  <1>5. InputInv'
    BY <1>1, <1>2, <1>4 DEF InputInv
  <1> QED
    BY <1>2, <1>3, <1>5 DEF IndInv

LEMMA CloseOutputsInd ==
    ASSUME IndInv, CloseOutputs
    PROVE  IndInv'
  <1>1. /\ outputLayers' = [c \in Clients |-> LayerClose(outputLayers[c])] /\ isClosed' /\ lastClosed
        /\ UNCHANGED <<gates, inputLayers, multLayers, flatMultLayers, inputsClosed, lastClosed, isNetworkSet>>
    BY DEF CloseOutputs, MayOutput
  <1>2. /\ GatesInv' /\ InputInv' /\ MultInv' /\ LayersInv'
        /\ \A kind, c : GatesOf(kind, c)' = GatesOf(kind, c)
    BY <1>1, SameGates DEF IndInv
  <1>3. OrderInv'
    BY <1>1 DEF IndInv, OrderInv
  <1>4. ASSUME NEW c \in Clients
        PROVE  Filled(outputLayers'[c], GatesOf("output", c)) /\ Full(outputLayers'[c])
    <2>1. Filled(outputLayers[c], GatesOf("output", c))
      BY DEF IndInv, OutputInv
    <2>2. Pad \notin GatesOf("output", c)
      BY GatesFacts DEF IndInv, GatesOf, OfKind
    <2> QED
      BY <2>1, <2>2, <1>1, CloseFilled
  <1>5. OutputInv'
    BY <1>1, <1>2, <1>4 DEF OutputInv
  <1> QED
    BY <1>2, <1>3, <1>5 DEF IndInv

LEMMA PrepareInd ==
    ASSUME IndInv, SetNetwork \/ GenCorrelator \/ FIPrepRecv \/ MapCorrToCircuit \/ UNCHANGED vars
    PROVE  IndInv'
  <1>1. /\ UNCHANGED gates
        /\ UNCHANGED <<inputLayers, outputLayers, multLayers, flatMultLayers, inputsClosed, lastClosed, isClosed>>
        /\ isNetworkSet' = isNetworkSet \/ isClosed
    BY DEF SetNetwork, GenCorrelator, FIPrepRecv, MapCorrToCircuit,
       PopulateIndvShrs, PopulateBatches, vars, layout
  <1>2. GatesInv' /\ InputInv' /\ OutputInv' /\ MultInv' /\ LayersInv'
    BY <1>1, SameGates DEF IndInv
  <1>3. OrderInv'
    BY <1>1 DEF IndInv, OrderInv
  <1> QED
    BY <1>2, <1>3 DEF IndInv

LEMMA InitInd == Init => IndInv
  <1> SUFFICES ASSUME Init PROVE IndInv
    OBVIOUS
  <1>1. gates = <<>> /\ Len(gates) = 0 /\ DOMAIN gates = {} /\ \A kind, c : OfKind(kind) = {} /\ GatesOf(kind, c) = {}
    BY DEF Init, OfKind, GatesOf
  <1>2. /\ EmptyLayer \in Seq(Seq(Nat)) /\ Filled(EmptyLayer, {}) /\ Growing(EmptyLayer, 0)
        /\ InOrder(EmptyLayer, <<>>) /\ NoPadding(EmptyLayer, <<>>)
    BY EmptyFacts
  <1>3. GatesInv /\ OrderInv
    BY <1>1 DEF Init, GatesInv, OrderInv
  <1>4. InputInv /\ OutputInv
    BY <1>1, <1>2 DEF Init, InputInv, OutputInv
  <1>5. ToSet(<<>>) = {}
    BY DEF ToSet
  <1>6. /\ multLayers \in Seq(Seq(Seq(Nat))) /\ Len(multLayers) = 1 /\ multLayers[1] = EmptyLayer
        /\ flatMultLayers \in Seq(Seq(Nat)) /\ Len(flatMultLayers) = 1 /\ flatMultLayers[1] = <<>>
    BY <1>2 DEF Init
  <1>7. MultInv
    <2>1. GetDepth = 1 /\ ~lastClosed /\ \A l \in 1 .. 1 : l = 1 /\ ~(l < 1)
      BY <1>6 DEF Init, GetDepth
    <2>2. ASSUME NEW l \in 1 .. 1
          PROVE  /\ Filled(multLayers[l], ToSet(flatMultLayers[l])) /\ InOrder(multLayers[l], flatMultLayers[l])
                 /\ ~(l < 1)
      BY <2>1, <1>2, <1>5, <1>6
    <2>3. Growing(multLayers[1], Len(gates)) /\ NoPadding(multLayers[1], flatMultLayers[1])
      BY <1>1, <1>2, <1>6
    <2> QED
      BY ONLY <2>1, <2>2, <2>3, <1>6 DEF MultInv
  <1>8. LayersInv
    BY <1>1, <1>5, <1>6 DEF LayersInv, GetDepth
  <1> QED
    BY <1>3, <1>4, <1>7, <1>8 DEF IndInv

LEMMA StepInd == IndInv /\ [Next]_vars => IndInv'
  <1> SUFFICES ASSUME IndInv, [Next]_vars PROVE IndInv'
    OBVIOUS
  <1> QED
    BY InputInd, AddInd, MultInd, OutputInd, NewLayerInd, LastLayerInd, CloseInputsInd, CloseOutputsInd, PrepareInd
       DEF Next, Build

-----------------------------------------------------------------------------
(* From the invariant to SlotIsFlat *)

\* A layer is that of a client's inputs, of a client's outputs or one of
\* multiplications.
LEMMA ThreeSorts ==
    ASSUME IndInv, NEW layer \in AllLayers
    PROVE  \/ \E c \in Clients : layer = inputLayers[c] /\ Filled(layer, GatesOf("input", c))
           \/ \E c \in Clients : layer = outputLayers[c] /\ Filled(layer, GatesOf("output", c))
           \/ \E l \in 1 .. GetDepth : layer = multLayers[l] /\ Filled(layer, ToSet(flatMultLayers[l]))
  <1>1. CASE layer \in ToSet(multLayers)
    <2>1. PICK l \in DOMAIN multLayers : layer = multLayers[l]
      BY <1>1 DEF ToSet
    <2>2. l \in 1 .. GetDepth
      <3>1. multLayers \in Seq(Seq(Seq(Nat)))
        BY DEF IndInv, MultInv
      <3> QED
        BY ONLY <2>1, <3>1 DEF GetDepth
    <2>3. Filled(multLayers[l], ToSet(flatMultLayers[l]))
      BY <2>2 DEF IndInv, MultInv
    <2> QED
      BY ONLY <2>1, <2>2, <2>3
  <1>2. CASE layer \in {inputLayers[c] : c \in Clients}
    BY <1>2 DEF IndInv, InputInv
  <1>3. CASE layer \in {outputLayers[c] : c \in Clients}
    BY <1>3 DEF IndInv, OutputInv
  <1> QED
    BY <1>1, <1>2, <1>3 DEF AllLayers

\* What is in a slot tells the layer.
LEMMA SlotTells ==
    ASSUME IndInv, NEW layer \in AllLayers, NEW g \in DOMAIN gates,
           NEW b \in DOMAIN layer, NEW i \in DOMAIN layer[b], layer[b][i] = g
    PROVE  /\ b \in 1 .. Len(gates) /\ i \in 1 .. mBatchSize
           /\ b \in 1 .. Len(layer) /\ i \in 1 .. Len(layer[b])
           /\ \/ gates[g].kind = "input" /\ layer = inputLayers[gates[g].owner]
              \/ gates[g].kind = "output" /\ layer = outputLayers[gates[g].owner]
              \/ /\ gates[g].kind = "mult"
                 /\ \E l \in 1 .. GetDepth : g \in ToSet(flatMultLayers[l]) /\ layer = multLayers[l]
  <1>1. g \in Nat /\ g # Pad /\ g <= Len(gates) /\ Len(gates) \in Nat
    BY GatesFacts DEF IndInv
  <1>2. ASSUME NEW G, Filled(layer, G)
        PROVE  /\ g \in G
               /\ b \in 1 .. Len(gates) /\ i \in 1 .. mBatchSize
               /\ b \in 1 .. Len(layer) /\ i \in 1 .. Len(layer[b])
    <2>1. b \in 1 .. Len(layer) /\ layer[b] \in Seq(Nat) /\ i \in 1 .. Len(layer[b]) /\ Len(layer[b]) <= mBatchSize
      BY <1>2 DEF Filled
    <2>2. layer[b][i] = Pad \/ (layer[b][i] \in G /\ b <= layer[b][i])
      BY <1>2, <2>1 DEF Filled
    <2>3. g \in G /\ b <= g
      BY <2>2, <1>1
    <2> QED
      BY <2>1, <2>3, <1>1
  <1>3. CASE \E c \in Clients : layer = inputLayers[c] /\ Filled(layer, GatesOf("input", c))
    BY <1>2, <1>3 DEF GatesOf, OfKind
  <1>4. CASE \E c \in Clients : layer = outputLayers[c] /\ Filled(layer, GatesOf("output", c))
    BY <1>2, <1>4 DEF GatesOf, OfKind
  <1>5. CASE \E l \in 1 .. GetDepth : layer = multLayers[l] /\ Filled(layer, ToSet(flatMultLayers[l]))
    <2>1. PICK l \in 1 .. GetDepth : layer = multLayers[l] /\ Filled(layer, ToSet(flatMultLayers[l]))
      BY <1>5
    <2>2. g \in ToSet(flatMultLayers[l])
      BY <2>1, <1>2
    <2>3. gates[g].kind = "mult"
      BY <2>2 DEF IndInv, LayersInv, OfKind
    <2> QED
      BY <2>1, <2>2, <2>3, <1>2
  <1> QED
    BY <1>3, <1>4, <1>5, ThreeSorts

\* Every gate that is not an addition has a layer, and only one.
LEMMA Home ==
    ASSUME IndInv, NEW g \in DOMAIN gates, gates[g].kind # "add"
    PROVE  \E home \in AllLayers : \E G :
              /\ Filled(home, G) /\ g \in G
              /\ \A layer \in AllLayers : \A b \in DOMAIN layer : \A i \in DOMAIN layer[b] :
                    layer[b][i] = g => layer = home
  <1> DEFINE P(home, G) ==
              /\ home \in AllLayers /\ Filled(home, G) /\ g \in G
              /\ \A layer \in AllLayers : \A b \in DOMAIN layer : \A i \in DOMAIN layer[b] :
                    layer[b][i] = g => layer = home
             o == gates[g].owner
  <1>1. CASE gates[g].kind = "input"
    <2>1. o \in Clients /\ g \in GatesOf("input", o)
      BY <1>1 DEF IndInv, GatesInv, OfKind, GatesOf
    <2>2. inputLayers[o] \in AllLayers /\ Filled(inputLayers[o], GatesOf("input", o))
      BY <2>1 DEF IndInv, InputInv, AllLayers
    <2>3. P(inputLayers[o], GatesOf("input", o))
      BY <2>1, <2>2, <1>1, SlotTells
    <2> QED
      BY <2>3
  <1>2. CASE gates[g].kind = "output"
    <2>1. o \in Clients /\ g \in GatesOf("output", o)
      BY <1>2 DEF IndInv, GatesInv, OfKind, GatesOf
    <2>2. outputLayers[o] \in AllLayers /\ Filled(outputLayers[o], GatesOf("output", o))
      BY <2>1 DEF IndInv, OutputInv, AllLayers
    <2>3. P(outputLayers[o], GatesOf("output", o))
      BY <2>1, <2>2, <1>2, SlotTells
    <2> QED
      BY <2>3
  <1>3. CASE gates[g].kind = "mult"
    <2>1. PICK l \in 1 .. GetDepth : g \in ToSet(flatMultLayers[l])
      BY <1>3 DEF IndInv, LayersInv, OfKind
    <2>2. multLayers[l] \in AllLayers /\ Filled(multLayers[l], ToSet(flatMultLayers[l]))
      <3>1. l \in DOMAIN multLayers
        BY DEF IndInv, MultInv, GetDepth
      <3> QED
        BY <3>1 DEF IndInv, MultInv, AllLayers, ToSet
    <2>3. \A m \in 1 .. GetDepth : g \in ToSet(flatMultLayers[m]) => m = l
      BY <2>1 DEF IndInv, LayersInv
    <2>4. P(multLayers[l], ToSet(flatMultLayers[l]))
      BY <2>1, <2>2, <2>3, <1>3, SlotTells
    <2> QED
      BY <2>4
  <1> QED
    BY <1>1, <1>2, <1>3 DEF IndInv, GatesInv

LEMMA OneSlot ==
    ASSUME IndInv, NEW g \in DOMAIN gates
    PROVE  Cardinality(Slots(g)) = IF gates[g].kind = "add" THEN 0 ELSE 1
  <1>1. CASE gates[g].kind = "add"
    <2>1. ASSUME NEW s \in Slots(g) PROVE FALSE
      <3>1. /\ s[1] \in AllLayers /\ s[2] \in DOMAIN s[1] /\ s[3] \in DOMAIN s[1][s[2]]
            /\ s[1][s[2]][s[3]] = g
        BY DEF Slots
      <3> QED
        BY <3>1, <1>1, SlotTells
    <2>2. Slots(g) = {}
      BY <2>1
    <2> QED
      BY <2>2, <1>1, FS_EmptySet
  <1>2. CASE gates[g].kind # "add"
    <2>0. PICK home \in AllLayers : \E G :
              /\ Filled(home, G) /\ g \in G
              /\ \A layer \in AllLayers : \A b \in DOMAIN layer : \A i \in DOMAIN layer[b] :
                    layer[b][i] = g => layer = home
      BY <1>2, Home
    <2>1. PICK G :
              /\ Filled(home, G) /\ g \in G
              /\ \A layer \in AllLayers : \A b \in DOMAIN layer : \A i \in DOMAIN layer[b] :
                    layer[b][i] = g => layer = home
      BY <2>0
    <2>2. PICK b \in 1 .. Len(home) : \E i \in 1 .. Len(home[b]) : home[b][i] = g
      BY <2>1 DEF Filled
    <2>3. PICK i \in 1 .. Len(home[b]) : home[b][i] = g
      BY <2>2
    <2>4. b \in DOMAIN home /\ i \in DOMAIN home[b]
      <3>1. home \in Seq(Seq(Nat))
        BY <2>1 DEF Filled
      <3>2. home[b] \in Seq(Nat)
        BY <3>1
      <3> QED
        BY <3>1, <3>2
    <2>5. b \in 1 .. Len(gates) /\ i \in 1 .. mBatchSize
      BY <2>3, <2>4, SlotTells
    <2>6. <<home, b, i>> \in Slots(g)
      BY <2>3, <2>4, <2>5 DEF Slots
    <2>7. ASSUME NEW s \in Slots(g) PROVE s = <<home, b, i>>
      <3>1. /\ s = <<s[1], s[2], s[3]>>
            /\ s[1] \in AllLayers /\ s[2] \in DOMAIN s[1] /\ s[3] \in DOMAIN s[1][s[2]]
            /\ s[1][s[2]][s[3]] = g
        BY DEF Slots
      <3>2. s[1] = home
        BY <3>1, <2>1
      <3>3. s[2] \in 1 .. Len(home) /\ s[3] \in 1 .. Len(home[s[2]]) /\ home[s[2]][s[3]] = g
        BY <3>1, <3>2, SlotTells
      <3>4. g # Pad
        BY GatesFacts DEF IndInv
      <3>5. \A b1, c1 \in 1 .. Len(home) : \A i1 \in 1 .. Len(home[b1]) : \A j1 \in 1 .. Len(home[c1]) :
               home[b1][i1] = home[c1][j1] /\ home[b1][i1] # Pad => b1 = c1 /\ i1 = j1
        BY <2>1 DEF Filled
      <3>6. s[2] = b /\ s[3] = i
        <4>1. b \in 1 .. Len(home) /\ i \in 1 .. Len(home[b]) /\ home[b][i] = g
          BY <2>2, <2>3
        <4>2. home[s[2]][s[3]] = home[b][i] /\ home[s[2]][s[3]] # Pad
          BY ONLY <4>1, <3>3, <3>4
        <4> HIDE DEF Pad
        <4> QED
          BY ONLY <4>1, <4>2, <3>3, <3>5
      <3> QED
        BY <3>1, <3>2, <3>6
    <2>8. Slots(g) = {<<home, b, i>>}
      BY <2>6, <2>7
    <2> QED
      BY <2>8, <1>2, FS_Singleton
  <1> QED
    BY <1>1, <1>2

\* Once the network is set all batches are full.
LEMMA AllFull ==
    ASSUME IndInv, isClosed
    PROVE  \A layer \in AllLayers : \A batch \in ToSet(layer) : Len(batch) = mBatchSize
  <1> SUFFICES ASSUME NEW layer \in AllLayers, NEW batch \in ToSet(layer)
               PROVE  Len(batch) = mBatchSize
    OBVIOUS
  <1>1. isClosed /\ lastClosed /\ inputsClosed
    BY DEF IndInv, OrderInv
  <1>2. Full(layer) /\ DOMAIN layer = 1 .. Len(layer)
    <2>1. CASE \E c \in Clients : layer = inputLayers[c] /\ Filled(layer, GatesOf("input", c))
      BY <2>1, <1>1 DEF IndInv, InputInv, Filled
    <2>2. CASE \E c \in Clients : layer = outputLayers[c] /\ Filled(layer, GatesOf("output", c))
      BY <2>2, <1>1 DEF IndInv, OutputInv, Filled
    <2>3. CASE \E l \in 1 .. GetDepth : layer = multLayers[l] /\ Filled(layer, ToSet(flatMultLayers[l]))
      <3>1. PICK l \in 1 .. GetDepth : layer = multLayers[l] /\ Filled(layer, ToSet(flatMultLayers[l]))
        BY <2>3
      <3>2. Full(layer)
        BY <3>1, <1>1 DEF IndInv, MultInv
      <3>3. layer \in Seq(Seq(Nat))
        BY <3>1 DEF Filled
      <3> QED
        BY <3>2, <3>3
    <2> QED
      BY <2>1, <2>2, <2>3, ThreeSorts
  <1> QED
    BY <1>2 DEF Full, ToSet

LEMMA IndImplies == IndInv => SlotIsFlat
  <1> SUFFICES ASSUME IndInv PROVE SlotIsFlat
    OBVIOUS
  <1>1. isNetworkSet => \A layer \in AllLayers : \A batch \in ToSet(layer) : Len(batch) = mBatchSize
    BY AllFull DEF IndInv, OrderInv
  <1>2. \A g \in DOMAIN gates : Cardinality(Slots(g)) = IF gates[g].kind = "add" THEN 0 ELSE 1
    BY OneSlot
  <1>3. \A l \in 1 .. GetDepth : \A i \in 1 .. Len(flatMultLayers[l]) :
           multLayers[l][((i - 1) \div mBatchSize) + 1][((i - 1) % mBatchSize) + 1] = flatMultLayers[l][i]
    <2>1. \A l \in 1 .. GetDepth : \A i \in 1 .. Len(flatMultLayers[l]) :
             multLayers[l][Batch(i)][Place(i)] = flatMultLayers[l][i]
      BY DEF IndInv, MultInv, InOrder
    <2> QED
      BY ONLY <2>1 DEF Batch, Place
  <1>4. UNION {ToSet(flatMultLayers[l]) : l \in 1 .. GetDepth} = OfKind("mult")
    <2>1. ASSUME NEW l \in 1 .. GetDepth PROVE ToSet(flatMultLayers[l]) \subseteq OfKind("mult")
      BY DEF IndInv, LayersInv
    <2>2. ASSUME NEW g \in OfKind("mult") PROVE \E l \in 1 .. GetDepth : g \in ToSet(flatMultLayers[l])
      BY DEF IndInv, LayersInv
    <2> QED
      BY <2>1, <2>2
  <1> QED
    BY <1>1, <1>2, <1>3, <1>4 DEF SlotIsFlat

\* However the calls build a circuit, every input, output and multiplication
\* gate has one batch slot, the i-th multiplication of a layer the one GetMultGate
\* looks it up at, and the batches are full once the network is set
\* (circuit.h, layer.h), for every batch size and number of clients.
THEOREM SlotsCorrect == Spec => []SlotIsFlat
  BY InitInd, StepInd, IndImplies, PTL DEF Spec


-----------------------------------------------------------------------------
(* Circuit::FromConfig: arithmetic, owners and counts *)

\* An even number divides the width, so the pairs of a layer make up the width.
LEMMA EvenWidth ==
    ASSUME NEW w \in Nat, NEW n \in Nat \ {0}, w % n = 0, n % 2 = 0
    PROVE  2 * (w \div 2) = w
  <1>1. PICK q \in Nat : w = n * q
    <2>1. w = n * (w \div n) + (w % n)
      OBVIOUS
    <2>2. w \div n \in Nat
      OBVIOUS
    <2>3. w = n * (w \div n)
      BY <2>1, <2>2
    <2> QED
      BY <2>2, <2>3
  <1>2. PICK h \in Nat : n = 2 * h
    OBVIOUS
  <1>3. w = 2 * (h * q) /\ h * q \in Nat
    BY <1>1, <1>2
  <1>4. \A m \in Nat : 2 * ((2 * m) \div 2) = 2 * m
    OBVIOUS
  <1> QED
    BY <1>3, <1>4

\* The least of a set of numbers is in it.
LEMMA MinInSet ==
    ASSUME NEW S \in SUBSET Nat, S # {}
    PROVE  Min(S) \in S
  <1> DEFINE R == {ss \in Nat \X Nat : ss[1] < ss[2]}
  <1>0. IsWellFoundedOn(R, Nat)
    BY NatLessThanWellFounded, Zenon DEF OpToRel
  <1>1. PICK x \in S : \A y \in S : ~(<<y, x>> \in R)
    <2> HIDE DEF R
    <2> QED
      BY <1>0, WFMin
  <1>2. \A y \in S : ~(y < x)
    BY <1>1
  <1>3. \A y \in S : x =< y
    BY <1>2
  <1> QED
    BY <1>3 DEF Min

\* The loop over clients and their gates gives every gate to a client.
LEMMA OwnerIsClient ==
    ASSUME NEW counts, NEW i, DOMAIN counts = 1 .. nParties, i < ComputeNumberOf(counts)
    PROVE  OwnerOf(counts, i) \in Clients
  <1> DEFINE S == {c \in Clients : SumFunctionOnSet(counts, 1 .. c + 1) > i}
  <1>1. nParties \in Nat /\ nParties - 1 \in Clients /\ (nParties - 1) + 1 = nParties
    BY NumberedClients, ClientAssumption
  <1>2. SumFunctionOnSet(counts, 1 .. nParties) > i
    BY DEF ComputeNumberOf, SumFunction
  <1>3. nParties - 1 \in S
    BY <1>1, <1>2
  <1>4. S \in SUBSET Nat /\ S # {}
    BY <1>3, ClientAssumption
  <1>5. Min(S) \in S
    BY <1>4, MinInSet
  <1> QED
    BY <1>5 DEF OwnerOf

\* A new gate counts for its kind.
LEMMA GateCounts ==
    ASSUME GatesInv, NEW k \in {"input", "add", "mult", "output"}, NEW o, NEW left, NEW right,
           k \in {"input", "output"} => o \in Clients, NewGate(k, o, left, right)
    PROVE  \A kind : Count(kind) \in Nat /\ Count(kind)' = Count(kind) + (IF kind = k THEN 1 ELSE 0)
  <1> SUFFICES ASSUME NEW kind
               PROVE  Count(kind) \in Nat /\ Count(kind)' = Count(kind) + (IF kind = k THEN 1 ELSE 0)
    OBVIOUS
  <1>1. PICK n \in Nat : Made(n, k, o)
    BY NewGateMade
  <1>2. OfKind(kind)' = OfKind(kind) \cup (IF kind = k THEN {n} ELSE {}) /\ n \notin OfKind(kind)
    BY <1>1 DEF Made, OfKind
  <1>3. IsFiniteSet(OfKind(kind))
    <2>1. OfKind(kind) \in SUBSET (1 .. Len(gates)) /\ Len(gates) \in Nat
      BY GatesFacts DEF OfKind
    <2>2. IsFiniteSet(1 .. Len(gates))
      BY <2>1, FS_Interval
    <2> QED
      BY <2>1, <2>2, FS_Subset
  <1>4. Count(kind) \in Nat
    BY <1>3, FS_CardinalityType DEF Count
  <1>5. Cardinality(OfKind(kind) \cup {n}) = Cardinality(OfKind(kind)) + 1
    BY <1>2, <1>3, FS_AddElement
  <1>6. CASE kind = k
    BY <1>2, <1>4, <1>5, <1>6 DEF Count
  <1>7. CASE kind # k
    BY <1>2, <1>4, <1>7 DEF Count
  <1> QED
    BY <1>4, <1>6, <1>7

LEMMA SameCounts ==
    ASSUME UNCHANGED gates
    PROVE  \A kind : Count(kind)' = Count(kind)
  BY SameGates DEF Count


LEMMA ConfigFacts ==
    ASSUME config \in Configs
    PROVE  /\ config.width \in Nat /\ config.depth \in Nat
           /\ Len(config.inp_gates) = nParties => DOMAIN config.inp_gates = 1 .. nParties
           /\ Len(config.out_gates) = nParties => DOMAIN config.out_gates = 1 .. nParties
  <1>1. config.width \in 0 .. MaxWidth /\ config.depth \in 0 .. MaxDepth
        /\ config.inp_gates \in PerClientCounts /\ config.out_gates \in PerClientCounts
    BY DEF Configs
  <1>2. ASSUME NEW counts \in PerClientCounts PROVE counts \in Seq(0 .. MaxPerClient)
    <2>1. PICK n \in {nParties, nParties + 1} : counts \in [1 .. n -> 0 .. MaxPerClient]
      BY DEF PerClientCounts
    <2>2. n \in Nat
      BY NumberedClients
    <2> QED
      BY <2>1, <2>2, SeqDef, Zenon
  <1>3. ASSUME NEW S, NEW s \in Seq(S) PROVE DOMAIN s = 1 .. Len(s)
    OBVIOUS
  <1> QED
    BY <1>1, <1>2, <1>3, BoundAssumption

\* What the calls do to the number of layers and their sizes.
LEMMA MultEffect ==
    ASSUME IndInv, Mult
    PROVE  /\ GetDepth \in Nat \ {0} /\ GetDepth' = GetDepth /\ width' = width
           /\ \A l \in 1 .. GetDepth - 1 : flatMultLayers'[l] = flatMultLayers[l]
           /\ Len(flatMultLayers'[GetDepth]) = Len(flatMultLayers[GetDepth]) + 1
           /\ \A kind : Count(kind) \in Nat /\ Count(kind)' = Count(kind) + (IF kind = "mult" THEN 1 ELSE 0)
  <1>1. PICK d \in Nat : d = Len(multLayers) /\ d > 0
    BY DEF IndInv, MultInv
  <1>2. flatMultLayers \in Seq(Seq(Nat)) /\ Len(flatMultLayers) = d /\ multLayers \in Seq(Seq(Seq(Nat)))
    BY <1>1 DEF IndInv, MultInv, Mult, MayMult, GetDepth
  <1>3. PICK n \in Nat : n = NewId
    BY GatesFacts DEF NewId, IndInv
  <1>4. /\ flatMultLayers' = [flatMultLayers EXCEPT ![d] = Append(flatMultLayers[d], n)]
        /\ Len(multLayers') = d /\ width' = width /\ NewGate("mult", Pad, Pad, Pad)
    BY <1>1, <1>2, <1>3 DEF Mult
  <1>5. /\ flatMultLayers[d] \in Seq(Nat) /\ Append(flatMultLayers[d], n) \in Seq(Nat)
        /\ Len(Append(flatMultLayers[d], n)) = Len(flatMultLayers[d]) + 1
    BY <1>1, <1>2, SequenceFacts
  <1>6. /\ flatMultLayers'[d] = Append(flatMultLayers[d], n)
        /\ \A l \in 1 .. d : l # d => flatMultLayers'[l] = flatMultLayers[l]
    BY <1>1, <1>2, <1>4, <1>5, ReplaceFacts
  <1>7. \A l \in 1 .. d - 1 : flatMultLayers'[l] = flatMultLayers[l]
    BY <1>6
  <1>8. Len(flatMultLayers'[d]) = Len(flatMultLayers[d]) + 1
    BY <1>5, <1>6
  <1>9. \A kind : Count(kind) \in Nat /\ Count(kind)' = Count(kind) + (IF kind = "mult" THEN 1 ELSE 0)
    BY <1>4, GateCounts DEF IndInv
  <1>10. GetDepth = d /\ GetDepth' = d
    BY <1>1, <1>4 DEF GetDepth
  <1> QED
    <2>1. GetDepth \in Nat \ {0} /\ GetDepth' = GetDepth /\ width' = width
      BY <1>1, <1>4, <1>10
    <2> QED
      BY <2>1, <1>7, <1>8, <1>9, <1>10, Zenon

\* NewLayer and LastLayer; m is the width so far.
LEMMA LayerEffect ==
    ASSUME IndInv, NewLayer \/ LastLayer, NEW m \in Nat, width = m
    PROVE  /\ GetDepth \in Nat \ {0} /\ (NewLayer => GetDepth' = GetDepth + 1) /\ (LastLayer => GetDepth' = GetDepth)
           /\ \A l \in 1 .. GetDepth : flatMultLayers'[l] = flatMultLayers[l]
           /\ Len(flatMultLayers'[GetDepth + 1]) = 0
           /\ width' = IF Len(flatMultLayers[GetDepth]) >= m THEN Len(flatMultLayers[GetDepth]) ELSE m
           /\ \A kind : Count(kind)' = Count(kind)
  <1>1. PICK d \in Nat : d = Len(multLayers) /\ d > 0
    BY DEF IndInv, MultInv
  <1>2. /\ flatMultLayers \in Seq(Seq(Nat)) /\ Len(flatMultLayers) = d /\ multLayers \in Seq(Seq(Seq(Nat)))
        /\ flatMultLayers' = Append(flatMultLayers, <<>>) /\ width' = WidthNow /\ UNCHANGED gates
    BY <1>1 DEF IndInv, MultInv, NewLayer, LastLayer, MayMult, GetDepth
  <1>3. \A kind : Count(kind)' = Count(kind)
    BY <1>2, SameCounts
  <1>4. /\ \A l \in 1 .. d : flatMultLayers'[l] = flatMultLayers[l]
        /\ flatMultLayers'[d + 1] = <<>>
    BY <1>2, SequenceFacts
  <1>5. PICK n \in Nat : n = Len(flatMultLayers[d])
    BY <1>1, <1>2
  <1>6. WidthNow = Max({m, n})
    BY <1>1, <1>2, <1>5 DEF WidthNow, Last
  <1>7. Max({m, n}) = IF n >= m THEN n ELSE m
    BY DEF Max
  <1>8. ClosedLast \in Seq(Seq(Seq(Nat))) /\ Len(ClosedLast) = d
    BY <1>1, LastClosed DEF NewLayer, LastLayer, MayMult, GetDepth
  <1>9. (NewLayer => Len(multLayers') = d + 1) /\ (LastLayer => Len(multLayers') = d)
    <2>1. ASSUME NewLayer PROVE Len(multLayers') = d + 1
      <3>1. multLayers' = Append(ClosedLast, EmptyLayer)
        BY <2>1 DEF NewLayer
      <3>2. EmptyLayer \in Seq(Seq(Nat))
        BY DEF EmptyLayer
      <3> QED
        BY <3>1, <3>2, <1>8, SequenceFacts
    <2>2. ASSUME LastLayer PROVE Len(multLayers') = d
      BY <2>2, <1>8 DEF LastLayer
    <2> QED
      BY <2>1, <2>2
  <1>10. GetDepth = d /\ GetDepth' = Len(multLayers')
    BY <1>1 DEF GetDepth
  <1>11. Len(flatMultLayers'[d + 1]) = 0
    BY <1>4
  <1>12. width' = IF Len(flatMultLayers[d]) >= m THEN Len(flatMultLayers[d]) ELSE m
    BY <1>2, <1>5, <1>6, <1>7
  <1> QED
    BY <1>1, <1>3, <1>4, <1>9, <1>10, <1>11, <1>12


-----------------------------------------------------------------------------
(* Circuit::FromConfig: its steps *)

LEMMA SameCircuit ==
    ASSUME IndInv, UNCHANGED vars
    PROVE  /\ IndInv' /\ UNCHANGED <<flatMultLayers, width>> /\ GetDepth' = GetDepth
           /\ isClosed' = isClosed
           /\ \A kind : Count(kind)' = Count(kind)
  <1>1. IndInv'
    BY StepInd
  <1>2. UNCHANGED <<gates, multLayers, flatMultLayers, width, isClosed>>
    BY DEF vars
  <1> QED
    BY <1>1, <1>2, SameCounts DEF GetDepth

LEMMA SameConfig ==
    ASSUME UNCHANGED config
    PROVE  nInputs' = nInputs /\ nOutputs' = nOutputs /\ Accepted' = Accepted
  <1>1. nInputs' = nInputs /\ nOutputs' = nOutputs
    BY DEF nInputs, nOutputs
  <1> QED
    BY <1>1, Zenon DEF Accepted

LEMMA AcceptedFacts ==
    ASSUME config \in Configs, Accepted
    PROVE  /\ config.width \in Nat /\ config.depth \in Nat /\ nInputs # 0
           /\ DOMAIN config.inp_gates = 1 .. nParties /\ DOMAIN config.out_gates = 1 .. nParties
           /\ nInputs \in Nat => 2 * (config.width \div 2) = config.width
  <1>1. config.width \in Nat /\ config.depth \in Nat
    BY ConfigFacts
  <1>2. DOMAIN config.inp_gates = 1 .. nParties /\ DOMAIN config.out_gates = 1 .. nParties
    BY ConfigFacts DEF Accepted
  <1>3. nInputs # 0 /\ config.width % nInputs = 0 /\ nInputs % 2 = 0
    BY DEF Accepted
  <1>4. nInputs \in Nat => 2 * (config.width \div 2) = config.width
    BY <1>1, <1>3, EvenWidth
  <1> QED
    BY <1>1, <1>2, <1>3, <1>4

LEMMA InitBuild == FInit => BuildInv
  <1> SUFFICES ASSUME FInit PROVE BuildInv
    OBVIOUS
  <1>1. Init /\ ctr = 0 /\ ((config \in Configs /\ pc = "validate") \/ pc = "free")
    BY DEF FInit
  <1>2. IndInv
    BY <1>1, InitInd
  <1>3. \A kind : Count(kind) = 0
    <2>1. gates = <<>>
      BY <1>1 DEF Init
    <2>2. \A kind : OfKind(kind) = {}
      BY <2>1 DEF OfKind
    <2> QED
      BY <2>2, FS_EmptySet DEF Count
  <1>4. GetDepth = 1 /\ Len(flatMultLayers[1]) = 0 /\ width = 0
    BY <1>1 DEF Init, GetDepth
  <1>5. InputsInv
    BY <1>1, <1>3, <1>4 DEF InputsInv
  <1>6. AcceptedInv /\ GrowthInv /\ OutputsInv /\ FaultsOnlyOnZero
    BY <1>1 DEF AcceptedInv, GrowthInv, OutputsInv, FaultsOnlyOnZero, Building
  <1> QED
    BY <1>2, <1>5, <1>6 DEF BuildInv


LEMMA ValidateBuild ==
    ASSUME BuildInv, Validate
    PROVE  BuildInv'
  <1>1. /\ IndInv' /\ UNCHANGED <<flatMultLayers, width>> /\ GetDepth' = GetDepth
        /\ \A kind : Count(kind)' = Count(kind)
    BY SameCircuit DEF BuildInv, Validate
  <1>2. UNCHANGED config /\ pc = "validate" /\ ctr' = 0 /\ nInputs' = nInputs /\ Accepted' = Accepted
    BY SameConfig DEF Validate, Goto
  <1>3. /\ config \in Configs
        /\ Count("input") = 0 /\ Count("mult") = 0 /\ Count("output") = 0
        /\ GetDepth = 1 /\ Len(flatMultLayers[1]) = 0 /\ width = 0
    BY <1>2 DEF BuildInv, AcceptedInv, InputsInv
  <1>4. CASE pc' = "thrown"
    BY <1>1, <1>4 DEF BuildInv, AcceptedInv, InputsInv, GrowthInv, OutputsInv, FaultsOnlyOnZero, Building
  <1>5. CASE pc' = "fpe" /\ nInputs = 0
    BY <1>1, <1>2, <1>5 DEF BuildInv, AcceptedInv, InputsInv, GrowthInv, OutputsInv, FaultsOnlyOnZero, Building
  <1>6. CASE pc' = "inputs" /\ Accepted
    BY <1>1, <1>2, <1>3, <1>6 DEF BuildInv, AcceptedInv, InputsInv, GrowthInv, OutputsInv, FaultsOnlyOnZero, Building
  <1> QED
    BY <1>4, <1>5, <1>6, Zenon DEF Validate, Goto, Accepted

LEMMA AddInputBuild ==
    ASSUME BuildInv, AddInput
    PROVE  BuildInv'
  <1>1. /\ pc = "inputs" /\ ctr < nInputs /\ pc' = "inputs" /\ ctr' = ctr + 1
        /\ UNCHANGED config /\ Accepted' = Accepted
        /\ Input(OwnerOf(config.inp_gates, ctr))
    BY SameConfig DEF AddInput, Goto
  <1>2. /\ config \in Configs /\ ctr \in Nat /\ IndInv /\ Accepted
        /\ Count("input") = ctr /\ Count("mult") = 0 /\ Count("output") = 0
        /\ GetDepth = 1 /\ Len(flatMultLayers[1]) = 0 /\ width = 0
    BY <1>1 DEF BuildInv, AcceptedInv, InputsInv, Building
  <1>3. PICK o \in Clients : Input(o)
    BY <1>1, <1>2, AcceptedFacts, OwnerIsClient DEF nInputs
  <1>4. IndInv'
    BY <1>2, <1>3, InputInd
  <1>5. NewGate("input", o, Pad, Pad) /\ UNCHANGED <<multLayers, flatMultLayers, width>>
    BY <1>3 DEF Input
  <1>6. \A kind : Count(kind)' = Count(kind) + (IF kind = "input" THEN 1 ELSE 0)
    BY <1>2, <1>5, GateCounts DEF IndInv
  <1>7. Count("input")' = ctr' /\ Count("mult")' = 0 /\ Count("output")' = 0
    BY <1>1, <1>2, <1>6
  <1>8. InputsInv'
    BY <1>1, <1>2, <1>5, <1>7 DEF InputsInv, GetDepth
  <1>9. AcceptedInv'
    BY <1>1, <1>2 DEF AcceptedInv
  <1>10. GrowthInv' /\ OutputsInv' /\ FaultsOnlyOnZero'
    BY <1>1 DEF GrowthInv, OutputsInv, FaultsOnlyOnZero
  <1> QED
    BY <1>4, <1>8, <1>9, <1>10 DEF BuildInv

LEMMA EndInputsBuild ==
    ASSUME BuildInv, EndInputs
    PROVE  BuildInv'
  <1>1. /\ pc = "inputs" /\ ctr = nInputs /\ pc' = "add" /\ ctr' = 0
        /\ UNCHANGED config /\ nInputs' = nInputs /\ Accepted' = Accepted /\ CloseInputs
    BY SameConfig DEF EndInputs, Goto
  <1>2. /\ config \in Configs /\ ctr \in Nat /\ IndInv /\ Accepted
        /\ Count("input") = ctr /\ Count("mult") = 0 /\ Count("output") = 0
        /\ GetDepth = 1 /\ Len(flatMultLayers[1]) = 0 /\ width = 0
    BY <1>1 DEF BuildInv, AcceptedInv, InputsInv, Building
  <1>3. IndInv'
    BY <1>1, <1>2, CloseInputsInd
  <1>4. UNCHANGED <<gates, multLayers, flatMultLayers, width>>
    BY <1>1 DEF CloseInputs
  <1>5. \A kind : Count(kind)' = Count(kind)
    BY <1>4, SameCounts
  <1>6. GetDepth' = 1 /\ Done' = 0 /\ Len(flatMultLayers'[1]) = 0 /\ width' = 0
    BY <1>1, <1>2, <1>4 DEF GetDepth, Done
  <1>7. config.width \in Nat /\ nInputs # 0
    BY <1>2, AcceptedFacts
  <1>8. GrowthInv'
    <2>1. nInputs' \in Nat \ {0} /\ Count("input")' = nInputs' /\ Count("output")' = 0
      BY <1>1, <1>2, <1>5, <1>7
    <2>2. Count("mult")' = config'.width * (GetDepth' - 1) + Done'
      BY <1>1, <1>2, <1>5, <1>6, <1>7
    <2>3. ctr' <= config'.width \div 2
      BY <1>1, <1>7
    <2>4. \A l \in 1 .. GetDepth' - 1 : Len(flatMultLayers'[l]) = config'.width
      BY <1>6
    <2> QED
      BY <2>1, <2>2, <2>3, <2>4, <1>1, <1>6 DEF GrowthInv
  <1>9. AcceptedInv'
    BY <1>1, <1>2 DEF AcceptedInv
  <1>10. InputsInv' /\ OutputsInv' /\ FaultsOnlyOnZero'
    BY <1>1 DEF InputsInv, OutputsInv, FaultsOnlyOnZero
  <1> QED
    BY <1>3, <1>8, <1>9, <1>10 DEF BuildInv

LEMMA GrowthFacts ==
    ASSUME BuildInv, pc \in {"add", "mult", "mult2"}
    PROVE  /\ IndInv /\ config \in Configs /\ Accepted
           /\ ctr \in Nat /\ Done \in Nat /\ config.width \in Nat /\ config.depth \in Nat
           /\ nInputs \in Nat \ {0} /\ GetDepth \in Nat \ {0}
           /\ 2 * (config.width \div 2) = config.width
           /\ flatMultLayers \in Seq(Seq(Nat)) /\ Len(flatMultLayers) >= GetDepth
  <1>1. IndInv /\ config \in Configs /\ ctr \in Nat /\ Accepted
    BY DEF BuildInv, AcceptedInv, Building
  <1>2. nInputs \in Nat \ {0}
    BY DEF BuildInv, GrowthInv
  <1>3. /\ config.width \in Nat /\ config.depth \in Nat
        /\ 2 * (config.width \div 2) = config.width
    BY <1>1, <1>2, AcceptedFacts
  <1>4. Done \in Nat
    BY <1>1 DEF Done
  <1>5. GetDepth \in Nat \ {0} /\ flatMultLayers \in Seq(Seq(Nat)) /\ Len(flatMultLayers) >= GetDepth
    <2>1. /\ multLayers \in Seq(Seq(Seq(Nat))) /\ Len(multLayers) > 0
          /\ flatMultLayers \in Seq(Seq(Nat))
          /\ Len(flatMultLayers) = IF lastClosed THEN GetDepth + 1 ELSE GetDepth
      BY <1>1 DEF IndInv, MultInv
    <2> QED
      BY ONLY <2>1 DEF GetDepth
  <1> QED
    BY <1>1, <1>2, <1>3, <1>4, <1>5


\* The operands of every pair are there: no index past the end of a layer.
LEMMA PairsExist ==
    ASSUME BuildInv, pc = "add", ctr < config.width \div 2
    PROVE  {PairIndex(0), PairIndex(1)} \subseteq DOMAIN PairSource
  <1>1. /\ ctr \in Nat /\ nInputs \in Nat \ {0} /\ GetDepth \in Nat \ {0} /\ config.width \in Nat
        /\ flatMultLayers \in Seq(Seq(Nat)) /\ Len(flatMultLayers) >= GetDepth
    BY GrowthFacts
  <1>2. 2 * ctr + 2 <= config.width
    <2>1. 2 * (config.width \div 2) = config.width /\ config.width \div 2 \in Nat
      BY <1>1, GrowthFacts
    <2> QED
      BY <2>1, <1>1
  <1>3. CASE GetDepth = 1
    <2>1. DOMAIN PairSource = 1 .. nInputs
      BY <1>3 DEF PairSource
    <2>2. \A m \in Nat, n \in Nat \ {0} : (m % n) + 1 \in 1 .. n
      OBVIOUS
    <2>3. /\ PairIndex(0) = ((2 * ctr + 0) % nInputs) + 1 /\ 2 * ctr + 0 \in Nat
          /\ PairIndex(1) = ((2 * ctr + 1) % nInputs) + 1 /\ 2 * ctr + 1 \in Nat
      BY <1>3, <1>1 DEF PairIndex
    <2>4. PairIndex(0) \in 1 .. nInputs /\ PairIndex(1) \in 1 .. nInputs
      BY <2>2, <2>3, <1>1
    <2> QED
      BY <2>1, <2>4
  <1>4. CASE GetDepth # 1
    <2>1. GetDepth - 1 \in 1 .. GetDepth - 1 /\ GetDepth - 1 \in 1 .. Len(flatMultLayers)
      BY <1>1, <1>4
    <2>2. Len(flatMultLayers[GetDepth - 1]) = config.width
      BY <2>1 DEF BuildInv, GrowthInv
    <2>3. DOMAIN flatMultLayers[GetDepth - 1] = 1 .. config.width
      BY <2>1, <2>2, <1>1
    <2>4. PairSource = flatMultLayers[GetDepth - 1]
      BY <1>4 DEF PairSource
    <2>5. PairIndex(0) = 2 * ctr + 1 /\ PairIndex(1) = 2 * ctr + 2
      BY <1>1, <1>4 DEF PairIndex
    <2>6. PairIndex(0) \in 1 .. config.width /\ PairIndex(1) \in 1 .. config.width
      BY <2>5, <1>1, <1>2
    <2> QED
      BY <2>3, <2>4, <2>6
  <1> QED
    BY <1>3, <1>4

LEMMA AddPairBuild ==
    ASSUME BuildInv, AddPair
    PROVE  BuildInv'
  <1>1. /\ pc = "add" /\ ctr < config.width \div 2
        /\ UNCHANGED config /\ nInputs' = nInputs /\ Accepted' = Accepted
    BY SameConfig DEF AddPair
  <1>2. IndInv /\ config \in Configs /\ Accepted /\ ctr \in Nat
    BY <1>1, GrowthFacts
  <1>3. pc' = "mult" /\ ctr' = ctr /\ \E x, y : Add(x, y)
    BY <1>1, PairsExist DEF AddPair, Goto
  <1>4. PICK x, y : Add(x, y)
    BY <1>3
  <1>5. IndInv'
    BY <1>2, <1>4, AddInd
  <1>6. NewGate("add", Pad, x, y) /\ UNCHANGED <<multLayers, flatMultLayers, width>>
    BY <1>4 DEF Add, layout
  <1>7. \A kind : Count(kind) \in Nat /\ Count(kind)' = Count(kind) + (IF kind = "add" THEN 1 ELSE 0)
    BY <1>2, <1>6, GateCounts DEF IndInv
  <1>8. Count("input")' = Count("input") /\ Count("mult")' = Count("mult") /\ Count("output")' = Count("output")
    BY <1>7
  <1>9. GetDepth' = GetDepth /\ Done' = Done
    BY <1>1, <1>3, <1>6 DEF GetDepth, Done
  <1>10. GrowthInv'
    <2>1. GrowthInv
      BY DEF BuildInv
    <2> QED
      BY <2>1, <1>1, <1>3, <1>6, <1>8, <1>9 DEF GrowthInv
  <1>11. AcceptedInv'
    BY <1>1, <1>2, <1>3 DEF AcceptedInv
  <1>12. InputsInv' /\ OutputsInv' /\ FaultsOnlyOnZero'
    BY <1>3 DEF InputsInv, OutputsInv, FaultsOnlyOnZero
  <1> QED
    BY <1>5, <1>10, <1>11, <1>12 DEF BuildInv

LEMMA MultBuild ==
    ASSUME BuildInv, MultFirst \/ MultSecond
    PROVE  BuildInv'
  <1>1. /\ pc \in {"mult", "mult2"} /\ UNCHANGED config /\ nInputs' = nInputs /\ Accepted' = Accepted /\ Mult
        /\ (pc = "mult" /\ pc' = "mult2" /\ ctr' = ctr) \/ (pc = "mult2" /\ pc' = "add" /\ ctr' = ctr + 1)
    BY SameConfig DEF MultFirst, MultSecond, Goto
  <1>2. /\ IndInv /\ config \in Configs /\ Accepted
        /\ ctr \in Nat /\ Done \in Nat /\ config.width \in Nat /\ GetDepth \in Nat \ {0}
    BY <1>1, GrowthFacts
  <1>3. GrowthInv
    BY DEF BuildInv
  <1>4. ctr' \in Nat /\ ctr' <= config.width \div 2 /\ (pc' # "add" => ctr' < config.width \div 2)
    <2>1. ctr < config.width \div 2
      BY ONLY <1>1, <1>3, Zenon DEF GrowthInv
    <2>2. PICK h \in Nat : h = config.width \div 2 /\ ctr < h
      BY <2>1, <1>2
    <2>3. (pc' = "mult2" /\ ctr' = ctr) \/ (pc' = "add" /\ ctr' = ctr + 1)
      BY <1>1
    <2>4. ctr \in Nat
      BY <1>2
    <2>5. ctr' \in Nat /\ ctr' <= h /\ (pc' # "add" => ctr' < h)
      BY ONLY <2>2, <2>3, <2>4
    <2> QED
      BY <2>2, <2>5
  <1>5. Done' = Done + 1
    BY ONLY <1>1, <1>2 DEF Done
  <1>6. GetDepth' = GetDepth /\ width' = width
    BY <1>1, <1>2, MultEffect
  <1>7. /\ \A l \in 1 .. GetDepth - 1 : flatMultLayers'[l] = flatMultLayers[l]
        /\ Len(flatMultLayers'[GetDepth]) = Len(flatMultLayers[GetDepth]) + 1
    BY <1>1, <1>2, MultEffect
  <1>8. /\ \A l \in 1 .. GetDepth - 1 : Len(flatMultLayers'[l]) = config.width
        /\ Len(flatMultLayers'[GetDepth]) = Done + 1
    BY <1>1, <1>3, <1>7 DEF GrowthInv
  <1>9. /\ Count("input")' = Count("input") /\ Count("output")' = Count("output")
        /\ Count("mult")' = Count("mult") + 1
    <2>1. \A kind : Count(kind) \in Nat /\ Count(kind)' = Count(kind) + (IF kind = "mult" THEN 1 ELSE 0)
      BY <1>1, <1>2, MultEffect
    <2> QED
      BY <2>1
  <1>10. Count("mult")' = config.width * (GetDepth - 1) + (Done + 1)
    <2>1. Count("mult") = config.width * (GetDepth - 1) + Done
      BY <1>1, <1>3 DEF GrowthInv
    <2>2. config.width * (GetDepth - 1) \in Int
      BY <1>2
    <2> QED
      BY ONLY <2>1, <2>2, <1>2, <1>9
  <1>11. GrowthInv'
    <2>1. /\ nInputs \in Nat \ {0} /\ Count("input") = nInputs /\ Count("output") = 0
          /\ GetDepth = 1 \/ GetDepth <= config.depth
          /\ (GetDepth = 1 => width = 0) /\ (GetDepth > 1 => width = config.width)
      BY <1>1, <1>3 DEF GrowthInv
    <2> QED
      BY ONLY <2>1, <1>1, <1>4, <1>5, <1>6, <1>8, <1>9, <1>10 DEF GrowthInv
  <1>12. IndInv'
    BY <1>1, <1>2, MultInd
  <1>13. AcceptedInv'
    BY <1>1, <1>2, <1>4 DEF AcceptedInv
  <1>14. InputsInv' /\ OutputsInv' /\ FaultsOnlyOnZero'
    BY <1>1 DEF InputsInv, OutputsInv, FaultsOnlyOnZero
  <1> QED
    BY <1>11, <1>12, <1>13, <1>14 DEF BuildInv


\* A layer is complete when all its pairs are made.
LEMMA LayerComplete ==
    ASSUME BuildInv, pc = "add", ctr = config.width \div 2
    PROVE  /\ Len(flatMultLayers[GetDepth]) = config.width
           /\ Count("mult") = config.width * GetDepth
           /\ \A l \in 1 .. GetDepth : Len(flatMultLayers[l]) = config.width
           /\ \E m \in Nat : width = m /\ m <= config.width
  <1>1. GrowthInv
    BY DEF BuildInv
  <1>2. config.width \in Nat /\ GetDepth \in Nat \ {0} /\ 2 * (config.width \div 2) = config.width
    BY GrowthFacts
  <1>3. Done = config.width
    BY <1>2 DEF Done
  <1>4. Len(flatMultLayers[GetDepth]) = config.width
    BY <1>1, <1>3, Zenon DEF GrowthInv
  <1>5. Count("mult") = config.width * (GetDepth - 1) + config.width
    BY <1>1, <1>3, Zenon DEF GrowthInv
  <1>6. \A a \in Nat, b \in Nat \ {0} : a * (b - 1) + a = a * b
    OBVIOUS
  <1>7. \A l \in 1 .. GetDepth - 1 : Len(flatMultLayers[l]) = config.width
    BY <1>1, Zenon DEF GrowthInv
  <1>8. \A l \in 1 .. GetDepth : l \in 1 .. GetDepth - 1 \/ l = GetDepth
    BY <1>2
  <1>9. (GetDepth = 1 => width = 0) /\ (GetDepth > 1 => width = config.width)
    BY <1>1, Zenon DEF GrowthInv
  <1>10. \E m \in Nat : width = m /\ m <= config.width
    BY <1>2, <1>9
  <1> QED
    BY <1>2, <1>4, <1>5, <1>6, <1>7, <1>8, <1>10

LEMMA NextLayerBuild ==
    ASSUME BuildInv, NextLayer
    PROVE  BuildInv'
  <1>1. /\ pc = "add" /\ ctr = config.width \div 2 /\ GetDepth < config.depth /\ NewLayer
        /\ pc' = "add" /\ ctr' = 0 /\ UNCHANGED config /\ nInputs' = nInputs /\ Accepted' = Accepted
    BY SameConfig DEF NextLayer, Goto
  <1>2. /\ IndInv /\ config \in Configs /\ Accepted
        /\ config.width \in Nat /\ config.depth \in Nat /\ GetDepth \in Nat \ {0}
    BY <1>1, GrowthFacts
  <1>3. /\ Len(flatMultLayers[GetDepth]) = config.width /\ Count("mult") = config.width * GetDepth
        /\ \A l \in 1 .. GetDepth : Len(flatMultLayers[l]) = config.width
    BY <1>1, LayerComplete
  <1>4. PICK m \in Nat : width = m /\ m <= config.width
    BY <1>1, LayerComplete
  <1>5. /\ GetDepth' = GetDepth + 1
        /\ \A l \in 1 .. GetDepth : flatMultLayers'[l] = flatMultLayers[l]
        /\ Len(flatMultLayers'[GetDepth + 1]) = 0
        /\ width' = IF Len(flatMultLayers[GetDepth]) >= m THEN Len(flatMultLayers[GetDepth]) ELSE m
        /\ \A kind : Count(kind)' = Count(kind)
    BY <1>1, <1>2, <1>4, LayerEffect
  <1>6. width' = config.width
    BY <1>2, <1>3, <1>4, <1>5
  <1>7. Done' = 0
    BY <1>1 DEF Done
  <1>8. GrowthInv'
    <2>1. nInputs' \in Nat \ {0} /\ Count("input")' = nInputs' /\ Count("output")' = 0
      BY <1>1, <1>5 DEF BuildInv, GrowthInv
    <2>2. Count("mult")' = config'.width * (GetDepth' - 1) + Done'
      <3>1. config.width * GetDepth \in Int /\ (GetDepth + 1) - 1 = GetDepth
        BY <1>2
      <3>2. Count("mult")' = config.width * GetDepth + 0
        BY <3>1, <1>3, <1>5
      <3> QED
        BY <3>1, <3>2, <1>1, <1>5, <1>7
    <2>3. GetDepth' <= config'.depth
      BY <1>1, <1>2, <1>5
    <2>4. ctr' <= config'.width \div 2
      BY <1>1, <1>2
    <2>5. GetDepth' - 1 = GetDepth
      BY <1>2, <1>5
    <2>6. \A l \in 1 .. GetDepth' - 1 : Len(flatMultLayers'[l]) = config'.width
      BY <2>5, <1>1, <1>3, <1>5
    <2>7. Len(flatMultLayers'[GetDepth']) = Done'
      BY <1>5, <1>7
    <2>8. GetDepth' # 1 /\ width' = config'.width
      BY <1>1, <1>2, <1>5, <1>6
    <2> QED
      BY ONLY <2>1, <2>2, <2>3, <2>4, <2>6, <2>7, <2>8, <1>1 DEF GrowthInv
  <1>9. IndInv'
    BY <1>1, <1>2, NewLayerInd
  <1>10. AcceptedInv'
    BY <1>1, <1>2 DEF AcceptedInv
  <1>11. InputsInv' /\ OutputsInv' /\ FaultsOnlyOnZero'
    BY <1>1 DEF InputsInv, OutputsInv, FaultsOnlyOnZero
  <1> QED
    BY <1>8, <1>9, <1>10, <1>11 DEF BuildInv

LEMMA EndLayersBuild ==
    ASSUME BuildInv, EndLayers
    PROVE  BuildInv'
  <1>1. /\ pc = "add" /\ ctr = config.width \div 2 /\ GetDepth >= config.depth /\ LastLayer
        /\ pc' = "outputs" /\ ctr' = 0 /\ UNCHANGED config /\ nInputs' = nInputs /\ Accepted' = Accepted
    BY SameConfig DEF EndLayers, Goto
  <1>2. /\ IndInv /\ config \in Configs /\ Accepted
        /\ config.width \in Nat /\ config.depth \in Nat /\ GetDepth \in Nat \ {0}
    BY <1>1, GrowthFacts
  <1>3. /\ Len(flatMultLayers[GetDepth]) = config.width /\ Count("mult") = config.width * GetDepth
        /\ \A l \in 1 .. GetDepth : Len(flatMultLayers[l]) = config.width
    BY <1>1, LayerComplete
  <1>4. PICK m \in Nat : width = m /\ m <= config.width
    BY <1>1, LayerComplete
  <1>5. /\ GetDepth' = GetDepth
        /\ \A l \in 1 .. GetDepth : flatMultLayers'[l] = flatMultLayers[l]
        /\ width' = IF Len(flatMultLayers[GetDepth]) >= m THEN Len(flatMultLayers[GetDepth]) ELSE m
        /\ \A kind : Count(kind)' = Count(kind)
    BY <1>1, <1>2, <1>4, LayerEffect
  <1>6. width' = config.width
    BY <1>2, <1>3, <1>4, <1>5
  <1>7. OutputsInv'
    <2>1. Count("input")' = nInputs' /\ Count("output")' = ctr'
      BY <1>1, <1>5 DEF BuildInv, GrowthInv
    <2>2. Count("mult")' = config'.width * GetDepth'
      BY <1>1, <1>3, <1>5
    <2>3. GetDepth = 1 \/ GetDepth <= config.depth
      BY <1>1 DEF BuildInv, GrowthInv
    <2>4. (config'.depth = 0 => GetDepth' = 1) /\ (config'.depth > 0 => GetDepth' = config'.depth)
      BY ONLY <2>3, <1>1, <1>2, <1>5
    <2>5. \A l \in 1 .. GetDepth' : Len(flatMultLayers'[l]) = config'.width
      BY <1>1, <1>3, <1>5
    <2> QED
      BY ONLY <2>1, <2>2, <2>4, <2>5, <1>1, <1>6 DEF OutputsInv
  <1>8. IndInv'
    BY <1>1, <1>2, LastLayerInd
  <1>9. AcceptedInv'
    BY <1>1, <1>2 DEF AcceptedInv
  <1>10. InputsInv' /\ GrowthInv' /\ FaultsOnlyOnZero'
    BY <1>1 DEF InputsInv, GrowthInv, FaultsOnlyOnZero
  <1> QED
    BY <1>7, <1>8, <1>9, <1>10 DEF BuildInv


LEMMA OutputsFacts ==
    ASSUME BuildInv, pc \in {"outputs", "built"}
    PROVE  /\ IndInv /\ config \in Configs /\ Accepted /\ ctr \in Nat /\ OutputsInv
           /\ config.width \in Nat /\ config.depth \in Nat
           /\ GetDepth \in Nat \ {0} /\ flatMultLayers \in Seq(Seq(Nat)) /\ Len(flatMultLayers) >= GetDepth
  <1>1. IndInv /\ config \in Configs /\ ctr \in Nat /\ Accepted /\ OutputsInv
    BY DEF BuildInv, AcceptedInv, Building
  <1>2. config.width \in Nat /\ config.depth \in Nat
    BY <1>1, ConfigFacts
  <1>3. GetDepth \in Nat \ {0} /\ flatMultLayers \in Seq(Seq(Nat)) /\ Len(flatMultLayers) >= GetDepth
    <2>1. /\ multLayers \in Seq(Seq(Seq(Nat))) /\ Len(multLayers) > 0
          /\ flatMultLayers \in Seq(Seq(Nat))
          /\ Len(flatMultLayers) = IF lastClosed THEN GetDepth + 1 ELSE GetDepth
      BY <1>1 DEF IndInv, MultInv
    <2> QED
      BY ONLY <2>1 DEF GetDepth
  <1> QED
    BY <1>1, <1>2, <1>3

\* The gate an output reads is there, unless the width or the depth is zero.
LEMMA OutputWireExists ==
    ASSUME BuildInv, pc = "outputs", config.width # 0, config.depth # 0
    PROVE  (ctr % config.width) + 1 \in DOMAIN flatMultLayers[config.depth]
  <1>1. /\ ctr \in Nat /\ config.width \in Nat /\ config.depth \in Nat
        /\ GetDepth \in Nat \ {0} /\ flatMultLayers \in Seq(Seq(Nat)) /\ Len(flatMultLayers) >= GetDepth
    BY OutputsFacts
  <1>2. config.depth > 0
    BY <1>1
  <1>3. /\ config.depth > 0 => GetDepth = config.depth
        /\ \A l \in 1 .. GetDepth : Len(flatMultLayers[l]) = config.width
    BY Zenon DEF BuildInv, OutputsInv
  <1>4. config.depth \in 1 .. GetDepth /\ config.depth \in 1 .. Len(flatMultLayers)
    BY <1>1, <1>2, <1>3
  <1>5. Len(flatMultLayers[config.depth]) = config.width
    BY <1>3, <1>4
  <1>6. DOMAIN flatMultLayers[config.depth] = 1 .. config.width
    BY <1>1, <1>4, <1>5
  <1>7. \A m \in Nat, n \in Nat \ {0} : (m % n) + 1 \in 1 .. n
    OBVIOUS
  <1>8. (ctr % config.width) + 1 \in 1 .. config.width
    BY <1>1, <1>7
  <1> QED
    BY <1>6, <1>8

LEMMA AddOutputBuild ==
    ASSUME BuildInv, AddOutput
    PROVE  BuildInv'
  <1>1. /\ pc = "outputs" /\ ctr < nOutputs
        /\ UNCHANGED config /\ nInputs' = nInputs /\ nOutputs' = nOutputs /\ Accepted' = Accepted
    BY SameConfig DEF AddOutput
  <1>2. IndInv /\ config \in Configs /\ Accepted /\ ctr \in Nat /\ OutputsInv
    BY <1>1, OutputsFacts
  <1>3. CASE config.width = 0 \/ config.depth = 0
    <2>1. /\ UNCHANGED vars
          /\ \/ pc' = "fpe" /\ config.width = 0
             \/ pc' = "oob" /\ config.depth = 0
      BY <1>3 DEF AddOutput, Goto
    <2>2. IndInv'
      BY <2>1, <1>2, SameCircuit
    <2>3. nOutputs > 0
      <3>1. ctr = 0
        BY <1>1, <1>2, <1>3, Zenon DEF OutputsInv
      <3> QED
        BY <3>1, <1>1
    <2>4. FaultsOnlyOnZero'
      BY <2>1, <2>3, <1>1 DEF FaultsOnlyOnZero
    <2>5. AcceptedInv' /\ InputsInv' /\ GrowthInv' /\ OutputsInv'
      BY <2>1 DEF AcceptedInv, InputsInv, GrowthInv, OutputsInv, Building
    <2> QED
      BY <2>2, <2>4, <2>5 DEF BuildInv
  <1>4. CASE config.width # 0 /\ config.depth # 0
    <2>1. (ctr % config.width) + 1 \in DOMAIN flatMultLayers[config.depth]
      BY <1>1, <1>4, OutputWireExists
    <2>2. /\ pc' = "outputs" /\ ctr' = ctr + 1
          /\ \E g : Output(OwnerOf(config.out_gates, ctr), g)
      BY <2>1, <1>4, Zenon DEF AddOutput, Goto
    <2>3. OwnerOf(config.out_gates, ctr) \in Clients
      BY <1>1, <1>2, AcceptedFacts, OwnerIsClient DEF nOutputs
    <2>4. PICK o \in Clients : \E x : Output(o, x)
      BY <2>2, <2>3
    <2>g. PICK g : Output(o, g)
      BY <2>4
    <2>5. IndInv'
      BY <2>g, <1>2, OutputInd
    <2>6. NewGate("output", o, g, Pad) /\ UNCHANGED <<multLayers, flatMultLayers, width>>
      BY <2>g DEF Output
    <2>7. \A kind : Count(kind) \in Nat /\ Count(kind)' = Count(kind) + (IF kind = "output" THEN 1 ELSE 0)
      BY <1>2, <2>6, GateCounts DEF IndInv
    <2>8. /\ Count("input")' = Count("input") /\ Count("mult")' = Count("mult")
          /\ Count("output")' = Count("output") + 1
      BY <2>7
    <2>9. GetDepth' = GetDepth
      BY <2>6 DEF GetDepth
    <2>10. OutputsInv'
      <3>1. Count("output")' = ctr'
        BY <2>2, <2>8, <1>1, <1>2 DEF OutputsInv
      <3> QED
        BY ONLY <3>1, <2>2, <2>6, <2>8, <2>9, <1>1, <1>2, <1>4 DEF OutputsInv
    <2>11. AcceptedInv'
      BY <2>2, <1>1, <1>2 DEF AcceptedInv
    <2>12. InputsInv' /\ GrowthInv' /\ FaultsOnlyOnZero'
      BY <2>2 DEF InputsInv, GrowthInv, FaultsOnlyOnZero
    <2> QED
      BY <2>5, <2>10, <2>11, <2>12 DEF BuildInv
  <1> QED
    BY <1>3, <1>4

LEMMA EndOutputsBuild ==
    ASSUME BuildInv, EndOutputs
    PROVE  BuildInv'
  <1>1. /\ pc = "outputs" /\ ctr = nOutputs /\ CloseOutputs /\ pc' = "built" /\ ctr' = 0
        /\ UNCHANGED config /\ nInputs' = nInputs /\ nOutputs' = nOutputs /\ Accepted' = Accepted
    BY SameConfig DEF EndOutputs, Goto
  <1>2. IndInv /\ config \in Configs /\ Accepted /\ ctr \in Nat /\ OutputsInv
    BY <1>1, OutputsFacts
  <1>3. IndInv'
    BY <1>1, <1>2, CloseOutputsInd
  <1>4. UNCHANGED <<gates, multLayers, flatMultLayers, width>> /\ isClosed'
    BY <1>1 DEF CloseOutputs
  <1>5. GetDepth' = GetDepth /\ \A kind : Count(kind)' = Count(kind)
    BY <1>4, SameCounts DEF GetDepth
  <1>6. OutputsInv'
    BY ONLY <1>1, <1>2, <1>4, <1>5 DEF OutputsInv
  <1>7. AcceptedInv'
    BY <1>1, <1>2 DEF AcceptedInv
  <1>8. InputsInv' /\ GrowthInv' /\ FaultsOnlyOnZero'
    BY <1>1 DEF InputsInv, GrowthInv, FaultsOnlyOnZero
  <1> QED
    BY <1>3, <1>6, <1>7, <1>8 DEF BuildInv

LEMMA PrepareBuild ==
    ASSUME BuildInv, Prepare
    PROVE  BuildInv'
  <1>1. /\ pc = "built" /\ UNCHANGED <<config, pc, ctr>> /\ nInputs' = nInputs /\ nOutputs' = nOutputs
        /\ Accepted' = Accepted /\ Next
    BY SameConfig DEF Prepare, Next
  <1>2. IndInv /\ config \in Configs /\ Accepted /\ ctr \in Nat /\ OutputsInv
    BY <1>1, OutputsFacts
  <1>3. IndInv'
    BY <1>1, <1>2, StepInd
  <1>4. UNCHANGED <<gates, multLayers, flatMultLayers, width, isClosed>>
    BY DEF Prepare, SetNetwork, GenCorrelator, FIPrepRecv, MapCorrToCircuit,
       PopulateIndvShrs, PopulateBatches, layout
  <1>5. GetDepth' = GetDepth /\ \A kind : Count(kind)' = Count(kind)
    BY <1>4, SameCounts DEF GetDepth
  <1>6. OutputsInv'
    BY ONLY <1>1, <1>2, <1>4, <1>5 DEF OutputsInv
  <1>7. AcceptedInv'
    BY <1>1, <1>2 DEF AcceptedInv
  <1>8. InputsInv' /\ GrowthInv' /\ FaultsOnlyOnZero'
    BY <1>1 DEF InputsInv, GrowthInv, FaultsOnlyOnZero
  <1> QED
    BY <1>3, <1>6, <1>7, <1>8 DEF BuildInv

LEMMA FreeCallBuild ==
    ASSUME BuildInv, FreeCall
    PROVE  BuildInv'
  <1>1. pc' = "free" /\ Next
    BY DEF FreeCall
  <1>2. IndInv'
    BY <1>1, StepInd DEF BuildInv
  <1> QED
    BY <1>1, <1>2 DEF BuildInv, AcceptedInv, InputsInv, GrowthInv, OutputsInv, FaultsOnlyOnZero, Building

LEMMA StutterBuild ==
    ASSUME BuildInv, UNCHANGED fvars
    PROVE  BuildInv'
  <1>1. UNCHANGED <<vars, config, pc, ctr>>
    BY DEF fvars
  <1>2. /\ IndInv' /\ UNCHANGED <<flatMultLayers, width>> /\ GetDepth' = GetDepth
        /\ isClosed' = isClosed /\ \A kind : Count(kind)' = Count(kind)
    BY <1>1, SameCircuit DEF BuildInv
  <1>3. nInputs' = nInputs /\ nOutputs' = nOutputs /\ Accepted' = Accepted
    BY <1>1, SameConfig
  <1>4. Done' = Done
    BY <1>1 DEF Done
  <1>5. AcceptedInv'
    BY <1>1, <1>3 DEF BuildInv, AcceptedInv
  <1>6. InputsInv'
    BY <1>1, <1>2 DEF BuildInv, InputsInv
  <1>7. GrowthInv'
    BY <1>1, <1>2, <1>3, <1>4 DEF BuildInv, GrowthInv
  <1>8. OutputsInv' /\ FaultsOnlyOnZero'
    BY <1>1, <1>2, <1>3 DEF BuildInv, OutputsInv, FaultsOnlyOnZero
  <1> QED
    BY <1>2, <1>5, <1>6, <1>7, <1>8 DEF BuildInv


LEMMA StepBuild == BuildInv /\ [FNext]_fvars => BuildInv'
  <1> SUFFICES ASSUME BuildInv, [FNext]_fvars PROVE BuildInv'
    OBVIOUS
  <1> QED
    BY ValidateBuild, AddInputBuild, EndInputsBuild, AddPairBuild, MultBuild, NextLayerBuild, EndLayersBuild,
       AddOutputBuild, EndOutputsBuild, PrepareBuild, FreeCallBuild, StutterBuild
       DEF FNext

\* The number of batches of a layer of n gates in order.
LEMMA BatchCount ==
    ASSUME NEW L \in Nat \ {0}, NEW n \in Nat,
           (L - 1) * mBatchSize <= n, n <= L * mBatchSize, L > 1 => n > (L - 1) * mBatchSize
    PROVE  L = Max({1, (n + mBatchSize - 1) \div mBatchSize})
  <1>1. mBatchSize \in Nat \ {0}
    OBVIOUS
  <1>2. \A q \in Nat, r \in 0 .. mBatchSize - 1 : (q * mBatchSize + r) \div mBatchSize = q
    BY <1>1
  <1>3. \A x \in Int : Max({1, x}) = IF x >= 1 THEN x ELSE 1
    BY DEF Max
  <1>4. CASE n = 0
    <2>1. L = 1
      BY <1>1, <1>4
    <2>2. n + mBatchSize - 1 = 0 * mBatchSize + (mBatchSize - 1) /\ mBatchSize - 1 \in 0 .. mBatchSize - 1
      BY <1>1, <1>4
    <2>3. (n + mBatchSize - 1) \div mBatchSize = 0
      BY <2>2, <1>2
    <2> QED
      BY <2>1, <2>3, <1>3
  <1>5. CASE n > 0
    <2> DEFINE r == n - 1 - (L - 1) * mBatchSize
    <2>1. (L - 1) * mBatchSize \in Nat /\ L * mBatchSize = (L - 1) * mBatchSize + mBatchSize
      BY <1>1, Products
    <2>2. n > (L - 1) * mBatchSize
      BY <1>1, <1>5, <2>1
    <2>3. r \in 0 .. mBatchSize - 1
      BY <1>1, <2>1, <2>2
    <2>4. n + mBatchSize - 1 = L * mBatchSize + r
      BY <1>1, <2>1
    <2> HIDE DEF r
    <2>5. (n + mBatchSize - 1) \div mBatchSize = L
      BY <1>2, <2>3, <2>4
    <2> QED
      BY <2>5, <1>3
  <1> QED
    BY <1>4, <1>5

LEMMA BuildImplies == BuildInv => FromConfigRight
  <1> SUFFICES ASSUME BuildInv PROVE FromConfigRight
    OBVIOUS
  <1>1. FaultsOnlyOnZero
    BY DEF BuildInv
  <1>2. ASSUME pc = "built"
        PROVE  /\ config.depth > 0 => GetDepth = config.depth /\ mSize = config.width * config.depth
               /\ Cardinality(OfKind("input")) = nInputs
               /\ Cardinality(OfKind("output")) = nOutputs
               /\ width = config.width
    <2>1. OutputsInv
      BY DEF BuildInv
    <2> QED
      BY <2>1, <1>2 DEF OutputsInv, Count, mSize
  <1>3. ASSUME pc = "built", NEW l \in 1 .. GetDepth
        PROVE  Len(multLayers[l]) = Max({1, (Len(flatMultLayers[l]) + mBatchSize - 1) \div mBatchSize})
    <2>1. InOrder(multLayers[l], flatMultLayers[l]) /\ Filled(multLayers[l], ToSet(flatMultLayers[l]))
      BY <1>3 DEF BuildInv, IndInv, MultInv
    <2>2. PICK L \in Nat \ {0} : L = Len(multLayers[l])
      BY <2>1 DEF Filled
    <2>3. PICK n \in Nat : n = Len(flatMultLayers[l])
      BY <2>1 DEF InOrder
    <2>4. (L - 1) * mBatchSize <= n /\ n <= L * mBatchSize /\ (L > 1 => n > (L - 1) * mBatchSize)
      BY <2>1, <2>2, <2>3 DEF InOrder
    <2>5. L = Max({1, (n + mBatchSize - 1) \div mBatchSize})
      BY <2>4, BatchCount
    <2> QED
      BY <2>2, <2>3, <2>5
  <1>4. ASSUME pc = "built"
        PROVE  \A layer \in AllLayers : \A batch \in ToSet(layer) : Len(batch) = mBatchSize
    <2>1. IndInv /\ isClosed
      BY <1>4 DEF BuildInv, OutputsInv
    <2> QED
      BY <2>1, AllFull
  <1>5. MetricsRight
    BY <1>2, <1>3, <1>4 DEF MetricsRight
  <1> QED
    BY <1>1, <1>5 DEF FromConfigRight

\* Circuit::FromConfig, for every configuration, number of clients and batch
\* size: it refuses, or builds a circuit of the metrics that were asked for
\* with no batch too many, or ends on a zero number of inputs, width or depth;
\* no pair of operands is looked up past the end of a layer (circuit.h).
THEOREM FromConfigCorrect == FSpec => []FromConfigRight
  BY InitBuild, StepBuild, BuildImplies, PTL DEF FSpec

\* The slots of the circuits FromConfig builds, and of those built call by
\* call, are right throughout.
THEOREM BuiltSlotsCorrect == FSpec => []SlotIsFlat
  <1>1. BuildInv => SlotIsFlat
    BY IndImplies DEF BuildInv
  <1> QED
    BY <1>1, InitBuild, StepBuild, PTL DEF FSpec
=============================================================================
