------------------------ MODULE InMemoryChannelProofs -----------------------
(***************************************************************************)
(* The in-memory channel keeps the stream in order, for every byte set and *)
(* every bound, and implements the byte stream.                            *)
(***************************************************************************)
EXTENDS InMemoryChannel, TLAPS

\* What SubSeq returns, once and for all.
LEMMA SubSeqFacts ==
    ASSUME NEW S, NEW s \in Seq(S), NEW a \in Nat, NEW b \in Nat,
           a >= 1, b <= Len(s), a <= b + 1
    PROVE  /\ SubSeq(s, a, b) \in Seq(S)
           /\ Len(SubSeq(s, a, b)) = b - a + 1
           /\ \A i \in 1 .. b - a + 1 : SubSeq(s, a, b)[i] = s[a + i - 1]
  OBVIOUS

LEMMA ConcatFacts ==
    ASSUME NEW S, NEW s \in Seq(S), NEW t \in Seq(S)
    PROVE  /\ s \o t \in Seq(S)
           /\ Len(s \o t) = Len(s) + Len(t)
           /\ \A i \in 1 .. Len(s) : (s \o t)[i] = s[i]
           /\ \A i \in 1 .. Len(t) : (s \o t)[Len(s) + i] = t[i]
  OBVIOUS

LEMMA AppendFacts ==
    ASSUME NEW S, NEW s \in Seq(S), NEW e \in S
    PROVE  /\ Append(s, e) \in Seq(S)
           /\ Len(Append(s, e)) = Len(s) + 1
           /\ \A i \in 1 .. Len(s) : Append(s, e)[i] = s[i]
           /\ Append(s, e)[Len(s) + 1] = e
  OBVIOUS

LEMMA TailFacts ==
    ASSUME NEW S, NEW s \in Seq(S), s # <<>>
    PROVE  /\ Head(s) \in S
           /\ Head(s) = s[1]
           /\ Len(s) >= 1
           /\ Tail(s) \in Seq(S)
           /\ Len(Tail(s)) = Len(s) - 1
           /\ \A i \in 1 .. Len(s) - 1 : Tail(s)[i] = s[i + 1]
  OBVIOUS

LEMMA EmptyFacts ==
    ASSUME NEW S, NEW s \in Seq(S)
    PROVE  Len(s) \in Nat /\ (Len(s) = 0 <=> s = <<>>)
  OBVIOUS

LEMMA PacketsType == Packets \subseteq Seq(Byte)
  BY BoundsAssumption DEF Packets

-----------------------------------------------------------------------------

\* The channel starts empty, at the start of the stream.
LEMMA InitInd == Init => IndInv
  BY DEF Init, IndInv, TypeOK, Ops, PacketsAdjacent, PacketsIntact, NoGap,
         FlushOrder, IdleClean, Reached, RecvInOrder, LeftoversInOrder,
         LeftoversOnlyWhenDone, FlushNeverWaits, rem

\* A Send puts its packet where the stream ends, whatever the receiver does.
LEMMA SendInd ==
    ASSUME IndInv, NEW p \in Packets, Send(p)
    PROVE  IndInv'
  <1>p. p \in Seq(Byte)
    BY PacketsType
  <1>u. /\ mIn' = Append(mIn, p) /\ sent' = sent \o p /\ pos' = Append(pos, Len(sent))
        /\ UNCHANGED <<mOverflow, op, n, dst, taken, result>>
    BY DEF Send
  <1>t. TypeOK
    BY DEF IndInv
  <1>a. /\ Len(mIn') = Len(mIn) + 1
        /\ \A i \in 1 .. Len(mIn) : mIn'[i] = mIn[i]
        /\ mIn'[Len(mIn) + 1] = p
        /\ mIn' \in Seq(Seq(Byte))
    <2>1. mIn \in Seq(Seq(Byte)) /\ mIn' = Append(mIn, p)
      BY <1>t, <1>u DEF TypeOK
    <2> QED
      BY <2>1, <1>p, AppendFacts
  <1>b. /\ Len(pos') = Len(pos) + 1
        /\ \A i \in 1 .. Len(pos) : pos'[i] = pos[i]
        /\ pos'[Len(pos) + 1] = Len(sent)
        /\ pos' \in Seq(Nat)
    <2>1. pos \in Seq(Nat) /\ pos' = Append(pos, Len(sent)) /\ Len(sent) \in Nat
      BY <1>t, <1>u DEF TypeOK
    <2> QED
      BY <2>1, AppendFacts
  <1>c. /\ Len(sent') = Len(sent) + Len(p)
        /\ \A i \in 1 .. Len(sent) : sent'[i] = sent[i]
        /\ \A i \in 1 .. Len(p) : sent'[Len(sent) + i] = p[i]
        /\ sent' \in Seq(Byte)
    <2>1. sent \in Seq(Byte) /\ sent' = sent \o p
      BY <1>t, <1>u DEF TypeOK
    <2> QED
      BY <2>1, <1>p, ConcatFacts
  <1>n. Len(p) \in Nat /\ Len(sent) \in Nat /\ Len(mIn) \in Nat /\ Len(pos) = Len(mIn)
    BY <1>p, <1>t DEF TypeOK, IndInv, PacketsAdjacent
  <1>e. mIn' # <<>>
    <2>1. Len(mIn') # 0
      BY <1>a, <1>n
    <2> QED
      BY <2>1
  <1>1. TypeOK'
    BY <1>t, <1>u, <1>a, <1>b, <1>c DEF TypeOK, rem
  <1>2. PacketsAdjacent'
    <2>1. \A i \in 1 .. Len(mIn') :
             pos'[i] + Len(mIn'[i]) = IF i = Len(mIn') THEN Len(sent') ELSE pos'[i + 1]
      <3> SUFFICES ASSUME NEW i \in 1 .. Len(mIn')
                   PROVE  pos'[i] + Len(mIn'[i])
                            = IF i = Len(mIn') THEN Len(sent') ELSE pos'[i + 1]
        OBVIOUS
      <3>1. CASE i = Len(mIn) + 1
        BY <3>1, <1>a, <1>b, <1>c, <1>n
      <3>2. CASE i = Len(mIn)
        <4>1. pos[i] + Len(mIn[i]) = Len(sent)
          BY <3>2, <1>a, <1>n DEF IndInv, PacketsAdjacent
        <4>2. pos'[i] = pos[i] /\ mIn'[i] = mIn[i] /\ pos'[i + 1] = Len(sent)
          BY <3>2, <1>a, <1>b, <1>n
        <4> QED
          BY <3>2, <4>1, <4>2, <1>a, <1>n
      <3>3. CASE i \in 1 .. Len(mIn) - 1
        <4>1. pos[i] + Len(mIn[i]) = pos[i + 1]
          BY <3>3, <1>n DEF IndInv, PacketsAdjacent
        <4>2. pos'[i] = pos[i] /\ mIn'[i] = mIn[i] /\ pos'[i + 1] = pos[i + 1]
          <5>1. i \in 1 .. Len(mIn) /\ i + 1 \in 1 .. Len(mIn)
            BY <3>3, <1>n
          <5> QED
            BY <5>1, <1>a, <1>b, <1>n
        <4> QED
          BY <3>3, <4>1, <4>2, <1>a, <1>n
      <3> QED
        BY <3>1, <3>2, <3>3, <1>a, <1>n
    <2>2. ASSUME NEW i \in 1 .. Len(mIn')
          PROVE  pos'[i] <= Len(sent')
      <3>1. CASE i = Len(mIn) + 1
        BY <3>1, <1>b, <1>c, <1>n
      <3>2. CASE i \in 1 .. Len(mIn)
        <4>1. pos[i] <= Len(sent) /\ pos'[i] = pos[i] /\ pos[i] \in Nat
          <5>1. pos[i] <= Len(sent)
            BY <3>2 DEF IndInv, PacketsAdjacent
          <5>2. pos'[i] = pos[i] /\ i \in 1 .. Len(pos)
            BY <3>2, <1>b, <1>n
          <5>3. pos[i] \in Nat
            BY <5>2, <1>t DEF TypeOK
          <5> QED
            BY <5>1, <5>2, <5>3
        <4> QED
          BY <4>1, <1>c, <1>n
      <3> QED
        BY <3>1, <3>2, <1>a, <1>n
    <2> QED
      BY <2>1, <2>2, <1>a, <1>b, <1>n DEF PacketsAdjacent
  <1>3. PacketsIntact'
    <2> SUFFICES ASSUME NEW i \in 1 .. Len(mIn'), NEW j \in 1 .. Len(mIn'[i])
                 PROVE  /\ pos'[i] + j \in 1 .. Len(sent')
                        /\ mIn'[i][j] = sent'[pos'[i] + j]
      BY DEF PacketsIntact
    <2>1. CASE i = Len(mIn) + 1
      <3>1. mIn'[i] = p /\ pos'[i] = Len(sent)
        BY <2>1, <1>a, <1>b, <1>n
      <3>2. j \in 1 .. Len(p)
        BY <3>1
      <3>3. sent'[Len(sent) + j] = p[j] /\ Len(sent) + j \in 1 .. Len(sent')
        BY <3>2, <1>c, <1>n
      <3> QED
        BY <3>1, <3>3
    <2>2. CASE i \in 1 .. Len(mIn)
      <3>1. i \in 1 .. Len(mIn) /\ j \in 1 .. Len(mIn[i])
        BY <2>2, <1>a, <1>n
      <3>2. pos[i] + j \in 1 .. Len(sent) /\ mIn[i][j] = sent[pos[i] + j]
        BY <3>1 DEF IndInv, PacketsIntact
      <3>3. mIn'[i] = mIn[i] /\ pos'[i] = pos[i]
        BY <3>1, <1>a, <1>b, <1>n
      <3>4. Len(sent') >= Len(sent) /\ sent'[pos[i] + j] = sent[pos[i] + j]
        BY <3>2, <1>c, <1>n
      <3>5. pos[i] + j \in 1 .. Len(sent')
        BY <3>2, <3>4, <1>c, <1>n
      <3> QED
        BY <3>2, <3>3, <3>4, <3>5
    <2> QED
      BY <2>1, <2>2, <1>a, <1>n
  <1>4. NoGap'
    <2>1. CASE mIn = <<>>
      <3>1. Len(mIn) = 0 /\ mIn' # <<>> /\ pos'[1] = Len(sent)
        BY <2>1, <1>a, <1>b, <1>n
      <3> QED
        BY <2>1, <3>1, <1>u DEF IndInv, NoGap, Reached
    <2>2. CASE mIn # <<>>
      <3>1. Len(mIn) >= 1
        BY <2>2, <1>t, EmptyFacts DEF TypeOK
      <3>2. pos'[1] = pos[1]
        BY <3>1, <1>b, <1>n
      <3> QED
        BY <2>2, <3>2, <1>e, <1>u DEF IndInv, NoGap, Reached
    <2> QED
      BY <2>1, <2>2
  <1>5. FlushOrder' /\ IdleClean'
    BY <1>c, <1>n, <1>t, <1>u DEF IndInv, FlushOrder, IdleClean, Reached, TypeOK
  <1>6. RecvInOrder'
    BY <1>c, <1>n, <1>u DEF IndInv, RecvInOrder
  <1>8. LeftoversInOrder'
    BY <1>c, <1>n, <1>u DEF IndInv, LeftoversInOrder
  <1>7. LeftoversOnlyWhenDone' /\ FlushNeverWaits'
    BY <1>e, <1>u DEF IndInv, LeftoversOnlyWhenDone, FlushNeverWaits, rem
  <1> QED
    BY <1>1, <1>2, <1>3, <1>4, <1>5, <1>6, <1>7, <1>8 DEF IndInv

\* A Recv that starts takes a prefix of the leftovers.
LEMMA RecvCallInd ==
    ASSUME IndInv, NEW k \in 0 .. MaxRecv, RecvCall(k)
    PROVE  IndInv'
  <1> DEFINE c == Least(Len(mOverflow), k)
  <1>t. TypeOK /\ op = "idle" /\ k \in Nat
    BY BoundsAssumption DEF IndInv, RecvCall
  <1>d. Len(dst) = 0
    BY <1>t DEF IndInv, IdleClean
  <1>n. taken \in Nat /\ Len(sent) \in Nat
    BY <1>t DEF TypeOK
  <1>c. c \in Nat /\ c <= k /\ c <= Len(mOverflow) /\ (c < k => c = Len(mOverflow))
    BY <1>t DEF Least, TypeOK
  <1>o. Len(mOverflow) \in Nat
    BY <1>t DEF TypeOK
  <1>u. /\ dst' = SubSeq(mOverflow, 1, c)
        /\ mOverflow' = SubSeq(mOverflow, c + 1, Len(mOverflow))
        /\ op' = "recv" /\ n' = k
        /\ UNCHANGED <<mIn, sent, pos, taken, result>>
    BY DEF RecvCall
  <1>a. /\ dst' \in Seq(Byte) /\ Len(dst') = c
        /\ \A i \in 1 .. c : dst'[i] = mOverflow[i]
    <2>1. mOverflow \in Seq(Byte) /\ c \in Nat /\ c <= Len(mOverflow) /\ dst' = SubSeq(mOverflow, 1, c)
      BY <1>c, <1>t, <1>u DEF TypeOK
    <2> HIDE DEF c
    <2>2. /\ dst' \in Seq(Byte) /\ Len(dst') = c - 1 + 1
          /\ \A i \in 1 .. c - 1 + 1 : dst'[i] = mOverflow[1 + i - 1]
      BY ONLY <2>1, SubSeqFacts
    <2>3. c - 1 + 1 = c
      BY ONLY <2>1
    <2>4. \A i \in 1 .. c : 1 + i - 1 = i
      BY ONLY <2>1
    <2> QED
      BY ONLY <2>2, <2>3, <2>4
  <1>b. /\ mOverflow' \in Seq(Byte) /\ Len(mOverflow') = Len(mOverflow) - c
        /\ \A i \in 1 .. Len(mOverflow) - c : mOverflow'[i] = mOverflow[c + i]
    <2>1. mOverflow \in Seq(Byte) /\ c \in Nat /\ c <= Len(mOverflow) /\ Len(mOverflow) \in Nat
      BY <1>c, <1>o, <1>t DEF TypeOK
    <2>2. mOverflow' = SubSeq(mOverflow, c + 1, Len(mOverflow))
      BY <1>u
    <2>3. c + 1 \in Nat /\ c + 1 >= 1 /\ c + 1 <= Len(mOverflow) + 1
      BY ONLY <2>1
    <2>4. /\ mOverflow' \in Seq(Byte) /\ Len(mOverflow') = Len(mOverflow) - (c + 1) + 1
          /\ \A i \in 1 .. Len(mOverflow) - (c + 1) + 1 : mOverflow'[i] = mOverflow[(c + 1) + i - 1]
      BY ONLY <2>1, <2>2, <2>3, SubSeqFacts
    <2>5. Len(mOverflow) - (c + 1) + 1 = Len(mOverflow) - c
      BY ONLY <2>1
    <2>6. ASSUME NEW i \in 1 .. Len(mOverflow) - c PROVE mOverflow'[i] = mOverflow[c + i]
      <3>1. (c + 1) + i - 1 = c + i
        BY ONLY <2>1
      <3> QED
        BY ONLY <2>4, <2>5, <3>1, i \in 1 .. Len(mOverflow) - c
    <2> QED
      BY ONLY <2>4, <2>5, <2>6
  <1> HIDE DEF c
  <1>1. TypeOK'
    <2>1. rem' \in Nat
      BY <1>t, <1>u, <1>a, <1>c DEF rem
    <2> QED
      BY <2>1, <1>t, <1>u, <1>a, <1>b DEF TypeOK, Ops
  <1>2. PacketsAdjacent' /\ PacketsIntact'
    BY <1>u DEF IndInv, PacketsAdjacent, PacketsIntact
  <1>3. NoGap'
    <2>1. /\ taken' = taken
          /\ Len(dst') = c
          /\ Len(mOverflow') = Len(mOverflow) - c
      BY <1>u, <1>a, <1>b
    <2>2. taken' + Len(dst') + Len(mOverflow') = taken + Len(dst) + Len(mOverflow)
      BY <2>1, <1>c, <1>o, <1>d, <1>n
    <2>3. Reached' = Reached
      BY <2>2 DEF Reached
    <2> QED
      BY <2>3, <1>u, <1>t DEF IndInv, NoGap
  <1>4. FlushOrder' /\ IdleClean' /\ FlushNeverWaits'
    BY <1>u DEF FlushOrder, IdleClean, FlushNeverWaits
  <1>5. RecvInOrder'
    <2>1. Len(dst') <= n'
      BY <1>u, <1>a, <1>c
    <2>2. ASSUME NEW j \in 1 .. Len(dst')
          PROVE  taken + j \in 1 .. Len(sent) /\ dst'[j] = sent[taken + j]
      <3>1. j \in 1 .. Len(mOverflow) /\ dst'[j] = mOverflow[j]
        BY <1>a, <1>c, <1>o
      <3>2. taken + Len(dst) + j = taken + j
        BY <1>d, <1>n
      <3> QED
        BY <3>1, <3>2 DEF IndInv, LeftoversInOrder
    <2> QED
      BY <2>1, <2>2, <1>u DEF RecvInOrder
  <1>6. LeftoversInOrder'
    <2>1. ASSUME NEW j \in 1 .. Len(mOverflow')
          PROVE  /\ taken + Len(dst') + j \in 1 .. Len(sent)
                 /\ mOverflow'[j] = sent[taken + Len(dst') + j]
      <3>1. c + j \in 1 .. Len(mOverflow) /\ mOverflow'[j] = mOverflow[c + j]
        BY <1>b, <1>c, <1>o
      <3>2. taken + Len(dst') + j = taken + Len(dst) + (c + j)
        BY <1>a, <1>c, <1>d, <1>n
      <3> QED
        BY <3>1, <3>2 DEF IndInv, LeftoversInOrder
    <2> QED
      BY <2>1, <1>u DEF LeftoversInOrder
  <1>7. LeftoversOnlyWhenDone'
    <2>1. rem' > 0 => Len(mOverflow') = 0
      BY <1>u, <1>t, <1>a, <1>b, <1>c, <1>o DEF rem
    <2> QED
      BY <2>1, <1>b, EmptyFacts DEF LeftoversOnlyWhenDone
  <1> QED
    BY <1>1, <1>2, <1>3, <1>4, <1>5, <1>6, <1>7 DEF IndInv

\* What popping a packet does to the queue, in Recv and in Flush.
Popped ==
    /\ mIn # <<>>
    /\ mIn' = Tail(mIn)
    /\ pos' = Tail(pos)
    /\ sent' = sent

\* Popping the first packet keeps the rest of the queue adjacent and intact.
LEMMA PopQueue ==
    ASSUME IndInv, Popped
    PROVE  /\ PacketsAdjacent' /\ PacketsIntact'
           /\ mIn' \in Seq(Seq(Byte)) /\ pos' \in Seq(Nat)
           /\ Head(mIn) \in Seq(Byte) /\ pos[1] \in Nat
           /\ pos[1] + Len(Head(mIn)) = IF mIn' = <<>> THEN Len(sent) ELSE pos'[1]
           /\ \A j \in 1 .. Len(Head(mIn)) :
                 /\ pos[1] + j \in 1 .. Len(sent)
                 /\ Head(mIn)[j] = sent[pos[1] + j]
  <1>t. TypeOK
    BY DEF IndInv
  <1>l. Len(mIn) \in Nat /\ Len(mIn) >= 1 /\ Len(pos) = Len(mIn) /\ pos # <<>>
    BY <1>t, EmptyFacts DEF TypeOK, IndInv, PacketsAdjacent, Popped
  <1>s. sent' = sent
    BY DEF Popped
  <1>a. /\ mIn' \in Seq(Seq(Byte)) /\ Len(mIn') = Len(mIn) - 1
        /\ \A i \in 1 .. Len(mIn) - 1 : mIn'[i] = mIn[i + 1]
        /\ Head(mIn) = mIn[1] /\ Head(mIn) \in Seq(Byte)
    BY <1>t, TailFacts DEF TypeOK, Popped
  <1>b. /\ pos' \in Seq(Nat) /\ Len(pos') = Len(pos) - 1
        /\ \A i \in 1 .. Len(pos) - 1 : pos'[i] = pos[i + 1]
        /\ pos[1] \in Nat
    BY <1>t, <1>l, TailFacts DEF TypeOK, Popped
  <1>e. mIn' = <<>> <=> Len(mIn) = 1
    <2>1. mIn' = <<>> <=> Len(mIn') = 0
      BY <1>a, EmptyFacts
    <2> QED
      BY <2>1, <1>a, <1>l
  <1>j. \A i \in 1 .. Len(mIn) :
           pos[i] + Len(mIn[i]) = IF i = Len(mIn) THEN Len(sent) ELSE pos[i + 1]
    BY DEF IndInv, PacketsAdjacent
  <1>k. \A i \in 1 .. Len(mIn) : \A j \in 1 .. Len(mIn[i]) :
           pos[i] + j \in 1 .. Len(sent) /\ mIn[i][j] = sent[pos[i] + j]
    BY DEF IndInv, PacketsIntact
  <1>1. PacketsAdjacent'
    <2>1. ASSUME NEW i \in 1 .. Len(mIn')
          PROVE  pos'[i] + Len(mIn'[i])
                   = IF i = Len(mIn') THEN Len(sent) ELSE pos'[i + 1]
      <3>1. i + 1 \in 1 .. Len(mIn) /\ i \in 1 .. Len(mIn) - 1
        BY <1>a, <1>l
      <3>2. mIn'[i] = mIn[i + 1] /\ pos'[i] = pos[i + 1]
        BY <3>1, <1>a, <1>b, <1>l
      <3>3. pos[i + 1] + Len(mIn[i + 1])
              = IF i + 1 = Len(mIn) THEN Len(sent) ELSE pos[(i + 1) + 1]
        BY <3>1, <1>j
      <3>4. CASE i = Len(mIn')
        <4>1. i + 1 = Len(mIn)
          BY <3>4, <1>a, <1>l
        <4> QED
          BY <3>2, <3>3, <3>4, <4>1
      <3>5. CASE i < Len(mIn')
        <4>1. i + 1 # Len(mIn) /\ i + 1 \in 1 .. Len(pos) - 1
          <5>1. Len(mIn') = Len(mIn) - 1 /\ Len(pos) = Len(mIn) /\ Len(mIn) \in Nat
            BY <1>a, <1>l
          <5> QED
            BY <5>1, <3>5, <3>1
        <4>2. pos'[i + 1] = pos[(i + 1) + 1]
          BY <4>1, <1>b
        <4> QED
          BY <3>2, <3>3, <3>5, <4>1, <4>2
      <3>6. i = Len(mIn') \/ i < Len(mIn')
        BY <1>a, <1>l
      <3> QED
        BY <3>4, <3>5, <3>6
    <2>2. ASSUME NEW i \in 1 .. Len(mIn')
          PROVE  pos'[i] <= Len(sent)
      <3>1. i + 1 \in 1 .. Len(mIn) /\ i \in 1 .. Len(pos) - 1
        BY <1>a, <1>l
      <3> QED
        BY <3>1, <1>b DEF IndInv, PacketsAdjacent
    <2> QED
      BY <2>1, <2>2, <1>a, <1>b, <1>l, <1>s DEF PacketsAdjacent
  <1>2. PacketsIntact'
    <2>1. ASSUME NEW i \in 1 .. Len(mIn'), NEW j \in 1 .. Len(mIn'[i])
          PROVE  pos'[i] + j \in 1 .. Len(sent) /\ mIn'[i][j] = sent[pos'[i] + j]
      <3>1. i + 1 \in 1 .. Len(mIn) /\ i \in 1 .. Len(mIn) - 1
        BY <1>a, <1>l
      <3>2. mIn'[i] = mIn[i + 1] /\ pos'[i] = pos[i + 1]
        BY <3>1, <1>a, <1>b, <1>l
      <3> QED
        BY <3>1, <3>2, <1>k
    <2> QED
      BY <2>1, <1>s DEF PacketsIntact
  <1>3. pos[1] + Len(Head(mIn)) = IF mIn' = <<>> THEN Len(sent) ELSE pos'[1]
    <2>1. CASE Len(mIn) = 1
      BY <2>1, <1>a, <1>l, <1>e, <1>j
    <2>2. CASE Len(mIn) # 1
      <3>1. 1 \in 1 .. Len(mIn) /\ 1 # Len(mIn) /\ 1 \in 1 .. Len(pos) - 1
        BY <2>2, <1>l
      <3>2. pos[1] + Len(mIn[1]) = pos[1 + 1]
        BY <3>1, <1>j
      <3>3. pos'[1] = pos[1 + 1]
        BY <3>1, <1>b
      <3> QED
        BY <2>2, <3>2, <3>3, <1>a, <1>e
    <2> QED
      BY <2>1, <2>2
  <1>4. \A j \in 1 .. Len(Head(mIn)) : pos[1] + j \in 1 .. Len(sent)
                                    /\ Head(mIn)[j] = sent[pos[1] + j]
    BY <1>a, <1>l DEF IndInv, PacketsIntact
  <1> QED
    BY <1>a, <1>b, <1>1, <1>2, <1>3, <1>4

\* One round of Recv's loop takes a prefix of the first packet.
LEMMA RecvPopInd ==
    ASSUME IndInv, RecvPop
    PROVE  IndInv'
  <1> DEFINE data == Head(mIn)
             c == Least(Len(data), rem)
  <1>t. TypeOK /\ op = "recv" /\ rem > 0 /\ mIn # <<>>
    BY DEF IndInv, RecvPop
  <1>q. Popped /\ sent' = sent
    BY DEF RecvPop, Popped
  <1>o. mOverflow = <<>>
    BY <1>t DEF IndInv, LeftoversOnlyWhenDone
  <1>p. data \in Seq(Byte) /\ Len(data) \in Nat
    BY <1>t, <1>q, PopQueue
  <1>n. n \in Nat /\ Len(dst) \in Nat /\ taken \in Nat /\ Len(sent) \in Nat
    BY <1>t DEF TypeOK
  <1>g. taken + Len(dst) = pos[1]
    BY <1>t, <1>o, <1>n DEF IndInv, NoGap, Reached
  <1>c. c \in Nat /\ c <= Len(data) /\ Len(dst) + c <= n /\ (Len(dst) + c < n => c = Len(data))
    BY <1>t, <1>p, <1>n DEF Least, rem
  <1>u. /\ dst' = dst \o SubSeq(data, 1, c)
        /\ mOverflow' = mOverflow \o SubSeq(data, c + 1, Len(data))
        /\ op' = "recv" /\ n' = n
        /\ UNCHANGED <<taken, result>>
    BY <1>t DEF RecvPop
  <1> HIDE DEF c
  <1>f. /\ SubSeq(data, 1, c) \in Seq(Byte) /\ Len(SubSeq(data, 1, c)) = c
        /\ \A i \in 1 .. c : SubSeq(data, 1, c)[i] = data[i]
    BY <1>p, <1>c, SubSeqFacts
  <1>a. /\ dst' \in Seq(Byte) /\ Len(dst') = Len(dst) + c
        /\ \A i \in 1 .. Len(dst) : dst'[i] = dst[i]
        /\ \A i \in 1 .. c : dst'[Len(dst) + i] = data[i]
    <2> DEFINE q == SubSeq(data, 1, c)
    <2>1. dst \in Seq(Byte)
      BY <1>t DEF TypeOK
    <2>2. q \in Seq(Byte)
      BY <1>f
    <2>5. Len(q) = c /\ \A i \in 1 .. c : q[i] = data[i]
      BY <1>f
    <2>3. dst' = dst \o q
      BY <1>u
    <2> HIDE DEF q
    <2>4. /\ dst' \in Seq(Byte) /\ Len(dst') = Len(dst) + Len(q)
          /\ \A i \in 1 .. Len(dst) : dst'[i] = dst[i]
          /\ \A i \in 1 .. Len(q) : dst'[Len(dst) + i] = q[i]
      BY <2>1, <2>2, <2>3, ConcatFacts
    <2> QED
      BY <2>5, <2>4
  <1>r. /\ SubSeq(data, c + 1, Len(data)) \in Seq(Byte)
        /\ Len(SubSeq(data, c + 1, Len(data))) = Len(data) - c
        /\ \A i \in 1 .. Len(data) - c : SubSeq(data, c + 1, Len(data))[i] = data[c + i]
    BY <1>p, <1>c, SubSeqFacts
  <1>b. /\ mOverflow' \in Seq(Byte) /\ Len(mOverflow') = Len(data) - c
        /\ \A i \in 1 .. Len(data) - c : mOverflow'[i] = data[c + i]
    <2> DEFINE q == SubSeq(data, c + 1, Len(data))
    <2>1. mOverflow' = q
      <3>1. mOverflow' = <<>> \o q /\ q \in Seq(Byte)
        BY <1>u, <1>o, <1>r
      <3> HIDE DEF q
      <3> QED
        BY <3>1
    <2> QED
      BY <2>1, <1>r
  <1>h. /\ pos[1] + Len(data) = IF mIn' = <<>> THEN Len(sent) ELSE pos'[1]
        /\ \A j \in 1 .. Len(data) : /\ pos[1] + j \in 1 .. Len(sent)
                                     /\ data[j] = sent[pos[1] + j]
    BY <1>t, <1>q, PopQueue
  <1>i. \A j \in 1 .. Len(dst) : taken + j \in 1 .. Len(sent) /\ dst[j] = sent[taken + j]
    BY DEF IndInv, RecvInOrder
  <1>1. PacketsAdjacent' /\ PacketsIntact' /\ mIn' \in Seq(Seq(Byte)) /\ pos' \in Seq(Nat)
    BY <1>t, <1>q, PopQueue
  <1> HIDE DEF data
  <1>2. TypeOK'
    <2>1. rem' \in Nat
      BY <1>u, <1>a, <1>c, <1>n DEF rem
    <2> QED
      BY <2>1, <1>1, <1>a, <1>b, <1>u, <1>q, <1>t DEF TypeOK
  <1>3. NoGap'
    <2>1. Reached' = pos[1] + Len(data)
      <3>1. /\ taken' = taken /\ Len(dst') = Len(dst) + c
            /\ Len(mOverflow') = Len(data) - c
        BY <1>a, <1>b, <1>u
      <3>2. taken' + Len(dst') + Len(mOverflow') = (taken + Len(dst)) + Len(data)
        BY <3>1, <1>c, <1>n, <1>p
      <3> QED
        BY <3>2, <1>g DEF Reached
    <2> QED
      BY <2>1, <1>h, <1>q DEF NoGap
  <1>4. FlushOrder' /\ IdleClean' /\ FlushNeverWaits'
    BY <1>u DEF FlushOrder, IdleClean, FlushNeverWaits
  <1>5. RecvInOrder'
    <2>1. Len(dst') <= n'
      BY <1>a, <1>c, <1>u
    <2>2. ASSUME NEW j \in 1 .. Len(dst')
          PROVE  taken + j \in 1 .. Len(sent) /\ dst'[j] = sent[taken + j]
      <3>1. CASE j <= Len(dst)
        BY <3>1, <1>i, <1>a, <1>c, <1>n
      <3>2. CASE j > Len(dst)
        <4>1. PICK m \in 1 .. c : j = Len(dst) + m
          <5>1. j - Len(dst) \in 1 .. c /\ j = Len(dst) + (j - Len(dst))
            BY <3>2, <1>a, <1>c, <1>n
          <5> QED
            BY <5>1
        <4>2. dst'[j] = data[m] /\ m \in 1 .. Len(data)
          BY <4>1, <1>a, <1>c, <1>p
        <4>3. pos[1] + m = taken + j
          BY <4>1, <1>g, <1>n, <1>c
        <4> QED
          BY <4>2, <4>3, <1>h
      <3> QED
        BY <3>1, <3>2, <1>a, <1>c, <1>n
    <2> QED
      BY <2>1, <2>2, <1>u, <1>q DEF RecvInOrder
  <1>6. LeftoversInOrder'
    <2>1. ASSUME NEW j \in 1 .. Len(mOverflow')
          PROVE  /\ taken + Len(dst') + j \in 1 .. Len(sent)
                 /\ mOverflow'[j] = sent[taken + Len(dst') + j]
      <3>1. c + j \in 1 .. Len(data) /\ mOverflow'[j] = data[c + j]
        BY <1>b, <1>c, <1>p
      <3>2. taken + Len(dst') + j = pos[1] + (c + j)
        BY <1>a, <1>c, <1>g, <1>n
      <3> QED
        BY <3>1, <3>2, <1>h
    <2> QED
      BY <2>1, <1>u, <1>q DEF LeftoversInOrder
  <1>7. LeftoversOnlyWhenDone'
    <2>1. rem' > 0 => Len(mOverflow') = 0
      BY <1>u, <1>a, <1>b, <1>c, <1>n, <1>p DEF rem
    <2> QED
      BY <2>1, <1>b, EmptyFacts DEF LeftoversOnlyWhenDone
  <1> QED
    BY <1>1, <1>2, <1>3, <1>4, <1>5, <1>6, <1>7 DEF IndInv

\* A Recv that returns moves the receiver's place past what it copied.
LEMMA RecvReturnInd ==
    ASSUME IndInv, RecvReturn
    PROVE  IndInv'
  <1>t. TypeOK /\ op = "recv" /\ rem = 0
    BY DEF IndInv, RecvReturn
  <1>n. n \in Nat /\ Len(dst) \in Nat /\ taken \in Nat /\ Len(mOverflow) \in Nat
    BY <1>t DEF TypeOK
  <1>l. Len(dst) = n
    BY <1>t, <1>n DEF rem
  <1>u. /\ op' = "idle" /\ n' = 0 /\ dst' = <<>> /\ result' = dst /\ taken' = taken + n
        /\ UNCHANGED <<mIn, mOverflow, sent, pos>>
    BY DEF RecvReturn
  <1>d. Len(dst') = 0
    BY <1>u
  <1>r. taken' + Len(dst') = taken + Len(dst)
    BY <1>u, <1>d, <1>n, <1>l
  <1>1. TypeOK'
    <2>1. rem' \in Nat
      BY <1>u, <1>d DEF rem
    <2> QED
      BY <2>1, <1>t, <1>u, <1>n DEF TypeOK, Ops
  <1>2. PacketsAdjacent' /\ PacketsIntact'
    BY <1>u DEF IndInv, PacketsAdjacent, PacketsIntact
  <1>3. NoGap'
    <2>1. Reached' = Reached
      BY <1>r, <1>u DEF Reached
    <2> QED
      BY <2>1, <1>t, <1>u DEF IndInv, NoGap
  <1>4. FlushOrder' /\ IdleClean' /\ FlushNeverWaits' /\ LeftoversOnlyWhenDone'
    BY <1>u DEF FlushOrder, IdleClean, FlushNeverWaits, LeftoversOnlyWhenDone
  <1>5. RecvInOrder'
    BY <1>u, <1>d DEF RecvInOrder
  <1>6. LeftoversInOrder'
    BY <1>r, <1>u DEF IndInv, LeftoversInOrder
  <1> QED
    BY <1>1, <1>2, <1>3, <1>4, <1>5, <1>6 DEF IndInv

\* The first queued packet starts inside the stream.
LEMMA FirstPacketInside ==
    ASSUME IndInv, mIn # <<>>
    PROVE  pos[1] <= Len(sent)
  <1>1. Len(mIn) \in Nat /\ Len(mIn) >= 1
    BY EmptyFacts DEF IndInv, TypeOK
  <1> QED
    BY <1>1 DEF IndInv, PacketsAdjacent

\* The steps of Flush that move no byte.
LEMMA FlushMovesInd ==
    ASSUME IndInv, FlushCall \/ FlushSize
    PROVE  IndInv'
  <1>u. /\ op' \in {"flush", "drain"}
        /\ op \in {"idle", "flush"}
        /\ op' = "drain" => mIn # <<>>
        /\ UNCHANGED <<mIn, mOverflow, n, dst, sent, pos, taken, result>>
    BY DEF FlushCall, FlushSize
  <1>t. TypeOK
    BY DEF IndInv
  <1>1. TypeOK'
    BY <1>t, <1>u DEF TypeOK, Ops, rem
  <1>2. PacketsAdjacent' /\ PacketsIntact' /\ NoGap' /\ RecvInOrder' /\ LeftoversInOrder'
    BY <1>u DEF IndInv, PacketsAdjacent, PacketsIntact, NoGap, RecvInOrder, LeftoversInOrder
  <1>3. FlushOrder'
    <2>1. Reached <= Len(sent)
      <3>1. CASE op = "flush"
        BY <3>1 DEF IndInv, FlushOrder
      <3>2. CASE op = "idle" /\ mIn = <<>>
        BY <3>2, <1>t DEF IndInv, NoGap, TypeOK
      <3>3. CASE op = "idle" /\ mIn # <<>>
        <4>1. Reached = pos[1]
          BY <3>3 DEF IndInv, NoGap
        <4> QED
          BY <4>1, <3>3, FirstPacketInside
      <3> QED
        BY <3>1, <3>2, <3>3, <1>u
    <2> QED
      BY <2>1, <1>u DEF FlushOrder, Reached
  <1>4. IdleClean' /\ FlushNeverWaits' /\ LeftoversOnlyWhenDone'
    BY <1>u DEF IndInv, IdleClean, FlushNeverWaits, LeftoversOnlyWhenDone
  <1> QED
    BY <1>1, <1>2, <1>3, <1>4 DEF IndInv

\* PopFront in Flush.
LEMMA FlushPopInd ==
    ASSUME IndInv, FlushPop
    PROVE  IndInv'
  <1>t. TypeOK /\ op = "drain"
    BY DEF IndInv, FlushPop
  <1>q. Popped
    BY DEF FlushPop, Popped
  <1>u. op' = "flush" /\ UNCHANGED <<mOverflow, n, dst, sent, taken, result>>
    BY DEF FlushPop
  <1>1. PacketsAdjacent' /\ PacketsIntact' /\ mIn' \in Seq(Seq(Byte)) /\ pos' \in Seq(Nat)
    BY <1>q, PopQueue
  <1>2. TypeOK'
    BY <1>t, <1>u, <1>1 DEF TypeOK, Ops, rem
  <1>3. NoGap' /\ FlushNeverWaits' /\ LeftoversOnlyWhenDone'
    BY <1>u DEF NoGap, FlushNeverWaits, LeftoversOnlyWhenDone
  <1>4. FlushOrder' /\ IdleClean' /\ RecvInOrder' /\ LeftoversInOrder'
    BY <1>t, <1>u DEF IndInv, FlushOrder, Reached, IdleClean, RecvInOrder, LeftoversInOrder
  <1> QED
    BY <1>1, <1>2, <1>3, <1>4 DEF IndInv

\* Flush returns with nothing left to read.
LEMMA FlushReturnInd ==
    ASSUME IndInv, FlushReturn
    PROVE  IndInv'
  <1>t. TypeOK /\ op = "flush" /\ mIn = <<>>
    BY DEF IndInv, FlushReturn
  <1>u. /\ mOverflow' = <<>> /\ op' = "idle" /\ taken' = Len(sent)
        /\ UNCHANGED <<mIn, n, dst, sent, pos, result>>
    BY DEF FlushReturn
  <1>d. Len(dst) = 0 /\ dst = <<>> /\ Len(mOverflow') = 0 /\ Len(sent) \in Nat
    BY <1>t, <1>u DEF IndInv, IdleClean, TypeOK
  <1>1. TypeOK'
    BY <1>t, <1>u, <1>d DEF TypeOK, Ops, rem
  <1>2. PacketsAdjacent' /\ PacketsIntact'
    BY <1>u DEF IndInv, PacketsAdjacent, PacketsIntact
  <1>3. NoGap'
    <2>1. Reached' = Len(sent)
      BY <1>u, <1>d DEF Reached
    <2> QED
      BY <2>1, <1>t, <1>u DEF NoGap
  <1>4. FlushOrder' /\ IdleClean' /\ FlushNeverWaits' /\ LeftoversOnlyWhenDone'
    BY <1>u, <1>d DEF FlushOrder, IdleClean, FlushNeverWaits, LeftoversOnlyWhenDone
  <1>5. RecvInOrder' /\ LeftoversInOrder'
    BY <1>t, <1>u, <1>d DEF IndInv, RecvInOrder, LeftoversInOrder, TypeOK
  <1> QED
    BY <1>1, <1>2, <1>3, <1>4, <1>5 DEF IndInv

\* Every step of the channel preserves the inductive invariant.
LEMMA NextInd == IndInv /\ [Next]_vars => IndInv'
  <1> SUFFICES ASSUME IndInv, [Next]_vars PROVE IndInv'
    OBVIOUS
  <1>1. CASE UNCHANGED vars
    BY <1>1 DEF vars, IndInv, TypeOK, PacketsAdjacent, PacketsIntact, NoGap,
        FlushOrder, IdleClean, Reached, RecvInOrder, LeftoversInOrder,
        LeftoversOnlyWhenDone, FlushNeverWaits, rem
  <1>2. CASE \E p \in Packets : Send(p)
    BY <1>2, SendInd
  <1>3. CASE \E k \in 0 .. MaxRecv : RecvCall(k)
    BY <1>3, RecvCallInd
  <1>4. CASE RecvPop \/ RecvReturn
    BY <1>4, RecvPopInd, RecvReturnInd
  <1>5. CASE FlushCall \/ FlushSize
    BY <1>5, FlushMovesInd
  <1>6. CASE FlushPop \/ FlushReturn
    BY <1>6, FlushPopInd, FlushReturnInd
  <1> QED
    BY <1>1, <1>2, <1>3, <1>4, <1>5, <1>6 DEF Next, Receiver

\* The invariant holds in every reachable state of the channel.
THEOREM IndInvHolds == Spec => []IndInv
  <1> QED
    BY InitInd, NextInd, PTL DEF Spec

\* The variables of InMemoryChannel keep their types (mem_channel.h).
THEOREM TypeCorrect == Spec => []TypeOK
  <1>1. IndInv => TypeOK
    BY DEF IndInv
  <1> QED
    BY <1>1, IndInvHolds, PTL

\* Recv delivers consecutive bytes of the stream, in order and from where
\* the last call stopped (InMemoryChannel::Recv).
THEOREM DeliveryInOrder == Spec => []RecvInOrder
  <1>1. IndInv => RecvInOrder
    BY DEF IndInv
  <1> QED
    BY <1>1, IndInvHolds, PTL

\* The comment at mem_channel.cc:30 is right: leftovers only when rem == 0.
THEOREM LeftoverComment == Spec => []LeftoversOnlyWhenDone
  <1>1. IndInv => LeftoversOnlyWhenDone
    BY DEF IndInv
  <1> QED
    BY <1>1, IndInvHolds, PTL

\* Flush's unlocked Size() test cannot make its PopFront() wait.
THEOREM FlushDoesNotWait == Spec => []FlushNeverWaits
  <1>1. IndInv => FlushNeverWaits
    BY DEF IndInv
  <1> QED
    BY <1>1, IndInvHolds, PTL

-----------------------------------------------------------------------------
(* Refinement *)

\* Two sequences with the same length and the same elements are equal.
LEMMA SeqsEqual ==
    ASSUME NEW S, NEW s \in Seq(S), NEW t \in Seq(S), Len(s) = Len(t),
           \A i \in 1 .. Len(s) : s[i] = t[i]
    PROVE  s = t
  OBVIOUS

\* The receiver's place never passes the end of the stream.
LEMMA TakenInside ==
    ASSUME IndInv
    PROVE  taken <= Len(sent)
  <1>t. taken \in Nat /\ Len(dst) \in Nat /\ Len(mOverflow) \in Nat /\ Len(sent) \in Nat
    BY DEF IndInv, TypeOK
  <1>1. Reached <= Len(sent)
    <2>1. CASE op \in {"idle", "recv"} /\ mIn = <<>>
      BY <2>1, <1>t DEF IndInv, NoGap
    <2>2. CASE op \in {"idle", "recv"} /\ mIn # <<>>
      BY <2>2, FirstPacketInside DEF IndInv, NoGap
    <2>3. CASE op \in {"flush", "drain"}
      BY <2>3 DEF IndInv, FlushOrder
    <2> QED
      BY <2>1, <2>2, <2>3 DEF IndInv, TypeOK, Ops
  <1> QED
    BY <1>1, <1>t DEF Reached

\* A completed Recv delivers the next part of the stream as a whole.
LEMMA ReturnIsRead ==
    ASSUME IndInv, RecvReturn
    PROVE  Stream!Read
  <1>t. TypeOK /\ rem = 0
    BY DEF IndInv, RecvReturn
  <1>n. n \in Nat /\ Len(dst) \in Nat /\ taken \in Nat /\ Len(sent) \in Nat
    BY <1>t DEF TypeOK
  <1>l. Len(dst) = n
    BY <1>t, <1>n DEF rem
  <1>i. \A j \in 1 .. n : taken + j \in 1 .. Len(sent) /\ dst[j] = sent[taken + j]
    BY <1>l DEF IndInv, RecvInOrder
  <1>b. taken <= Len(sent)
    BY <1>t, TakenInside
  <1>k. n \in 0 .. Len(sent) - taken
    <2>1. CASE n = 0
      BY <2>1, <1>b, <1>n
    <2>2. CASE n > 0
      <3>1. n \in 1 .. n
        BY <2>2, <1>n
      <3>2. taken + n \in 1 .. Len(sent)
        BY <3>1, <1>i
      <3> QED
        BY <3>2, <1>n
    <2> QED
      BY <2>1, <2>2, <1>n
  <1>s. dst = SubSeq(sent, taken + 1, taken + n)
    <2> DEFINE r == SubSeq(sent, taken + 1, taken + n)
    <2>1. /\ r \in Seq(Byte) /\ Len(r) = n
          /\ \A j \in 1 .. n : r[j] = sent[taken + j]
      <3>1. taken + 1 >= 1 /\ taken + n <= Len(sent) /\ taken + 1 <= (taken + n) + 1
        BY <1>k, <1>n
      <3>2. /\ r \in Seq(Byte) /\ Len(r) = (taken + n) - (taken + 1) + 1
            /\ \A j \in 1 .. (taken + n) - (taken + 1) + 1 : r[j] = sent[(taken + 1) + j - 1]
        BY <3>1, <1>n, <1>t, SubSeqFacts DEF TypeOK
      <3> HIDE DEF r
      <3> QED
        BY <3>2, <1>n
    <2> HIDE DEF r
    <2>2. dst = r
      <3>1. dst \in Seq(Byte)
        BY <1>t DEF TypeOK
      <3> QED
        BY <3>1, <2>1, <1>l, <1>i, SeqsEqual
    <2> QED
      BY <2>2 DEF r
  <1>u. result' = dst /\ taken' = taken + n /\ sent' = sent
    BY DEF RecvReturn
  <1> QED
    BY <1>k, <1>s, <1>u DEF Stream!Read

\* Every step of the channel is a step of the stream, or none.
LEMMA StepRefines ==
    ASSUME IndInv, [Next]_vars
    PROVE  [Stream!Next]_<<sent, taken, result>>
  <1>t. TypeOK
    BY DEF IndInv
  <1>1. CASE \E p \in Packets : Send(p)
    <2> PICK p \in Packets : Send(p)
      BY <1>1
    <2>1. p \in Seq(Byte) /\ sent \in Seq(Byte)
      BY PacketsType, <1>t DEF TypeOK
    <2>2. /\ sent' \in Seq(Byte) /\ Len(sent') = Len(sent) + Len(p)
          /\ \A i \in 1 .. Len(sent) : sent'[i] = sent[i]
      BY <2>1, ConcatFacts DEF Send
    <2>3. Len(sent') >= Len(sent)
      BY <2>1, <2>2, EmptyFacts
    <2>4. UNCHANGED <<taken, result>>
      BY DEF Send
    <2> QED
      BY <2>2, <2>3, <2>4 DEF Stream!Write, Stream!Next
  <1>2. CASE RecvReturn
    BY <1>2, ReturnIsRead DEF Stream!Next
  <1>3. CASE FlushReturn
    <2>1. taken' = Len(sent) /\ UNCHANGED <<sent, result>>
      BY <1>3 DEF FlushReturn
    <2>2. taken <= Len(sent) /\ taken \in Nat /\ Len(sent) \in Nat
      BY <1>t, TakenInside DEF TypeOK
    <2>3. taken' \in taken .. Len(sent)
      BY <2>1, <2>2
    <2> QED
      BY <2>1, <2>3 DEF Stream!Discard, Stream!Next
  <1>4. CASE \/ \E k \in 0 .. MaxRecv : RecvCall(k)
             \/ RecvPop \/ FlushCall \/ FlushSize \/ FlushPop
             \/ UNCHANGED vars
    BY <1>4 DEF RecvCall, RecvPop, FlushCall, FlushSize, FlushPop, vars
  <1> QED
    BY <1>1, <1>2, <1>3, <1>4 DEF Next, Receiver

\* InMemoryChannel implements the byte stream: no byte is lost, repeated or
\* overtaken between Send and Recv, for any cut of the stream into packets
\* and reads and any interleaving of the two ends.
THEOREM Refinement == Spec => ImplementsStream
  <1>1. Init => Stream!Init
    BY DEF Init, Stream!Init
  <1>2. IndInv /\ [Next]_vars => [Stream!Next]_(Stream!svars)
    BY StepRefines DEF Stream!svars
  <1> QED
    BY <1>1, <1>2, IndInvHolds, PTL DEF Spec, ImplementsStream, Stream!Spec
=============================================================================
