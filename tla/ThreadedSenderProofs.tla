----------------------- MODULE ThreadedSenderProofs -------------------------
(***************************************************************************)
(* What the peer of a ThreadedSenderChannel reads is a prefix of what was  *)
(* sent, for every number and size of packets and every socket buffer.     *)
(***************************************************************************)
EXTENDS ThreadedSender, TLAPS

USE SizesAssumption

\* What the sequence operators used here return.
LEMMA AppendFacts ==
    ASSUME NEW S, NEW s \in Seq(S), NEW e \in S
    PROVE  /\ Append(s, e) \in Seq(S)
           /\ Len(s) \in Nat /\ Len(Append(s, e)) = Len(s) + 1
           /\ \A i \in 1 .. Len(s) : Append(s, e)[i] = s[i]
           /\ Append(s, e)[Len(s) + 1] = e
  OBVIOUS

LEMMA TailFacts ==
    ASSUME NEW S, NEW s \in Seq(S), s # <<>>
    PROVE  /\ Head(s) \in S /\ Head(s) = s[1]
           /\ Len(s) \in Nat /\ Len(s) >= 1
           /\ Tail(s) \in Seq(S) /\ Len(Tail(s)) = Len(s) - 1
           /\ \A i \in 1 .. Len(s) - 1 : Tail(s)[i] = s[i + 1]
  OBVIOUS

LEMMA ConcatFacts ==
    ASSUME NEW S, NEW s \in Seq(S), NEW t \in Seq(S)
    PROVE  /\ s \o t \in Seq(S)
           /\ Len(s) \in Nat /\ Len(t) \in Nat /\ Len(s \o t) = Len(s) + Len(t)
           /\ \A i \in 1 .. Len(s) : (s \o t)[i] = s[i]
           /\ \A i \in 1 .. Len(t) : (s \o t)[Len(s) + i] = t[i]
  OBVIOUS

LEMMA SubSeqFacts ==
    ASSUME NEW S, NEW s \in Seq(S), NEW a \in Nat, NEW k \in Nat, a + k <= Len(s)
    PROVE  /\ SubSeq(s, a + 1, a + k) \in Seq(S)
           /\ Len(SubSeq(s, a + 1, a + k)) = k
           /\ \A i \in 1 .. k : SubSeq(s, a + 1, a + k)[i] = s[a + i]
  OBVIOUS

LEMMA SameElements ==
    ASSUME NEW S, NEW s \in Seq(S), NEW t \in Seq(S), Len(s) = Len(t),
           \A i \in 1 .. Len(s) : s[i] = t[i]
    PROVE  s = t
  OBVIOUS

\* A packet is PacketSize data bytes, and not the stop byte.
LEMMA PacketFacts ==
    ASSUME NEW i \in 1 .. MaxSend
    PROVE  /\ Packet(i) \in Seq(DataBytes) /\ Len(Packet(i)) = PacketSize
           /\ \A j \in 1 .. PacketSize : Packet(i)[j] = <<i, j>>
           /\ Packet(i) # Stop
  <1>1. Packet(i) \in [1 .. PacketSize -> DataBytes]
    BY DEF Packet, DataBytes
  <1>2. \A j \in 1 .. PacketSize : Packet(i)[j] = <<i, j>>
    BY DEF Packet
  <1>3. Packet(i) \in Seq(DataBytes) /\ Len(Packet(i)) = PacketSize
    BY <1>1
  <1>4. Packet(i)[1] = <<i, 1>> /\ Stop[1] = <<0, 0>>
    BY <1>2 DEF Stop
  <1> QED
    BY <1>2, <1>3, <1>4

\* Where packets start.
LEMMA StartFacts ==
    ASSUME NEW j \in Nat \ {0}
    PROVE  /\ Start(j) \in Nat
           /\ Start(j + 1) = Start(j) + PacketSize
           /\ Start(j) \div PacketSize = j - 1
  <1>1. PICK i \in Nat : j = i + 1
    <2>1. j - 1 \in Nat /\ j = (j - 1) + 1
      OBVIOUS
    <2> QED
      BY <2>1
  <1>2. i * PacketSize \in Nat /\ (i + 1) * PacketSize = i * PacketSize + PacketSize
    OBVIOUS
  <1>3. (i * PacketSize) \div PacketSize = i
    OBVIOUS
  <1>4. j - 1 = i /\ (j + 1) - 1 = i + 1
    BY <1>1
  <1> QED
    BY <1>2, <1>3, <1>4 DEF Start

LEMMA StartOrder ==
    ASSUME NEW i \in Nat \ {0}, NEW j \in Nat \ {0}
    PROVE  Start(i) \in Nat /\ (i < j => Start(i) + PacketSize <= Start(j))
  <1>1. (i - 1) * PacketSize \in Nat
    OBVIOUS
  <1>2. i < j => (i - 1) * PacketSize + PacketSize <= (j - 1) * PacketSize
    OBVIOUS
  <1> QED
    BY <1>1, <1>2 DEF Start

LEMMA InitInd == Init => IndInv
  <1> SUFFICES ASSUME Init PROVE IndInv
    OBVIOUS
  <1>1. TypeOK /\ PopsWhatItWrote /\ StopInv /\ OffsetInv /\ BytesInv
    BY DEF Init, TypeOK, AppStates, SenderStates, PopsWhatItWrote, StopInv, OffsetInv, BytesInv
  <1>2. Window(0, 0)
    BY StartFacts DEF Init, Window, inFlight, Start
  <1> QED
    BY <1>1, <1>2 DEF IndInv

-----------------------------------------------------------------------------
(* Steps that leave the stream alone: the application's without Send and   *)
(* PushStop, and the thread's without Write and PopFront.                  *)

streamVars == <<mSendBuffer, pipe, got, sent>>

LEMMA SameStream ==
    ASSUME IndInv, UNCHANGED streamVars, inFlight' = inFlight
    PROVE  BytesInv' /\ \E m, b \in 0 .. MaxSend : Window(m, b)'
  <1>1. UNCHANGED <<mSendBuffer, pipe, got, sent>>
    BY DEF streamVars
  <1>2. BytesInv'
    BY <1>1 DEF IndInv, BytesInv
  <1>3. \A m, b \in 0 .. MaxSend : Window(m, b) => Window(m, b)'
    BY <1>1 DEF Window
  <1> QED
    BY <1>2, <1>3 DEF IndInv

LEMMA AppControlInd ==
    ASSUME IndInv, CloseSocket \/ CloseAgain \/ ClearAlive \/ Join \/ Destroy \/ Destroyed
    PROVE  IndInv'
  <1>1. UNCHANGED streamVars /\ UNCHANGED <<sender, data, offset, peerVars>>
    BY DEF CloseSocket, CloseAgain, ClearAlive, Join, Destroy, Destroyed, streamVars
  <1>2. BytesInv' /\ \E m, b \in 0 .. MaxSend : Window(m, b)'
    BY <1>1, SameStream DEF inFlight
  <1>3. TypeOK'
    BY <1>1 DEF IndInv, TypeOK, streamVars, peerVars, AppStates, CloseSocket, CloseAgain, ClearAlive, Join, Destroy, Destroyed
  <1>4. StopInv'
    BY <1>1 DEF IndInv, StopInv, TypeOK, streamVars, CloseSocket, CloseAgain, ClearAlive, Join, Destroy, Destroyed
  <1>5. PopsWhatItWrote' /\ OffsetInv'
    BY <1>1 DEF IndInv, PopsWhatItWrote, OffsetInv, streamVars
  <1> QED
    BY <1>2, <1>3, <1>4, <1>5 DEF IndInv

LEMMA PeekInd ==
    ASSUME IndInv, Peek
    PROVE  IndInv'
  <1>1. /\ UNCHANGED streamVars /\ UNCHANGED <<app, mAlive, open, peerVars>>
        /\ sender = "peek" /\ sender' = "alive" /\ offset' = 0
        /\ mSendBuffer # <<>> /\ data' = Head(mSendBuffer)
    BY DEF Peek, streamVars
  <1>2. BytesInv' /\ \E m, b \in 0 .. MaxSend : Window(m, b)'
    BY <1>1, SameStream DEF inFlight
  <1>3. TypeOK'
    BY <1>1, TailFacts DEF IndInv, TypeOK, streamVars, peerVars, SenderStates
  <1>4. StopInv' /\ OffsetInv' /\ PopsWhatItWrote'
    BY <1>1 DEF IndInv, StopInv, OffsetInv, PopsWhatItWrote, streamVars
  <1> QED
    BY <1>2, <1>3, <1>4 DEF IndInv

LEMMA ThreadControlInd ==
    ASSUME IndInv, TestAlive \/ EnterWrite
    PROVE  IndInv'
  <1>1. /\ UNCHANGED streamVars /\ UNCHANGED <<app, mAlive, open, data, offset, peerVars>>
        /\ \/ sender = "alive" /\ sender' = (IF mAlive THEN "write" ELSE "done")
           \/ sender = "write" /\ sender' = (IF open THEN "kernel" ELSE "failed")
    BY DEF TestAlive, EnterWrite, streamVars
  <1>2. BytesInv' /\ \E m, b \in 0 .. MaxSend : Window(m, b)'
    BY <1>1, SameStream DEF inFlight
  <1>3. TypeOK'
    BY <1>1 DEF IndInv, TypeOK, streamVars, peerVars, SenderStates
  <1>4. sender = "alive" /\ mAlive => data # Stop
    <2>1. sender = "alive" => mSendBuffer # <<>> /\ data = Head(mSendBuffer)
      BY DEF IndInv, PopsWhatItWrote
    <2>2. mSendBuffer # <<>> => Head(mSendBuffer) = mSendBuffer[1] /\ 1 \in 1 .. Len(mSendBuffer)
      BY TailFacts DEF IndInv, TypeOK
    <2> QED
      BY <2>1, <2>2 DEF IndInv, StopInv
  <1>5. StopInv'
    BY <1>1, <1>4 DEF IndInv, StopInv, streamVars
  <1>6. OffsetInv' /\ PopsWhatItWrote'
    BY <1>1 DEF IndInv, OffsetInv, PopsWhatItWrote, streamVars
  <1> QED
    BY <1>2, <1>3, <1>5, <1>6 DEF IndInv

\* A write that fails ends the thread in the middle of a packet.
LEMMA WriteFailsInd ==
    ASSUME IndInv, WriteFails \/ SigPipe
    PROVE  IndInv'
  <1>1. /\ UNCHANGED streamVars /\ UNCHANGED <<mAlive, data, offset, peerVars>>
        /\ sender = "kernel" /\ sender' = "failed"
        /\ \/ UNCHANGED <<app, open>>
           \/ app' = "killed" /\ open' = FALSE
    BY DEF WriteFails, SigPipe, streamVars
  <1>2. BytesInv' /\ \E m, b \in 0 .. MaxSend : Window(m, b)'
    BY <1>1, SameStream DEF inFlight
  <1>3. TypeOK'
    BY <1>1 DEF IndInv, TypeOK, streamVars, peerVars, SenderStates, AppStates
  <1>4. StopInv' /\ OffsetInv' /\ PopsWhatItWrote'
    BY <1>1 DEF IndInv, StopInv, OffsetInv, PopsWhatItWrote, streamVars
  <1> QED
    BY <1>2, <1>3, <1>4 DEF IndInv

\* The peer calls Recv, meets the end of the stream, or closes.
LEMMA PeerControlInd ==
    ASSUME IndInv, RecvCall \/ EndOfFile \/ PeerClose
    PROVE  IndInv'
  <1>1. /\ UNCHANGED streamVars /\ UNCHANGED <<app, mAlive, open, sender, data, offset, dst>>
        /\ need' \in 0 .. MaxRecv /\ peer' \in {peer, "closed"}
    BY DEF RecvCall, EndOfFile, PeerClose, streamVars
  <1>2. BytesInv' /\ \E m, b \in 0 .. MaxSend : Window(m, b)'
    BY <1>1, SameStream DEF inFlight
  <1>3. TypeOK'
    BY <1>1 DEF IndInv, TypeOK, streamVars
  <1>4. StopInv' /\ OffsetInv' /\ PopsWhatItWrote'
    BY <1>1 DEF IndInv, StopInv, OffsetInv, PopsWhatItWrote, streamVars
  <1> QED
    BY <1>2, <1>3, <1>4 DEF IndInv

-----------------------------------------------------------------------------
(* Steps that move packets or bytes. *)

\* The entry types of mSendBuffer.
Entry == Seq(DataBytes) \cup {Stop}

\* A packet is sent: it is packet m + 1, at the end of the window if no stop
\* byte is before it.
LEMMA SendInd ==
    ASSUME IndInv, Send
    PROVE  IndInv'
  <1>1. PICK m \in 0 .. MaxSend, b \in 0 .. MaxSend : Window(m, b)
    BY DEF IndInv
  <1>2. sendCount = m
    <2>1. m + 1 \in Nat \ {0} /\ (m + 1) - 1 = m
      OBVIOUS
    <2> QED
      BY <2>1, <1>1, StartFacts DEF Window, sendCount
  <1>3. /\ m + 1 \in 1 .. MaxSend
        /\ mSendBuffer' = Append(mSendBuffer, Packet(m + 1)) /\ sent' = sent \o Packet(m + 1)
        /\ UNCHANGED <<app, mAlive, open, sender, data, offset, pipe, got, peerVars>>
    BY <1>2 DEF Send
  <1>4. TypeOK /\ mSendBuffer \in Seq(Entry) /\ Packet(m + 1) \in Entry
    BY <1>3, PacketFacts DEF IndInv, TypeOK, Entry
  <1>5. /\ mSendBuffer' \in Seq(Entry) /\ Len(mSendBuffer') = Len(mSendBuffer) + 1
        /\ Len(mSendBuffer) \in Nat
        /\ \A i \in 1 .. Len(mSendBuffer) : mSendBuffer'[i] = mSendBuffer[i]
        /\ mSendBuffer'[Len(mSendBuffer) + 1] = Packet(m + 1) /\ Packet(m + 1) # Stop
    BY <1>3, <1>4, AppendFacts, PacketFacts
  <1>6. /\ sent' \in Seq(DataBytes) /\ Len(sent') = Len(sent) + PacketSize /\ Len(sent) \in Nat
        /\ \A i \in 1 .. Len(sent) : sent'[i] = sent[i]
        /\ \A k \in 1 .. PacketSize : sent'[Len(sent) + k] = <<m + 1, k>>
    <2>1. /\ sent \in Seq(DataBytes) /\ Packet(m + 1) \in Seq(DataBytes)
          /\ Len(Packet(m + 1)) = PacketSize
          /\ \A k \in 1 .. PacketSize : Packet(m + 1)[k] = <<m + 1, k>>
      BY <1>3, <1>4, PacketFacts DEF TypeOK
    <2>2. /\ sent' \in Seq(DataBytes) /\ Len(sent') = Len(sent) + Len(Packet(m + 1)) /\ Len(sent) \in Nat
          /\ \A i \in 1 .. Len(sent) : sent'[i] = sent[i]
          /\ \A k \in 1 .. Len(Packet(m + 1)) : sent'[Len(sent) + k] = Packet(m + 1)[k]
      <3>1. sent \in Seq(DataBytes) /\ Packet(m + 1) \in Seq(DataBytes) /\ sent' = sent \o Packet(m + 1)
        BY <2>1, <1>3
      <3> QED
        BY ONLY <3>1, ConcatFacts
    <2> QED
      BY <2>1, <2>2
  <1>7. TypeOK'
    BY <1>3, <1>4, <1>5, <1>6 DEF TypeOK, Entry, peerVars
  <1>8. PopsWhatItWrote'
    <2>1. mSendBuffer # <<>> => mSendBuffer' # <<>> /\ Head(mSendBuffer') = Head(mSendBuffer)
      BY <1>3, <1>4
    <2> QED
      BY <2>1, <1>3 DEF IndInv, PopsWhatItWrote
  <1>9. StopInv' /\ OffsetInv'
    BY <1>3, <1>5 DEF IndInv, StopInv, OffsetInv
  <1>10. BytesInv'
    <2>1. Len(got) \in Nat /\ Len(pipe) \in Nat
      BY <1>4 DEF TypeOK
    <2>2. /\ Len(got) + Len(pipe) <= Len(sent)
          /\ \A i \in 1 .. Len(got) : got[i] = sent[i]
          /\ \A i \in 1 .. Len(pipe) : pipe[i] = sent[Len(got) + i]
      BY DEF IndInv, BytesInv
    <2>3. Len(got) + Len(pipe) <= Len(sent')
      BY <2>1, <2>2, <1>6
    <2>4. ASSUME NEW i \in 1 .. Len(got) PROVE got[i] = sent'[i]
      <3>1. i \in 1 .. Len(sent)
        BY <2>1, <2>2, <1>6
      <3> QED
        BY <3>1, <2>2, <1>6
    <2>5. ASSUME NEW i \in 1 .. Len(pipe) PROVE pipe[i] = sent'[Len(got) + i]
      <3>1. Len(got) + i \in 1 .. Len(sent)
        BY <2>1, <2>2, <1>6
      <3> QED
        BY <3>1, <2>2, <1>6
    <2>6. got' = got /\ pipe' = pipe
      BY <1>3
    <2> QED
      BY ONLY <2>3, <2>4, <2>5, <2>6 DEF BytesInv
  <1>11. Window(m + 1, b)'
    <2>1. Len(sent') = Start((m + 1) + 1)
      <3>1. m + 1 \in Nat \ {0}
        OBVIOUS
      <3>2. Start((m + 1) + 1) = Start(m + 1) + PacketSize
        BY <3>1, StartFacts
      <3> QED
        BY <3>2, <1>1, <1>6 DEF Window
    <2>2. ASSUME NEW j \in 1 .. m + 1, NEW k \in 1 .. PacketSize
          PROVE  sent'[Start(j) + k] = <<j, k>>
      <3>1. CASE j = m + 1
        <4>1. Start(j) = Len(sent)
          BY <3>1, <1>1 DEF Window
        <4> QED
          BY <4>1, <3>1, <1>6
      <3>2. CASE j \in 1 .. m
        <4>1. Start(j) + PacketSize <= Start(m + 1) /\ Start(j) \in Nat
          BY <3>2, StartOrder
        <4>2. Start(j) + k \in 1 .. Len(sent)
          <5>1. Len(sent) = Start(m + 1) /\ Len(sent) \in Nat
            BY <1>1, <1>6 DEF Window
          <5> QED
            BY ONLY <5>1, <4>1, SizesAssumption, k \in 1 .. PacketSize
        <4> QED
          BY <4>2, <3>2, <1>1, <1>6 DEF Window
      <3> QED
        BY <3>1, <3>2
    <2>3. Len(got') + Len(pipe') = Start(b + 1) + inFlight'
      BY <1>1, <1>3 DEF Window, inFlight
    <2>4. ASSUME NEW i \in 1 .. Len(mSendBuffer'), \A j \in 1 .. i : mSendBuffer'[j] # Stop
          PROVE  b + i <= m + 1 /\ mSendBuffer'[i] = Packet(b + i)
      <3>1. CASE i \in 1 .. Len(mSendBuffer)
        <4>1. \A j \in 1 .. i : mSendBuffer[j] # Stop
          BY <2>4, <3>1, <1>5
        <4>2. b + i <= m /\ mSendBuffer[i] = Packet(b + i)
          BY <4>1, <3>1, <1>1 DEF Window
        <4> QED
          BY <4>2, <3>1, <1>5
      <3>2. CASE i = Len(mSendBuffer) + 1
        <4>1. b + Len(mSendBuffer) = m
          BY <2>4, <3>2, <1>1, <1>5 DEF Window
        <4> QED
          BY <4>1, <3>2, <1>5
      <3> QED
        BY <3>1, <3>2, <1>5
    <2>5. (\A j \in 1 .. Len(mSendBuffer') : mSendBuffer'[j] # Stop) => b + Len(mSendBuffer') = m + 1
      BY <1>1, <1>5 DEF Window
    <2> QED
      BY <2>1, <2>2, <2>3, <2>4, <2>5 DEF Window
  <1> QED
    BY <1>3, <1>7, <1>8, <1>9, <1>10, <1>11 DEF IndInv

\* A stop byte ends the window.
LEMMA PushStopInd ==
    ASSUME IndInv, PushStop
    PROVE  IndInv'
  <1>1. PICK m \in 0 .. MaxSend, b \in 0 .. MaxSend : Window(m, b)
    BY DEF IndInv
  <1>2. /\ app = "close2" /\ app' = "close3" /\ mSendBuffer' = Append(mSendBuffer, Stop)
        /\ UNCHANGED <<mAlive, open, sender, data, offset, pipe, got, sent, peerVars>>
    BY DEF PushStop
  <1>3. TypeOK /\ mSendBuffer \in Seq(Entry) /\ Stop \in Entry
    BY DEF IndInv, TypeOK, Entry
  <1>4. /\ mSendBuffer' \in Seq(Entry) /\ Len(mSendBuffer') = Len(mSendBuffer) + 1
        /\ Len(mSendBuffer) \in Nat
        /\ \A i \in 1 .. Len(mSendBuffer) : mSendBuffer'[i] = mSendBuffer[i]
        /\ mSendBuffer'[Len(mSendBuffer) + 1] = Stop
    BY <1>2, <1>3, AppendFacts
  <1>5. TypeOK'
    BY <1>2, <1>3, <1>4 DEF TypeOK, Entry, AppStates, peerVars
  <1>6. PopsWhatItWrote'
    <2>1. mSendBuffer # <<>> => mSendBuffer' # <<>> /\ Head(mSendBuffer') = Head(mSendBuffer)
      BY <1>2, <1>3
    <2> QED
      BY <2>1, <1>2 DEF IndInv, PopsWhatItWrote
  <1>7. StopInv' /\ OffsetInv' /\ BytesInv'
    BY <1>2, <1>4 DEF IndInv, StopInv, OffsetInv, BytesInv
  <1>8. Window(m, b)'
    BY <1>1, <1>2, <1>4 DEF Window, inFlight
  <1> QED
    BY <1>5, <1>6, <1>7, <1>8 DEF IndInv

\* The packet the thread writes is the first one of the window.
LEMMA FrontPacket ==
    ASSUME IndInv, NEW m \in 0 .. MaxSend, NEW b \in 0 .. MaxSend, Window(m, b),
           sender \in {"kernel", "pop"}
    PROVE  /\ mSendBuffer # <<>> /\ mSendBuffer[1] # Stop /\ b + 1 <= m
           /\ data = Packet(b + 1) /\ Len(data) = PacketSize /\ data \in Seq(DataBytes)
           /\ \A j \in 1 .. PacketSize : data[j] = <<b + 1, j>>
  <1>1. mSendBuffer # <<>> /\ data = Head(mSendBuffer) /\ data # Stop
    BY DEF IndInv, PopsWhatItWrote, StopInv
  <1>2. Head(mSendBuffer) = mSendBuffer[1] /\ 1 \in 1 .. Len(mSendBuffer)
    BY <1>1, TailFacts DEF IndInv, TypeOK
  <1>3. \A j \in 1 .. 1 : mSendBuffer[j] # Stop
    BY <1>1, <1>2
  <1>4. b + 1 <= m /\ mSendBuffer[1] = Packet(b + 1)
    BY <1>2, <1>3 DEF Window
  <1> QED
    BY <1>1, <1>2, <1>4, PacketFacts

\* A write continues the stream where it ended.
LEMMA WriteInd ==
    ASSUME IndInv, Write
    PROVE  IndInv'
  <1>1. PICK m \in 0 .. MaxSend, b \in 0 .. MaxSend : Window(m, b)
    BY DEF IndInv
  <1>2. PICK k \in 1 .. Len(data) - offset :
           /\ pipe' = pipe \o SubSeq(data, offset + 1, offset + k)
           /\ offset' = offset + k
    BY DEF Write
  <1>3. /\ sender = "kernel" /\ sender' = (IF offset' = Len(data) THEN "pop" ELSE "write")
        /\ UNCHANGED <<app, mSendBuffer, mAlive, open, data, got, sent, peerVars>>
    BY DEF Write
  <1>4. /\ b + 1 <= m /\ data \in Seq(DataBytes) /\ Len(data) = PacketSize
        /\ \A j \in 1 .. PacketSize : data[j] = <<b + 1, j>>
    BY <1>1, <1>3, FrontPacket
  <1>5. /\ TypeOK /\ offset \in Nat /\ k \in Nat \ {0} /\ offset + k <= PacketSize
        /\ Len(got) \in Nat /\ Len(pipe) \in Nat /\ Len(sent) \in Nat
    BY <1>2, <1>4 DEF IndInv, TypeOK
  <1>6. /\ SubSeq(data, offset + 1, offset + k) \in Seq(DataBytes)
        /\ Len(SubSeq(data, offset + 1, offset + k)) = k
        /\ \A i \in 1 .. k : SubSeq(data, offset + 1, offset + k)[i] = data[offset + i]
    BY <1>4, <1>5, SubSeqFacts
  <1>7. /\ pipe' \in Seq(DataBytes) /\ Len(pipe') = Len(pipe) + k
        /\ \A i \in 1 .. Len(pipe) : pipe'[i] = pipe[i]
        /\ \A i \in 1 .. k : pipe'[Len(pipe) + i] = <<b + 1, offset + i>>
    <2>1. DEFINE bytes == SubSeq(data, offset + 1, offset + k)
    <2>2. pipe \in Seq(DataBytes) /\ bytes \in Seq(DataBytes) /\ pipe' = pipe \o bytes
      BY <1>2, <1>5, <1>6 DEF TypeOK
    <2>3. \A i \in 1 .. k : bytes[i] = <<b + 1, offset + i>>
      <3>1. ASSUME NEW i \in 1 .. k PROVE data[offset + i] = <<b + 1, offset + i>>
        <4>1. offset + i \in 1 .. PacketSize
          BY <1>5
        <4> QED
          BY <4>1, <1>4
      <3> QED
        BY <3>1, <1>6
    <2>4. Len(bytes) = k
      BY <1>6
    <2> HIDE DEF bytes
    <2>5. /\ pipe' \in Seq(DataBytes) /\ Len(pipe') = Len(pipe) + Len(bytes)
          /\ \A i \in 1 .. Len(pipe) : pipe'[i] = pipe[i]
          /\ \A i \in 1 .. Len(bytes) : pipe'[Len(pipe) + i] = bytes[i]
      BY ONLY <2>2, ConcatFacts
    <2> QED
      BY <2>3, <2>4, <2>5
  <1>8. /\ Len(got) + Len(pipe) = Start(b + 1) + offset
        /\ Start(b + 1) \in Nat /\ Start(b + 1) + PacketSize <= Len(sent)
    <2>1. Len(got) + Len(pipe) = Start(b + 1) + offset /\ Len(sent) = Start(m + 1)
      BY <1>1, <1>3 DEF Window, inFlight
    <2>2. b + 1 \in Nat \ {0} /\ m + 1 \in Nat \ {0} /\ b + 1 < m + 1
      BY <1>4
    <2> QED
      BY <2>1, <2>2, StartOrder
  <1>9. \A i \in 1 .. k : sent[Start(b + 1) + (offset + i)] = <<b + 1, offset + i>>
    <2>1. \A h \in 1 .. PacketSize : sent[Start(b + 1) + h] = <<b + 1, h>>
      <3>1. b + 1 \in 1 .. m
        BY <1>4
      <3> QED
        BY <3>1, <1>1 DEF Window
    <2>2. \A i \in 1 .. k : offset + i \in 1 .. PacketSize
      BY <1>5
    <2> QED
      BY <2>1, <2>2
  <1>10. BytesInv'
    <2>1. Len(got) + Len(pipe') <= Len(sent)
      <3> DEFINE g == Len(got)
                 p == Len(pipe)
                 s == Start(b + 1)
                 all == Len(sent)
      <3>1. /\ g \in Nat /\ p \in Nat /\ s \in Nat /\ all \in Nat
            /\ offset \in Nat /\ k \in Nat /\ offset + k <= PacketSize
            /\ g + p = s + offset /\ s + PacketSize <= all
        BY <1>5, <1>8
      <3> HIDE DEF g, p, s, all
      <3>2. g + (p + k) <= all
        BY ONLY <3>1, SizesAssumption
      <3> QED
        BY <3>2, <1>7 DEF g, p, s, all
    <2>2. ASSUME NEW i \in 1 .. Len(pipe') PROVE pipe'[i] = sent[Len(got) + i]
      <3>1. CASE i \in 1 .. Len(pipe)
        BY <3>1, <1>7 DEF IndInv, BytesInv
      <3>2. CASE i \in Len(pipe) + 1 .. Len(pipe) + k
        <4>1. PICK h \in 1 .. k : i = Len(pipe) + h
          <5>1. i - Len(pipe) \in 1 .. k /\ i = Len(pipe) + (i - Len(pipe))
            BY <3>2, <1>5
          <5> QED
            BY <5>1
        <4>2. Len(got) + i = Start(b + 1) + (offset + h)
          <5>1. /\ Len(got) \in Nat /\ Len(pipe) \in Nat /\ Start(b + 1) \in Nat
                /\ offset \in Nat /\ h \in Nat
                /\ Len(got) + Len(pipe) = Start(b + 1) + offset
            BY <4>1, <1>5, <1>8
          <5>2. Len(got) + (Len(pipe) + h) = Start(b + 1) + (offset + h)
            <6> DEFINE g == Len(got)
                       p == Len(pipe)
                       s == Start(b + 1)
            <6>1. g \in Nat /\ p \in Nat /\ s \in Nat /\ offset \in Nat /\ h \in Nat /\ g + p = s + offset
              BY <5>1
            <6> HIDE DEF g, p, s
            <6>2. g + (p + h) = s + (offset + h)
              BY ONLY <6>1
            <6> QED
              BY <6>2 DEF g, p, s
          <5> QED
            BY <5>2, <4>1
        <4> QED
          BY <4>1, <4>2, <1>7, <1>9
      <3> QED
        BY <3>1, <3>2, <1>5, <1>7
    <2> QED
      BY <2>1, <2>2, <1>3 DEF IndInv, BytesInv
  <1>11. TypeOK'
    BY <1>2, <1>3, <1>5, <1>7 DEF TypeOK, SenderStates, peerVars
  <1>12. StopInv' /\ OffsetInv' /\ PopsWhatItWrote'
    BY <1>2, <1>3, <1>4, <1>5 DEF IndInv, StopInv, OffsetInv, PopsWhatItWrote
  <1>13. Window(m, b)'
    <2>1. Len(got) + Len(pipe') = Start(b + 1) + inFlight'
      <3>1. inFlight' = offset + k
        BY <1>2, <1>3 DEF inFlight
      <3>2. Len(pipe') = Len(pipe) + k /\ Len(got) + Len(pipe) = Start(b + 1) + offset
        BY <1>7, <1>8
      <3>3. Len(got) \in Nat /\ Len(pipe) \in Nat /\ offset \in Nat /\ k \in Nat /\ Start(b + 1) \in Nat
        BY <1>5, <1>8
      <3>4. Len(got) + (Len(pipe) + k) = Start(b + 1) + (offset + k)
        <4> DEFINE g == Len(got)
                   p == Len(pipe)
                   s == Start(b + 1)
        <4>1. g \in Nat /\ p \in Nat /\ s \in Nat /\ offset \in Nat /\ k \in Nat /\ g + p = s + offset
          BY <3>2, <3>3
        <4> HIDE DEF g, p, s
        <4>2. g + (p + k) = s + (offset + k)
          BY ONLY <4>1
        <4> QED
          BY <4>2 DEF g, p, s
      <3> QED
        BY ONLY <3>1, <3>2, <3>4
    <2> QED
      BY <2>1, <1>1, <1>3 DEF Window
  <1> QED
    BY <1>10, <1>11, <1>12, <1>13 DEF IndInv

\* The packet that was written leaves the window.
LEMMA PopFrontInd ==
    ASSUME IndInv, PopFront
    PROVE  IndInv'
  <1>1. PICK m \in 0 .. MaxSend, b \in 0 .. MaxSend : Window(m, b)
    BY DEF IndInv
  <1>2. /\ sender = "pop" /\ sender' = "peek" /\ mSendBuffer' = Tail(mSendBuffer)
        /\ UNCHANGED <<app, mAlive, open, data, offset, pipe, got, sent, peerVars>>
    BY DEF PopFront
  <1>3. TypeOK /\ mSendBuffer \in Seq(Entry)
    BY DEF IndInv, TypeOK, Entry
  <1>4. mSendBuffer # <<>> /\ mSendBuffer[1] # Stop /\ b + 1 <= m
    BY <1>1, <1>2, FrontPacket
  <1>5. /\ mSendBuffer' \in Seq(Entry) /\ Len(mSendBuffer') = Len(mSendBuffer) - 1
        /\ Len(mSendBuffer) \in Nat /\ Len(mSendBuffer) >= 1
        /\ \A i \in 1 .. Len(mSendBuffer) - 1 : mSendBuffer'[i] = mSendBuffer[i + 1]
    BY <1>2, <1>3, <1>4, TailFacts
  <1>6. TypeOK'
    BY <1>2, <1>3, <1>5 DEF TypeOK, Entry, SenderStates, peerVars
  <1>7. StopInv' /\ OffsetInv' /\ PopsWhatItWrote' /\ BytesInv'
    <2>1. \A i \in 1 .. Len(mSendBuffer') : i + 1 \in 1 .. Len(mSendBuffer) /\ mSendBuffer'[i] = mSendBuffer[i + 1]
      BY <1>5
    <2> QED
      BY <2>1, <1>2 DEF IndInv, StopInv, OffsetInv, PopsWhatItWrote, BytesInv
  <1>8. Window(m, b + 1)'
    <2>1. Len(got') + Len(pipe') = Start((b + 1) + 1) + inFlight'
      <3>1. Len(got) + Len(pipe) = Start(b + 1) + PacketSize
        BY <1>1, <1>2 DEF Window, inFlight, IndInv, OffsetInv
      <3>2. Start((b + 1) + 1) = Start(b + 1) + PacketSize /\ Start(b + 1) \in Nat
        <4>1. b + 1 \in Nat \ {0}
          OBVIOUS
        <4> QED
          BY <4>1, StartFacts
      <3>3. inFlight' = 0
        BY <1>2 DEF inFlight
      <3> QED
        BY <3>1, <3>2, <3>3, <1>2
    <2>2. ASSUME NEW i \in 1 .. Len(mSendBuffer'), \A j \in 1 .. i : mSendBuffer'[j] # Stop
          PROVE  (b + 1) + i <= m /\ mSendBuffer'[i] = Packet((b + 1) + i)
      <3>1. ASSUME NEW j \in 1 .. i + 1 PROVE mSendBuffer[j] # Stop
        <4>1. CASE j = 1
          BY <4>1, <1>4
        <4>2. CASE j \in 2 .. i + 1
          <5>1. j - 1 \in 1 .. i /\ (j - 1) + 1 = j /\ j - 1 \in 1 .. Len(mSendBuffer) - 1
            BY <4>2, <1>5
          <5> QED
            BY <5>1, <2>2, <1>5
        <4> QED
          BY <4>1, <4>2
      <3>2. i + 1 \in 1 .. Len(mSendBuffer)
        BY <1>5
      <3>3. b + (i + 1) <= m /\ mSendBuffer[i + 1] = Packet(b + (i + 1))
        BY <3>1, <3>2, <1>1 DEF Window
      <3>4. b + (i + 1) = (b + 1) + i
        BY <3>2
      <3> QED
        BY <3>3, <3>4, <1>5
    <2>3. ASSUME \A j \in 1 .. Len(mSendBuffer') : mSendBuffer'[j] # Stop
          PROVE  (b + 1) + Len(mSendBuffer') = m
      <3>1. ASSUME NEW j \in 1 .. Len(mSendBuffer) PROVE mSendBuffer[j] # Stop
        <4>1. CASE j = 1
          BY <4>1, <1>4
        <4>2. CASE j \in 2 .. Len(mSendBuffer)
          <5>1. (j - 1) + 1 = j /\ j - 1 \in 1 .. Len(mSendBuffer) - 1
            BY <4>2, <1>5
          <5> QED
            BY <5>1, <2>3, <1>5
        <4> QED
          BY <4>1, <4>2
      <3>2. b + Len(mSendBuffer) = m
        BY <3>1, <1>1 DEF Window
      <3>3. Len(mSendBuffer') = Len(mSendBuffer) - 1 /\ Len(mSendBuffer) \in Nat /\ b \in Nat
        BY <1>5
      <3> QED
        BY ONLY <3>2, <3>3
    <2> QED
      BY <2>1, <2>2, <2>3, <1>1, <1>2 DEF Window
  <1>9. b + 1 \in 0 .. MaxSend
    BY <1>4
  <1> QED
    BY <1>6, <1>7, <1>8, <1>9 DEF IndInv

\* Taking the first k elements off a sequence.
LEMMA DropFacts ==
    ASSUME NEW S, NEW s \in Seq(S), NEW k \in Nat, k <= Len(s)
    PROVE  /\ SubSeq(s, k + 1, Len(s)) \in Seq(S)
           /\ Len(SubSeq(s, k + 1, Len(s))) = Len(s) - k
           /\ \A i \in 1 .. Len(s) - k : SubSeq(s, k + 1, Len(s))[i] = s[k + i]
  <1>1. PICK rest \in Nat : k + rest = Len(s) /\ rest = Len(s) - k
    <2>1. Len(s) - k \in Nat /\ k + (Len(s) - k) = Len(s)
      OBVIOUS
    <2> QED
      BY <2>1
  <1>2. /\ SubSeq(s, k + 1, k + rest) \in Seq(S)
        /\ Len(SubSeq(s, k + 1, k + rest)) = rest
        /\ \A i \in 1 .. rest : SubSeq(s, k + 1, k + rest)[i] = s[k + i]
    <2>1. rest \in Nat /\ k + rest <= Len(s)
      BY <1>1
    <2> QED
      BY ONLY <2>1, s \in Seq(S), k \in Nat, SubSeqFacts
  <1> QED
    BY <1>1, <1>2

\* Bytes go from the socket to the peer.
LEMMA PeerReadInd ==
    ASSUME IndInv, PeerRead
    PROVE  /\ IndInv'
           /\ \E k \in Nat : /\ Len(got') = Len(got) + k /\ Len(got) \in Nat
                             /\ Len(got') <= Len(sent)
                             /\ dst' \in Seq(DataBytes) /\ Len(dst') = k
                             /\ \A i \in 1 .. k : dst'[i] = sent[Len(got) + i]
  <1>1. UNCHANGED <<app, mSendBuffer, mAlive, open, sender, data, offset, sent, peer>>
    BY DEF PeerRead
  <1>2. PICK k \in 1 .. need :
          /\ k <= Len(pipe) /\ dst' = SubSeq(pipe, 1, k) /\ got' = got \o dst'
          /\ pipe' = SubSeq(pipe, k + 1, Len(pipe)) /\ need' = need - k
    BY DEF PeerRead
  <1>3. /\ TypeOK /\ Len(sent) \in Nat /\ Len(pipe) \in Nat /\ need \in 0 .. MaxRecv /\ k \in Nat
        /\ pipe \in Seq(DataBytes) /\ got \in Seq(DataBytes)
    BY DEF IndInv, TypeOK
  <1>4. /\ dst' \in Seq(DataBytes) /\ Len(dst') = k
        /\ \A i \in 1 .. k : dst'[i] = pipe[i]
    <2>1. 0 \in Nat /\ 0 + k <= Len(pipe) /\ 0 + 1 = 1 /\ 0 + k = k /\ \A i \in 1 .. k : 0 + i = i
      BY <1>2, <1>3
    <2>2. /\ SubSeq(pipe, 0 + 1, 0 + k) \in Seq(DataBytes)
          /\ Len(SubSeq(pipe, 0 + 1, 0 + k)) = k
          /\ \A i \in 1 .. k : SubSeq(pipe, 0 + 1, 0 + k)[i] = pipe[0 + i]
      BY ONLY <1>3, <2>1, SubSeqFacts
    <2> QED
      BY <1>2, <2>1, <2>2
  <1>5. /\ pipe' \in Seq(DataBytes) /\ Len(pipe') = Len(pipe) - k
        /\ \A i \in 1 .. Len(pipe) - k : pipe'[i] = pipe[k + i]
    BY <1>2, <1>3, DropFacts
  <1>6. /\ got' \in Seq(DataBytes) /\ Len(got) \in Nat /\ Len(got') = Len(got) + k
        /\ \A i \in 1 .. Len(got) : got'[i] = got[i]
        /\ \A i \in 1 .. k : got'[Len(got) + i] = dst'[i]
    <2>1. got \in Seq(DataBytes) /\ dst' \in Seq(DataBytes) /\ got' = got \o dst'
      BY <1>2, <1>3, <1>4
    <2>2. /\ got' \in Seq(DataBytes) /\ Len(got) \in Nat /\ Len(got') = Len(got) + Len(dst')
          /\ \A i \in 1 .. Len(got) : got'[i] = got[i]
          /\ \A i \in 1 .. Len(dst') : got'[Len(got) + i] = dst'[i]
      BY ONLY <2>1, ConcatFacts
    <2> QED
      BY <2>2, <1>4
  <1>7. /\ Len(got) + Len(pipe) <= Len(sent)
        /\ \A i \in 1 .. Len(got) : got[i] = sent[i]
        /\ \A i \in 1 .. Len(pipe) : pipe[i] = sent[Len(got) + i]
    BY DEF IndInv, BytesInv
  <1>8. /\ Len(got') <= Len(sent)
        /\ \A i \in 1 .. k : dst'[i] = sent[Len(got) + i]
    <2>1. \A i \in 1 .. k : i \in 1 .. Len(pipe)
      BY <1>2, <1>3
    <2> QED
      BY <2>1, <1>2, <1>3, <1>4, <1>6, <1>7
  <1>9. BytesInv'
    <2>1. ASSUME NEW i \in 1 .. Len(got') PROVE got'[i] = sent[i]
      <3>1. CASE i \in 1 .. Len(got)
        BY <3>1, <1>6, <1>7
      <3>2. CASE i \in Len(got) + 1 .. Len(got) + k
        <4>1. PICK h \in 1 .. k : i = Len(got) + h
          <5>1. i - Len(got) \in 1 .. k /\ i = Len(got) + (i - Len(got))
            BY <3>2, <1>3, <1>6
          <5> QED
            BY <5>1
        <4> QED
          BY <4>1, <1>6, <1>8
      <3> QED
        BY ONLY <3>1, <3>2, <1>3, <1>6, i \in 1 .. Len(got')
    <2>2. ASSUME NEW i \in 1 .. Len(pipe') PROVE pipe'[i] = sent[Len(got') + i]
      <3>1. k + i \in 1 .. Len(pipe) /\ Len(got) + (k + i) = Len(got') + i /\ pipe'[i] = pipe[k + i]
        BY <1>3, <1>5, <1>6
      <3> QED
        BY <3>1, <1>7
    <2>3. Len(got') + Len(pipe') <= Len(sent)
      BY <1>3, <1>5, <1>6, <1>7
    <2> QED
      BY <2>1, <2>2, <2>3, <1>1 DEF BytesInv
  <1>10. TypeOK'
    <2>1. need' \in 0 .. MaxRecv
      BY <1>2, <1>3
    <2> QED
      BY <2>1, <1>1, <1>3, <1>4, <1>5, <1>6 DEF TypeOK
  <1>11. StopInv' /\ OffsetInv' /\ PopsWhatItWrote'
    BY <1>1 DEF IndInv, StopInv, OffsetInv, PopsWhatItWrote
  <1>12. ASSUME NEW m \in 0 .. MaxSend, NEW b \in 0 .. MaxSend, Window(m, b)
         PROVE  Window(m, b)'
    <2>1. Len(got') + Len(pipe') = Len(got) + Len(pipe) /\ inFlight' = inFlight
      BY <1>1, <1>3, <1>5, <1>6 DEF inFlight
    <2> QED
      BY <2>1, <1>1, <1>12 DEF Window
  <1>13. IndInv'
    BY <1>9, <1>10, <1>11, <1>12 DEF IndInv
  <1> QED
    BY <1>3, <1>4, <1>6, <1>8, <1>13

-----------------------------------------------------------------------------
LEMMA StepInd == IndInv /\ [Next]_vars => IndInv'
  <1> SUFFICES ASSUME IndInv, [Next]_vars PROVE IndInv'
    OBVIOUS
  <1>1. CASE Send
    BY <1>1, SendInd
  <1>2. CASE PushStop
    BY <1>2, PushStopInd
  <1>3. CASE CloseSocket \/ CloseAgain \/ ClearAlive \/ Join \/ Destroy \/ Destroyed
    BY <1>3, AppControlInd
  <1>4. CASE Peek
    BY <1>4, PeekInd
  <1>5. CASE TestAlive \/ EnterWrite
    BY <1>5, ThreadControlInd
  <1>6. CASE Write
    BY <1>6, WriteInd
  <1>7. CASE PopFront
    BY <1>7, PopFrontInd
  <1>8. CASE PeerRead
    BY <1>8, PeerReadInd
  <1>9. CASE WriteFails \/ SigPipe
    BY <1>9, WriteFailsInd
  <1>10. CASE RecvCall \/ EndOfFile \/ PeerClose
    BY <1>10, PeerControlInd
  <1>11. CASE UNCHANGED vars
    <2>1. UNCHANGED <<app, mSendBuffer, mAlive, open, sender, data, offset, pipe, got, sent, peer, need, dst>>
      BY <1>11 DEF vars, peerVars
    <2>2. TypeOK' /\ PopsWhatItWrote' /\ StopInv' /\ OffsetInv'
      BY <2>1 DEF IndInv, TypeOK, PopsWhatItWrote, StopInv, OffsetInv
    <2>3. BytesInv'
      BY <2>1 DEF IndInv, BytesInv
    <2>4. \A m, b \in 0 .. MaxSend : Window(m, b) => Window(m, b)'
      BY <2>1 DEF Window, inFlight
    <2> QED
      BY <2>2, <2>3, <2>4 DEF IndInv
  <1> QED
    BY <1>1, <1>2, <1>3, <1>4, <1>5, <1>6, <1>7, <1>8, <1>9, <1>10, <1>11
    DEF Next, Application, SenderThread, Peer

\* The inductive invariant holds in every reachable state.
THEOREM IndInvHolds == Spec => []IndInv
  BY InitInd, StepInd, PTL DEF Spec

\* What the peer has read and will read is a prefix of what was sent, through
\* short writes, Close and the destructor; the thread pops the packet it wrote.
THEOREM PrefixDelivery == Spec => []PeerSeesPrefix
  <1>1. IndInv => PeerSeesPrefix
    <2> SUFFICES ASSUME IndInv PROVE IsPrefix(got \o pipe, sent)
      BY DEF IndInv, PeerSeesPrefix
    <2>1. got \in Seq(DataBytes) /\ pipe \in Seq(DataBytes) /\ sent \in Seq(DataBytes)
      BY DEF IndInv, TypeOK
    <2> DEFINE w == got \o pipe
    <2>2. /\ w \in Seq(DataBytes) /\ Len(w) = Len(got) + Len(pipe)
          /\ Len(got) \in Nat /\ Len(pipe) \in Nat
          /\ \A i \in 1 .. Len(got) : w[i] = got[i]
          /\ \A i \in 1 .. Len(pipe) : w[Len(got) + i] = pipe[i]
      BY <2>1, ConcatFacts
    <2> HIDE DEF w
    <2>3. Len(w) <= Len(sent)
      BY <2>2 DEF IndInv, BytesInv
    <2>4. ASSUME NEW i \in 1 .. Len(w) PROVE w[i] = sent[i]
      <3>1. CASE i \in 1 .. Len(got)
        BY <3>1, <2>2 DEF IndInv, BytesInv
      <3>2. CASE i \in Len(got) + 1 .. Len(got) + Len(pipe)
        <4>1. i - Len(got) \in 1 .. Len(pipe) /\ Len(got) + (i - Len(got)) = i
          BY <3>2, <2>2
        <4> QED
          BY <4>1, <2>2 DEF IndInv, BytesInv
      <3> QED
        BY <3>1, <3>2, <2>2
    <2>5. SubSeq(w, 1, Len(w)) = SubSeq(sent, 1, Len(w))
      BY <2>1, <2>2, <2>3, <2>4
    <2> QED
      BY <2>3, <2>5 DEF IsPrefix, w
  <1> QED
    BY <1>1, IndInvHolds, PTL

\* A stop byte stays in the buffer: the thread pops only what it wrote.
LEMMA StopStays ==
    ASSUME IndInv, PopFront, NEW i \in 1 .. Len(mSendBuffer), mSendBuffer[i] = Stop
    PROVE  \E j \in 1 .. Len(mSendBuffer') : mSendBuffer'[j] = Stop
  <1>1. sender = "pop" /\ mSendBuffer' = Tail(mSendBuffer)
    BY DEF PopFront
  <1>2. mSendBuffer # <<>> /\ Head(mSendBuffer) # Stop
    BY <1>1 DEF IndInv, PopsWhatItWrote, StopInv
  <1>3. /\ Head(mSendBuffer) = mSendBuffer[1]
        /\ Len(mSendBuffer) \in Nat /\ Len(mSendBuffer') = Len(mSendBuffer) - 1
        /\ \A k \in 1 .. Len(mSendBuffer) - 1 : mSendBuffer'[k] = mSendBuffer[k + 1]
    BY <1>1, <1>2, TailFacts DEF IndInv, TypeOK
  <1>4. i # 1
    BY <1>2, <1>3
  <1>5. i - 1 \in 1 .. Len(mSendBuffer') /\ mSendBuffer'[i - 1] = mSendBuffer[(i - 1) + 1]
    BY <1>3, <1>4
  <1> QED
    BY <1>5

\* No step of either thread undoes what Close has done.
LEMMA CloseStep == IndInv /\ CloseInd /\ [Next]_vars => CloseInd'
  <1> SUFFICES ASSUME IndInv, CloseInd, [Next]_vars PROVE CloseInd'
    OBVIOUS
  <1>1. CASE Send
    BY <1>1 DEF Send, peerVars, CloseInd
  <1>2. CASE PushStop
    <2>1. /\ app = "close2" /\ mSendBuffer' = Append(mSendBuffer, Stop)
          /\ UNCHANGED <<mAlive, open, sender, peer>>
      BY <1>2 DEF PushStop, peerVars
    <2>2. /\ Len(mSendBuffer') = Len(mSendBuffer) + 1 /\ Len(mSendBuffer) \in Nat
          /\ mSendBuffer'[Len(mSendBuffer) + 1] = Stop
      <3>1. mSendBuffer \in Seq(Seq(DataBytes) \cup {Stop})
        BY DEF IndInv, TypeOK
      <3> QED
        BY <3>1, <2>1, AppendFacts
    <2>3. Len(mSendBuffer) + 1 \in 1 .. Len(mSendBuffer')
      BY <2>2
    <2> QED
      BY <2>1, <2>2, <2>3 DEF CloseInd
  <1>3. CASE CloseSocket \/ CloseAgain \/ ClearAlive \/ Join \/ Destroy \/ Destroyed
    BY <1>3 DEF CloseSocket, CloseAgain, ClearAlive, Join, Destroy, Destroyed, peerVars, CloseInd
  <1>4. CASE Peek \/ TestAlive \/ EnterWrite \/ Write \/ WriteFails \/ SigPipe \/ Peer
    BY <1>4 DEF Peek, TestAlive, EnterWrite, Write, WriteFails, SigPipe, Peer, RecvCall, PeerRead,
                EndOfFile, PeerClose, peerVars, CloseInd
  <1>5. CASE PopFront
    <2>1. sender' = "peek" /\ UNCHANGED <<app, mAlive, open, peer>>
      BY <1>5 DEF PopFront, peerVars
    <2> QED
      BY <2>1, <1>5, StopStays DEF CloseInd
  <1>6. CASE UNCHANGED vars
    BY <1>6 DEF vars, peerVars, CloseInd
  <1> QED
    BY <1>1, <1>2, <1>3, <1>4, <1>5, <1>6 DEF Next, Application, SenderThread

\* The thread leaves its loop only if Close cleared mAlive, and ends by an
\* exception only if one of the two ends is closed; and Close wakes it and lets
\* it end wherever it was (threaded_sender.cc, Close and the thread's loop;
\* tcp_channel.cc, Send).
THEOREM ThreadEnds == Spec => []ThreadEndsForCause
  <1>1. Init => CloseInd
    BY DEF Init, CloseInd
  <1>2. IndInv /\ CloseInd => ThreadEndsForCause
    <2> SUFFICES ASSUME IndInv, CloseInd PROVE ThreadEndsForCause
      OBVIOUS
    <2>1. app = "close3" => mSendBuffer # <<>>
      BY DEF CloseInd
    <2> QED
      BY <2>1 DEF CloseInd, IndInv, StopInv, ThreadEndsForCause
  <1> QED
    BY <1>1, <1>2, CloseStep, IndInvHolds, PTL DEF Spec

\* The channel implements the byte stream: Send extends it, the peer's reads
\* follow it, and nothing else touches it.
THEOREM Refinement == Spec => ImplementsStream
  <1>1. Init => Stream!Init
    BY DEF Init, Stream!Init
  <1>2. IndInv /\ IndInv' /\ [Next]_vars => [Stream!Next]_(Stream!svars)
    <2> SUFFICES ASSUME IndInv, IndInv', [Next]_vars
                 PROVE  Stream!Next \/ UNCHANGED Stream!svars
      BY DEF Stream!svars
    <2>1. CASE Send
      <3>1. PICK i \in Nat : sent' = sent \o Packet(i) /\ UNCHANGED <<got, dst>>
        <4>1. Len(sent) \in Nat
          BY DEF IndInv, TypeOK
        <4>2. sendCount + 1 \in Nat
          BY <4>1 DEF sendCount
        <4>3. sent' = sent \o Packet(sendCount + 1) /\ UNCHANGED <<got, dst>>
          BY <2>1 DEF Send, peerVars
        <4> WITNESS sendCount + 1 \in Nat
        <4> QED
          BY <4>3
      <3>2. sent \in Seq(DataBytes) /\ sent' \in Seq(DataBytes) /\ Packet(i) \in Seq(Nat \X Nat)
        <4>1. sent \in Seq(DataBytes) /\ sent' \in Seq(DataBytes)
          BY DEF IndInv, TypeOK
        <4>2. Packet(i) \in [1 .. PacketSize -> Nat \X Nat]
          BY ONLY SizesAssumption, i \in Nat DEF Packet
        <4>3. Packet(i) \in Seq(Nat \X Nat)
          BY ONLY <4>2, SizesAssumption
        <4> QED
          BY <4>1, <4>3
      <3>3. Len(sent') >= Len(sent) /\ \A j \in 1 .. Len(sent) : sent'[j] = sent[j]
        BY <3>1, <3>2, ConcatFacts DEF DataBytes
      <3>4. Stream!Write
        BY <3>1, <3>2, <3>3 DEF Stream!Write
      <3> QED
        BY <3>4 DEF Stream!Next
    <2>2. CASE PeerRead
      <3>1. PICK k \in Nat : /\ Len(got') = Len(got) + k /\ Len(got) \in Nat
                             /\ Len(got') <= Len(sent)
                             /\ dst' \in Seq(DataBytes) /\ Len(dst') = k
                             /\ \A i \in 1 .. k : dst'[i] = sent[Len(got) + i]
        BY <2>2, PeerReadInd
      <3>2. sent \in Seq(DataBytes) /\ UNCHANGED sent
        BY <2>2 DEF IndInv, TypeOK, PeerRead
      <3>3. SubSeq(sent, Len(got) + 1, Len(got) + k) = dst'
        <4> DEFINE w == SubSeq(sent, Len(got) + 1, Len(got) + k)
        <4>1. Len(got) + k <= Len(sent)
          BY <3>1
        <4>2. /\ w \in Seq(DataBytes) /\ Len(w) = k
              /\ \A i \in 1 .. k : w[i] = sent[Len(got) + i]
          BY <4>1, <3>1, <3>2, SubSeqFacts
        <4> HIDE DEF w
        <4>3. w = dst'
          BY <4>2, <3>1, SameElements
        <4> QED
          BY <4>3 DEF w
      <3>4. k \in 0 .. Len(sent) - Len(got)
        BY <3>1, <3>2
      <3>5. Stream!Read
        BY <3>1, <3>2, <3>3, <3>4 DEF Stream!Read
      <3> QED
        BY <3>5 DEF Stream!Next
    <2>3. CASE UNCHANGED <<sent, got, dst>>
      BY <2>3 DEF Stream!svars
    <2> QED
      BY <2>1, <2>2, <2>3 DEF Next, Application, SenderThread, vars, CloseSocket, CloseAgain, ClearAlive,
             PushStop, Join, Destroy, Destroyed, Peek, TestAlive, EnterWrite, Write, WriteFails, SigPipe,
             PopFront, Peer, RecvCall, EndOfFile, PeerClose, peerVars
  <1> QED
    BY <1>1, <1>2, IndInvHolds, PTL DEF Spec, ImplementsStream, Stream!Spec
=============================================================================
