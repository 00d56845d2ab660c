------------------------- MODULE NetworkSetupProofs -------------------------
(***************************************************************************)
(* Network::Create sets up the right channels, for any number of parties   *)
(* and any interleaving of their threads.                                  *)
(***************************************************************************)
EXTENDS NetworkSetup, FiniteSetTheorems, TLAPS

LEMMA SequenceFacts ==
    ASSUME NEW S, NEW s \in Seq(S), NEW e \in S
    PROVE  /\ Append(s, e) \in Seq(S)
           /\ Len(s) \in Nat /\ Len(Append(s, e)) = Len(s) + 1
           /\ \A i \in 1 .. Len(s) : Append(s, e)[i] = s[i] /\ s[i] \in S
           /\ Append(s, e)[Len(s) + 1] = e
  OBVIOUS

LEMMA TailFacts ==
    ASSUME NEW S, NEW s \in Seq(S), s # <<>>
    PROVE  /\ Head(s) \in S /\ Head(s) = s[1]
           /\ Len(s) \in Nat /\ Len(s) >= 1
           /\ Tail(s) \in Seq(S) /\ Len(Tail(s)) = Len(s) - 1
           /\ \A i \in 1 .. Len(s) - 1 : Tail(s)[i] = s[i + 1]
  OBVIOUS

\* Connections have the ends they are named after; the kinds of channels differ.
LEMMA ConnFacts ==
    ASSUME NEW p, NEW i, NEW q, NEW j
    PROVE  /\ Conn(p, i).client = p /\ Conn(p, i).server = i
           /\ Conn(p, i) = Conn(q, j) => p = q /\ i = j
           /\ p \in Party /\ i \in Party => Conn(p, i) \in Connection
  BY DEF Conn, Connection

LEMMA ChannelFacts ==
    ASSUME NEW c, NEW p
    PROVE  /\ Peer(c).kind = "peer" /\ Peer(c).conn = c /\ Peer(c) # Null
           /\ Null.kind = "null"
           /\ Self(p).kind = "self" /\ Self(p) # Null
           /\ c \in Connection => Peer(c) \in [kind : {"null", "self", "peer"}, conn : Connection]
  <1>1. Peer(c).kind = "peer" /\ Null.kind = "null" /\ Self(p).kind = "self" /\ Peer(c).conn = c
    BY DEF Peer, Null, Self
  <1> QED
    BY <1>1 DEF Peer

LEMMA InitInd ==
    ASSUME N \in Nat, Init
    PROVE  IndInv
  <1>1. \A p \in Party : p \in Nat /\ 0 \in Party /\ p >= 0
    BY DEF Party
  <1>2. TypeOK
    BY <1>1 DEF Init, TypeOK, Null, Self, Connection
  <1>3. MainInv
    BY <1>1 DEF Init, MainInv
  <1>4. BacklogInv /\ ReturnInv
    BY DEF Init, BacklogInv, ReturnInv
  <1>5. FiledInv
    <2>1. ASSUME NEW i \in Party PROVE Filed(i) = {}
      BY <1>1 DEF Init, Filed
    <2> QED
      BY <2>1, FS_EmptySet DEF Init, FiledInv
  <1> QED
    BY <1>2, <1>3, <1>4, <1>5 DEF IndInv

-----------------------------------------------------------------------------
(* The server thread *)

\* Nothing the invariant's other parts speak of changes.
LEMMA SameMain ==
    ASSUME IndInv, UNCHANGED <<next, connected, idSent, channels>>
    PROVE  /\ MainInv'
           /\ \A q, i : Pending(q, i)' = Pending(q, i)
           /\ \A i : Filed(i)' = Filed(i)
  BY DEF IndInv, MainInv, Pending, Reached, Filed

LEMMA ListenInd ==
    ASSUME N \in Nat, IndInv, NEW p \in Party, Listen(p)
    PROVE  IndInv'
  <1>1. /\ server[p] = "start"
        /\ UNCHANGED <<backlog, accepted, current, next, connected, idSent, channels, returned>>
        /\ \/ listen' = [listen EXCEPT ![p] = "yes"] /\ server' = [server EXCEPT ![p] = "accept"]
           \/ Larger(p) <= 0 /\ UNCHANGED listen /\ server' = [server EXCEPT ![p] = "done"]
    BY DEF Listen, CreateServerSocket, Larger, Party
  <1>2. TypeOK'
    BY <1>1 DEF IndInv, TypeOK
  <1>3. MainInv' /\ BacklogInv' /\ ReturnInv'
    <2>1. \A i \in Party : /\ server'[i] = "id" => server[i] = "id"
                           /\ server[i] = "done" => server'[i] = "done"
      BY <1>1 DEF IndInv, TypeOK
    <2>2. MainInv' /\ \A q, i : Pending(q, i)' = Pending(q, i)
      BY <1>1, SameMain
    <2>3. BacklogInv'
      BY <2>1, <2>2, <1>1 DEF IndInv, BacklogInv
    <2>4. ReturnInv'
      BY <2>1, <1>1 DEF IndInv, ReturnInv, TypeOK
    <2> QED
      BY <2>2, <2>3, <2>4
  <1>4. Larger(p) <= 0 => accepted[p] = Larger(p)
    <2>1. Larger(p) <= 0 => Filed(p) = {} /\ Larger(p) = 0
      BY DEF Larger, Filed, Party
    <2> QED
      BY <2>1, FS_EmptySet DEF IndInv, FiledInv
  <1>5. FiledInv'
    BY <1>1, <1>4, SameMain DEF IndInv, TypeOK, FiledInv
  <1> QED
    BY <1>2, <1>3, <1>5 DEF IndInv

LEMMA AcceptInd ==
    ASSUME N \in Nat, IndInv, NEW p \in Party, Accept(p)
    PROVE  IndInv'
  <1>1. /\ server[p] = "accept" /\ backlog[p] # <<>>
        /\ current' = [current EXCEPT ![p] = Head(backlog[p])]
        /\ backlog' = [backlog EXCEPT ![p] = Tail(backlog[p])]
        /\ server' = [server EXCEPT ![p] = "id"]
        /\ UNCHANGED <<listen, accepted, next, connected, idSent, channels, returned>>
    BY DEF Accept, AcceptConnection
  <1>2. TypeOK /\ backlog[p] \in Seq(Connection)
    BY DEF IndInv, TypeOK
  <1>3. /\ Head(backlog[p]) \in Connection /\ Head(backlog[p]) = backlog[p][1]
        /\ Len(backlog[p]) \in Nat /\ Len(backlog[p]) >= 1
        /\ Tail(backlog[p]) \in Seq(Connection) /\ Len(Tail(backlog[p])) = Len(backlog[p]) - 1
        /\ \A k \in 1 .. Len(backlog[p]) - 1 : Tail(backlog[p])[k] = backlog[p][k + 1]
    BY <1>1, <1>2, TailFacts
  <1>4. TypeOK'
    BY <1>1, <1>2, <1>3 DEF TypeOK
  <1>5. BacklogInv'
    <2>1. ASSUME NEW i \in Party, i # p
          PROVE  backlog'[i] = backlog[i] /\ server'[i] = server[i] /\ current'[i] = current[i]
      BY <2>1, <1>1, <1>2 DEF TypeOK
    <2>2. backlog'[p] = Tail(backlog[p]) /\ current'[p] = backlog[p][1]
      BY <1>1, <1>2, <1>3 DEF TypeOK
    <2>3. /\ \A k \in 1 .. Len(backlog[p]) : \E q \in Party : backlog[p][k] = Conn(q, p) /\ Pending(q, p)
          /\ \A k, l \in 1 .. Len(backlog[p]) : backlog[p][k] = backlog[p][l] => k = l
      BY DEF IndInv, BacklogInv
    <2>4. \A k \in 1 .. Len(backlog[p]) - 1 : k + 1 \in 1 .. Len(backlog[p]) /\ k + 1 # 1
      BY <1>3
    <2>5. /\ \A k \in 1 .. Len(backlog'[p]) : \E q \in Party : backlog'[p][k] = Conn(q, p) /\ Pending(q, p)
          /\ \E q \in Party : current'[p] = Conn(q, p) /\ Pending(q, p)
          /\ \A k \in 1 .. Len(backlog'[p]) : backlog'[p][k] # current'[p]
      BY <2>2, <2>3, <2>4, <1>3
    <2>6. ASSUME NEW k \in 1 .. Len(backlog'[p]), NEW l \in 1 .. Len(backlog'[p]),
                 backlog'[p][k] = backlog'[p][l]
          PROVE  k = l
      <3>1. k + 1 \in 1 .. Len(backlog[p]) /\ l + 1 \in 1 .. Len(backlog[p])
        BY <2>2, <1>3
      <3>2. backlog[p][k + 1] = backlog[p][l + 1]
        BY <2>2, <2>6, <1>3
      <3> QED
        BY <3>1, <3>2, <2>3
    <2>7. \A q, i : Pending(q, i)' = Pending(q, i)
      BY <1>1, SameMain
    <2>8. ASSUME NEW i \in Party, i # p
          PROVE  /\ \A k \in 1 .. Len(backlog'[i]) : \E q \in Party : backlog'[i][k] = Conn(q, i) /\ Pending(q, i)
                 /\ \A k, l \in 1 .. Len(backlog'[i]) : backlog'[i][k] = backlog'[i][l] => k = l
                 /\ server'[i] = "id" =>
                      /\ \E q \in Party : current'[i] = Conn(q, i) /\ Pending(q, i)
                      /\ \A k \in 1 .. Len(backlog'[i]) : backlog'[i][k] # current'[i]
      BY <2>1, <2>8 DEF IndInv, BacklogInv
    <2> QED
      BY <2>5, <2>6, <2>7, <2>8 DEF BacklogInv
  <1>6. MainInv' /\ FiledInv' /\ ReturnInv'
    BY <1>1, <1>2, SameMain DEF IndInv, TypeOK, FiledInv, ReturnInv
  <1> QED
    BY <1>4, <1>5, <1>6 DEF IndInv

\* A server that has counted as many connections as there are larger ids has
\* one of each: it counts clients, none of them twice.
LEMMA AllFiled ==
    ASSUME N \in Nat, IndInv, NEW i \in Party, accepted[i] = Larger(i)
    PROVE  \A p \in Party : p > i => p \in Filed(i)
  <1>1. i + 1 \in Int /\ N - 1 \in Int /\ i \in 0 .. N - 1
    BY DEF Party
  <1>2. /\ IsFiniteSet(i + 1 .. N - 1)
        /\ Cardinality(i + 1 .. N - 1) = IF i + 1 > N - 1 THEN 0 ELSE (N - 1) - (i + 1) + 1
    BY <1>1, FS_Interval
  <1>3. Cardinality(Filed(i)) = Cardinality(i + 1 .. N - 1)
    BY <1>1, <1>2 DEF Larger, IndInv, FiledInv
  <1>4. Filed(i) \in SUBSET (i + 1 .. N - 1)
    BY <1>1 DEF Filed, Party
  <1>5. Filed(i) = i + 1 .. N - 1
    BY <1>2, <1>3, <1>4, FS_Subset
  <1> QED
    BY <1>5 DEF Party

\* The connection at hand is filed under its client, which was not filed yet.
LEMMA ReceiveIdInd ==
    ASSUME N \in Nat, IndInv, NEW p \in Party, ReceiveId(p)
    PROVE  IndInv'
  <1>1. TypeOK /\ server[p] = "id" /\ current[p] \in idSent
    BY DEF IndInv, ReceiveId
  <1>2. PICK q \in Party : current[p] = Conn(q, p) /\ Pending(q, p)
    BY <1>1 DEF IndInv, BacklogInv
  <1>3. /\ channels' = [channels EXCEPT ![p][q] = Peer(Conn(q, p))]
        /\ accepted' = [accepted EXCEPT ![p] = @ + 1]
        /\ server' = [server EXCEPT ![p] = "accept"]
        /\ UNCHANGED <<listen, backlog, current, next, connected, idSent, returned>>
    <2>1. current[p].client = q
      BY <1>2, ConnFacts
    <2> QED
      BY <2>1, <1>2 DEF ReceiveId, Peer
  <1>4. q > p /\ channels[p][q] = Null /\ next[q] > p
    BY <1>1, <1>2 DEF IndInv, MainInv, Pending
  <1>5. /\ channels'[p][q] = Peer(Conn(q, p))
        /\ \A a, b \in Party : a # p \/ b # q => channels'[a][b] = channels[a][b]
    BY <1>1, <1>3 DEF TypeOK
  <1>n. \A a, b \in Party : a \in Int /\ b \in Int
    BY DEF Party
  <1>6. TypeOK'
    <2>1. Peer(Conn(q, p)) \in [kind : {"null", "self", "peer"}, conn : Connection]
      BY ConnFacts, ChannelFacts
    <2> QED
      BY <2>1, <1>1, <1>3 DEF TypeOK
  <1>7. MainInv'
    <2>1. \A a, b \in Party : b <= a => channels'[a][b] = channels[a][b]
      BY <1>4, <1>5, <1>n
    <2> QED
      BY <2>1, <1>3, <1>n DEF IndInv, MainInv
  <1>8. BacklogInv'
    <2>1. ASSUME NEW a \in Party, NEW i \in Party, Pending(a, i), a # q \/ i # p
          PROVE  Pending(a, i)'
      BY <2>1, <1>3, <1>5 DEF Pending, Reached
    <2>2. ASSUME NEW i \in Party, NEW k \in 1 .. Len(backlog[i])
          PROVE  \E a \in Party : backlog[i][k] = Conn(a, i) /\ Pending(a, i)'
      <3>1. PICK a \in Party : backlog[i][k] = Conn(a, i) /\ Pending(a, i)
        BY DEF IndInv, BacklogInv
      <3>2. i = p => backlog[i][k] # Conn(q, p)
        BY <1>1, <1>2 DEF IndInv, BacklogInv
      <3> QED
        BY <3>1, <3>2, <2>1
    <2>3. ASSUME NEW i \in Party, server'[i] = "id"
          PROVE  i # p /\ server[i] = "id" /\ \E a \in Party : current[i] = Conn(a, i) /\ Pending(a, i)'
      <3>1. i # p /\ server[i] = "id"
        BY <2>3, <1>1, <1>3 DEF TypeOK
      <3> QED
        BY <3>1, <2>1 DEF IndInv, BacklogInv
    <2> QED
      BY <2>2, <2>3, <1>3 DEF IndInv, BacklogInv
  <1>9. FiledInv'
    <2>1. Filed(p)' = Filed(p) \cup {q} /\ q \notin Filed(p)
      BY <1>4, <1>5, ChannelFacts DEF Filed
    <2>2. \A i \in Party : i # p => Filed(i)' = Filed(i)
      BY <1>5 DEF Filed
    <2>3. IsFiniteSet(Filed(p))
      <3>1. IsFiniteSet(0 .. N - 1) /\ Filed(p) \in SUBSET (0 .. N - 1)
        BY FS_Interval DEF Filed, Party
      <3> QED
        BY <3>1, FS_Subset
    <2>4. Cardinality(Filed(p)') = accepted[p] + 1
      BY <2>1, <2>3, FS_AddElement DEF IndInv, FiledInv
    <2>5. ASSUME NEW i \in Party
          PROVE  /\ \A a \in Filed(i)' : channels'[i][a] = Peer(Conn(a, i)) /\ next[a] > i
                 /\ accepted'[i] = Cardinality(Filed(i)')
                 /\ server'[i] = "done" \/ listen'[i] = "closed" => accepted'[i] = Larger(i)
      <3>1. CASE i = p
        <4>1. server[p] = "id" /\ server'[p] = "accept" /\ listen'[p] = listen[p] /\ accepted'[p] = accepted[p] + 1
          BY <1>1, <1>3 DEF TypeOK
        <4>2. listen[p] # "closed"
          <5>1. ASSUME listen[p] = "closed" PROVE FALSE
            <6>1. accepted[p] = Larger(p)
              BY <5>1 DEF IndInv, FiledInv
            <6> QED
              BY <6>1, <1>4, <2>1, AllFiled
          <5> QED
            BY <5>1
        <4> QED
          <5>1. accepted'[p] = Cardinality(Filed(p)')
            BY <4>1, <2>4
          <5>2. \A a \in Filed(p)' : channels'[p][a] = Peer(Conn(a, p)) /\ next[a] > p
            BY <2>1, <1>4, <1>5 DEF IndInv, FiledInv, Filed
          <5> QED
            BY <5>1, <5>2, <4>1, <4>2, <3>1
      <3>2. CASE i # p
        <4>1. accepted'[i] = accepted[i] /\ server'[i] = server[i] /\ listen'[i] = listen[i]
          BY <3>2, <1>1, <1>3 DEF TypeOK
        <4>2. \A a \in Filed(i) : channels'[i][a] = channels[i][a]
          BY <3>2, <1>5 DEF Filed
        <4> QED
          BY <4>1, <4>2, <3>2, <2>2 DEF IndInv, FiledInv
      <3> QED
        BY <3>1, <3>2
    <2> QED
      BY <2>5, <1>3 DEF FiledInv
  <1>10. ReturnInv'
    <2>1. p \notin returned
      BY <1>1 DEF IndInv, ReturnInv
    <2> QED
      BY <2>1, <1>1, <1>3 DEF IndInv, ReturnInv, TypeOK
  <1> QED
    BY <1>6, <1>7, <1>8, <1>9, <1>10 DEF IndInv

LEMMA StopListeningInd ==
    ASSUME N \in Nat, IndInv, NEW p \in Party, StopListening(p)
    PROVE  IndInv'
  <1>1. /\ server[p] = "accept" /\ accepted[p] = Larger(p)
        /\ listen' = [listen EXCEPT ![p] = "closed"] /\ server' = [server EXCEPT ![p] = "done"]
        /\ UNCHANGED <<backlog, accepted, current, next, connected, idSent, channels, returned>>
    BY DEF StopListening
  <1>2. TypeOK'
    BY <1>1 DEF IndInv, TypeOK
  <1>3. \A i \in Party : /\ server'[i] = "id" => server[i] = "id"
                         /\ server[i] = "done" => server'[i] = "done"
                         /\ i # p => server'[i] = server[i] /\ listen'[i] = listen[i]
    BY <1>1 DEF IndInv, TypeOK
  <1>4. /\ MainInv' /\ \A q, i : Pending(q, i)' = Pending(q, i)
        /\ \A i : Filed(i)' = Filed(i)
    BY <1>1, SameMain
  <1>5. BacklogInv'
    BY <1>1, <1>3, <1>4 DEF IndInv, BacklogInv
  <1>6. ReturnInv'
    BY <1>1, <1>3 DEF IndInv, ReturnInv, TypeOK
  <1>7. FiledInv'
    BY <1>1, <1>3, <1>4 DEF IndInv, FiledInv
  <1> QED
    BY <1>2, <1>4, <1>5, <1>6, <1>7 DEF IndInv

-----------------------------------------------------------------------------
(* The main thread *)

\* The connection is a new one: the thread was not yet at its server.
LEMMA ConnectInd ==
    ASSUME N \in Nat, IndInv, NEW p \in Party, Connect(p)
    PROVE  IndInv'
  <1>0. PICK i \in Party : i = next[p]
    BY DEF IndInv, TypeOK
  <1> DEFINE c == Conn(p, i)
  <1>1. /\ i < p /\ ~connected[p]
        /\ listen[i] = "yes"
        /\ backlog' = [backlog EXCEPT ![i] = Append(backlog[i], c)]
        /\ connected' = [connected EXCEPT ![p] = TRUE]
        /\ UNCHANGED <<listen, server, accepted, current, next, idSent, channels, returned>>
    BY <1>0 DEF Connect, ConnectAsClient, Conn
  <1>2. TypeOK /\ i \in Party /\ backlog[i] \in Seq(Connection) /\ c \in Connection
    BY ConnFacts DEF IndInv, TypeOK
  <1>3. ~Reached(p, i)
    BY <1>0, <1>1, <1>2 DEF Reached, Party
  <1>4. channels[i][p] = Null
    <2>1. p \notin Filed(i)
      BY <1>0, <1>1, <1>2 DEF IndInv, FiledInv, Party
    <2> QED
      BY <2>1, <1>1 DEF Filed
  <1> HIDE DEF c
  <1>5. c = Conn(p, i) /\ i = next[p]
    BY <1>0 DEF c
  <1>6. /\ backlog'[i] = Append(backlog[i], c)
        /\ Len(backlog[i]) \in Nat /\ Len(backlog'[i]) = Len(backlog[i]) + 1
        /\ \A k \in 1 .. Len(backlog[i]) : backlog'[i][k] = backlog[i][k]
        /\ backlog'[i][Len(backlog[i]) + 1] = c
        /\ backlog'[i] \in Seq(Connection)
        /\ \A j \in Party : j # i => backlog'[j] = backlog[j]
    <2>1. /\ backlog'[i] = Append(backlog[i], c)
          /\ \A j \in Party : j # i => backlog'[j] = backlog[j]
      BY <1>1, <1>2 DEF TypeOK
    <2> QED
      BY <2>1, <1>2, SequenceFacts
  <1>7. TypeOK'
    BY <1>1, <1>2, <1>6 DEF TypeOK
  <1>8. MainInv'
    BY <1>1, <1>2, <1>5 DEF IndInv, MainInv, TypeOK
  <1>9. BacklogInv'
    <2>1. \A a, j \in Party : Pending(a, j) => Pending(a, j)'
      BY <1>1, <1>2 DEF Pending, Reached, TypeOK
    <2>2. Pending(p, i)'
      BY <1>1, <1>2, <1>4, <1>5 DEF Pending, Reached, TypeOK
    <2>3. ASSUME NEW k \in 1 .. Len(backlog[i]) PROVE backlog[i][k] # c
      <3>1. PICK a \in Party : backlog[i][k] = Conn(a, i) /\ Pending(a, i)
        BY <1>2 DEF IndInv, BacklogInv
      <3>2. a # p
        BY <3>1, <1>3 DEF Pending
      <3> QED
        BY <3>1, <3>2, <1>5, ConnFacts
    <2>4. server[i] = "id" => current[i] # c
      <3>1. ASSUME server[i] = "id" PROVE current[i] # c
        <4>1. PICK a \in Party : current[i] = Conn(a, i) /\ Pending(a, i)
          BY <3>1, <1>2 DEF IndInv, BacklogInv
        <4>2. a # p
          BY <4>1, <1>3 DEF Pending
        <4> QED
          BY <4>1, <4>2, <1>5, ConnFacts
      <3> QED
        BY <3>1
    <2>5. ASSUME NEW j \in Party
          PROVE  /\ \A k \in 1 .. Len(backlog'[j]) :
                       \E a \in Party : backlog'[j][k] = Conn(a, j) /\ Pending(a, j)'
                 /\ \A k, l \in 1 .. Len(backlog'[j]) : backlog'[j][k] = backlog'[j][l] => k = l
                 /\ server[j] = "id" =>
                      /\ \E a \in Party : current[j] = Conn(a, j) /\ Pending(a, j)'
                      /\ \A k \in 1 .. Len(backlog'[j]) : backlog'[j][k] # current[j]
      <3>0. /\ \A k \in 1 .. Len(backlog[j]) :
                  \E a \in Party : backlog[j][k] = Conn(a, j) /\ Pending(a, j)'
            /\ \A k, l \in 1 .. Len(backlog[j]) : backlog[j][k] = backlog[j][l] => k = l
            /\ server[j] = "id" =>
                 /\ \E a \in Party : current[j] = Conn(a, j) /\ Pending(a, j)'
                 /\ \A k \in 1 .. Len(backlog[j]) : backlog[j][k] # current[j]
        BY <2>1 DEF IndInv, BacklogInv
      <3>1. CASE j = i
        <4>1. \A k \in 1 .. Len(backlog'[j]) : k \in 1 .. Len(backlog[j]) \/ k = Len(backlog[j]) + 1
          BY <3>1, <1>6
        <4>2. \A k \in 1 .. Len(backlog'[j]) :
                 \E a \in Party : backlog'[j][k] = Conn(a, j) /\ Pending(a, j)'
          <5>1. ASSUME NEW k \in 1 .. Len(backlog[i])
                PROVE  \E a \in Party : backlog'[i][k] = Conn(a, i) /\ Pending(a, i)'
            BY <3>0, <3>1, <1>6
          <5>2. \E a \in Party : backlog'[i][Len(backlog[i]) + 1] = Conn(a, i) /\ Pending(a, i)'
            BY <2>2, <1>5, <1>6
          <5> QED
            BY <5>1, <5>2, <4>1, <3>1
        <4>3. \A k, l \in 1 .. Len(backlog'[j]) : backlog'[j][k] = backlog'[j][l] => k = l
          BY <4>1, <3>0, <3>1, <2>3, <1>6
        <4>4. server[j] = "id" => \A k \in 1 .. Len(backlog'[j]) : backlog'[j][k] # current[j]
          BY <4>1, <3>0, <3>1, <2>4, <1>6
        <4> QED
          BY <4>2, <4>3, <4>4, <3>0
      <3>2. CASE j # i
        BY <3>0, <3>2, <1>6
      <3> QED
        BY <3>1, <3>2
    <2> QED
      BY <2>5, <1>1 DEF BacklogInv
  <1>10. FiledInv' /\ ReturnInv'
    BY <1>1 DEF IndInv, FiledInv, Filed, ReturnInv
  <1> QED
    BY <1>7, <1>8, <1>9, <1>10 DEF IndInv

LEMMA SendIdInd ==
    ASSUME N \in Nat, IndInv, NEW p \in Party, SendId(p)
    PROVE  IndInv'
  <1>i. PICK i \in Party : i = next[p]
    BY DEF IndInv, TypeOK
  <1>1. /\ connected[p]
        /\ idSent' = idSent \cup {Conn(p, i)}
        /\ channels' = [channels EXCEPT ![p][i] = Peer(Conn(p, i))]
        /\ next' = [next EXCEPT ![p] = i + 1]
        /\ connected' = [connected EXCEPT ![p] = FALSE]
        /\ UNCHANGED <<listen, backlog, server, accepted, current, returned>>
    BY <1>i DEF SendId, Conn, Peer, IndInv, TypeOK
  <1>2. TypeOK /\ i \in Party /\ i < p /\ i \in Nat /\ p \in Nat /\ i + 1 \in Party
    <2>1. TypeOK /\ i \in Party /\ i < p
      BY <1>1, <1>i DEF IndInv, MainInv
    <2> QED
      BY ONLY N \in Nat, <2>1, p \in Party DEF Party
  <1>n. \A a \in Party : a \in Int
    BY DEF Party
  <1>3. /\ channels'[p][i] = Peer(Conn(p, i))
        /\ \A a, b \in Party : a # p \/ b # i => channels'[a][b] = channels[a][b]
    BY <1>1, <1>2 DEF TypeOK
  <1>4. next'[p] = i + 1 /\ \A a \in Party : a # p => next'[a] = next[a] /\ connected'[a] = connected[a]
    BY <1>1, <1>2 DEF TypeOK
  <1>5. TypeOK'
    <2>1. Peer(Conn(p, i)) \in [kind : {"null", "self", "peer"}, conn : Connection]
      BY <1>2, ConnFacts, ChannelFacts
    <2> QED
      BY <2>1, <1>1, <1>2 DEF TypeOK
  <1>6. \A a \in Party : next[a] \in Int /\ next'[a] \in Int /\ next'[a] >= next[a]
    <2>1. ASSUME NEW a \in Party PROVE next[a] \in Int
      BY <1>2, <1>n DEF TypeOK
    <2>2. ASSUME NEW a \in Party PROVE next'[a] \in Int /\ next'[a] >= next[a]
      <3>1. CASE a = p
        BY <3>1, <1>2, <1>4, <1>i
      <3>2. CASE a # p
        BY <3>2, <2>1, <1>4
      <3> QED
        BY <3>1, <3>2
    <2> QED
      BY <2>1, <2>2
  <1>7. \A a, j \in Party : Reached(a, j) => Reached(a, j)'
    BY <1>2, <1>4, <1>6, <1>n, <1>i DEF Reached
  <1>8. MainInv'
    <2>1. \A a \in Party : next'[a] <= a /\ (connected'[a] => next'[a] < a)
      BY <1>1, <1>2, <1>4 DEF IndInv, MainInv, TypeOK
    <2>2. \A a, j \in Party : Conn(a, j) \in idSent' => next'[a] > j
      BY <1>1, <1>2, <1>4, <1>6, <1>n, ConnFacts DEF IndInv, MainInv
    <2>3. ASSUME NEW a \in Party, NEW b \in Party, b < a
          PROVE  channels'[a][b] = IF next'[a] > b THEN Peer(Conn(a, b)) ELSE Null
      <3>1. CASE a = p /\ b = i
        BY <3>1, <1>2, <1>3, <1>4
      <3>2. CASE a = p /\ b # i
        <4>1. channels'[a][b] = channels[a][b]
          BY <3>2, <1>3
        <4>2. next'[a] > b <=> next[a] > b
          BY <3>2, <1>2, <1>4, <1>i, <1>n
        <4> QED
          BY <4>1, <4>2, <2>3 DEF IndInv, MainInv
      <3>3. CASE a # p
        BY <3>3, <2>3, <1>3, <1>4 DEF IndInv, MainInv
      <3> QED
        BY <3>1, <3>2, <3>3
    <2>4. \A a \in Party : channels'[a][a] = Self(a)
      BY <1>2, <1>3 DEF IndInv, MainInv
    <2> QED
      BY <2>1, <2>2, <2>3, <2>4 DEF MainInv
  <1>9. \A a, j \in Party : a > j => channels'[j][a] = channels[j][a]
    BY <1>2, <1>3, <1>n
  <1>10. \A a, j \in Party : Pending(a, j) => Pending(a, j)'
    BY <1>7, <1>9 DEF Pending
  <1>11. BacklogInv'
    BY <1>1, <1>10 DEF IndInv, BacklogInv
  <1>12. FiledInv'
    <2>1. \A j \in Party : Filed(j)' = Filed(j)
      BY <1>9 DEF Filed
    <2>2. ASSUME NEW j \in Party, NEW a \in Filed(j)
          PROVE  channels'[j][a] = Peer(Conn(a, j)) /\ next'[a] > j
      <3>1. a \in Party /\ a > j
        BY DEF Filed
      <3>2. channels[j][a] = Peer(Conn(a, j)) /\ next[a] > j
        BY DEF IndInv, FiledInv
      <3> QED
        BY <3>1, <3>2, <1>6, <1>9, <1>n
    <2> QED
      BY <2>1, <2>2, <1>1 DEF IndInv, FiledInv
  <1>13. ReturnInv'
    <2>1. p \notin returned
      BY <1>2, <1>i DEF IndInv, ReturnInv
    <2> QED
      BY <2>1, <1>1, <1>2, <1>4 DEF IndInv, ReturnInv, TypeOK
  <1> QED
    BY <1>5, <1>8, <1>11, <1>12, <1>13 DEF IndInv

LEMMA ReturnInd ==
    ASSUME N \in Nat, IndInv, NEW p \in Party, Return(p)
    PROVE  IndInv'
  <1>1. /\ next[p] = p /\ server[p] = "done" /\ returned' = returned \cup {p}
        /\ UNCHANGED <<listen, backlog, server, accepted, current, next, connected, idSent, channels>>
    BY DEF Return
  <1>2. MainInv' /\ (\A q, i : Pending(q, i)' = Pending(q, i)) /\ \A i : Filed(i)' = Filed(i)
    BY <1>1, SameMain
  <1>3. TypeOK' /\ ReturnInv'
    BY <1>1 DEF IndInv, TypeOK, ReturnInv
  <1>4. BacklogInv' /\ FiledInv'
    BY <1>1, <1>2 DEF IndInv, BacklogInv, FiledInv
  <1> QED
    BY <1>2, <1>3, <1>4 DEF IndInv

-----------------------------------------------------------------------------
LEMMA StepInd ==
    ASSUME N \in Nat, IndInv, [Next]_vars
    PROVE  IndInv'
  <1>1. ASSUME NEW p \in Party, ServerStep(p) \/ Connect(p) \/ SendId(p) \/ Return(p)
        PROVE  IndInv'
    BY <1>1, ListenInd, AcceptInd, ReceiveIdInd, StopListeningInd, ConnectInd, SendIdInd, ReturnInd
       DEF ServerStep
  <1>2. CASE UNCHANGED vars
    <2>1. /\ UNCHANGED <<listen, backlog, server, accepted, current, next, connected>>
          /\ UNCHANGED <<idSent, channels, returned>>
      BY <1>2 DEF vars
    <2>2. MainInv' /\ (\A q, i : Pending(q, i)' = Pending(q, i)) /\ \A i : Filed(i)' = Filed(i)
      BY <2>1, SameMain
    <2> QED
      BY <2>1, <2>2 DEF IndInv, TypeOK, BacklogInv, FiledInv, ReturnInv
  <1> QED
    BY <1>1, <1>2 DEF Next

LEMMA IndImplies ==
    ASSUME N \in Nat, IndInv
    PROVE  SetupRight
  <1>n. \A p \in Party : p \in Int
    BY DEF Party
  <1>1. ASSUME NEW p \in Party, NEW q \in Party
        PROVE  \/ q < p /\ channels[p][q] = (IF next[p] > q THEN Peer(Conn(p, q)) ELSE Null)
               \/ q = p /\ channels[p][q] = Self(p)
               \/ q > p /\ q \in Filed(p) /\ channels[p][q] = Peer(Conn(q, p)) /\ next[q] > p
               \/ q > p /\ q \notin Filed(p) /\ channels[p][q] = Null
    <2>1. q < p \/ q = p \/ q > p
      BY <1>n
    <2>2. CASE q < p
      BY <2>2 DEF IndInv, MainInv
    <2>3. CASE q = p
      BY <2>3 DEF IndInv, MainInv
    <2>4. CASE q > p
      <3>1. q \in Filed(p) => channels[p][q] = Peer(Conn(q, p)) /\ next[q] > p
        BY DEF IndInv, FiledInv
      <3>2. q \notin Filed(p) => channels[p][q] = Null
        BY <2>4 DEF Filed
      <3> QED
        BY <3>1, <3>2, <2>4
    <2> QED
      BY <2>1, <2>2, <2>3, <2>4
  <1>2. ChannelsPaired
    <2> SUFFICES ASSUME NEW p \in Party, NEW q \in Party, channels[p][q].kind = "peer"
                 PROVE  {channels[p][q].conn.client, channels[p][q].conn.server} = {p, q}
      BY DEF ChannelsPaired
    <2>1. channels[p][q] = Peer(Conn(p, q)) \/ channels[p][q] = Peer(Conn(q, p))
      BY <1>1, ChannelFacts
    <2> QED
      BY <2>1, ChannelFacts, ConnFacts
  <1>3. ASSUME NEW i \in Party, NEW p \in Party, server[i] = "done" \/ listen[i] = "closed", p > i
        PROVE  p \in Filed(i) /\ next[p] > i
    <2>1. accepted[i] = Larger(i)
      BY <1>3 DEF IndInv, FiledInv
    <2>2. p \in Filed(i)
      BY <2>1, <1>3, AllFiled
    <2> QED
      BY <2>2 DEF IndInv, FiledInv
  <1>4. CompleteAtReturn
    <2> SUFFICES ASSUME NEW p \in returned, NEW q \in Party
                 PROVE  channels[p][q].kind # "null"
      BY DEF CompleteAtReturn
    <2>1. p \in Party /\ next[p] = p /\ server[p] = "done"
      BY DEF IndInv, ReturnInv, TypeOK
    <2> QED
      BY <2>1, <1>1, <1>3, <1>n, ChannelFacts
  <1>5. NobodyLeftOut
    BY <1>3 DEF NobodyLeftOut
  <1> QED
    BY <1>2, <1>4, <1>5 DEF SetupRight

\* Every channel Create files joins the two parties it is between, none is
\* missing when Create returns, and no server socket is closed on a party that
\* still has to connect (network.cc: two threads fill one vector, and the
\* server thread counts connections).
THEOREM SetupCorrect ==
    ASSUME N \in Nat
    PROVE  Spec => []SetupRight
  <1>1. Init => IndInv
    BY InitInd
  <1>2. IndInv /\ [Next]_vars => IndInv'
    BY StepInd
  <1>3. IndInv => SetupRight
    BY IndImplies
  <1> QED
    BY <1>1, <1>2, <1>3, PTL DEF Spec
=============================================================================
