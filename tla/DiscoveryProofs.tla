--------------------------- MODULE DiscoveryProofs --------------------------
(***************************************************************************)
(* Every list discovery lets out is the same for all and, when the server  *)
(* is party 0, names every client under the id and the port it announced,  *)
(* for any number of parties, any claimed ids and any order of arrival.    *)
(***************************************************************************)
EXTENDS Discovery, FiniteSetTheorems, FunctionTheorems, TLAPS

USE DiscoveryAssumption

LEMMA SequenceFacts ==
    ASSUME NEW S, NEW s \in Seq(S), NEW e \in S
    PROVE  /\ Append(s, e) \in Seq(S)
           /\ Len(s) \in Nat /\ Len(Append(s, e)) = Len(s) + 1
           /\ \A i \in 1 .. Len(s) : Append(s, e)[i] = s[i] /\ s[i] \in S
           /\ Append(s, e)[Len(s) + 1] = e
           /\ s # <<>> => Head(s) \in S /\ Tail(s) \in Seq(S)
  OBVIOUS

\* The default entry has id 0 (config.h: Party's members are zeroed), so a
\* valid list has the id i at every position i.
LEMMA ValidIds ==
    ASSUME EntryInv, Valid(parties)
    PROVE  /\ \A i \in Ids : parties[i].id = i
           /\ \A i \in Ids : i # 0 /\ i # Me =>
                 \E c \in Clients : claim[c] = i /\ parties[i].port = c
  <1>1. ASSUME NEW i \in Ids
        PROVE  /\ parties[i].id \in {0, i}
               /\ parties[i].id = i \/ i = 0 \/ i # Me
               /\ \/ parties[i].id = 0
                  \/ i = Me
                  \/ \E c \in Clients : claim[c] = i /\ parties[i].port = c
    BY DEF EntryInv, MyEntry, DefaultParty
  <1>2. 0 \in Ids
    BY DEF Ids
  <1>3. parties[0].id = 0
    BY <1>1, <1>2
  <1>4. ASSUME NEW i \in Ids, i # 0 PROVE parties[i].id # 0
    BY <1>2, <1>3, <1>4 DEF Valid
  <1> QED
    BY <1>1, <1>3, <1>4

LEMMA InitInd == Init => IndInv
  <1> SUFFICES ASSUME Init PROVE IndInv
    OBVIOUS
  <1>1. TypeOK
    BY DEF Init, TypeOK
  <1>2. SlotsInv /\ EntryInv
    BY DEF Init, SlotsInv, EntryInv
  <1>3. OutInv /\ DOMAIN config = Clients /\ SameConfig
    BY DEF Init, OutInv, SameConfig
  <1> QED
    BY <1>1, <1>2, <1>3 DEF IndInv

LEMMA ConnectInd ==
    ASSUME IndInv, NEW c \in Clients, ClientConnect(c)
    PROVE  IndInv'
  <1>1. waiting' = Append(waiting, c) /\ UNCHANGED <<claim, slots, parties, slot, server, told, config>>
    BY DEF ClientConnect
  <1>2. waiting' \in Seq(Clients)
    BY <1>1, SequenceFacts DEF IndInv, TypeOK
  <1> QED
    BY <1>1, <1>2 DEF IndInv, TypeOK, SlotsInv, EntryInv, OutInv, SameConfig, Valid

LEMMA AcceptInd ==
    ASSUME IndInv, AcceptSlot
    PROVE  IndInv'
  <1>1. /\ server = "accept" /\ Len(slots) < N
        /\ server' = (IF Len(slots') = N THEN "collect" ELSE "accept")
        /\ UNCHANGED <<claim, parties, slot, told, config>>
    BY DEF AcceptSlot
  <1>2. PICK e \in Ids : /\ slots' = Append(slots, e)
                         /\ e = Me <=> Len(slots) = Me
                         /\ waiting' \in Seq(Clients)
    <2>1. waiting \in Seq(Clients) /\ Me \in Ids /\ Clients = Ids \ {Me}
      BY DEF IndInv, TypeOK, Ids, Clients
    <2>2. waiting # <<>> => Head(waiting) \in Clients /\ Tail(waiting) \in Seq(Clients)
      BY <2>1, SequenceFacts
    <2>3. CASE Len(slots) = Me
      BY <2>1, <2>3 DEF AcceptSlot
    <2>4. CASE Len(slots) # Me
      BY <2>1, <2>2, <2>4 DEF AcceptSlot
    <2> QED
      BY <2>3, <2>4
  <1>3. /\ slots \in Seq(Ids) /\ slots' \in Seq(Ids) /\ Len(slots) \in Nat /\ Len(slots') = Len(slots) + 1
        /\ \A i \in 1 .. Len(slots) : slots'[i] = slots[i]
        /\ slots'[Len(slots) + 1] = e
    BY <1>2, SequenceFacts DEF IndInv, TypeOK
  <1>4. TypeOK'
    BY <1>1, <1>2, <1>3 DEF IndInv, TypeOK
  <1>5. SlotsInv'
    BY <1>1, <1>2, <1>3 DEF IndInv, SlotsInv
  <1> QED
    BY <1>1, <1>4, <1>5 DEF IndInv, EntryInv, OutInv, SameConfig, Valid

\* A slot's client fills the entry of the id it announced.
LEMMA CollectInd ==
    ASSUME IndInv, CollectSlot
    PROVE  IndInv'
  <1>1. /\ server = "collect" /\ slot < N /\ slot' = slot + 1
        /\ UNCHANGED <<claim, waiting, slots, told, config>>
    BY DEF CollectSlot
  <1>2. told = {} /\ \A c \in Clients : config[c] = <<>>
    BY <1>1 DEF IndInv, OutInv
  <1>3. TypeOK' /\ SlotsInv'
    <2>1. server' \in {"collect", "threw"}
      BY <1>1 DEF CollectSlot
    <2> QED
      BY <2>1, <1>1 DEF IndInv, TypeOK, SlotsInv
  <1>4. EntryInv'
    <2>1. CASE UNCHANGED parties
      BY <2>1, <1>1 DEF IndInv, EntryInv
    <2>2. CASE slot # Me /\ claim[slots[slot + 1]] < N
      <3> DEFINE c == slots[slot + 1]
                 id == claim[c]
      <3>1. c \in Clients /\ id \in Ids
        <4>1. slot + 1 \in 1 .. Len(slots) /\ slot + 1 # Me + 1
          BY <1>1, <2>2 DEF IndInv, SlotsInv, TypeOK
        <4>2. c \in Ids /\ c # Me
          BY <4>1, SequenceFacts DEF IndInv, TypeOK, SlotsInv
        <4>3. claim \in [Clients -> ClaimedIds] /\ c \in Clients
          BY <4>2 DEF IndInv, TypeOK, Clients
        <4> QED
          <5>1. id \in 0 .. N
            BY <4>3
          <5> QED
            BY <5>1, <4>3, <2>2 DEF Ids
      <3>2. parties' = [parties EXCEPT ![id] = [id |-> id, host |-> Host(id), port |-> c]]
        BY <2>2, <3>1 DEF CollectSlot, Ids
      <3> HIDE DEF c
      <3>3. DOMAIN parties = Ids /\ DOMAIN parties' = Ids /\ parties' = [i \in Ids |-> parties'[i]]
        BY <3>2 DEF IndInv, EntryInv
      <3>4. ASSUME NEW i \in Ids
            PROVE  \/ parties'[i] = IF i = Me THEN MyEntry ELSE DefaultParty
                   \/ /\ parties'[i].id = i
                      /\ \E d \in Clients : claim'[d] = i /\ parties'[i].port = d
        <4>1. CASE i = id
          <5>1. parties'[i] = [id |-> id, host |-> Host(id), port |-> c]
            BY <4>1, <3>2, <3>3
          <5>2. parties'[i].id = i /\ parties'[i].port = c
            BY <5>1, <4>1
          <5> QED
            BY <5>2, <4>1, <3>1, <1>1
        <4>2. CASE i # id
          BY <4>2, <3>2, <3>3, <1>1 DEF IndInv, EntryInv
        <4> QED
          BY <4>1, <4>2
      <3> QED
        BY <3>3, <3>4 DEF EntryInv
    <2> QED
      <3>1. claim[slots[slot + 1]] >= N \/ claim[slots[slot + 1]] < N \/ slot = Me
        <4>1. slot # Me => slots[slot + 1] \in Clients
          <5>1. slot # Me => slot + 1 \in 1 .. Len(slots) /\ slot + 1 # Me + 1
            BY <1>1 DEF IndInv, SlotsInv, TypeOK
          <5> QED
            BY <5>1, SequenceFacts DEF IndInv, TypeOK, SlotsInv, Clients
        <4>2. \A c \in Clients : claim[c] \in 0 .. N
          BY DEF IndInv, TypeOK
        <4> QED
          BY <4>1, <4>2
      <3> QED
        BY <3>1, <2>1, <2>2 DEF CollectSlot
  <1>5. OutInv' /\ DOMAIN config' = Clients /\ SameConfig'
    <2>1. server' \in {"collect", "threw"}
      BY <1>1 DEF CollectSlot
    <2> QED
      BY <2>1, <1>1, <1>2 DEF IndInv, OutInv, SameConfig
  <1> QED
    BY <1>3, <1>4, <1>5 DEF IndInv

LEMMA MakeInd ==
    ASSUME IndInv, MakeConfig
    PROVE  IndInv'
  <1>1. /\ server = "collect" /\ server' = (IF Valid(parties) THEN "send" ELSE "threw")
        /\ UNCHANGED <<claim, waiting, slots, parties, slot, told, config>>
    BY DEF MakeConfig
  <1> QED
    BY <1>1 DEF IndInv, TypeOK, SlotsInv, EntryInv, OutInv, SameConfig, Valid

LEMMA SendInd ==
    ASSUME IndInv, NEW c \in Clients, SendConfig(c)
    PROVE  IndInv'
  <1>1. /\ server = "send" /\ server' \in {"send", "done"} /\ told' = told \cup {c}
        /\ UNCHANGED <<claim, waiting, slots, parties, slot, config>>
    BY DEF SendConfig
  <1> QED
    BY <1>1 DEF IndInv, TypeOK, SlotsInv, EntryInv, OutInv, SameConfig, Valid

\* What a client files by id is the list itself, since entry i has id i.
LEMMA ReceiveInd ==
    ASSUME IndInv, NEW c \in Clients, ReceiveConfig(c)
    PROVE  IndInv'
  <1>1. /\ c \in told
        /\ config' = [config EXCEPT ![c] = [i \in Ids |-> CHOOSE e \in {parties[j] : j \in Ids} : e.id = i]]
        /\ UNCHANGED <<claim, waiting, slots, parties, slot, server, told>>
    BY DEF ReceiveConfig
  <1>2. \A i \in Ids : parties[i].id = i
    BY <1>1, ValidIds DEF IndInv, OutInv
  <1>3. ASSUME NEW i \in Ids
        PROVE  (CHOOSE e \in {parties[j] : j \in Ids} : e.id = i) = parties[i]
    <2>1. parties[i] \in {parties[j] : j \in Ids} /\ parties[i].id = i
      BY <1>2
    <2>2. \A e \in {parties[j] : j \in Ids} : e.id = i => e = parties[i]
      BY <1>2
    <2> QED
      BY <2>1, <2>2
  <1> DEFINE filed == [i \in Ids |-> CHOOSE e \in {parties[j] : j \in Ids} : e.id = i]
  <1>4. DOMAIN filed = Ids /\ \A i \in Ids : filed[i] = parties[i]
    BY <1>3
  <1> HIDE DEF filed
  <1>5. filed = [i \in Ids |-> parties[i]] /\ parties = [i \in Ids |-> parties[i]]
    BY <1>4 DEF IndInv, EntryInv, filed
  <1>6. config' = [config EXCEPT ![c] = parties]
    BY <1>1, <1>5 DEF filed
  <1>7. DOMAIN config' = Clients /\ SameConfig'
    BY <1>1, <1>6 DEF IndInv, SameConfig
  <1>8. OutInv'
    BY <1>1, <1>6 DEF IndInv, OutInv, Valid
  <1> QED
    BY <1>1, <1>7, <1>8 DEF IndInv, TypeOK, SlotsInv, EntryInv

LEMMA StepInd == IndInv /\ [Next]_vars => IndInv'
  <1> SUFFICES ASSUME IndInv, [Next]_vars PROVE IndInv'
    OBVIOUS
  <1>1. ASSUME NEW c \in Clients, ClientConnect(c) \/ SendConfig(c) \/ ReceiveConfig(c)
        PROVE  IndInv'
    BY <1>1, ConnectInd, SendInd, ReceiveInd
  <1>2. CASE AcceptSlot
    BY <1>2, AcceptInd
  <1>3. CASE CollectSlot
    BY <1>3, CollectInd
  <1>4. CASE MakeConfig
    BY <1>4, MakeInd
  <1>5. CASE UNCHANGED vars
    BY <1>5 DEF vars, IndInv, TypeOK, SlotsInv, EntryInv, OutInv, SameConfig, Valid
  <1> QED
    BY <1>1, <1>2, <1>3, <1>4, <1>5 DEF Next

\* The inductive invariant holds in every reachable state.
THEOREM IndInvHolds == Spec => []IndInv
  BY InitInd, StepInd, PTL DEF Spec

\* Whoever is the server, all clients return the list the server made.
THEOREM SameLists == Spec => []SameConfig
  <1>1. IndInv => SameConfig
    BY DEF IndInv
  <1> QED
    BY <1>1, IndInvHolds, PTL

-----------------------------------------------------------------------------
(* With the server as party 0 a valid list has an entry of a client at     *)
(* every other position: as many positions as clients, hence one each.     *)

LEMMA EveryClientListed ==
    ASSUME Me = 0, EntryInv, claim \in [Clients -> ClaimedIds], Valid(parties)
    PROVE  \A c \in Clients : /\ claim[c] \in Clients
                              /\ parties[claim[c]].id = claim[c] /\ parties[claim[c]].port = c
  <1> DEFINE port == [i \in Clients |-> parties[i].port]
  <1>1. Clients \subseteq Ids /\ \A i \in Clients : i \in Ids /\ i # 0 /\ i # Me
    BY DEF Clients, Ids
  <1>2. ASSUME NEW i \in Clients
        PROVE  parties[i].id = i /\ port[i] \in Clients /\ claim[port[i]] = i
    BY <1>1, ValidIds
  <1>3. port \in [Clients -> Clients]
    BY <1>2
  <1>4. port \in Injection(Clients, Clients)
    <2>1. \A i, j \in Clients : port[i] = port[j] => i = j
      BY <1>2
    <2> HIDE DEF port
    <2> QED
      BY <2>1, <1>3 DEF Injection, IsInjective
  <1>5. IsFiniteSet(Clients)
    <2>1. IsFiniteSet(0 .. N - 1)
      BY FS_Interval
    <2> QED
      BY <2>1, FS_RemoveElement DEF Clients, Ids
  <1> HIDE DEF port
  <1>6. port \in Surjection(Clients, Clients)
    BY <1>4, <1>5, FS_Injection
  <1>7. ASSUME NEW c \in Clients
        PROVE  \E i \in Clients : port[i] = c
    BY <1>6 DEF Surjection
  <1> USE DEF port
  <1>8. ASSUME NEW c \in Clients
        PROVE  /\ claim[c] \in Clients
               /\ parties[claim[c]].id = claim[c] /\ parties[claim[c]].port = c
    <2>1. PICK i \in Clients : port[i] = c
      BY <1>7
    <2>2. claim[c] = i /\ parties[i].id = i /\ parties[i].port = c
      BY <2>1, <1>2
    <2> QED
      BY <2>2
  <1> QED
    BY <1>8

\* Every list that gets out names every client under the id and port it
\* announced, and all clients return that list.
THEOREM ListsCorrect ==
    ASSUME Me = 0
    PROVE  Spec => []ListsRight
  <1>1. IndInv => ListsRight
    BY EveryClientListed DEF IndInv, OutInv, TypeOK, ListsRight, PortsRight
  <1> QED
    BY <1>1, IndInvHolds, PTL
=============================================================================
