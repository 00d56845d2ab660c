-------------------------- MODULE SharedDequeProofs -------------------------
(***************************************************************************)
(* The deque keeps its items in order for any number of threads.           *)
(***************************************************************************)
EXTENDS SharedDeque, FiniteSetTheorems, TLAPS

\* What the sequence operators used here return.
LEMMA SequenceFacts ==
    ASSUME NEW S, NEW s \in Seq(S), NEW e \in S
    PROVE  /\ Len(s) \in Nat
           /\ Append(s, e) \in Seq(S)
           /\ Len(Append(s, e)) = Len(s) + 1
           /\ \A i \in 1 .. Len(s) : Append(s, e)[i] = s[i]
           /\ Append(s, e)[Len(s) + 1] = e
  OBVIOUS

LEMMA QueueFacts ==
    ASSUME NEW S, NEW s \in Seq(S), s # <<>>
    PROVE  /\ Head(s) \in S /\ Head(s) = s[1]
           /\ Len(s) \in Nat /\ Len(s) >= 1
           /\ Tail(s) \in Seq(S) /\ Len(Tail(s)) = Len(s) - 1
           /\ \A i \in 1 .. Len(s) - 1 : Tail(s)[i] = s[i + 1]
  OBVIOUS

LEMMA InitInd == Init => IndInv
  BY ThreadsAssumption DEF Init, IndInv, TypeOK, NothingLost, SleepersCalled

\* A push appends the next number.
LEMMA PushInd ==
    ASSUME IndInv, NEW p \in Producers, PushBack(p)
    PROVE  IndInv'
  <1>t. /\ TypeOK /\ pushed < MaxPush /\ MaxPush \in Nat
        /\ pushed' = pushed + 1 /\ mDeck' = Append(mDeck, pushed + 1)
        /\ notifying' = notifying \cup {p}
        /\ UNCHANGED <<call, sleeping, peeked, removed>>
    BY ThreadsAssumption DEF IndInv, PushBack
  <1>n. pushed \in Nat /\ pushed + 1 \in 1 .. MaxPush
    BY <1>t DEF TypeOK
  <1>a. /\ mDeck' \in Seq(1 .. MaxPush) /\ Len(mDeck') = Len(mDeck) + 1
        /\ \A i \in 1 .. Len(mDeck) : mDeck'[i] = mDeck[i]
        /\ mDeck'[Len(mDeck) + 1] = pushed + 1
        /\ Len(mDeck) \in Nat
    <2>1. mDeck \in Seq(1 .. MaxPush) /\ mDeck' = Append(mDeck, pushed + 1)
      BY <1>t DEF TypeOK
    <2> QED
      BY <2>1, <1>n, SequenceFacts
  <1>b. Len(removed) \in Nat
    BY <1>t DEF TypeOK
  <1>1. TypeOK'
    BY <1>t, <1>n, <1>a DEF TypeOK
  <1>2. NothingLost'
    <2>1. /\ Len(removed) + Len(mDeck) = pushed
          /\ \A i \in 1 .. Len(removed) : removed[i] = i
          /\ \A i \in 1 .. Len(mDeck) : mDeck[i] = Len(removed) + i
      BY DEF IndInv, NothingLost
    <2>2. Len(removed) + Len(mDeck') = pushed'
      <3>1. Len(mDeck') = Len(mDeck) + 1 /\ pushed' = pushed + 1
        BY <1>a, <1>t
      <3> QED
        BY <3>1, <2>1, <1>a, <1>b, <1>n
    <2>3. ASSUME NEW i \in 1 .. Len(mDeck')
          PROVE  mDeck'[i] = Len(removed) + i
      <3>1. CASE i = Len(mDeck) + 1
        <4>1. Len(removed) + i = pushed + 1
          BY ONLY <3>1, <2>1, <1>a, <1>b, <1>n
        <4> QED
          BY <4>1, <3>1, <1>a
      <3>2. CASE i \in 1 .. Len(mDeck)
        BY <3>2, <2>1, <1>a
      <3> QED
        BY <3>1, <3>2, <1>a
    <2> QED
      BY <2>1, <2>2, <2>3, <1>t DEF NothingLost
  <1>3. SleepersCalled'
    BY <1>t DEF IndInv, SleepersCalled
  <1> QED
    BY <1>1, <1>2, <1>3 DEF IndInv

\* Removing takes the oldest item.
LEMMA RemoveInd ==
    ASSUME IndInv, NEW c \in Consumers, Remove(c)
    PROVE  IndInv'
  <1>t. /\ TypeOK /\ mDeck # <<>> /\ c \notin sleeping
        /\ removed' = Append(removed, Head(mDeck)) /\ mDeck' = Tail(mDeck)
        /\ peeked' = [peeked EXCEPT ![c] = 0]
        /\ call' = [call EXCEPT ![c] = "none"]
        /\ UNCHANGED <<notifying, sleeping, pushed>>
    BY DEF IndInv, Remove
  <1>a. /\ Head(mDeck) \in 1 .. MaxPush /\ Head(mDeck) = mDeck[1]
        /\ Len(mDeck) \in Nat /\ Len(mDeck) >= 1
        /\ mDeck' \in Seq(1 .. MaxPush) /\ Len(mDeck') = Len(mDeck) - 1
        /\ \A i \in 1 .. Len(mDeck) - 1 : mDeck'[i] = mDeck[i + 1]
    <2>1. mDeck \in Seq(1 .. MaxPush) /\ mDeck # <<>> /\ mDeck' = Tail(mDeck)
      BY <1>t DEF TypeOK
    <2> QED
      BY <2>1, QueueFacts
  <1>b. /\ removed' \in Seq(1 .. MaxPush) /\ Len(removed') = Len(removed) + 1
        /\ \A i \in 1 .. Len(removed) : removed'[i] = removed[i]
        /\ removed'[Len(removed) + 1] = Head(mDeck)
        /\ Len(removed) \in Nat
    <2>1. /\ removed \in Seq(1 .. MaxPush)
          /\ removed' = Append(removed, Head(mDeck))
          /\ Head(mDeck) \in 1 .. MaxPush
      BY <1>t, <1>a DEF TypeOK
    <2> QED
      BY <2>1, SequenceFacts
  <1>m. MaxPush \in Nat
    BY ThreadsAssumption
  <1>1. TypeOK'
    <2>1. peeked' \in [Consumers -> 0 .. MaxPush]
      BY <1>t, <1>m DEF TypeOK
    <2>2. call' \in [Consumers -> Functions \cup {"none"}]
      BY <1>t DEF TypeOK
    <2> QED
      BY <2>1, <2>2, <1>t, <1>a, <1>b DEF TypeOK
  <1>2. NothingLost'
    <2>1. /\ Len(removed) + Len(mDeck) = pushed
          /\ \A i \in 1 .. Len(removed) : removed[i] = i
          /\ \A i \in 1 .. Len(mDeck) : mDeck[i] = Len(removed) + i
      BY DEF IndInv, NothingLost
    <2>2. Len(removed') + Len(mDeck') = pushed'
      BY <2>1, <1>a, <1>b, <1>t
    <2>3. ASSUME NEW i \in 1 .. Len(mDeck')
          PROVE  mDeck'[i] = Len(removed') + i
      <3>1. i \in 1 .. Len(mDeck) - 1 /\ i + 1 \in 1 .. Len(mDeck)
        BY <1>a
      <3>2. mDeck'[i] = Len(removed) + (i + 1)
        BY <3>1, <2>1, <1>a
      <3> QED
        BY <3>1, <3>2, <1>b, <1>a
    <2>4. ASSUME NEW i \in 1 .. Len(removed')
          PROVE  removed'[i] = i
      <3>1. CASE i = Len(removed) + 1
        <4>1. mDeck[1] = Len(removed) + 1
          BY <2>1, <1>a
        <4> QED
          BY <3>1, <4>1, <1>a, <1>b
      <3>2. CASE i \in 1 .. Len(removed)
        BY <3>2, <2>1, <1>b
      <3> QED
        BY <3>1, <3>2, <1>b
    <2> QED
      BY <2>2, <2>3, <2>4 DEF NothingLost
  <1>3. SleepersCalled'
    BY <1>t DEF IndInv, SleepersCalled, TypeOK
  <1> QED
    BY <1>1, <1>2, <1>3 DEF IndInv

\* The steps that leave the items alone.
LEMMA OthersInd ==
    ASSUME IndInv,
           \/ \E p \in Producers : NotifyOne(p)
           \/ \E c \in Consumers : \/ \E f \in Functions : Call(c, f)
                                   \/ Wait(c) \/ Look(c) \/ SpuriousWakeup(c)
    PROVE  IndInv'
  <1>t. TypeOK
    BY DEF IndInv
  <1>1. CASE \E p \in Producers : NotifyOne(p)
    BY <1>1, <1>t DEF NotifyOne, IndInv, TypeOK, NothingLost, SleepersCalled
  <1>2. CASE \E c \in Consumers : \E f \in Functions : Call(c, f)
    <2> PICK c \in Consumers, f \in Functions : Call(c, f)
      BY <1>2
    <2>1. f # "none" /\ call' = [call EXCEPT ![c] = f]
          /\ UNCHANGED <<mDeck, notifying, sleeping, peeked, pushed, removed>>
      BY DEF Call, Functions
    <2>2. call' \in [Consumers -> Functions \cup {"none"}]
      BY <2>1, <1>t DEF TypeOK
    <2> QED
      BY <2>1, <2>2, <1>t DEF IndInv, TypeOK, NothingLost, SleepersCalled
  <1>3. CASE \E c \in Consumers : Wait(c) \/ SpuriousWakeup(c)
    BY <1>3, <1>t DEF Wait, SpuriousWakeup, IndInv, TypeOK, NothingLost, SleepersCalled
  <1>4. CASE \E c \in Consumers : Look(c)
    <2> PICK c \in Consumers : Look(c)
      BY <1>4
    <2>1. /\ mDeck # <<>> /\ c \notin sleeping
          /\ peeked' = [peeked EXCEPT ![c] = Head(mDeck)]
          /\ call' = [call EXCEPT ![c] = "none"]
          /\ UNCHANGED <<mDeck, notifying, sleeping, pushed, removed>>
      BY DEF Look
    <2>2. Head(mDeck) \in 1 .. MaxPush
      BY <2>1, <1>t, QueueFacts DEF TypeOK
    <2>3. Head(mDeck) \in 0 .. MaxPush
      BY <2>2
    <2>4. TypeOK'
      BY <2>1, <2>3, <1>t DEF TypeOK
    <2>5. NothingLost' /\ SleepersCalled'
      BY <2>1, <1>t DEF IndInv, TypeOK, NothingLost, SleepersCalled
    <2> QED
      BY <2>4, <2>5 DEF IndInv
  <1> QED
    BY <1>1, <1>2, <1>3, <1>4

\* The invariant holds for any set of producers and consumers.
THEOREM IndInvHolds == Spec => []IndInv
  <1>1. IndInv /\ [Next]_vars => IndInv'
    <2> SUFFICES ASSUME IndInv, [Next]_vars PROVE IndInv'
      OBVIOUS
    <2>1. CASE UNCHANGED vars
      BY <2>1 DEF vars, IndInv, TypeOK, NothingLost, SleepersCalled
    <2>2. CASE \E p \in Producers : PushBack(p)
      BY <2>2, PushInd
    <2>3. CASE \E c \in Consumers : Remove(c)
      BY <2>3, RemoveInd
    <2> QED
      BY <2>1, <2>2, <2>3, OthersInd DEF Next
  <1> QED
    BY <1>1, InitInd, PTL DEF Spec

\* Every item is removed exactly once and in the order of the pushes
\* (SharedDeque::Pop and PopFront), for any number of threads.
THEOREM FifoDelivery == Spec => []NothingLost
  <1>1. IndInv => NothingLost
    BY DEF IndInv
  <1> QED
    BY <1>1, IndInvHolds, PTL

-----------------------------------------------------------------------------
(* Peek *)

\* What pushing does to the front of a deque.
LEMMA FrontStays ==
    ASSUME NEW S, NEW s \in Seq(S), NEW x \in S, s # <<>>
    PROVE  Append(s, x) # <<>> /\ Head(Append(s, x)) = Head(s)
  OBVIOUS

LEMMA PeekInit == Init => PeekInd
  BY DEF Init, PeekInd, PeekStable

\* A push leaves the front alone.
LEMMA PeekPush ==
    ASSUME TypeOK, PeekInd, NEW p \in Producers, PushBack(p)
    PROVE  PeekInd'
  <1>1. /\ mDeck' = Append(mDeck, pushed + 1) /\ pushed < MaxPush
        /\ UNCHANGED <<users, call, peeked>>
    BY DEF PushBack
  <1>2. mDeck \in Seq(1 .. MaxPush) /\ pushed + 1 \in 1 .. MaxPush
    BY <1>1, ThreadsAssumption DEF TypeOK
  <1>3. mDeck # <<>> => mDeck' # <<>> /\ Head(mDeck') = Head(mDeck)
    BY <1>1, <1>2, FrontStays
  <1> HIDE <1>2
  <1>4. PeekStable'
    BY <1>1, <1>3 DEF PeekInd, PeekStable
  <1> QED
    BY <1>1, <1>4 DEF PeekInd

\* Who removes an item is the only consumer that may have peeked.
LEMMA PeekRemove ==
    ASSUME TypeOK, PeekInd, NEW c \in Consumers, Remove(c)
    PROVE  PeekInd'
  <1>1. /\ call[c] # "none"
        /\ peeked' = [peeked EXCEPT ![c] = 0]
        /\ call' = [call EXCEPT ![c] = "none"]
        /\ users' = users
    BY DEF Remove
  <1>2. \A d \in Consumers : peeked'[d] = 0
    <2> SUFFICES ASSUME NEW d \in Consumers, d # c, peeked[d] # 0
                 PROVE  FALSE
      BY <1>1 DEF TypeOK
    <2>1. d \in users \cap Peekers /\ users \in Groups
      BY DEF PeekInd
    <2>2. users = {d}
      BY <2>1, PeekersAlone
    <2>3. c \in users
      BY <1>1 DEF PeekInd
    <2> QED
      BY <2>2, <2>3
  <1>3. PeekStable'
    BY <1>2 DEF PeekStable
  <1> QED
    BY <1>1, <1>2, <1>3 DEF PeekInd, TypeOK

\* The steps that leave the items alone.
LEMMA PeekOthers ==
    ASSUME TypeOK, PeekInd,
           \/ \E p \in Producers : NotifyOne(p)
           \/ \E c \in Consumers : \/ \E f \in Functions : Call(c, f)
                                   \/ Wait(c) \/ Look(c) \/ SpuriousWakeup(c)
    PROVE  PeekInd'
  <1>1. CASE \E p \in Producers : NotifyOne(p)
    BY <1>1 DEF NotifyOne, PeekInd, PeekStable
  <1>2. CASE \E c \in Consumers : \E f \in Functions : Call(c, f)
    <2> PICK c \in Consumers, f \in Functions : Call(c, f)
      BY <1>2
    <2>1. /\ c \in users /\ (f = "Peek" => c \in Peekers)
          /\ call' = [call EXCEPT ![c] = f]
          /\ UNCHANGED <<users, mDeck, peeked>>
      BY DEF Call
    <2> QED
      BY <2>1 DEF PeekInd, PeekStable, TypeOK
  <1>3. CASE \E c \in Consumers : Wait(c) \/ SpuriousWakeup(c)
    BY <1>3 DEF Wait, SpuriousWakeup, PeekInd, PeekStable
  <1>4. CASE \E c \in Consumers : Look(c)
    <2> PICK c \in Consumers : Look(c)
      BY <1>4
    <2>1. /\ mDeck # <<>> /\ call[c] = "Peek"
          /\ peeked' = [peeked EXCEPT ![c] = Head(mDeck)]
          /\ call' = [call EXCEPT ![c] = "none"]
          /\ UNCHANGED <<users, mDeck>>
      BY DEF Look
    <2> QED
      BY <2>1 DEF PeekInd, PeekStable, TypeOK
  <1> QED
    BY <1>1, <1>2, <1>3, <1>4

\* Who peeks is the deque's only consumer, in every reachable state.
THEOREM PeekIndHolds == Spec => []PeekInd
  <1>1. IndInv /\ PeekInd /\ [Next]_vars => PeekInd'
    <2> SUFFICES ASSUME IndInv, PeekInd, [Next]_vars PROVE PeekInd'
      OBVIOUS
    <2>t. TypeOK
      BY DEF IndInv
    <2>1. CASE UNCHANGED vars
      BY <2>1 DEF vars, PeekInd, PeekStable
    <2>2. CASE \E p \in Producers : PushBack(p)
      BY <2>2, <2>t, PeekPush
    <2>3. CASE \E c \in Consumers : Remove(c)
      BY <2>3, <2>t, PeekRemove
    <2> QED
      BY <2>1, <2>2, <2>3, <2>t, PeekOthers DEF Next
  <1> QED
    BY <1>1, PeekInit, IndInvHolds, PTL DEF Spec

\* The reference that Peek returned stays valid while other threads push
\* (threaded_sender.cc uses it without the mutex), for any number of producers.
THEOREM PeekedStaysInFront == Spec => []PeekStable
  <1>1. PeekInd => PeekStable
    BY DEF PeekInd
  <1> QED
    BY <1>1, PeekIndHolds, PTL

-----------------------------------------------------------------------------
(* Nobody sleeps next to an item that no one will look at *)

\* What one thread more or one thread less does to a finite set of threads.
LEMMA OneMore ==
    ASSUME NEW S, NEW x, IsFiniteSet(S), x \notin S
    PROVE  /\ IsFiniteSet(S \cup {x})
           /\ Cardinality(S) \in Nat
           /\ Cardinality(S \cup {x}) = Cardinality(S) + 1
  BY FS_AddElement, FS_CardinalityType

LEMMA OneLess ==
    ASSUME NEW S, NEW x, IsFiniteSet(S), x \in S
    PROVE  /\ IsFiniteSet(S \ {x})
           /\ Cardinality(S) \in Nat
           /\ Cardinality(S \ {x}) = Cardinality(S) - 1
  BY FS_RemoveElement, FS_CardinalityType

LEMMA AttendInit == Init => AttendInd
  <1> SUFFICES ASSUME Init PROVE AttendInd
    OBVIOUS
  <1>1. notifying = {} /\ sleeping = {} /\ Awake = {}
    BY DEF Init, Awake
  <1> QED
    BY <1>1, FS_EmptySet DEF AttendInd, ItemsAttended

\* A push adds an item and a notification for it.
LEMMA AttendPush ==
    ASSUME TypeOK, AttendInd, NEW p \in Producers, PushBack(p)
    PROVE  AttendInd'
  <1>1. /\ p \notin notifying /\ pushed < MaxPush
        /\ mDeck' = Append(mDeck, pushed + 1)
        /\ notifying' = notifying \cup {p}
        /\ sleeping' = sleeping /\ Awake' = Awake
    BY DEF PushBack, Awake
  <1>2. Len(mDeck) \in Nat /\ Len(mDeck') = Len(mDeck) + 1
    BY <1>1, ThreadsAssumption, SequenceFacts DEF TypeOK
  <1>3. /\ IsFiniteSet(notifying') /\ Cardinality(notifying) \in Nat
        /\ Cardinality(notifying') = Cardinality(notifying) + 1
    BY <1>1, OneMore DEF AttendInd
  <1>4. Cardinality(Awake) \in Nat
    BY FS_CardinalityType DEF AttendInd
  <1>5. ItemsAttended'
    <2> SUFFICES ASSUME sleeping' # {}
                 PROVE  Len(mDeck') <= Cardinality(notifying') + Cardinality(Awake')
      BY DEF ItemsAttended
    <2>1. Len(mDeck) <= Cardinality(notifying) + Cardinality(Awake)
      BY <1>1 DEF AttendInd, ItemsAttended
    <2> QED
      BY <2>1, <1>1, <1>2, <1>3, <1>4
  <1> QED
    BY <1>1, <1>3, <1>5 DEF AttendInd

\* A thread that wakes up, with or without a notification, or that calls.
LEMMA AttendMore ==
    ASSUME TypeOK, AttendInd, NEW c \in Consumers, c \notin Awake,
           Awake' = Awake \cup {c}, mDeck' = mDeck,
           \/ notifying' = notifying
           \/ \E p \in notifying : notifying' = notifying \ {p},
           sleeping' # {} => sleeping # {}
    PROVE  AttendInd'
  <1>1. /\ IsFiniteSet(Awake') /\ Cardinality(Awake) \in Nat
        /\ Cardinality(Awake') = Cardinality(Awake) + 1
    BY OneMore DEF AttendInd
  <1>2. /\ IsFiniteSet(notifying') /\ Cardinality(notifying) \in Nat
        /\ Cardinality(notifying') \in Nat
        /\ Cardinality(notifying') >= Cardinality(notifying) - 1
    <2>1. CASE notifying' = notifying
      BY <2>1, FS_CardinalityType DEF AttendInd
    <2>2. CASE \E p \in notifying : notifying' = notifying \ {p}
      <3>1. PICK p \in notifying : notifying' = notifying \ {p}
        BY <2>2
      <3>2. /\ IsFiniteSet(notifying') /\ Cardinality(notifying) \in Nat
            /\ Cardinality(notifying') = Cardinality(notifying) - 1
        BY <3>1, OneLess DEF AttendInd
      <3>3. Cardinality(notifying') \in Nat
        BY <3>2, FS_CardinalityType
      <3> QED
        BY <3>2, <3>3
    <2> QED
      BY <2>1, <2>2
  <1>3. Len(mDeck) \in Nat
    BY DEF TypeOK
  <1>4. ItemsAttended'
    <2> SUFFICES ASSUME sleeping' # {}
                 PROVE  Len(mDeck') <= Cardinality(notifying') + Cardinality(Awake')
      BY DEF ItemsAttended
    <2>1. Len(mDeck) <= Cardinality(notifying) + Cardinality(Awake)
      BY DEF AttendInd, ItemsAttended
    <2>2. Len(mDeck') = Len(mDeck)
      OBVIOUS
    <2> QED
      BY ONLY <2>1, <2>2, <1>1, <1>2, <1>3
  <1> QED
    BY <1>1, <1>2, <1>4 DEF AttendInd

\* A consumer that returns has taken an item with it.
LEMMA AttendRemove ==
    ASSUME TypeOK, AttendInd, NEW c \in Consumers, Remove(c)
    PROVE  AttendInd'
  <1>1. /\ call[c] # "none" /\ c \notin sleeping /\ mDeck # <<>>
        /\ mDeck' = Tail(mDeck) /\ call' = [call EXCEPT ![c] = "none"]
        /\ UNCHANGED <<notifying, sleeping>>
    BY DEF Remove
  <1>2. c \in Awake /\ Awake' = Awake \ {c}
    BY <1>1 DEF Awake, TypeOK
  <1>3. /\ IsFiniteSet(Awake') /\ Cardinality(Awake) \in Nat
        /\ Cardinality(Awake') = Cardinality(Awake) - 1
    BY <1>2, OneLess DEF AttendInd
  <1>4. Len(mDeck) \in Nat /\ Len(mDeck') = Len(mDeck) - 1
    BY <1>1, QueueFacts DEF TypeOK
  <1>5. Cardinality(notifying) \in Nat
    BY FS_CardinalityType DEF AttendInd
  <1>6. ItemsAttended'
    <2> SUFFICES ASSUME sleeping' # {}
                 PROVE  Len(mDeck') <= Cardinality(notifying') + Cardinality(Awake')
      BY DEF ItemsAttended
    <2>1. Len(mDeck) <= Cardinality(notifying) + Cardinality(Awake)
      BY <1>1 DEF AttendInd, ItemsAttended
    <2>2. Cardinality(notifying') = Cardinality(notifying)
      BY <1>1
    <2> QED
      BY ONLY <2>1, <2>2, <1>3, <1>4, <1>5
  <1> QED
    BY <1>1, <1>3, <1>6 DEF AttendInd

\* A peeker returns without taking the item, but nobody else can be asleep.
LEMMA AttendLook ==
    ASSUME IndInv, PeekInd, AttendInd, NEW c \in Consumers, Look(c)
    PROVE  AttendInd'
  <1>1. /\ call[c] = "Peek" /\ c \notin sleeping
        /\ call' = [call EXCEPT ![c] = "none"]
        /\ UNCHANGED <<notifying, sleeping>>
    BY DEF Look
  <1>2. users = {c}
    <2>1. users \in Groups /\ c \in users \cap Peekers
      BY <1>1 DEF PeekInd
    <2> QED
      BY <2>1, PeekersAlone
  <1>3. sleeping = {}
    BY <1>1, <1>2 DEF IndInv, TypeOK, SleepersCalled, PeekInd
  <1>4. Awake' = Awake \ {c}
    BY <1>1 DEF Awake, IndInv, TypeOK
  <1> QED
    BY <1>1, <1>3, <1>4, FS_RemoveElement DEF AttendInd, ItemsAttended

\* A consumer goes to sleep only next to an empty deque.
LEMMA AttendWait ==
    ASSUME AttendInd, NEW c \in Consumers, Wait(c)
    PROVE  AttendInd'
  <1>1. /\ mDeck' = <<>> /\ sleeping' = sleeping \cup {c}
        /\ UNCHANGED <<notifying, call>>
    BY DEF Wait
  <1>2. Awake' = Awake \ {c}
    BY <1>1 DEF Awake
  <1>3. IsFiniteSet(notifying') /\ IsFiniteSet(Awake')
    BY <1>1, <1>2, FS_RemoveElement DEF AttendInd
  <1>4. Len(mDeck') = 0
    BY <1>1
  <1> QED
    BY <1>3, <1>4, FS_CardinalityType DEF AttendInd, ItemsAttended

\* The unlock before notify_one loses no wakeup: for any number of producers
\* and consumers, while somebody sleeps every item in the deque has a
\* notification on its way or a consumer that is awake (SharedDeque::PushBack,
\* Pop, PopFront, Peek).
THEOREM NoItemUnattended == Spec => []ItemsAttended
  <1>1. IndInv /\ PeekInd /\ AttendInd /\ [Next]_vars => AttendInd'
    <2> SUFFICES ASSUME IndInv, PeekInd, AttendInd, [Next]_vars PROVE AttendInd'
      OBVIOUS
    <2>t. TypeOK
      BY DEF IndInv
    <2>1. CASE UNCHANGED vars
      BY <2>1 DEF vars, AttendInd, ItemsAttended, Awake
    <2>2. CASE \E p \in Producers : PushBack(p)
      BY <2>2, <2>t, AttendPush
    <2>3. CASE \E p \in Producers : NotifyOne(p)
      <3> PICK p \in Producers : NotifyOne(p)
        BY <2>3
      <3>1. /\ p \in notifying /\ notifying' = notifying \ {p}
            /\ UNCHANGED <<mDeck, call>>
        BY DEF NotifyOne
      <3>2. CASE sleeping = {} /\ sleeping' = sleeping
        <4>1. Awake' = Awake
          BY <3>1, <3>2 DEF Awake
        <4> QED
          BY <3>1, <3>2, <4>1, FS_RemoveElement DEF AttendInd, ItemsAttended
      <3>3. CASE \E c \in sleeping : sleeping' = sleeping \ {c}
        <4> PICK c \in sleeping : sleeping' = sleeping \ {c}
          BY <3>3
        <4>1. c \in Consumers /\ c \notin Awake /\ Awake' = Awake \cup {c}
          BY <3>1, <2>t DEF Awake, TypeOK, IndInv, SleepersCalled
        <4> QED
          BY <4>1, <3>1, <2>t, AttendMore
      <3> QED
        BY <3>2, <3>3 DEF NotifyOne
    <2>4. CASE \E c \in Consumers : \E f \in Functions : Call(c, f)
      <3> PICK c \in Consumers, f \in Functions : Call(c, f)
        BY <2>4
      <3>1. /\ call[c] = "none" /\ f # "none"
            /\ call' = [call EXCEPT ![c] = f]
            /\ UNCHANGED <<mDeck, notifying, sleeping>>
        BY DEF Call, Functions
      <3>2. c \notin sleeping
        BY <3>1 DEF IndInv, SleepersCalled
      <3>3. c \notin Awake /\ Awake' = Awake \cup {c}
        BY <3>1, <3>2, <2>t DEF Awake, TypeOK
      <3> QED
        BY <3>1, <3>3, <2>t, AttendMore
    <2>5. CASE \E c \in Consumers : SpuriousWakeup(c)
      <3> PICK c \in Consumers : SpuriousWakeup(c)
        BY <2>5
      <3>1. /\ c \in sleeping /\ sleeping' = sleeping \ {c}
            /\ UNCHANGED <<mDeck, notifying, call>>
        BY DEF SpuriousWakeup
      <3>2. c \notin Awake /\ Awake' = Awake \cup {c}
        BY <3>1 DEF Awake, IndInv, SleepersCalled
      <3> QED
        BY <3>1, <3>2, <2>t, AttendMore
    <2>6. CASE \E c \in Consumers : Wait(c) \/ Remove(c) \/ Look(c)
      BY <2>6, <2>t, AttendWait, AttendRemove, AttendLook
    <2> QED
      BY <2>1, <2>2, <2>3, <2>4, <2>5, <2>6 DEF Next
  <1>2. AttendInd => ItemsAttended
    BY DEF AttendInd
  <1> QED
    BY <1>1, <1>2, AttendInit, IndInvHolds, PeekIndHolds, PTL DEF Spec
=============================================================================
