--------------------------- MODULE BootstrapProofs --------------------------
(***************************************************************************)
(* Discovery followed by Network::Create: what the two promise on their    *)
(* own they promise together, when the discovery server is party 0.        *)
(***************************************************************************)
EXTENDS Bootstrap, DiscoveryProofs

SetupProofs == INSTANCE NetworkSetupProofs WITH server <- threads

\* A step of the whole is a step of discovery, or leaves it alone.
LEMMA StepDiscovers == [BNext]_allVars => [Next]_vars
  BY DEF BNext, CreateStep, allVars

\* A process that has its list runs Create as a party of the network: a list
\* with an id out of range is never sent.
LEMMA IdInRange ==
    ASSUME Me = 0, IndInv, NEW c \in Ids, HasConfig(c)
    PROVE  IdOf(c) \in Ids
  <1>1. CASE c = Me
    BY <1>1 DEF IdOf
  <1>2. CASE c # Me
    <2>1. c \in Clients /\ IdOf(c) = claim[c]
      BY <1>2 DEF Clients, IdOf
    <2>2. c \in told
      BY <2>1, <1>2 DEF HasConfig, IndInv, OutInv
    <2>3. Valid(parties)
      BY <2>2 DEF IndInv, OutInv
    <2>4. claim[c] \in Clients
      BY <2>1, <2>3, EveryClientListed DEF IndInv, TypeOK
    <2> QED
      BY <2>1, <2>4 DEF Clients
  <1> QED
    BY <1>1, <1>2

LEMMA StepSetsUp ==
    ASSUME Me = 0, IndInv, [BNext]_allVars
    PROVE  [SetupProofs!Next]_(SetupProofs!vars)
  <1>1. ASSUME NEW c \in Ids, CreateStep(c)
        PROVE  SetupProofs!Next
    <2>1. IdOf(c) \in SetupProofs!Party
      BY <1>1, IdInRange DEF CreateStep, SetupProofs!Party, Ids
    <2>2. \/ SetupProofs!ServerStep(IdOf(c)) \/ SetupProofs!Connect(IdOf(c))
          \/ SetupProofs!SendId(IdOf(c)) \/ SetupProofs!Return(IdOf(c))
      BY <1>1 DEF CreateStep,
           Setup!ServerStep, Setup!Listen, Setup!CreateServerSocket, Setup!Accept, Setup!AcceptConnection,
           Setup!ReceiveId, Setup!StopListening, Setup!Connect, Setup!ConnectAsClient, Setup!SendId,
           Setup!Return, Setup!Larger,
           SetupProofs!ServerStep, SetupProofs!Listen, SetupProofs!CreateServerSocket, SetupProofs!Accept,
           SetupProofs!AcceptConnection, SetupProofs!ReceiveId, SetupProofs!StopListening,
           SetupProofs!Connect, SetupProofs!ConnectAsClient, SetupProofs!SendId, SetupProofs!Return,
           SetupProofs!Larger
    <2> QED
      BY <2>1, <2>2 DEF SetupProofs!Next
  <1>2. UNCHANGED setupVars => UNCHANGED SetupProofs!vars
    BY DEF setupVars, SetupProofs!vars
  <1> QED
    BY <1>1, <1>2 DEF BNext, allVars

LEMMA InitSetsUp == BInit => SetupProofs!Init
  BY DEF BInit, Setup!Init, Setup!Party, Setup!Null, Setup!Self,
         SetupProofs!Init, SetupProofs!Party, SetupProofs!Null, SetupProofs!Self

LEMMA SameProperty == SetupProofs!SetupRight => SetupRight
  BY DEF SetupRight, Setup!SetupRight, Setup!ChannelsPaired, Setup!CompleteAtReturn, Setup!NobodyLeftOut,
         Setup!Party, SetupProofs!SetupRight, SetupProofs!ChannelsPaired, SetupProofs!CompleteAtReturn,
         SetupProofs!NobodyLeftOut, SetupProofs!Party

\* While processes connect, the lists discovery has let out stay right.
THEOREM BootstrapLists ==
    ASSUME Me = 0
    PROVE  BSpec => []ListsRight
  <1>1. BInit => Init
    BY DEF BInit
  <1> QED
    BY <1>1, StepDiscovers, ListsCorrect, PTL DEF BSpec, Spec

\* Network::Create, started by each process when it has its list and under the
\* id the process was started with, sets up the right channels.
THEOREM BootstrapSetup ==
    ASSUME Me = 0
    PROVE  BSpec => []SetupRight
  <1>1. BInit => Init
    BY DEF BInit
  <1>2. BSpec => []IndInv
    BY <1>1, StepDiscovers, IndInvHolds, PTL DEF BSpec, Spec
  <1>3. IndInv /\ [BNext]_allVars => [SetupProofs!Next]_(SetupProofs!vars)
    BY StepSetsUp
  <1>4. BSpec => SetupProofs!Spec
    BY <1>2, <1>3, InitSetsUp, PTL DEF BSpec, SetupProofs!Spec
  <1>5. N \in Nat
    BY DiscoveryAssumption
  <1>6. SetupProofs!Spec => []SetupProofs!SetupRight
    BY <1>5, SetupProofs!SetupCorrect, PTL
  <1> QED
    BY <1>4, <1>6, SameProperty, PTL
=============================================================================
