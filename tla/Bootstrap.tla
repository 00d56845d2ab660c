----------------------------- MODULE Bootstrap ------------------------------
(***************************************************************************)
(* How processes that know only the discovery server become a network:     *)
(* each runs discovery, and calls Network::Create with the NetworkConfig   *)
(* that returns.  A party may be connecting while others still wait for    *)
(* the list, and it connects to the addresses on the list, not to ids.     *)
(*                                                                         *)
(* Processes are named as in Discovery, parties (ids) as in NetworkSetup.  *)
(* All processes run on one host, so that the port alone is the address.   *)
(***************************************************************************)
EXTENDS Discovery

VARIABLES listen, backlog, threads, accepted, current, next, connected,
          idSent, channels, returned

Setup == INSTANCE NetworkSetup WITH server <- threads

setupVars == <<listen, backlog, threads, accepted, current, next, connected,
               idSent, channels, returned>>

allVars == <<vars, setupVars>>

\* Processes differ only in the id they were started with, so that naming them
\* in the order of these ids loses no case.
BInit ==
    /\ Init
    /\ \A c, d \in Clients : c < d => claim[c] <= claim[d]
    /\ Setup!Init

\* The id a process was started with: it runs Create as this party.
IdOf(c) == IF c = Me THEN Me ELSE claim[c]

\* Discovery has returned in process c: Run ends with the list sent to all, or
\* received.
HasConfig(c) == IF c = Me THEN server = "done" ELSE config[c] # <<>>

\* The list process c got.
ConfigOf(c) == IF c = Me THEN parties ELSE config[c]

\* Process c makes a step of Network::Create; to connect, it looks up the
\* address of the next party.
CreateStep(c) ==
    LET p == IdOf(c)
    IN  /\ HasConfig(c)
        /\ \/ Setup!ServerStep(p)
           \/ IdOf(ConfigOf(c)[next[p]].port) = next[p] /\ Setup!Connect(p)
           \/ Setup!SendId(p)
           \/ Setup!Return(p)
        /\ UNCHANGED vars

BNext == (Next /\ UNCHANGED setupVars) \/ (\E c \in Ids : CreateStep(c))

\* Server, clients and both threads of every party run.
ServerThread(c) == HasConfig(c) /\ Setup!ServerStep(IdOf(c)) /\ UNCHANGED vars
MainThread(c) == CreateStep(c) /\ threads' = threads

BSpec ==
    /\ BInit
    /\ [][BNext]_allVars
    /\ WF_allVars((AcceptSlot \/ CollectSlot \/ MakeConfig) /\ UNCHANGED setupVars)
    /\ \A c \in Clients :
          /\ WF_allVars(ClientConnect(c) /\ UNCHANGED setupVars)
          /\ WF_allVars(SendConfig(c) /\ UNCHANGED setupVars)
          /\ WF_allVars(ReceiveConfig(c) /\ UNCHANGED setupVars)
    /\ \A c \in Ids : WF_allVars(ServerThread(c)) /\ WF_allVars(MainThread(c))

-----------------------------------------------------------------------------
(* Properties *)

\* What two threads per party fill concurrently is right whenever it is used:
\* no channel is under another party's id, none is missing when Create
\* returns, and no server stops listening before all its clients are in.
SetupRight == Setup!SetupRight

\* Whatever ids the processes were started with and in whatever order they
\* came, either discovery throws or every party's Create returns.
EveryoneConnects == <>(server = "threw" \/ returned = Ids)
=============================================================================
