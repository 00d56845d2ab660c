------------------------------ MODULE Discovery -----------------------------
(***************************************************************************)
(* Party discovery (scl/net/discovery): clients connect to a server, tell  *)
(* it the id and the port they will use, and get the list of all parties   *)
(* back.  The server keeps one slot per party: its own slot, and the       *)
(* others in the order in which the connections arrive.                    *)
(*                                                                         *)
(* Hosts and ports are named after the client that has them.  A client may *)
(* have been started with a wrong id, so that ids are chosen from the      *)
(* valid ones and one that is too large.                                   *)
(***************************************************************************)
EXTENDS Naturals, Sequences

CONSTANTS
    N,               \* mNumberOfParties
    Me,              \* the server's id
    ClaimedIds       \* the ids clients may be started with

ASSUME DiscoveryAssumption ==
    /\ N \in Nat \ {0}
    /\ Me \in 0 .. N - 1
    /\ ClaimedIds \subseteq 0 .. N

Ids == 0 .. N - 1
Clients == Ids \ {Me}

None == N + 1        \* no host, no port

VARIABLES
    claim,           \* claim[c]: the id client c was started with
    waiting,         \* connections the server has not accepted, in order
    slots,           \* slots[i]: the client (or the server) at slot i
    parties,         \* the list the server builds: position -> Party
    slot,            \* the slot CollectIdsAndPorts reads next
    server,          \* "accept", "collect", "send", "done", "threw"
    told,            \* clients that were sent the list
    config           \* config[c]: the list client c returned, or <<>>

vars == <<claim, waiting, slots, parties, slot, server, told, config>>

\* A default-constructed Party, and the server's own entry.
DefaultParty == [id |-> 0, host |-> None, port |-> None]
MyEntry == [id |-> Me, host |-> Me, port |-> Me]

Init ==
    /\ claim \in [Clients -> ClaimedIds]
    /\ waiting = <<>>
    /\ slots = <<>>
    /\ parties = [i \in Ids |-> IF i = Me THEN MyEntry ELSE DefaultParty]
    /\ slot = 0
    /\ server = "accept"
    /\ told = {}
    /\ config = [c \in Clients |-> <<>>]

\* The hostname at a slot is the address of the connection accepted there.
Host(i) == slots[i + 1]

\* NetworkConfig::Validate: ids in range and pairwise different.
Valid(list) ==
    /\ \A i \in Ids : list[i].id < N
    /\ \A i, j \in Ids : i # j => list[i].id # list[j].id

-----------------------------------------------------------------------------

\* DiscoveryClient::Run connects and sends id and port.
ClientConnect(c) ==
    /\ \A i \in 1 .. Len(waiting) : waiting[i] # c
    /\ \A i \in 1 .. Len(slots) : slots[i] # c
    /\ server = "accept"
    /\ waiting' = Append(waiting, c)
    /\ UNCHANGED <<claim, slots, parties, slot, server, told, config>>

\* DiscoveryServer::Run: one slot, its own or the next connection's.
AcceptSlot ==
    /\ server = "accept"
    /\ Len(slots) < N
    /\ IF Len(slots) = Me
       THEN /\ slots' = Append(slots, Me)
            /\ UNCHANGED waiting
       ELSE /\ waiting # <<>>
            /\ slots' = Append(slots, Head(waiting))
            /\ waiting' = Tail(waiting)
    /\ server' = IF Len(slots') = N THEN "collect" ELSE "accept"
    /\ UNCHANGED <<claim, parties, slot, told, config>>

\* CollectIdsAndPorts::Run: id and port from one slot; an id that is too
\* large throws.  The hostname is looked up by id.
CollectSlot ==
    /\ server = "collect"
    /\ slot < N
    /\ slot' = slot + 1
    /\ IF slot = Me
       THEN UNCHANGED <<parties, server>>
       ELSE LET c == slots[slot + 1]
                id == claim[c]
            IN  IF id >= N
                THEN server' = "threw" /\ UNCHANGED parties
                ELSE /\ parties' = [parties EXCEPT ![id] =
                                       [id |-> id, host |-> Host(id), port |-> c]]
                     /\ UNCHANGED server
    /\ UNCHANGED <<claim, waiting, slots, told, config>>

\* Mutant of MakeConfig: the list is not validated.
MakeConfigUnchecked ==
    /\ server = "collect"
    /\ slot = N
    /\ server' = "send"
    /\ UNCHANGED <<claim, waiting, slots, parties, slot, told, config>>

\* The NetworkConfig is constructed, which validates the list.
MakeConfig ==
    /\ server = "collect"
    /\ slot = N
    /\ server' = IF Valid(parties) THEN "send" ELSE "threw"
    /\ UNCHANGED <<claim, waiting, slots, parties, slot, told, config>>

\* Mutant of SendConfig: the last slot is left out.
SendConfigSkipsLast(c) ==
    /\ server = "send"
    /\ c \notin told
    /\ c # slots[N]
    /\ \A i, j \in 1 .. N : slots[j] = c /\ i < j => slots[i] \in told \cup {Me}
    /\ told' = told \cup {c}
    /\ server' = IF told' = Clients THEN "done" ELSE "send"
    /\ UNCHANGED <<claim, waiting, slots, parties, slot, config>>

\* SendNetworkConfig::Finalize: the list goes to one slot after the other.
SendConfig(c) ==
    /\ server = "send"
    /\ c \notin told
    /\ \A i, j \in 1 .. N : slots[j] = c /\ i < j => slots[i] \in told \cup {Me}
    /\ told' = told \cup {c}
    /\ server' = IF told' = Clients THEN "done" ELSE "send"
    /\ UNCHANGED <<claim, waiting, slots, parties, slot, config>>

\* ReceiveNetworkConfig::Finalize: every entry is filed at its id.
ReceiveConfig(c) ==
    /\ c \in told
    /\ config[c] = <<>>
    /\ config' = [config EXCEPT ![c] =
          [i \in Ids |-> CHOOSE e \in {parties[j] : j \in Ids} : e.id = i]]
    /\ UNCHANGED <<claim, waiting, slots, parties, slot, server, told>>

Next ==
    \/ \E c \in Clients :
          ClientConnect(c) \/ SendConfig(c) \/ ReceiveConfig(c)
    \/ AcceptSlot
    \/ CollectSlot
    \/ MakeConfig

Spec == Init /\ [][Next]_vars

-----------------------------------------------------------------------------
(* Properties *)

\* Every list that gets out names every client under the id it announced,
\* with the port it announced, whatever the order of arrival and even if
\* clients were started with wrong ids (then the server throws).  The server
\* being party 0 matters: an entry nobody filled has id 0, and only then is it
\* a duplicate.
PortsRight ==
    server \in {"send", "done"} =>
        \A c \in Clients : /\ parties[claim[c]].id = claim[c]
                           /\ parties[claim[c]].port = c

\* All parties get the same list.
SameConfig ==
    \A c \in Clients : config[c] # <<>> => config[c] = parties

\* A client that trusts its list connects to the party it means to, whoever
\* else it compares lists with.
ListsRight == PortsRight /\ SameConfig

\* Discovery ends: everyone has the list, or the server has thrown.
Ends == <>(server = "threw" \/ \A c \in Clients : config[c] # <<>>)

-----------------------------------------------------------------------------
(* The inductive invariant behind ListsRight *)

TypeOK ==
    /\ claim \in [Clients -> ClaimedIds]
    /\ waiting \in Seq(Clients)
    /\ slots \in Seq(Ids)
    /\ slot \in 0 .. N
    /\ server \in {"accept", "collect", "send", "done", "threw"}
    /\ told \subseteq Clients

\* The server is at its own slot, clients are at the others, and the slots are
\* read when all are taken.
SlotsInv ==
    /\ \A i \in 1 .. Len(slots) : slots[i] = Me <=> i = Me + 1
    /\ server # "accept" => Len(slots) = N

\* The entry at i is one nobody has filled, or that of a client that announced i.
EntryInv ==
    /\ parties = [i \in Ids |-> parties[i]]
    /\ \A i \in Ids :
          \/ parties[i] = IF i = Me THEN MyEntry ELSE DefaultParty
          \/ /\ parties[i].id = i
             /\ \E c \in Clients : claim[c] = i /\ parties[i].port = c

\* Lists get out only after they were validated, and do not change afterwards.
OutInv ==
    /\ told # {} => server \in {"send", "done"}
    /\ server \in {"send", "done"} => Valid(parties)
    /\ \A c \in Clients : config[c] # <<>> => c \in told

IndInv == TypeOK /\ SlotsInv /\ EntryInv /\ OutInv /\ DOMAIN config = Clients /\ SameConfig
=============================================================================
