----------------------------- MODULE NetworkSetup ---------------------------
(***************************************************************************)
(* Network::Create and Network::CreateThreadedSenders (scl/net/network.cc) *)
(* run by every party at once.  A party's main thread connects to the      *)
(* parties with smaller ids, one after the other and with retries, and     *)
(* sends its id on each connection; its server thread accepts one          *)
(* connection per party with a larger id and reads from it which party it  *)
(* is.  Both threads fill the same vector of channels.  The two functions   *)
(* differ only in the class the main thread wraps its sockets in, which is *)
(* left out here.                                                          *)
(***************************************************************************)
EXTENDS Naturals, Sequences, FiniteSets

CONSTANT N           \* number of parties

Party == 0 .. N - 1

\* A connection is named after its two ends.
Connection == [client : Party, server : Party]

VARIABLES
    listen,          \* listen[p]: "no", "yes", "closed": p's server socket
    backlog,         \* backlog[p]: connections p has not accepted yet
    server,          \* server[p]: "start", "accept", "id", "done"
    accepted,        \* accepted[p]: how many connections p's loop is done with
    current,         \* current[p]: the connection whose id p waits for
    next,            \* next[p]: the party p's main thread connects to next
    connected,       \* connected[p]: it is connected, the id not yet sent
    idSent,          \* connections on which the client's id was sent
    channels,        \* channels[p][q]: p's channel to q, or Null
    returned         \* parties whose Create has returned

vars == <<listen, backlog, server, accepted, current, next, connected,
          idSent, channels, returned>>

Null == [kind |-> "null", conn |-> [client |-> 0, server |-> 0]]
Self(p) == [kind |-> "self", conn |-> [client |-> p, server |-> p]]

Larger(p) == N - p - 1        \* how many parties have a larger id

Init ==
    /\ listen = [p \in Party |-> "no"]
    /\ backlog = [p \in Party |-> <<>>]
    /\ server = [p \in Party |-> "start"]
    /\ accepted = [p \in Party |-> 0]
    /\ current = [p \in Party |-> Null.conn]
    /\ next = [p \in Party |-> 0]
    /\ connected = [p \in Party |-> FALSE]
    /\ idSent = {}
    /\ channels = [p \in Party |-> [q \in Party |-> IF q = p THEN Self(p) ELSE Null]]
    /\ returned = {}

-----------------------------------------------------------------------------
(* tcp_utils.cc: a server socket keeps as many connections waiting as the  *)
(* caller has larger ids to expect; a client tries until there is room.    *)

CreateServerSocket(p) == [listen EXCEPT ![p] = "yes"]
AcceptConnection(p) == Head(backlog[p])
ConnectAsClient(i) == listen[i] = "yes" /\ Len(backlog[i]) < Larger(i)

-----------------------------------------------------------------------------
(* The server thread: AcceptConnections *)

\* CreateServerSocket, unless nobody has a larger id.
Listen(p) ==
    /\ server[p] = "start"
    /\ IF Larger(p) > 0
       THEN /\ listen' = CreateServerSocket(p)
            /\ server' = [server EXCEPT ![p] = "accept"]
       ELSE /\ server' = [server EXCEPT ![p] = "done"]
            /\ UNCHANGED listen
    /\ UNCHANGED <<backlog, accepted, current, next, connected, idSent, channels, returned>>

\* AcceptConnection: the oldest connection in the backlog, whoever it is.
Accept(p) ==
    /\ server[p] = "accept"
    /\ accepted[p] < Larger(p)
    /\ backlog[p] # <<>>
    /\ current' = [current EXCEPT ![p] = AcceptConnection(p)]
    /\ backlog' = [backlog EXCEPT ![p] = Tail(@)]
    /\ server' = [server EXCEPT ![p] = "id"]
    /\ UNCHANGED <<listen, accepted, next, connected, idSent, channels, returned>>

\* Mutant of ReceiveId: the channel is filed by the order of arrival.
ReceiveIdByArrival(p) ==
    /\ server[p] = "id"
    /\ current[p] \in idSent
    /\ channels' = [channels EXCEPT ![p][p + 1 + accepted[p]] =
                       [kind |-> "peer", conn |-> current[p]]]
    /\ accepted' = [accepted EXCEPT ![p] = @ + 1]
    /\ server' = [server EXCEPT ![p] = "accept"]
    /\ UNCHANGED <<listen, backlog, current, next, connected, idSent, returned>>

\* channel->Recv(id) and channels[id] = channel.
ReceiveId(p) ==
    /\ server[p] = "id"
    /\ current[p] \in idSent
    /\ channels' = [channels EXCEPT ![p][current[p].client] =
                       [kind |-> "peer", conn |-> current[p]]]
    /\ accepted' = [accepted EXCEPT ![p] = @ + 1]
    /\ server' = [server EXCEPT ![p] = "accept"]
    /\ UNCHANGED <<listen, backlog, current, next, connected, idSent, returned>>

\* The loop is over: CloseSocket(ssock), and the thread ends.
StopListening(p) ==
    /\ server[p] = "accept"
    /\ accepted[p] = Larger(p)
    /\ listen' = [listen EXCEPT ![p] = "closed"]
    /\ server' = [server EXCEPT ![p] = "done"]
    /\ UNCHANGED <<backlog, accepted, current, next, connected, idSent, channels, returned>>

-----------------------------------------------------------------------------
(* The main thread *)

\* Mutant of Connect: the backlog is one connection too small, so that the
\* last but one party refuses everybody.
ConnectSmallBacklog(p) ==
    LET i == next[p]
    IN  /\ i < p
        /\ ~connected[p]
        /\ listen[i] = "yes"
        /\ Len(backlog[i]) + 1 < Larger(i)
        /\ backlog' = [backlog EXCEPT ![i] =
                          Append(@, [client |-> p, server |-> i])]
        /\ connected' = [connected EXCEPT ![p] = TRUE]
        /\ UNCHANGED <<listen, server, accepted, current, next, idSent, channels, returned>>

\* ConnectAsClient succeeds once the other party listens (until then it
\* sleeps and tries again) and its backlog has room.
Connect(p) ==
    LET i == next[p]
    IN  /\ i < p
        /\ ~connected[p]
        /\ ConnectAsClient(i)
        /\ backlog' = [backlog EXCEPT ![i] =
                          Append(@, [client |-> p, server |-> i])]
        /\ connected' = [connected EXCEPT ![p] = TRUE]
        /\ UNCHANGED <<listen, server, accepted, current, next, idSent, channels, returned>>

\* channel->Send(id) and channels[i] = channel.
SendId(p) ==
    LET c == [client |-> p, server |-> next[p]]
    IN  /\ connected[p]
        /\ idSent' = idSent \cup {c}
        /\ channels' = [channels EXCEPT ![p][next[p]] =
                           [kind |-> "peer", conn |-> c]]
        /\ next' = [next EXCEPT ![p] = @ + 1]
        /\ connected' = [connected EXCEPT ![p] = FALSE]
        /\ UNCHANGED <<listen, backlog, server, accepted, current, returned>>

\* server.join(), and Create returns.
Return(p) ==
    /\ p \notin returned
    /\ next[p] = p
    /\ server[p] = "done"
    /\ returned' = returned \cup {p}
    /\ UNCHANGED <<listen, backlog, server, accepted, current, next, connected, idSent, channels>>

ServerStep(p) == Listen(p) \/ Accept(p) \/ ReceiveId(p) \/ StopListening(p)

Next == \E p \in Party : ServerStep(p) \/ Connect(p) \/ SendId(p) \/ Return(p)

Spec == Init /\ [][Next]_vars

-----------------------------------------------------------------------------
(* Properties *)

\* A channel p files under q is an end of a connection between p and q, so
\* that what p sends to q arrives at q: connections arrive in any order and
\* are told apart only by the id sent on them.
ChannelsPaired ==
    \A p, q \in Party :
        channels[p][q].kind = "peer" =>
            {channels[p][q].conn.client, channels[p][q].conn.server} = {p, q}

\* Create returns a network without missing channels.
CompleteAtReturn ==
    \A p \in returned : \A q \in Party : channels[p][q].kind # "null"

\* No party still has to connect to a server socket that was closed: the
\* server thread counts connections, not parties.
NobodyLeftOut ==
    \A i \in Party : \A p \in Party :
        listen[i] = "closed" /\ p > i => next[p] > i

\* What two threads per party fill concurrently is right whenever it is used:
\* no channel is under another party's id, none is missing when Create
\* returns, and no server stops listening before all its clients are in.
SetupRight == ChannelsPaired /\ CompleteAtReturn /\ NobodyLeftOut

-----------------------------------------------------------------------------
(* The inductive invariant behind SetupRight *)

Conn(p, i) == [client |-> p, server |-> i]
Peer(c) == [kind |-> "peer", conn |-> c]

TypeOK ==
    /\ listen \in [Party -> {"no", "yes", "closed"}]
    /\ backlog \in [Party -> Seq(Connection)]
    /\ server \in [Party -> {"start", "accept", "id", "done"}]
    /\ accepted \in [Party -> Nat]
    /\ current \in [Party -> Connection]
    /\ next \in [Party -> Party]
    /\ connected \in [Party -> BOOLEAN]
    /\ channels \in [Party -> [Party -> [kind : {"null", "self", "peer"}, conn : Connection]]]
    /\ returned \subseteq Party

\* The main thread of p is past party i, or connected to it.
Reached(p, i) == next[p] > i \/ (next[p] = i /\ connected[p])

MainInv ==
    /\ \A p \in Party : next[p] <= p /\ (connected[p] => next[p] < p)
    /\ \A p, i \in Party : Conn(p, i) \in idSent => next[p] > i
    /\ \A p, q \in Party : q < p => channels[p][q] = IF next[p] > q THEN Peer(Conn(p, q)) ELSE Null
    /\ \A p \in Party : channels[p][p] = Self(p)

\* A connection is in the backlog once, at hand, or filed, and only one of these.
Pending(p, i) == p > i /\ Reached(p, i) /\ channels[i][p] = Null

BacklogInv ==
    \A i \in Party :
        /\ \A k \in 1 .. Len(backlog[i]) :
              \E p \in Party : backlog[i][k] = Conn(p, i) /\ Pending(p, i)
        /\ \A k, l \in 1 .. Len(backlog[i]) : backlog[i][k] = backlog[i][l] => k = l
        /\ server[i] = "id" =>
              /\ \E p \in Party : current[i] = Conn(p, i) /\ Pending(p, i)
              /\ \A k \in 1 .. Len(backlog[i]) : backlog[i][k] # current[i]

\* The parties whose connections i has filed, and their number.
Filed(i) == {p \in Party : p > i /\ channels[i][p] # Null}

FiledInv ==
    \A i \in Party :
        /\ \A p \in Filed(i) : channels[i][p] = Peer(Conn(p, i)) /\ next[p] > i
        /\ accepted[i] = Cardinality(Filed(i))
        /\ server[i] = "done" \/ listen[i] = "closed" => accepted[i] = Larger(i)

ReturnInv == \A p \in returned : next[p] = p /\ server[p] = "done"

IndInv == TypeOK /\ MainInv /\ BacklogInv /\ FiledInv /\ ReturnInv
=============================================================================
