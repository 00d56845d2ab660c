---------------------------- MODULE ThreadedSender --------------------------
(***************************************************************************)
(* scl::ThreadedSenderChannel: Send only pushes on mSendBuffer; a thread   *)
(* started by the constructor takes the packets off and writes them on the *)
(* TCP socket.  Three actors: the application, that sender thread, and the *)
(* peer that reads the other end of the socket.                            *)
(*                                                                         *)
(* The socket is a bounded pipe.  A write copies some of the bytes it was  *)
(* given as soon as there is room for one; a write on a closed descriptor  *)
(* fails, while one that already waits for room when the descriptor is     *)
(* closed goes on (the kernel keeps the socket until the call returns).    *)
(* The peer may close its end, or end itself, at any time: from then on a  *)
(* write still succeeds while there is room, or fails with an error, or    *)
(* its SIGPIPE, which nobody in the repository handles, kills the process. *)
(***************************************************************************)
EXTENDS Naturals, Sequences, SequencesExt

CONSTANTS
    MaxSend,         \* bound: packets the application sends
    PacketSize,      \* bytes per packet
    Cap,             \* bytes the socket buffers hold
    MaxRecv          \* bound: bytes the peer asks for in one Recv

ASSUME SizesAssumption ==
    /\ MaxSend \in Nat
    /\ PacketSize \in Nat \ {0}
    /\ Cap \in Nat \ {0}
    /\ MaxRecv \in Nat \ {0}

VARIABLES
    app,             \* where the application is: see AppStates
    mSendBuffer,     \* packets waiting for the sender thread
    mAlive,          \* TcpChannel::mAlive
    open,            \* the descriptor is open
    sender,          \* where the sender thread is: see SenderStates
    data,            \* the packet the sender thread holds
    offset,          \* bytes of data already written
    pipe,            \* bytes in the socket buffers
    got,             \* bytes the peer has read
    sent,            \* history: bytes of the packets sent, in order
    peer,            \* the peer's end: "open" or "closed"
    need,            \* bytes the peer's Recv still waits for, 0: none is called
    dst              \* what the peer's last read call put into its buffer

peerVars == <<peer, need, dst>>
vars == <<app, mSendBuffer, mAlive, open, sender, data, offset, pipe, got, sent, peerVars>>

\* run: the channel is in use; close1: Close closed the descriptor; close2:
\* mAlive was cleared; close3: the stop byte was pushed, Close waits for the
\* thread; closed: Close returned; destroy: the destructor waits for the
\* thread; gone: the destructor returned; killed: a signal ended the process.
AppStates == {"run", "close1", "close2", "close3", "closed", "destroy", "gone", "killed"}

\* peek: in mSendBuffer.Peek(); alive: about to test Alive(); write: about to
\* call write; kernel: inside write; pop: about to call PopFront(); done: the
\* loop was left; failed: an exception ended the thread.
SenderStates == {"peek", "alive", "write", "kernel", "pop", "done", "failed"}

Packet(i) == [j \in 1 .. PacketSize |-> <<i, j>>]
Stop == << <<0, 0>> >>
DataBytes == (1 .. MaxSend) \X (1 .. PacketSize)

sendCount == Len(sent) \div PacketSize

Init ==
    /\ app = "run"
    /\ mSendBuffer = <<>>
    /\ mAlive = TRUE
    /\ open = TRUE
    /\ sender = "peek"
    /\ data = <<>>
    /\ offset = 0
    /\ pipe = <<>>
    /\ got = <<>>
    /\ sent = <<>>
    /\ peer = "open"
    /\ need = 0
    /\ dst = <<>>

-----------------------------------------------------------------------------
(* The application *)

\* Send never waits.
Send ==
    /\ app \in {"run", "closed"}
    /\ sendCount < MaxSend
    /\ mSendBuffer' = Append(mSendBuffer, Packet(sendCount + 1))
    /\ sent' = sent \o Packet(sendCount + 1)
    /\ UNCHANGED <<app, mAlive, open, sender, data, offset, pipe, got, peerVars>>

\* Close(): mChannel.Close() closes the descriptor, and then (ClearAlive) clears
\* mAlive.
CloseSocket ==
    /\ app = "run"
    /\ app' = "close1"
    /\ open' = FALSE
    /\ UNCHANGED <<mSendBuffer, mAlive, sender, data, offset, pipe, got, sent, peerVars>>

\* Close() on a closed channel: mChannel.Close() returns at once, the rest is
\* the same.  The model lets Close be called twice.
CloseAgain ==
    /\ app = "closed"
    /\ Len(SelectSeq(mSendBuffer, LAMBDA d : d = Stop)) < 2
    /\ app' = "close2"
    /\ UNCHANGED <<mSendBuffer, mAlive, open, sender, data, offset, pipe, got, sent, peerVars>>

ClearAlive ==
    /\ app = "close1"
    /\ app' = "close2"
    /\ mAlive' = FALSE
    /\ UNCHANGED <<mSendBuffer, open, sender, data, offset, pipe, got, sent, peerVars>>

\* Mutant of PushStop: no stop byte wakes the thread.
PushNoStop ==
    /\ app = "close2"
    /\ app' = "close3"
    /\ UNCHANGED <<mSendBuffer, mAlive, open, sender, data, offset, pipe, got, sent, peerVars>>

\* The stop byte is sent to wake the thread if it sleeps in Peek.
PushStop ==
    /\ app = "close2"
    /\ app' = "close3"
    /\ mSendBuffer' = Append(mSendBuffer, Stop)
    /\ UNCHANGED <<mAlive, open, sender, data, offset, pipe, got, sent, peerVars>>

\* mSender.wait() returns when the thread has ended, by an exception too.
Join ==
    /\ app = "close3"
    /\ sender \in {"done", "failed"}
    /\ app' = "closed"
    /\ UNCHANGED <<mSendBuffer, mAlive, open, sender, data, offset, pipe, got, sent, peerVars>>

\* The destructor: mSender, the last member, goes first, and the future of
\* std::async waits for its thread.
Destroy ==
    /\ app \in {"run", "closed"}
    /\ app' = "destroy"
    /\ UNCHANGED <<mSendBuffer, mAlive, open, sender, data, offset, pipe, got, sent, peerVars>>

\* The thread has ended: the rest is destroyed, ~TcpChannel closes.
Destroyed ==
    /\ app = "destroy"
    /\ sender \in {"done", "failed"}
    /\ app' = "gone"
    /\ open' = FALSE
    /\ mAlive' = FALSE
    /\ UNCHANGED <<mSendBuffer, sender, data, offset, pipe, got, sent, peerVars>>

-----------------------------------------------------------------------------
(* The sender thread *)

\* auto data = mSendBuffer.Peek(), which sleeps while there is nothing.
Peek ==
    /\ sender = "peek"
    /\ mSendBuffer # <<>>
    /\ data' = Head(mSendBuffer)
    /\ offset' = 0
    /\ sender' = "alive"
    /\ UNCHANGED <<app, mSendBuffer, mAlive, open, pipe, got, sent, peerVars>>

\* if (!mChannel.Alive()) break
TestAlive ==
    /\ sender = "alive"
    /\ sender' = IF mAlive THEN "write" ELSE "done"
    /\ UNCHANGED <<app, mSendBuffer, mAlive, open, data, offset, pipe, got, sent, peerVars>>

\* TcpChannel::Send calls write, which fails on a closed descriptor: the
\* exception ends the thread and stays in the future.
EnterWrite ==
    /\ sender = "write"
    /\ sender' = IF open THEN "kernel" ELSE "failed"
    /\ UNCHANGED <<app, mSendBuffer, mAlive, open, data, offset, pipe, got, sent, peerVars>>

\* Mutant of Write: a short write is taken for a complete one.
WriteShort ==
    /\ sender = "kernel"
    /\ \E k \in 1 .. Len(data) - offset :
          /\ Len(pipe) + k <= Cap
          /\ pipe' = pipe \o SubSeq(data, offset + 1, offset + k)
    /\ offset' = Len(data)
    /\ sender' = "pop"
    /\ UNCHANGED <<app, mSendBuffer, mAlive, open, data, got, sent, peerVars>>

\* Mutant of Write: after a short write the packet starts again.
WriteFromStart ==
    /\ sender = "kernel"
    /\ \E k \in 1 .. Len(data) - offset :
          /\ Len(pipe) + k <= Cap
          /\ pipe' = pipe \o SubSeq(data, 1, k)
          /\ offset' = offset + k
    /\ sender' = IF offset' = Len(data) THEN "pop" ELSE "write"
    /\ UNCHANGED <<app, mSendBuffer, mAlive, open, data, got, sent, peerVars>>

\* write returns after copying what there was room for, at least one byte;
\* Send calls it again until everything is written.
Write ==
    /\ sender = "kernel"
    /\ \E k \in 1 .. Len(data) - offset :
          /\ Len(pipe) + k <= Cap
          /\ pipe' = pipe \o SubSeq(data, offset + 1, offset + k)
          /\ offset' = offset + k
    /\ sender' = IF offset' = Len(data) THEN "pop" ELSE "write"
    /\ UNCHANGED <<app, mSendBuffer, mAlive, open, data, got, sent, peerVars>>

\* Once the peer closed, write may return an error: ThrowError ends the thread
\* of a channel that is open.
WriteFails ==
    /\ sender = "kernel" /\ peer = "closed"
    /\ sender' = "failed"
    /\ UNCHANGED <<app, mSendBuffer, mAlive, open, data, offset, pipe, got, sent, peerVars>>

\* If the error is EPIPE, SIGPIPE comes first and ends the whole process.
SigPipe ==
    /\ sender = "kernel" /\ peer = "closed"
    /\ sender' = "failed"
    /\ app' = "killed"
    /\ open' = FALSE
    /\ UNCHANGED <<mSendBuffer, mAlive, data, offset, pipe, got, sent, peerVars>>

\* mSendBuffer.PopFront()
PopFront ==
    /\ sender = "pop"
    /\ mSendBuffer' = Tail(mSendBuffer)
    /\ sender' = "peek"
    /\ UNCHANGED <<app, mAlive, open, data, offset, pipe, got, sent, peerVars>>

-----------------------------------------------------------------------------

(* The peer: TcpChannel::Recv on the other end *)

\* A Recv of n bytes begins.
RecvCall ==
    /\ peer = "open" /\ need = 0
    /\ need' \in 1 .. MaxRecv
    /\ UNCHANGED <<app, mSendBuffer, mAlive, open, sender, data, offset, pipe, got, sent, peer, dst>>

\* read returns what is there, at most what the Recv still waits for.
PeerRead ==
    /\ peer = "open"
    /\ \E k \in 1 .. need :
          /\ k <= Len(pipe)
          /\ dst' = SubSeq(pipe, 1, k)
          /\ got' = got \o dst'
          /\ pipe' = SubSeq(pipe, k + 1, Len(pipe))
          /\ need' = need - k
    /\ UNCHANGED <<app, mSendBuffer, mAlive, open, sender, data, offset, sent, peer>>

\* if (!recv) break: read returns 0 at the end of the stream, and the Recv
\* returns with fewer bytes than it was asked for.
EndOfFile ==
    /\ peer = "open" /\ need > 0
    /\ pipe = <<>> /\ ~open /\ sender # "kernel"
    /\ need' = 0
    /\ UNCHANGED <<app, mSendBuffer, mAlive, open, sender, data, offset, pipe, got, sent, peer, dst>>

\* The peer closes its end, in the middle of a stream too, or its process ends.
PeerClose ==
    /\ peer = "open"
    /\ peer' = "closed"
    /\ need' = 0
    /\ UNCHANGED <<app, mSendBuffer, mAlive, open, sender, data, offset, pipe, got, sent, dst>>

Peer == RecvCall \/ PeerRead \/ EndOfFile \/ PeerClose

Application ==
    \/ Send \/ CloseSocket \/ CloseAgain \/ ClearAlive \/ PushStop \/ Join
    \/ Destroy \/ Destroyed

SenderThread ==
    Peek \/ TestAlive \/ EnterWrite \/ Write \/ WriteFails \/ SigPipe \/ PopFront

Next == Application \/ SenderThread \/ Peer

Spec == Init /\ [][Next]_vars

\* Threads run, a call that can return does, and the peer, while its end is
\* open, keeps calling Recv; nobody has to call Send, Close or the destructor.
Fairness ==
    /\ WF_vars(ClearAlive \/ PushStop \/ Join)
    /\ WF_vars(Destroyed)
    /\ WF_vars(SenderThread)
    /\ WF_vars(RecvCall \/ PeerRead \/ EndOfFile)

FairSpec == Spec /\ Fairness

-----------------------------------------------------------------------------
(* Properties *)

\* The types of the state.  The stop byte is no data byte: it would break
\* the type of pipe, were it ever written (threaded_sender.cc: Close clears
\* mAlive before it pushes the stop byte).
TypeOK ==
    /\ app \in AppStates
    /\ mSendBuffer \in Seq(Seq(DataBytes) \cup {Stop})
    /\ mAlive \in BOOLEAN
    /\ open \in BOOLEAN
    /\ sender \in SenderStates
    /\ data \in Seq(DataBytes) \cup {Stop}
    /\ offset \in 0 .. PacketSize
    /\ pipe \in Seq(DataBytes)
    /\ got \in Seq(DataBytes)
    /\ sent \in Seq(DataBytes)
    /\ peer \in {"open", "closed"}
    /\ need \in 0 .. MaxRecv
    /\ dst \in Seq(DataBytes)

\* The thread never pops a buffer that is empty, nor another packet than
\* the one it wrote.
PopsWhatItWrote ==
    sender \in {"alive", "write", "kernel", "pop"} =>
        mSendBuffer # <<>> /\ Head(mSendBuffer) = data

\* What the peer has read and will read is a prefix of what was sent: short
\* writes, Close, the destructor and failed writes may cut the stream but never reorder,
\* repeat or skip in it, and the stop byte Close pushes to wake the thread
\* never reaches the socket.  The packet popped is the one that was written.
PeerSeesPrefix == PopsWhatItWrote /\ IsPrefix(got \o pipe, sent)

\* The channel with its peer is a byte stream that the peer reads in pieces of
\* any size, whatever Close, the destructor and the peer's Close do to it.
Stream == INSTANCE ByteStream WITH
    Byte <- DataBytes, taken <- Len(got), result <- dst

ImplementsStream == Stream!Spec

\* As long as neither end is closed or destroyed, everything sent arrives
\* although Send never waits.
SentArrives ==
    \A i \in 1 .. MaxSend * PacketSize :
        (Len(sent) >= i) ~> (Len(got) >= i \/ app # "run" \/ peer = "closed")

\* Close returns, wherever the thread was when the descriptor was closed:
\* asleep in Peek, between Peek and the test, or inside write, with a peer that
\* reads or one that closed; and it ends a Recv the peer waits in.
CloseReturns ==
    /\ (app \in {"close1", "close2"}) ~> (app \in {"closed", "destroy", "gone", "killed"})
    /\ (app = "close1" /\ need > 0) ~> (need = 0)

\* Why the thread ends, and that Close ends it.  It leaves its loop only if
\* Close cleared mAlive, and by an exception only if one of the two ends is
\* closed: while both are open it runs, so that the destructor of a channel
\* nobody closed waits for ever (threaded_sender.h: the future of std::async).
\* And while Close waits for the thread, that one is not asleep in Peek and its
\* next test of Alive, or its next call of write, is its last.
ThreadEndsForCause ==
    /\ sender = "done" => ~mAlive
    /\ sender = "failed" => ~open \/ peer = "closed"
    /\ app = "close3" => ~open /\ ~mAlive /\ (sender = "peek" => mSendBuffer # <<>>)

-----------------------------------------------------------------------------
(* The inductive invariant behind PeerSeesPrefix and ImplementsStream *)

\* Bytes of data that are already in the socket.
inFlight == IF sender = "peek" THEN 0 ELSE offset

\* A stop byte in mSendBuffer is never written, since mAlive is FALSE then.
StopInv ==
    /\ \A i \in 1 .. Len(mSendBuffer) : mSendBuffer[i] = Stop => ~mAlive
    /\ app \in {"close2", "close3", "closed", "gone"} => ~mAlive
    /\ sender \in {"write", "kernel", "pop", "failed"} => data # Stop

\* How far the thread is with data.
OffsetInv ==
    /\ sender \in {"alive", "done"} => offset = 0
    /\ sender \in {"write", "kernel", "failed"} => offset < PacketSize
    /\ sender = "pop" => offset = PacketSize

\* How many bytes were sent before packet j.
Start(j) == (j - 1) * PacketSize

\* Up to the first stop byte, mSendBuffer holds the packets after the b that
\* were popped, of the m that were sent.
Window(m, b) ==
    /\ Len(sent) = Start(m + 1)
    /\ \A j \in 1 .. m : \A k \in 1 .. PacketSize : sent[Start(j) + k] = <<j, k>>
    /\ Len(got) + Len(pipe) = Start(b + 1) + inFlight
    /\ \A i \in 1 .. Len(mSendBuffer) :
          (\A j \in 1 .. i : mSendBuffer[j] # Stop) =>
              b + i <= m /\ mSendBuffer[i] = Packet(b + i)
    /\ (\A j \in 1 .. Len(mSendBuffer) : mSendBuffer[j] # Stop) => b + Len(mSendBuffer) = m

\* What was read and what is in the socket, byte by byte.
BytesInv ==
    /\ Len(got) + Len(pipe) <= Len(sent)
    /\ \A i \in 1 .. Len(got) : got[i] = sent[i]
    /\ \A i \in 1 .. Len(pipe) : pipe[i] = sent[Len(got) + i]

IndInv ==
    /\ TypeOK /\ PopsWhatItWrote /\ StopInv /\ OffsetInv /\ BytesInv
    /\ \E m, b \in 0 .. MaxSend : Window(m, b)

\* What it takes for ThreadEndsForCause: Close closes the descriptor first, a
\* closed peer stays closed, and nothing removes Close's stop byte.
CloseInd ==
    /\ app \in {"close1", "close2", "close3", "closed"} => ~open
    /\ sender = "done" => ~mAlive
    /\ sender = "failed" => ~open \/ peer = "closed"
    /\ app = "close3" => \E i \in 1 .. Len(mSendBuffer) : mSendBuffer[i] = Stop
=============================================================================
