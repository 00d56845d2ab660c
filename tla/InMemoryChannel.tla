--------------------------- MODULE InMemoryChannel --------------------------
(***************************************************************************)
(* One direction of scl::InMemoryChannel: the sending end pushes packets   *)
(* on a SharedDeque, the receiving end pops them, copies what it asked for *)
(* and keeps the rest of the last packet in mOverflow.  The two ends run   *)
(* in different threads; every call of the deque is one step, since each   *)
(* of them holds the deque's mutex for its whole body (SharedDeque.tla     *)
(* models what happens inside).                                            *)
(***************************************************************************)
EXTENDS Naturals, Sequences

CONSTANTS
    Byte,            \* the values a byte can take
    MaxPacket,       \* bound: bytes in one Send
    MaxRecv,         \* bound: bytes asked for in one Recv
    MaxSent,         \* bound: bytes sent over the life of the channel
    MaxQueue         \* bound: packets in the deque

ASSUME BoundsAssumption ==
    /\ MaxPacket \in Nat
    /\ MaxRecv \in Nat
    /\ MaxSent \in Nat
    /\ MaxQueue \in Nat

VARIABLES
    mIn,             \* the SharedDeque: packets pushed and not popped
    mOverflow,       \* the receiver's leftovers
    op,              \* what the receiver executes: see Ops
    n,               \* Recv: how many bytes were asked for
    dst,             \* Recv: the bytes copied so far; rem = n - Len(dst)
    (* history, which no step of the code reads *)
    sent,            \* every byte sent, in order
    pos,             \* pos[i]: how many bytes were sent before packet mIn[i]
    taken,           \* bytes delivered by completed calls, or flushed
    result           \* what the last completed Recv delivered

vars == <<mIn, mOverflow, op, n, dst, sent, pos, taken, result>>

\* idle: no call; recv: in Recv; flush: Flush is about to call Size();
\* drain: Size() was not 0, Flush is about to call PopFront().
Ops == {"idle", "recv", "flush", "drain"}

Packets == UNION {[1 .. k -> Byte] : k \in 0 .. MaxPacket}

rem == n - Len(dst)

Least(a, b) == IF a > b THEN b ELSE a

-----------------------------------------------------------------------------

Init ==
    /\ mIn = <<>>
    /\ mOverflow = <<>>
    /\ op = "idle"
    /\ n = 0
    /\ dst = <<>>
    /\ sent = <<>>
    /\ pos = <<>>
    /\ taken = 0
    /\ result = <<>>

\* Send(src, n), at the other end: an empty packet is pushed too.
Send(p) ==
    /\ Len(sent) + Len(p) <= MaxSent
    /\ Len(mIn) < MaxQueue
    /\ mIn' = Append(mIn, p)
    /\ sent' = sent \o p
    /\ pos' = Append(pos, Len(sent))
    /\ UNCHANGED <<mOverflow, op, n, dst, taken, result>>

\* Recv(dst, n) is called: leftovers of earlier calls are copied first.
RecvCall(k) ==
    /\ op = "idle"
    /\ LET to_copy == Least(Len(mOverflow), k)
       IN  /\ dst' = SubSeq(mOverflow, 1, to_copy)
           /\ mOverflow' = SubSeq(mOverflow, to_copy + 1, Len(mOverflow))
    /\ op' = "recv"
    /\ n' = k
    /\ UNCHANGED <<mIn, sent, pos, taken, result>>

\* Mutant of RecvPop: what does not fit is dropped.
RecvPopDropsRest ==
    /\ op = "recv"
    /\ rem > 0
    /\ mIn # <<>>
    /\ dst' = dst \o SubSeq(Head(mIn), 1, Least(Len(Head(mIn)), rem))
    /\ mIn' = Tail(mIn)
    /\ pos' = Tail(pos)
    /\ UNCHANGED <<mOverflow, op, n, sent, taken, result>>

\* Mutant of RecvPop: an empty packet is taken for "nothing there yet".
RecvPopWaitsOnEmpty ==
    /\ op = "recv"
    /\ rem > 0
    /\ mIn # <<>>
    /\ Head(mIn) # <<>>
    /\ LET data == Head(mIn)
           to_copy == Least(Len(data), rem)
       IN  /\ dst' = dst \o SubSeq(data, 1, to_copy)
           /\ mOverflow' = mOverflow \o SubSeq(data, to_copy + 1, Len(data))
    /\ mIn' = Tail(mIn)
    /\ pos' = Tail(pos)
    /\ UNCHANGED <<op, n, sent, taken, result>>

\* One round of the while loop; Pop waits while the deque is empty.
RecvPop ==
    /\ op = "recv"
    /\ rem > 0
    /\ mIn # <<>>
    /\ LET data == Head(mIn)
           to_copy == Least(Len(data), rem)
       IN  /\ dst' = dst \o SubSeq(data, 1, to_copy)
           /\ mOverflow' = mOverflow \o SubSeq(data, to_copy + 1, Len(data))
    /\ mIn' = Tail(mIn)
    /\ pos' = Tail(pos)
    /\ UNCHANGED <<op, n, sent, taken, result>>

\* The loop has ended and Recv returns.
RecvReturn ==
    /\ op = "recv"
    /\ rem = 0
    /\ op' = "idle"
    /\ n' = 0
    /\ dst' = <<>>
    /\ result' = dst
    /\ taken' = taken + n
    /\ UNCHANGED <<mIn, mOverflow, sent, pos>>

\* Flush() is called.
FlushCall ==
    /\ op = "idle"
    /\ op' = "flush"
    /\ UNCHANGED <<mIn, mOverflow, n, dst, sent, pos, taken, result>>

\* Mutant of FlushSize: Flush pops first and asks for the size afterwards.
FlushSizeUnchecked ==
    /\ op = "flush"
    /\ op' = "drain"
    /\ UNCHANGED <<mIn, mOverflow, n, dst, sent, pos, taken, result>>

\* mIn->Size() is not 0.
FlushSize ==
    /\ op = "flush"
    /\ mIn # <<>>
    /\ op' = "drain"
    /\ UNCHANGED <<mIn, mOverflow, n, dst, sent, pos, taken, result>>

\* mIn->PopFront(), which waits while the deque is empty.
FlushPop ==
    /\ op = "drain"
    /\ mIn # <<>>
    /\ mIn' = Tail(mIn)
    /\ pos' = Tail(pos)
    /\ op' = "flush"
    /\ UNCHANGED <<mOverflow, n, dst, sent, taken, result>>

\* Mutant of FlushReturn: the leftovers survive the flush.
FlushReturnKeepsOverflow ==
    /\ op = "flush"
    /\ mIn = <<>>
    /\ op' = "idle"
    /\ taken' = Len(sent)
    /\ UNCHANGED <<mIn, mOverflow, n, dst, sent, pos, result>>

\* mIn->Size() is 0: the leftovers go too and Flush returns.
FlushReturn ==
    /\ op = "flush"
    /\ mIn = <<>>
    /\ mOverflow' = <<>>
    /\ op' = "idle"
    /\ taken' = Len(sent)
    /\ UNCHANGED <<mIn, n, dst, sent, pos, result>>

Receiver ==
    \/ \E k \in 0 .. MaxRecv : RecvCall(k)
    \/ RecvPop
    \/ RecvReturn
    \/ FlushCall
    \/ FlushSize
    \/ FlushPop
    \/ FlushReturn

Next ==
    \/ \E p \in Packets : Send(p)
    \/ Receiver

Spec == Init /\ [][Next]_vars

\* The receiver's thread runs: a call of the deque that can proceed does.
Fairness ==
    /\ WF_vars(RecvPop)
    /\ WF_vars(RecvReturn)
    /\ WF_vars(FlushSize)
    /\ WF_vars(FlushPop)
    /\ WF_vars(FlushReturn)

FairSpec == Spec /\ Fairness

-----------------------------------------------------------------------------
(* Properties *)

\* The types of the channel's state; rem is a std::size_t, so that it would
\* wrap if a Recv ever copied more than it was asked for.
TypeOK ==
    /\ mIn \in Seq(Seq(Byte))
    /\ mOverflow \in Seq(Byte)
    /\ op \in Ops
    /\ n \in Nat
    /\ dst \in Seq(Byte)
    /\ rem \in Nat
    /\ sent \in Seq(Byte)
    /\ pos \in Seq(Nat)
    /\ taken \in Nat
    /\ result \in Seq(Byte)

\* The ghost offsets follow the queue: packets are adjacent parts of the
\* stream, and the last one ends where the stream ends.
PacketsAdjacent ==
    /\ Len(pos) = Len(mIn)
    /\ \A i \in 1 .. Len(mIn) :
          pos[i] + Len(mIn[i]) = IF i = Len(mIn) THEN Len(sent) ELSE pos[i + 1]
    /\ \A i \in 1 .. Len(mIn) : pos[i] <= Len(sent)

\* A queued packet holds the bytes that were sent at its place.
PacketsIntact ==
    \A i \in 1 .. Len(mIn) : \A j \in 1 .. Len(mIn[i]) :
        /\ pos[i] + j \in 1 .. Len(sent)
        /\ mIn[i][j] = sent[pos[i] + j]

\* Where the receiver stands in the stream: after what it has delivered,
\* copied and kept.
Reached == taken + Len(dst) + Len(mOverflow)

\* Outside Flush the queue continues exactly where the leftovers end.
NoGap ==
    op \in {"idle", "recv"} =>
        Reached = IF mIn = <<>> THEN Len(sent) ELSE pos[1]

\* Inside Flush the receiver's place is still inside the stream.
FlushOrder ==
    op \in {"flush", "drain"} => Reached <= Len(sent)

\* Outside Recv nothing is half copied.
IdleClean == op # "recv" => dst = <<>>

\* Recv fills the caller's buffer with consecutive bytes of the stream,
\* starting with the first byte not delivered yet, however Send cut the
\* stream into packets and however the earlier Recvs cut it into reads
\* (mem_channel.cc: leftovers first, then packet after packet).
RecvInOrder ==
    /\ Len(dst) <= n
    /\ \A j \in 1 .. Len(dst) :
          /\ taken + j \in 1 .. Len(sent)
          /\ dst[j] = sent[taken + j]

\* The leftovers are the bytes of the stream that follow what was copied.
LeftoversInOrder ==
    \A j \in 1 .. Len(mOverflow) :
        /\ taken + Len(dst) + j \in 1 .. Len(sent)
        /\ mOverflow[j] = sent[taken + Len(dst) + j]

\* "if we didn't copy all of data, then rem == 0" (mem_channel.cc:30): Recv
\* never keeps leftovers while it still wants bytes, so that appending to
\* mOverflow always appends to an empty vector and no byte overtakes another.
LeftoversOnlyWhenDone ==
    op = "recv" /\ rem > 0 => mOverflow = <<>>

\* Flush reads Size() and calls PopFront() under two separate locks; with
\* the receiver as the only consumer PopFront never has to wait
\* (mem_channel.h: while (mIn->Size()) mIn->PopFront()).
FlushNeverWaits ==
    op = "drain" => mIn # <<>>

\* The channel implements the byte stream it promises, across Sends that
\* arrive in the middle of a Recv or a Flush.
Stream == INSTANCE ByteStream WITH Byte <- Byte, sent <- sent, taken <- taken, result <- result

ImplementsStream == Stream!Spec

\* A Recv for which enough bytes have been sent returns; the bytes may be
\* spread over any number of packets, empty ones included.
RecvReturns ==
    (op = "recv" /\ Len(sent) - taken >= n) ~> (op = "idle")

\* The inductive invariant behind the safety properties above.
IndInv ==
    /\ TypeOK
    /\ PacketsAdjacent
    /\ PacketsIntact
    /\ NoGap
    /\ FlushOrder
    /\ IdleClean
    /\ RecvInOrder
    /\ LeftoversInOrder
    /\ LeftoversOnlyWhenDone
    /\ FlushNeverWaits

=============================================================================
