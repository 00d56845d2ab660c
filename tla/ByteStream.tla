----------------------------- MODULE ByteStream -----------------------------
(***************************************************************************)
(* What a one-directional scl::Channel promises (scl/net/channel.h): the   *)
(* bytes written at one end are read at the other end in the order they    *)
(* were written, whatever the sizes of the writes and of the reads are.    *)
(* A reader may also throw away a prefix of what it has not read yet       *)
(* (InMemoryChannel::Flush).                                               *)
(***************************************************************************)
EXTENDS Naturals, Sequences

CONSTANT Byte        \* the values a byte can take

VARIABLES
    sent,            \* every byte ever written, in order
    taken,           \* how many of them have been read or thrown away
    result           \* what the last completed read delivered

svars == <<sent, taken, result>>

Init ==
    /\ sent = <<>>
    /\ taken = 0
    /\ result = <<>>

\* Write: any number of bytes go to the end of the stream.
Write ==
    /\ sent' \in Seq(Byte)
    /\ Len(sent') >= Len(sent)
    /\ \A i \in 1 .. Len(sent) : sent'[i] = sent[i]
    /\ UNCHANGED <<taken, result>>

\* Read: the k next bytes of the stream are delivered.
Read ==
    /\ \E k \in 0 .. Len(sent) - taken :
          /\ result' = SubSeq(sent, taken + 1, taken + k)
          /\ taken' = taken + k
    /\ UNCHANGED sent

\* Discard: unread bytes are thrown away, oldest first.
Discard ==
    /\ taken' \in taken .. Len(sent)
    /\ UNCHANGED <<sent, result>>

Next == Write \/ Read \/ Discard

Spec == Init /\ [][Next]_svars
=============================================================================
