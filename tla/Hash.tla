-------------------------------- MODULE Hash --------------------------------
(***************************************************************************)
(* The sponge of scl::details::Hash (scl/hash.h): Update absorbs a piece   *)
(* of the message, Finalize pads, and the digest is what the permutation   *)
(* makes of the absorbed blocks.                                           *)
(*                                                                         *)
(* A word is a sequence of bytes, the lowest first.  Keccakf is not        *)
(* computed: the state stands for the list of blocks that went into it     *)
(* (two different lists are taken to give different states) and the words  *)
(* XORed in since.  Where this module XORs, one side is always zero.       *)
(***************************************************************************)
EXTENDS Naturals, Sequences, SequencesExt

CONSTANTS
    WordBytes,       \* sizeof(uint64_t)
    Cutoff,          \* kCuttoff: the words of a block
    Byte,            \* the bytes messages are made of
    MaxPiece,        \* bound: the longest piece an Update is given
    MaxMessage       \* bound: the longest message

VARIABLES
    message,         \* the bytes given to Update so far
    blocks,          \* the blocks Keccakf was run on
    words,           \* mState: the words of the block being absorbed
    mSaved,          \* the bytes of an unfinished word
    digest           \* what Finalize returned, or <<>>

vars == <<message, blocks, words, mSaved, digest>>

Init ==
    /\ message = <<>>
    /\ blocks = <<>>
    /\ words = <<>>
    /\ mSaved = <<>>
    /\ digest = <<>>

\* mState[mWordIndex] ^= w, and Keccakf when the block is full.  The state is
\* <<blocks, words>>, mWordIndex the length of words.
Absorb(state, w) ==
    LET ws == Append(state[2], w)
    IN  IF Len(ws) = Cutoff THEN <<Append(state[1], ws), <<>>>> ELSE <<state[1], ws>>

\* The word t that Update makes of the eight bytes at p.
WordAt(p) == [i \in 1 .. WordBytes |-> IF i = 1 THEN p[1] ELSE p[2]]

\* Update: a piece too short to fill the saved word is only saved; otherwise
\* the saved word is filled and absorbed, then come the whole words of the
\* rest, and the tail is saved.
Update(piece) ==
    LET oldTail == (WordBytes - Len(mSaved)) % WordBytes
        rest == SubSeq(piece, oldTail + 1, Len(piece))
        nWords == Len(rest) \div WordBytes
        filled == IF oldTail = 0 THEN <<blocks, words>>
                  ELSE Absorb(<<blocks, words>>, mSaved \o SubSeq(piece, 1, oldTail))
        WordOf(k) == WordAt(SubSeq(rest, k * WordBytes + 1, (k + 1) * WordBytes))
        after == FoldLeft(LAMBDA state, k : Absorb(state, WordOf(k - 1)),
                          filled, [k \in 1 .. nWords |-> k])
    IN  /\ digest = <<>>
        /\ message' = message \o piece
        /\ IF Len(piece) < oldTail
           THEN mSaved' = mSaved \o piece /\ UNCHANGED <<blocks, words>>
           ELSE /\ blocks' = after[1]
                /\ words' = after[2]
                /\ mSaved' = SubSeq(rest, nWords * WordBytes + 1, Len(rest))
        /\ UNCHANGED digest

\* The last block: the saved bytes, 0x06 after them, zeros, and the top bit of
\* the last byte.
LastBlock(ws, saved) ==
    LET at == Len(ws) * WordBytes + Len(saved) + 1
        size == Cutoff * WordBytes
        plain == FlattenSeq(ws) \o saved
        padded == [i \in 1 .. size |-> IF i < at THEN plain[i]
                                       ELSE (IF i = at THEN 6 ELSE 0)
                                            + (IF i = size THEN 128 ELSE 0)]
    IN  [k \in 1 .. Cutoff |-> SubSeq(padded, (k - 1) * WordBytes + 1, k * WordBytes)]

Finalize ==
    /\ digest = <<>>
    /\ blocks' = Append(blocks, LastBlock(words, mSaved))
    /\ digest' = blocks'
    /\ UNCHANGED <<message, words, mSaved>>

Pieces == UNION {[1 .. n -> Byte] : n \in 0 .. MaxPiece}

Next ==
    \/ \E piece \in Pieces : Len(message) + Len(piece) <= MaxMessage /\ Update(piece)
    \/ Finalize

Spec == Init /\ [][Next]_vars

-----------------------------------------------------------------------------
(* Properties *)

\* The blocks SHA-3 makes of a message.
BlocksOf(msg) ==
    LET size == Cutoff * WordBytes
        full == Len(msg) \div size
        Block(b, k) == SubSeq(msg, b * size + (k - 1) * WordBytes + 1,
                                   b * size + k * WordBytes)
        rest == SubSeq(msg, full * size + 1, Len(msg))
        nWords == Len(rest) \div WordBytes
    IN  Append([b \in 1 .. full |-> [k \in 1 .. Cutoff |-> Block(b - 1, k)]],
               LastBlock([k \in 1 .. nWords |-> Block(full, k)],
                         SubSeq(rest, nWords * WordBytes + 1, Len(rest))))

\* The digest is the message's SHA-3 digest, however the message was cut into
\* the pieces Update was given.
DigestOfMessage == digest # <<>> => digest = BlocksOf(message)
=============================================================================
