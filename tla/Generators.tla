----------------------------- MODULE Generators -----------------------------
(***************************************************************************)
(* The pseudorandom generators: PrgFromOpenSSLAES, ScPrgFromPrf and        *)
(* OpenSSLRC4 of packed-ss-template, which its fields draw from, and the   *)
(* library's PRG.  A generator is a record, a call an operator from it to  *)
(* the generator after the call and the bytes handed out.  Encryption is a *)
(* one-to-one function: byte i of the encryption of block b under a key is *)
(* the cell <<key, b, i>>, and equal bytes are equal cells.                *)
(***************************************************************************)
EXTENDS Integers, Sequences

CONSTANTS BLOCK_SIZE,   \* bytes of a block: 16 in the code; a multiple of 4
          Base          \* values of a byte: 256 in the code

None == [none |-> TRUE]
\* A call that throws leaves Threw as the generator.
Threw == [threw |-> TRUE]
Refusal == [prg |-> Threw, out |-> <<>>]

\* What a read past the end of the cache yields: memory that is not the cache's.
Outside == <<0>>

\* Length bytes of the encrypted counters, from position pos of block first.
Cells(key, first, pos, length) ==
    [i \in 1 .. length |-> <<key, first + (pos + i - 1) \div BLOCK_SIZE, (pos + i - 1) % BLOCK_SIZE>>]

\* copy_byte_array_to_byte_vector: overwrites from begin, growing the target.
CopyInto(target, begin, src) ==
    LET size == IF begin + Len(src) > Len(target) THEN begin + Len(src) ELSE Len(target)
    IN [i \in 1 .. size |-> IF i \in begin + 1 .. begin + Len(src) THEN src[i - begin]
                            ELSE IF i <= Len(target) THEN target[i] ELSE <<>>]
InsertAt(target, begin, src) == SubSeq(target, 1, begin) \o src \o SubSeq(target, begin + 1, Len(target))

-----------------------------------------------------------------------------
(* PrgFromOpenSSLAES: cachedSize blocks are encrypted in advance; chunk has *)
(* the key and the first counter of the blocks encrypted last.             *)

New(cachedSize, isStrict) ==
    [cachedSize |-> cachedSize, isStrict |-> isStrict, isKeySet |-> FALSE, aes |-> None,
     idxForBytes |-> 0, startingIndex |-> 0, indexPlaintext |-> 0, chunk |-> None]

Encrypted(prg) == [key |-> prg.aes, first |-> prg.indexPlaintext]

\* Mutant: a block that is used up in part counts as unused.
startingIndexRoundedDown(prg) == prg.startingIndex + prg.idxForBytes \div BLOCK_SIZE
startingIndex(prg) == prg.startingIndex + (prg.idxForBytes + BLOCK_SIZE - 1) \div BLOCK_SIZE
prepare(prg) ==
    IF prg.isStrict THEN Threw
    ELSE LET moved == [prg EXCEPT !.startingIndex = startingIndex(prg), !.indexPlaintext = startingIndex(prg), !.idxForBytes = 0]
         IN [moved EXCEPT !.chunk = Encrypted(moved)]

\* A generator that has a key goes on with the counters it has reached.
FirstKey(prg, key) == LET keyed == [prg EXCEPT !.aes = key, !.isKeySet = TRUE] IN [keyed EXCEPT !.chunk = Encrypted(keyed)]
setKey(prg, key) ==
    IF ~prg.isKeySet THEN FirstKey(prg, key) ELSE prepare([prg EXCEPT !.aes = key, !.idxForBytes = 0])

\* PrgSingleton: one generator for all callers, with a key of its own.
getInstance(prg, key) == IF prg = None THEN setKey(New(12800, FALSE), key) ELSE prg

\* Moving: construction takes the cipher away from the old object, assignment
\* leaves it there too.
MoveConstruct(old) == [this |-> old, old |-> [old EXCEPT !.chunk = None, !.indexPlaintext = None, !.aes = None]]
MoveAssign(other) == [this |-> other, old |-> [other EXCEPT !.chunk = None, !.indexPlaintext = None]]

\* The generator a request of outLen bytes is served from.
Ready(prg, outLen) == IF outLen + prg.idxForBytes > prg.cachedSize * BLOCK_SIZE THEN prepare(prg) ELSE prg
\* Requests of whole words refill one word early.
ReadyWord(prg, w) == IF prg.idxForBytes + w >= prg.cachedSize * BLOCK_SIZE THEN prepare(prg) ELSE prg

Refuses(prg, ready) == ~prg.isKeySet \/ ready = Threw
Take(prg, n) == [prg EXCEPT !.idxForBytes = @ + n]
\* n bytes of the cache from position pos, which no bound is checked for.
AtIndex(prg, pos, n) ==
    LET cells == Cells(prg.chunk.key, prg.chunk.first, pos, n)
    IN [i \in 1 .. n |-> IF pos + i <= prg.cachedSize * BLOCK_SIZE THEN cells[i] ELSE Outside]

getPRGBytes(prg, outBytes, outOffset, outLen) ==
    LET r == Ready(prg, outLen)
    IN IF Refuses(prg, r) THEN Refusal
       ELSE [prg |-> Take(r, outLen), out |-> CopyInto(outBytes, outOffset, AtIndex(r, r.idxForBytes, outLen))]
\* The pointer handed out points into the cache.
getPRGBytesPtr(prg, outLen) ==
    LET r == Ready(prg, outLen)
    IN IF Refuses(prg, r) THEN Refusal
       ELSE [prg |-> Take(r, outLen), out |-> AtIndex(r, r.idxForBytes, outLen)]
\* Always the start of the cache.
getPRGBytesEX(prg, outLen) ==
    LET r == Ready(prg, outLen)
    IN IF Refuses(prg, r) THEN Refusal
       ELSE [prg |-> Take(r, outLen), out |-> AtIndex(r, 0, outLen)]

\* A word of w bytes: the position is rounded up to whole words for reading
\* and not for counting.
WordAt(idx, w) == (idx + w - 1) \div w
getRandom(prg, w) ==
    LET r == ReadyWord(prg, w)
    IN IF Refuses(prg, r) THEN Refusal
       ELSE [prg |-> Take(r, w), out |-> AtIndex(r, w * WordAt(r.idxForBytes, w), w)]
getRandom32(prg) == getRandom(prg, BLOCK_SIZE \div 4)
getRandom64(prg) == getRandom(prg, BLOCK_SIZE \div 2)
getRandom128(prg) == getRandom(prg, BLOCK_SIZE)

-----------------------------------------------------------------------------
(* ScPrgFromPrf over a permutation of fixed size.  ctr is a number in Base, *)
(* the most significant digit first.                                       *)

ScSetKey(key) == [isKeySet |-> TRUE, key |-> key, ctr |-> [i \in 1 .. BLOCK_SIZE |-> IF i = BLOCK_SIZE THEN 1 ELSE 0]]

\* The digits change from the last one that is not full.
increaseCtr(ctr) ==
    LET stays == {i \in 1 .. Len(ctr) : ctr[i] # Base - 1}
        last == IF stays = {} THEN 0 ELSE CHOOSE i \in stays : \A j \in stays : j <= i
    IN [i \in 1 .. Len(ctr) |-> IF i < last THEN ctr[i] ELSE IF i = last THEN ctr[i] + 1 ELSE 0]

\* computeBlock of a PRF of fixed size with both lengths, and with the input's.
ComputesBlock(size, outOff, inLen, outLen) == outOff + outLen <= size /\ inLen = outLen /\ inLen = BLOCK_SIZE
ComputesFixed(size, outOff, inLen) == outOff + BLOCK_SIZE <= size /\ inLen = BLOCK_SIZE
Evaluated(sc) == [i \in 1 .. BLOCK_SIZE |-> <<sc.key, sc.ctr, i - 1>>]

\* One block that has room is written in place; otherwise blocks are inserted,
\* the last one in part, and push what the vector holds to its end.
RECURSIVE Inserted(_, _, _, _, _)
Inserted(sc, outBytes, outOffset, outLen, done) ==
    IF done >= outLen \/ ~ComputesFixed(BLOCK_SIZE, 0, Len(sc.ctr)) THEN [prg |-> sc, out |-> outBytes]
    ELSE LET part == SubSeq(Evaluated(sc), 1, IF done + BLOCK_SIZE <= outLen THEN BLOCK_SIZE ELSE outLen - done)
         IN Inserted([sc EXCEPT !.ctr = increaseCtr(@)], InsertAt(outBytes, outOffset + done, part), outOffset, outLen, done + BLOCK_SIZE)
ScGetPRGBytes(sc, outBytes, outOffset, outLen) ==
    IF ~sc.isKeySet THEN Refusal
    ELSE IF outLen > 0 /\ ComputesBlock(Len(outBytes), outOffset, Len(sc.ctr), outLen)
         THEN [prg |-> [sc EXCEPT !.ctr = increaseCtr(@)], out |-> CopyInto(outBytes, outOffset, Evaluated(sc))]
         ELSE Inserted(sc, outBytes, outOffset, outLen, 0)

-----------------------------------------------------------------------------
(* OpenSSLRC4: a stream, of which setKey drops the first 128 bytes; the     *)
(* offset into the output is not used.                                     *)

Rc4GetPRGBytes(rc4, outBytes, outLen) ==
    IF ~rc4.isKeySet THEN Refusal
    ELSE [prg |-> [rc4 EXCEPT !.pos = @ + outLen], out |-> CopyInto(outBytes, 0, Cells(rc4.key, 0, rc4.pos, outLen))]
Rc4SetKey(key) == Rc4GetPRGBytes([isKeySet |-> TRUE, key |-> key, pos |-> 0], <<>>, 128).prg

-----------------------------------------------------------------------------
(* PRG of the library: whole blocks per call, the rest of the last thrown   *)
(* away.                                                                   *)

SclNew(seed) == [mSeed |-> seed, mCounter |-> 0]
SclReset(prg) == [prg EXCEPT !.mCounter = 0]
SclBlocks(nbytes) == nbytes \div BLOCK_SIZE + IF nbytes % BLOCK_SIZE # 0 THEN 1 ELSE 0
SclNext(prg, nbytes) ==
    [prg |-> [prg EXCEPT !.mCounter = @ + SclBlocks(nbytes)], out |-> Cells(prg.mSeed, prg.mCounter, 0, nbytes)]
\* Into a vector.
SclNextInto(prg, size, nbytes) == IF size < nbytes THEN Refusal ELSE SclNext(prg, nbytes)
=============================================================================
