-------------------------- MODULE GeneratorsCheck ---------------------------
(***************************************************************************)
(* The generators of packed-ss-template and the library's PRG, called in   *)
(* any order: requests of bytes of any size, words of three sizes, new     *)
(* keys, moves and resets, freely mixed.  A history keeps every byte that  *)
(* was handed out and how it was asked for.                                *)
(***************************************************************************)
EXTENDS Generators

CONSTANTS CachedSizes, \* blocks a generator of one's own encrypts in advance
          Keys,        \* keys
          MaxRequests  \* bound: calls made of the generators

VARIABLES
    aes,             \* the PrgFromOpenSSLAES under test
    own,             \* its cachedSize and isStrict
    sc, rc4, scl,    \* the others, which get the same requests of bytes
    given,           \* history: what each has handed out; since Reset for scl
    starts,          \* history: the first counter of aes after each setKey
    steps            \* calls made

vars == <<aes, own, sc, rc4, scl, given, starts, steps>>

\* One generator of one's own, strict or not, or the singleton everybody shares.
Init ==
    /\ \E key \in Keys, size \in CachedSizes, isStrict \in BOOLEAN :
           /\ \/ aes = setKey(New(size, isStrict), key)
              \/ ~isStrict /\ aes = getInstance(None, key)
           /\ own = [cached |-> aes.cachedSize * BLOCK_SIZE, isStrict |-> isStrict]
           /\ sc = ScSetKey(key) /\ rc4 = Rc4SetKey(key) /\ scl = SclNew(key)
    /\ given = [aes |-> <<>>, sc |-> <<>>, rc4 |-> <<>>, scl |-> <<>>]
    /\ starts = <<0>>
    /\ steps = 0

\* What threw is not used any more.
Asked == aes # Threw /\ steps < MaxRequests /\ steps' = steps + 1
Others == <<sc, rc4, scl>>

\* Sizes: nothing, parts of a word, all that is cached, one byte more.
Requests == {0, 1, 3, own.cached, own.cached + 1} \cap 0 .. 4 * BLOCK_SIZE
\* The bytes [from, from + n) of an output vector.
Part(out, from, n) == SubSeq(out, from + 1, from + n)
\* The history of a request: how it was asked for, after which setKey, from which
\* blocks.
Entries(prg, by, cells) ==
    [i \in 1 .. Len(cells) |-> [cell |-> cells[i], by |-> by, nth |-> i, epoch |-> Len(starts), chunk |-> prg.chunk.first]]

\* getPRGBytes, into a vector from an offset on or by pointer.
Bytes ==
    /\ Asked
    /\ \E n \in Requests, offset \in 0 .. 1, pointer \in BOOLEAN :
           LET r == IF pointer THEN getPRGBytesPtr(aes, n) ELSE getPRGBytes(aes, [i \in 1 .. n |-> <<>>], offset, n)
               empty == [i \in 1 .. offset + n |-> <<>>]
               s == ScGetPRGBytes(sc, empty, offset, n)
               c == Rc4GetPRGBytes(rc4, empty, n)
               l == SclNextInto(scl, n, n)
           IN /\ aes' = r.prg /\ sc' = s.prg /\ rc4' = c.prg /\ scl' = l.prg
              /\ given' = [aes |-> IF r.prg = Threw THEN given.aes
                                   ELSE given.aes \o Entries(r.prg, "bytes", IF pointer THEN r.out ELSE Part(r.out, offset, n)),
                           sc |-> given.sc \o Part(s.out, offset, n),
                           rc4 |-> given.rc4 \o Part(c.out, 0, n), scl |-> given.scl \o l.out]
    /\ UNCHANGED <<own, starts>>

\* getRandom32, 64 and 128.  The request is aligned if the position it counts
\* from is a multiple of the word.
Words ==
    /\ Asked
    /\ \E w \in {BLOCK_SIZE \div 4, BLOCK_SIZE \div 2, BLOCK_SIZE} :
           LET r == CASE w = BLOCK_SIZE \div 4 -> getRandom32(aes) [] w = BLOCK_SIZE \div 2 -> getRandom64(aes)
                      [] w = BLOCK_SIZE -> getRandom128(aes)
           IN /\ aes' = r.prg
              /\ given' = IF r.prg = Threw THEN given
                          ELSE [given EXCEPT !.aes = @ \o Entries(r.prg, IF (r.prg.idxForBytes - w) % w = 0 THEN "word" ELSE "unaligned", r.out)]
    /\ UNCHANGED <<Others, own, starts>>

\* getPRGBytesEX hands out a pointer to the start of the cache.
Start ==
    /\ Asked
    /\ \E n \in Requests :
           LET r == getPRGBytesEX(aes, n)
           IN /\ aes' = r.prg
              /\ given' = IF r.prg = Threw THEN given ELSE [given EXCEPT !.aes = @ \o Entries(r.prg, "start", r.out)]
    /\ UNCHANGED <<Others, own, starts>>

SetKey ==
    /\ Asked
    /\ \E key \in Keys : aes' = setKey(aes, key)
    /\ starts' = IF aes' = Threw THEN starts ELSE Append(starts, aes'.startingIndex)
    /\ UNCHANGED <<Others, own, given>>

Move ==
    /\ Asked
    /\ aes' \in {MoveAssign(aes).this, MoveConstruct(aes).this}
    /\ UNCHANGED <<Others, own, given, starts>>

Reset ==
    /\ Asked
    /\ scl' = SclReset(scl)
    /\ given' = [given EXCEPT !.scl = <<>>]
    /\ UNCHANGED <<aes, sc, rc4, own, starts>>

Next == Bytes \/ Words \/ Start \/ SetKey \/ Move \/ Reset

Spec == Init /\ [][Next]_vars

-----------------------------------------------------------------------------
(* Properties *)

Once(cells) == \A i, j \in 1 .. Len(cells) : i # j => cells[i] # cells[j]
\* Byte j of the history is byte i of it again.
Again(i, j) == given.aes[i].cell = given.aes[j].cell /\ given.aes[i].cell # Outside

\* The next byte the generator takes is one it handed out.
RepeatsNext == AtIndex(aes, aes.idxForBytes, 1)[1] \in {given.aes[i].cell : i \in 1 .. Len(given.aes)}

\* Which bytes of a key stream are handed out twice, whatever calls are mixed.
\* The comments promise that none is ("This bytes are set to used and will not
\* be used again", Prg.hpp:232 and :249), and that a new key starts from 0, so
\* that equal keys give equal bytes (Prg.cpp:292, Prg.hpp:171).  The code is
\* different in these places and no other.
\* Under one setKey a byte comes again only after a word that was asked for at a
\* position that is no multiple of it, which reads past what it counts as used,
\* so that what is taken next is always such a byte; or from getPRGBytesEX, which
\* always reads the start of the cache.  A setKey never goes back to blocks
\* before those cached last: with a key of before it repeats bytes of these, and
\* none of those that were used up earlier.  A request no larger than the cache
\* stays inside it, a larger one leaves it by the difference, and a strict
\* generator hands out no more than its cache.  The other generators hand out
\* every byte once.
FreshBytes ==
    /\ \A j \in 1 .. Len(given.aes) : \A i \in 1 .. j - 1 :
           LET before == given.aes[i]
               now == given.aes[j]
           IN /\ Again(i, j) => IF before.epoch = now.epoch THEN before.by = "unaligned" \/ now.by = "start"
                                ELSE before.chunk >= starts[now.epoch]
              /\ before.epoch < now.epoch => before.chunk <= starts[now.epoch]
    /\ (aes # Threw /\ given.aes # <<>>) =>
           LET last == given.aes[Len(given.aes)]
           IN (last.by = "unaligned" /\ last.epoch = Len(starts)) => RepeatsNext
    /\ \A i \in 1 .. Len(given.aes) :
           LET e == given.aes[i]
           IN /\ e.cell = Outside <=> e.nth > own.cached
              /\ (e.by = "bytes" /\ \A k \in 1 .. i - 1 : given.aes[k].epoch # e.epoch) => e.cell[2] = starts[e.epoch]
    /\ own.isStrict => Len(given.aes) <= own.cached
    /\ Once(given.sc) /\ Once(given.scl) /\ Once(given.rc4)
    /\ \A i \in 1 .. Len(given.sc) : given.sc[i] # <<>>
=============================================================================
