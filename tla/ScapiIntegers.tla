--------------------------- MODULE ScapiIntegers ----------------------------
(***************************************************************************)
(* Common.cpp and TemplateField<ZZ_p> of packed-ss-template: integers as   *)
(* bytes in two's complement, random integers in a range, field elements   *)
(* as bytes.  Bytes come least significant first.                          *)
(***************************************************************************)
EXTENDS Integers, Sequences

CONSTANTS Base       \* values of a byte: 256 in the code; even

Digit(v, i) == (v \div Base^i) % Base
Complement(v) == -v - 1

RECURSIVE find_log2_floor(_)
find_log2_floor(bi) == IF bi <= 1 THEN 0 ELSE 1 + find_log2_floor(bi \div 2)
NumberOfBits(bi) == find_log2_floor(IF bi > 0 THEN bi ELSE -bi) + 1

\* The bytes of v >= 0 without leading zeros, at least one.
RECURSIVE Length(_)
Length(v) == IF v < Base THEN 1 ELSE 1 + Length(v \div Base)
\* Mutant: the byte for the sign is forgotten.
bytesCountUnsigned(raw_value) == IF raw_value < 0 THEN Length(Complement(raw_value)) ELSE Length(raw_value)
bytesCount(raw_value) ==
    LET value == IF raw_value < 0 THEN Complement(raw_value) ELSE raw_value
        length == Length(value)
    IN IF raw_value = 0 THEN 1 ELSE IF Digit(value, length - 1) >= Base \div 2 THEN length + 1 ELSE length

\* Zero writes one byte; the others stay as they are (old).
encodeBigInteger(value, old) ==
    [i \in 1 .. Len(old) |-> IF value > 0 THEN Digit(value, i - 1)
                             ELSE IF value < 0 THEN Base - 1 - Digit(Complement(value), i - 1)
                             ELSE IF i = 1 THEN 0 ELSE old[i]]
RECURSIVE Unsigned(_)
Unsigned(input) == IF input = <<>> THEN 0 ELSE input[1] + Base * Unsigned(Tail(input))
decodeBigInteger(input) ==
    IF input[Len(input)] >= Base \div 2 THEN Unsigned(input) - Base^Len(input) ELSE Unsigned(input)

Abs(v) == IF v < 0 THEN -v ELSE v
getRandomInRange(min, max, out) == (Abs(decodeBigInteger(out)) % (max + 1 - min)) + min
fastGetRandomInRange(max, out) == (Unsigned(out) % max) + 1

\* explode: the parts of s between the separators c, empty ones left out.
RECURSIVE Exploded(_, _, _)
Exploded(s, c, buff) ==
    IF s = <<>> THEN (IF buff = <<>> THEN <<>> ELSE <<buff>>)
    ELSE IF s[1] # c THEN Exploded(Tail(s), c, Append(buff, s[1]))
    ELSE (IF buff = <<>> THEN <<>> ELSE <<buff>>) \o Exploded(Tail(s), c, <<>>)
explode(s, c) == Exploded(s, c, <<>>)

-----------------------------------------------------------------------------
(* TemplateField<ZZ_p>: fieldParam is the prime.                           *)

elementSizeInBytes(fieldParam) == Length(fieldParam)
GetElement(b, fieldParam) == b % fieldParam
elementToBytes(element, fieldParam) == [i \in 1 .. elementSizeInBytes(fieldParam) |-> Digit(element, i - 1)]
bytesToElement(bytes, fieldParam) == Unsigned(bytes) % fieldParam

\* Half a long word serves elements of up to four bytes, the top of a whole one
\* the others; wordBytes is the size of a long word, 8 in the code.
Random(random32, random64, wordBytes, fieldParam) ==
    LET size == elementSizeInBytes(fieldParam)
    IN GetElement(IF size <= wordBytes \div 2 THEN random32 ELSE random64 \div Base^(wordBytes - size), fieldParam)
=============================================================================
