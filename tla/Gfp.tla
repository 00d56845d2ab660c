-------------------------------- MODULE Gfp --------------------------------
(***************************************************************************)
(* hmmpc's field of integers modulo a Mersenne prime PR = 2^E - 1          *)
(* (Math/gfpScalar.h), on machine words of W bits, and its fixed point     *)
(* numbers with D fraction bits.  E = 31, W = 32, D = 12 in the build; the *)
(* bit tricks (masks, shifts, exclusive or with PR) work for any E < W, so *)
(* they are kept and the widths are parameters.                            *)
(***************************************************************************)
EXTENDS Integers

CONSTANTS E,         \* MERSENNE_PRIME_EXP
          W,         \* bits of TYPE
          D          \* FIXED_PRECISION

ASSUME WidthAssumption == E \in Nat /\ W \in Nat /\ D \in Nat /\ 2 < E /\ E < W /\ D < E - 1

PR == 2^E - 1
Gf == 0 .. PR - 1
Words == 0 .. 2^W - 1
MID_PR == (PR - 1) \div 2 + 1
MAX_POSITIVE == PR \div 2
ConstGapInTruncation == 2^(E - D) - 1
ConstEncode == 2^(E - 2)
ConstDecode == 2^(E - 2 - D)

\* x & PR, x >> E and x << k on words, and PR ^ x.
Low(x) == x % 2^E
High(x) == x \div 2^E
ShiftLeft(x, k) == (x * 2^k) % 2^W
ShiftRight(x, k) == x \div 2^k
XorPR(x) == 2^E * High(x) + (PR - Low(x))

AddMod(a, b) == LET ret == (a + b) % 2^W IN IF ret >= PR THEN ret - PR ELSE ret

\* e is the low word of the product, c the high one; their bits above E do
\* not overlap, so the code's exclusive or adds them.
MultMod(a, b) ==
    LET e   == (a * b) % 2^W
        c   == (a * b) \div 2^W
        ret == (Low(e) + High(e) + ShiftLeft(c, W - E)) % 2^W
    IN IF ret >= PR THEN ret - PR ELSE ret

ModPrime(x) == LET i == Low(x) + High(x) IN IF i >= PR THEN i - PR ELSE i

AdditiveInverse(x) == IF x = 0 THEN 0 ELSE XorPR(x)

Sub(a, b) == AddMod(a, AdditiveInverse(b))

\* extend_gcd(a, b, x, y): the pair <<x, y>>, reduced modulo PR on the way.
ExtendGcd[a \in 0 .. PR, b \in 0 .. PR] ==
    IF b = 0 THEN <<1, 0>>
    ELSE LET r == ExtendGcd[b, a % b]
         IN <<r[2], AddMod(r[1], AdditiveInverse(MultMod(a \div b, r[2])))>>

\* The inverse of 0 is 0.
InverseTable == [x \in Gf |-> ExtendGcd[PR, x][2]]
MultiplicativeInverse(x) == InverseTable[x]

Div(a, b) == MultMod(a, MultiplicativeInverse(b))

\* gfpScalar::pow, by squaring.
Pow(x, exp) ==
    LET pow[e \in 0 .. exp, v \in Gf] ==
            IF e = 0 THEN 1
            ELSE MultMod(IF e % 2 = 1 THEN v ELSE 1, pow[e \div 2, MultMod(v, v)])
    IN pow[exp, x]

\* assert(value > 0) ended the program; no number of the field.
Asserted == -1

\* The root in 1 .. (PR-1)/2, of a square other than 0; PR is 3 modulo 4.
Sqrt(x) ==
    LET res == Pow(x, (PR + 1) \div 4)
    IN IF x = 0 THEN Asserted
       ELSE IF res >= 1 /\ res < MID_PR THEN res ELSE AdditiveInverse(res)

\* rsqrt tests for 0 before it calls sqrt.
Rsqrt(x) == IF x = 0 THEN 0 ELSE MultiplicativeInverse(Sqrt(x))

-----------------------------------------------------------------------------
(* Signed and fixed point numbers: values above MAX_POSITIVE are negative. *)

IsNegative(x) == x > MAX_POSITIVE
Msb(x) == IF IsNegative(x) THEN 1 ELSE 0

Truncate(x, d) ==
    IF IsNegative(x) THEN AdditiveInverse(ShiftRight(AdditiveInverse(x), d)) ELSE ShiftRight(x, d)

\* No reduction: a number of too large a magnitude leaves the field.
Magnify(x) ==
    IF IsNegative(x) THEN AdditiveInverse(ShiftLeft(AdditiveInverse(x), D)) ELSE ShiftLeft(x, D)

MapIntToGfp(x) == IF x < 0 THEN x + PR ELSE x
MapGfpToInt(x) == IF x > MAX_POSITIVE THEN x - PR ELSE x
\* map_float_to_gfp for a number of quarters of the last fraction bit, and back
\* to the last fraction bit.
MapFloatToGfp(quarters) == MapIntToGfp(quarters \div 4)
MapGfpToFloat(x) == 4 * MapGfpToInt(x)
=============================================================================
