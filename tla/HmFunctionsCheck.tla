-------------------------- MODULE HmFunctionsCheck --------------------------
(***************************************************************************)
(* hmmpc's arithmetic, matrices and functions on every input of a small    *)
(* field, against what they are meant to compute.  A behaviour is one call *)
(* of one function; called holds its arguments, result what it returns.    *)
(***************************************************************************)
EXTENDS HmFunctions, FiniteSetsExt

CONSTANTS Blinds,       \* vectors the products of many factors are blinded with
          Rowss,        \* rows a maximum is taken of
          Images        \* images of 2 features of 3 by 3

ASSUME BlindsAssumption == \A b \in Blinds : Len(b) = E /\ \A j \in 1 .. E : b[j] \in Gf
ASSUME RowsAssumption == \A v \in Rowss : \A j \in 1 .. Len(v) : v[j] \in Gf

VARIABLES called, result

vars == <<called, result>>

Bits == [1 .. E -> {0, 1}]
ShortBits == UNION {[1 .. n -> {0, 1}] : n \in 1 .. 3}
\* Windows of 2 by 2 over the images, padded by p, in steps of s.
Tasks ==
    [fn : {"arithmetic"}, a : Gf, b : Gf]
    \cup [fn : {"fixed"}, a : Gf]
    \cup [fn : {"truncate"}, x : Gf, rBits : Bits]
    \cup [fn : {"products"}, v : Blinds, b : Blinds, bPrime : Blinds]
    \cup [fn : {"functions"}, v : Bits, b : Blinds]
    \cup [fn : {"bitwise"}, a : ShortBits, b : ShortBits]
    \cup [fn : {"compare"}, x : Gf, y : Gf, b : Blinds]
    \cup [fn : {"bits"}, x : Gf, rBits : Bits, b : Blinds]
    \cup [fn : {"maximum"}, v : Rowss]
    \cup [fn : {"partition"}, rows : 0 .. 2 * E, n : 1 .. E]
    \cup [fn : {"images"}, image : Images, s : 1 .. 2, p : 0 .. 1]

None == <<>>
Init == called \in Tasks /\ result = None

Did(fn) == called.fn = fn /\ result # None
Call(fn, res) == called.fn = fn /\ result = None /\ result' = res /\ UNCHANGED called

CallArithmetic ==
    LET a == called.a
        b == called.b
    IN Call("arithmetic",
            [add |-> AddMod(a, b), sub |-> Sub(a, b), mult |-> MultMod(a, b), div |-> Div(a, b),
             mod |-> ModPrime(a * 2^(W - E) + b), pow |-> Pow(a, b),
             sqrt |-> Sqrt(MultMod(a, a)), rsqrt |-> Rsqrt(MultMod(a, a))])

CallFixedPoint ==
    Call("fixed", [trunc |-> Truncate(called.a, D), magnify |-> Magnify(called.a),
                   back |-> MapFloatToGfp(MapGfpToFloat(called.a))])

CallTruncate == Call("truncate", [shared |-> TruncateShared(called.x, called.rBits)])

CallProducts ==
    LET R == UnboundedRandoms(called.b, called.bPrime)
    IN Call("products", [prefix |-> UnboundedPrefixMult(called.v, R),
                         postfix |-> UnboundedPostfixMult(called.v, R), mult |-> UnboundedMult(called.v, R)])

\* constMatrix.h
constOrBits == FuncConsts(FuncOr(E))
constAndBits == FuncConsts(FuncAnd(E))
constXorBits == FuncConsts(FuncXor(E))

\* The functions of E bits through the number of ones among them.
CallFunctions ==
    LET R == UnboundedRandoms(called.b, called.b)
        ones == AddMod(SumOf(called.v), 1)
    IN Call("functions",
            [or |-> EvalFunc(constOrBits, ones, R), and |-> EvalFunc(constAndBits, ones, R),
             xor |-> EvalFunc(constXorBits, ones, R),
             prefixOr |-> PrefixOp("OR", called.v, R), prefixAnd |-> PrefixOp("AND", called.v, R),
             postfixOr |-> PostfixOp("OR", called.v, R), postfixAnd |-> PostfixOp("AND", called.v, R)])

\* One operand is a bundle of shared bits; the other one, or a public one.
CallBitwise ==
    Call("bitwise", [xor |-> BitwiseXor(called.a, called.b), and |-> BitwiseAnd(called.a, called.b)])

CallCompare ==
    LET R == UnboundedRandoms(called.b, called.b)
    IN Call("compare", [less |-> LessThanUnsigned(DecomposeBits(called.x, E), DecomposeBits(called.y, E), R)])

CallBits ==
    LET x == called.x
        rBits == called.rBits
        R == UnboundedRandoms(called.b, called.b)
    IN Call("bits", [lsb |-> LSB(x, rBits, R), msb |-> MSB(x, rBits, R), relu |-> ReLU(x, rBits, R),
                     reluOpt |-> ReLUOpt(x, rBits, R, called.b[1], called.b[2]),
                     reluOptTest |-> ReLUOptTest(x, rBits, R, called.b[1], called.b[2])])

CallMaximum ==
    Call("maximum", [seq |-> SeqMax(called.v), hier |-> MaxRowwise(called.v), opt |-> MaxRowwiseOpt(called.v)])

\* The rows 1, 2, ... spread over n players and put together again; where an
\* empty stream arrives the receiver keeps its zeros.
CallPartition ==
    LET v == [k \in 1 .. called.rows |-> k]
    IN Call("partition", [blocks |-> PackRows(v, called.n),
                          back |-> UnpackRows([k \in 1 .. called.rows |-> 0], PackRows(v, called.n))])

Width == 3 + 2 * called.p
Positions == (Width - 2) \div called.s + 1
CallImages ==
    LET padded == ZeroPad(<<called.image>>, 3, 3, called.p, 2)
    IN Call("images", [convol |-> ConvolExtend(padded, Width, Width, Positions, Positions, 2, called.s, 2),
                       maxpool |-> MaxpoolExtend(padded, Width, Width, Positions, Positions, 2, called.s, 2)])

Next ==
    \/ CallArithmetic \/ CallFixedPoint \/ CallTruncate \/ CallProducts \/ CallFunctions
    \/ CallBitwise \/ CallCompare \/ CallBits \/ CallMaximum \/ CallPartition \/ CallImages

Spec == Init /\ [][Next]_vars

-----------------------------------------------------------------------------
(* What the functions are meant to compute.                                *)

Signed(x) == MapGfpToInt(x)
\* Blinding factors whose products are all different from 0, which the code
\* takes for granted.
Nonzero(b) == \A j \in 1 .. E : b[j] # 0
IntProduct(v, a, b) ==
    LET prod[j \in a - 1 .. b] == IF j < a THEN 1 ELSE (prod[j - 1] * v[j]) % PR IN prod[b]

\* The masks, shifts and conditional subtractions of gfpScalar.h are arithmetic
\* modulo PR with results in the field, 0 and PR - 1 included; division undoes
\* multiplication (by 0 it gives 0), and the root of a square is the one of the
\* two below PR / 2.  There is none of 0: sqrt fails its assertion on it and on
\* no other square, while rsqrt, which asks first, returns 0.
ScalarsRight ==
    Did("arithmetic") =>
        LET a == called.a
            b == called.b
        IN /\ result.add = (a + b) % PR /\ result.sub = (a - b) % PR /\ result.mult = (a * b) % PR
           /\ result.mod = (a * 2^(W - E) + b) % PR
           /\ result.div \in Gf /\ (IF b = 0 THEN result.div = 0 ELSE (result.div * b) % PR = a)
           /\ IF a = 0 THEN result.sqrt = Asserted /\ result.rsqrt = 0
              ELSE /\ result.sqrt \in {a, PR - a} \cap (1 .. MID_PR - 1)
                   /\ (result.rsqrt * result.sqrt) % PR = 1
           /\ result.pow = IntProduct([j \in 1 .. b |-> a], 1, b)

\* The opened number is negative and truncates to 0, so that its sign, which
\* tells whether the mask overflowed, is lost; the mask is one that needed it.
SignLost(x, rBits) ==
    LET opened == Signed(AddMod(Masked(x, rBits), ConstEncode))
    IN opened < 0 /\ -opened < 2^D /\ rBits[E] = 0
\* A number the encoding makes positive.
Encodable(x) == Signed(x) \in -ConstEncode .. ConstEncode - 1

\* Truncation of a public number rounds to 0 whatever its sign, and of a shared
\* one is right up to one unit for every random mask that does not lose the
\* sign, and for the others too low by the gap ConstGapInTruncation, up to one
\* unit again (truncate, reduce_truncate); magnifying what fits and reading back
\* returns the number.
TruncationClose ==
    /\ Did("fixed") =>
           LET v == Signed(called.a)
           IN /\ Signed(result.trunc) = (IF v < 0 THEN -((-v) \div 2^D) ELSE v \div 2^D)
              /\ result.back = called.a
              /\ (v * 2^D \in -MAX_POSITIVE .. MAX_POSITIVE) => Signed(result.magnify) = v * 2^D
    /\ (Did("truncate") /\ Encodable(called.x)) =>
           LET gap == IF SignLost(called.x, called.rBits) THEN ConstGapInTruncation ELSE 0
           IN Signed(AddMod(result.shared, gap)) - (Signed(called.x) \div 2^D) \in -1 .. 1

\* Products of many factors in a constant number of rounds equal the products
\* factor by factor, whatever the blinding; one zero among the blinds turns the
\* whole batch into zeros (batch_inversion has one inversion for all).  OR, AND
\* and parity by a polynomial in the number of ones, and the prefix and postfix
\* operations of Bit.cpp, rest on them.
ProductsRight ==
    /\ Did("products") =>
           IF Nonzero(called.b) /\ Nonzero(called.bPrime)
           THEN /\ \A j \in 1 .. E : /\ result.prefix[j] = IntProduct(called.v, 1, j)
                                     /\ result.postfix[j] = IntProduct(called.v, j, E)
                /\ result.mult = IntProduct(called.v, 1, E)
           ELSE result.mult = 0 /\ \A j \in 1 .. E : result.prefix[j] = 0 /\ result.postfix[j] = 0
    /\ (Did("functions") /\ Nonzero(called.b)) =>
           LET v == called.v
               ones == Cardinality({j \in 1 .. E : v[j] = 1})
           IN /\ result.or = (IF ones = 0 THEN 0 ELSE 1)
              /\ result.and = (IF ones = E THEN 1 ELSE 0)
              /\ result.xor = ones % 2
              /\ \A j \in 1 .. E : /\ result.prefixOr[j] = (IF \E k \in 1 .. j : v[k] = 1 THEN 1 ELSE 0)
                                   /\ result.prefixAnd[j] = (IF \A k \in 1 .. j : v[k] = 1 THEN 1 ELSE 0)
                                   /\ result.postfixOr[j] = (IF \E k \in j .. E : v[k] = 1 THEN 1 ELSE 0)
                                   /\ result.postfixAnd[j] = (IF \A k \in j .. E : v[k] = 1 THEN 1 ELSE 0)

\* gfpScalar.h computes modulo PR with results in the field, and the functions
\* that multiply many factors at once agree with factor by factor.
ArithmeticRight == ScalarsRight /\ ProductsRight

\* get_LSB takes the negation of the opened value bit by bit; a value that opens
\* to 0, under a mask whose bits are not all 0, is the one place where that is
\* not PR minus it.
OpensToZero(x) == Masked(x, called.rBits) = 0 /\ \E j \in 1 .. E : called.rBits[j] = 1

\* Bit j of a, 0 where it has none.
BitOf(a, j) == IF j <= Len(a) THEN a[j] ELSE 0

\* XOR of bit vectors of unequal lengths and AND on the places both have are the
\* operations on the numbers, and comparison bit by bit is that of the numbers
\* (bitwise_xor, bitwise_and, less_than_unsigned).  The least significant bit,
\* the sign and ReLU of a shared number are right for every mask under which it
\* does not open to 0, both by the direct and by the two-layer protocol; where it
\* does, the bit is wrong, so that ReLU keeps the negative numbers and drops the
\* others (get_LSB, get_MSB, ReLU, ReLU_opt).
BitsRight ==
    /\ Did("bitwise") =>
           LET a == called.a
               b == called.b
           IN \A j \in 1 .. Len(result.xor) :
                  /\ result.xor[j] = (BitOf(a, j) + BitOf(b, j)) % 2
                  /\ (j <= Len(a) /\ j <= Len(b)) => result.and[j] = BitOf(a, j) * BitOf(b, j)
    /\ (Did("compare") /\ Nonzero(called.b)) => result.less = (IF called.x < called.y THEN 1 ELSE 0)
    /\ (Did("bits") /\ Nonzero(called.b)) =>
           LET x == called.x
               sign == IF OpensToZero(MultMod(2, x)) THEN 1 - Msb(x) ELSE Msb(x)
               relu == IF sign = 1 THEN 0 ELSE x
           IN /\ result.lsb = (IF OpensToZero(x) THEN 1 - (x % 2) ELSE x % 2)
              /\ result.msb = sign /\ result.relu = relu
              /\ result.reluOpt = relu /\ result.reluOptTest = relu

\* The optimised tree leaves the index columns of a row of n exactly when cutting
\* the row into blocks of 2^d columns, at most n, leaves more than half a block:
\* 7, 11, 13, 14, 15, 23, ...
LeavesColumns(n) == \E d \in 1 .. n : 2^d <= n /\ n % 2^d > 2^(d - 1)


\* The pixel of feature d at (j, k) of the padded image.
Pixel(d, j, k) ==
    IF j - called.p \in 0 .. 2 /\ k - called.p \in 0 .. 2
    THEN called.image[d * 9 + (j - called.p) * 3 + (k - called.p) + 1] ELSE 0
\* pack_rows and unpack_rows lose and repeat nothing, also when there are fewer
\* rows than players; convolExtend and maxpoolExtend list, window after window,
\* the pixels under the window (a convolution as a product of matrices rests on
\* this order).
LayoutRight ==
    /\ Did("partition") =>
           LET v == [k \in 1 .. called.rows |-> k] IN result.back = v /\ FlattenSeq(result.blocks) = v
    /\ Did("images") =>
           LET o == Positions
           IN \A j, k \in 0 .. o - 1, d \in 0 .. 1, y, x \in 0 .. 1 :
                  LET pixel == Pixel(d, j * called.s + y, k * called.s + x)
                  IN /\ result.convol[j * o + k + 1][d * 4 + y * 2 + x + 1] = pixel
                     /\ result.maxpool[d * o * o + j * o + k + 1][y * 2 + x + 1] = pixel
=============================================================================
