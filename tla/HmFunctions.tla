---------------------------- MODULE HmFunctions ----------------------------
(***************************************************************************)
(* hmmpc's functions on shared numbers: products of many factors, bits,    *)
(* comparisons, truncation and maxima (ShareBundle.cpp, Bit.cpp,           *)
(* BeaverTriper.h).  They are built from products with a reduction of the  *)
(* degree, openings and randoms, which HmProtocol shows to do on shares    *)
(* what HmIdeal does on the values; so they are written here on the values *)
(* of one row, with the randomness they consume as a parameter.            *)
(***************************************************************************)
EXTENDS HmMatrix, SequencesExt

Neg(v) == Seqn(Len(v), LAMBDA j : Sub(1, v[j]))
Times(u, v) == Seqn(Len(u), LAMBDA j : MultMod(u[j], v[j]))
SumOf(v) == Dot(v, [j \in 1 .. Len(v) |-> 1])

-----------------------------------------------------------------------------
(* Products of many factors.                                               *)

\* generate_unbounded_random_sharings: the pairs (b_j, b_{j-1} / b_j).  A zero
\* among the opened products makes every inverse 0.
UnboundedRandoms(b, bPrime) ==
    LET inv == BatchInversion(Times(b, bPrime))
    IN [shares |-> b,
        aux |-> Seqn(Len(b), LAMBDA j : MultMod(inv[j], IF j = 1 THEN bPrime[1] ELSE MultMod(b[j - 1], bPrime[j])))]

UnboundedPrefixMult(v, R) == Times(PrefixMult(Times(v, R.aux)), R.shares)
UnboundedPostfixMult(v, R) == Reverse(UnboundedPrefixMult(Reverse(v), R))
UnboundedMult(v, R) == MultMod(R.shares[Len(v)], Last(PrefixMult(Times(v, R.aux))))

\* The coefficients of the polynomial with the values f[1], f[2], ... at 1, 2, ...
\* which are what the tables of constMatrix.h list.
TimesLinear(p, a) ==
    [i \in 1 .. Len(p) + 1 |-> Sub(IF i = 1 THEN 0 ELSE p[i - 1], IF i > Len(p) THEN 0 ELSE MultMod(a, p[i]))]
FuncConsts(f) ==
    LET Basis(i) == LET st[k \in 0 .. Len(f)] ==
                            IF k = 0 THEN <<1>> ELSE IF k = i THEN st[k - 1]
                            ELSE [c \in 1 .. Len(st[k - 1]) + 1 |-> Div(TimesLinear(st[k - 1], k)[c], Sub(i, k))]
                    IN st[Len(f)]
        basis == [i \in 1 .. Len(f) |-> Basis(i)]
    IN [c \in 1 .. Len(f) |-> Dot(f, [i \in 1 .. Len(f) |-> basis[i][c]])]
FuncOr(n) == [i \in 1 .. n + 1 |-> IF i = 1 THEN 0 ELSE 1]
FuncAnd(n) == [i \in 1 .. n + 1 |-> IF i = n + 1 THEN 1 ELSE 0]
FuncXor(n) == [i \in 1 .. n + 1 |-> (i + 1) % 2]

\* evalFunc: the powers of x by one product of many factors, 1 put before them,
\* times the coefficients.
EvalFunc(coeffs, x, R) ==
    Dot(<<1>> \o UnboundedPrefixMult([j \in 1 .. Len(coeffs) - 1 |-> x], R), coeffs)

-----------------------------------------------------------------------------
(* Bits, least significant first.                                          *)

Xor(a, b) == Sub(AddMod(a, b), MultMod(2, MultMod(a, b)))
\* bitwise_xor: the longer one's high bits are taken over.
BitwiseXor(a, b) ==
    Seqn(IF Len(a) <= Len(b) THEN Len(b) ELSE Len(a), LAMBDA j :
        IF j > Len(a) THEN b[j] ELSE IF j > Len(b) THEN a[j] ELSE Xor(a[j], b[j]))
\* bitwise_and: so are they here, although a missing bit is 0.
BitwiseAnd(a, b) ==
    [j \in 1 .. (IF Len(a) <= Len(b) THEN Len(b) ELSE Len(a)) |->
        IF j > Len(a) THEN b[j] ELSE IF j > Len(b) THEN a[j] ELSE MultMod(a[j], b[j])]

PrefixOp(fn, v, R) == IF fn = "AND" THEN UnboundedPrefixMult(v, R) ELSE Neg(UnboundedPrefixMult(Neg(v), R))
PostfixOp(fn, v, R) == IF fn = "AND" THEN UnboundedPostfixMult(v, R) ELSE Neg(UnboundedPostfixMult(Neg(v), R))

\* less_than_unsigned: the bit of b at the highest place where they differ.
\* Mutant: the lowest place is taken.
LessThanUnsignedLow(a, b, R) ==
    LET or == PrefixOp("OR", BitwiseXor(a, b), R)
        delta == [i \in 1 .. Len(or) |-> IF i = 1 THEN or[i] ELSE Sub(or[i], or[i - 1])]
    IN Dot(b, delta)
LessThanUnsigned(a, b, R) ==
    LET or == PostfixOp("OR", BitwiseXor(a, b), R)
        delta == [i \in 1 .. Len(or) |-> IF i = Len(or) THEN or[i] ELSE Sub(or[i], or[i + 1])]
    IN Dot(b, delta)

IfElse(cond, a, b) == AddMod(MultMod(cond, a), MultMod(Sub(1, cond), b))

Masked(x, rBits) == AddMod(x, Solved(rBits))

\* get_LSB up to its last product: the bit of the mask, and whether adding the
\* mask went past PR, as LT(PR - r, PR - masked).  But the negation of an opened
\* 0 is 0, not PR.
LSBParts(x, rBits, R) ==
    LET mask == Masked(x, rBits)
    IN [lsb  |-> Xor(rBits[1], mask % 2),
        wrap |-> LessThanUnsigned(Neg(rBits), DecomposeBits(AdditiveInverse(mask), E), R)]
LSB(x, rBits, R) == LET parts == LSBParts(x, rBits, R) IN Xor(parts.lsb, parts.wrap)
LSBImpared(x, rBits, R) == LET parts == LSBParts(x, rBits, R) IN Sub(parts.lsb, parts.wrap)

MSB(x, rBits, R) == LSB(MultMod(2, x), rBits, R)
DeltaReLU(x, rBits, R) == Sub(1, MSB(x, rBits, R))
ReLU(x, rBits, R) == MultMod(x, DeltaReLU(x, rBits, R))

-----------------------------------------------------------------------------
(* Two layers of products in one round: x, a product, is opened under a    *)
(* mask while the triple for x * y is made with the same mask.             *)

\* BeaverTriple: x = u - a, y = v - b, c = a * b.
XTimes(t, i) == [t EXCEPT !.u = MultMod(i, @), !.a = MultMod(i, @), !.c = MultMod(i, @)]
XPlus(t, j) == [t EXCEPT !.u = AddMod(@, j)]
YTimes(t, k) == [t EXCEPT !.v = MultMod(k, @), !.b = MultMod(k, @), !.c = MultMod(k, @)]
YPlus(t, w) == [t EXCEPT !.v = AddMod(@, w)]
TripleMult(t) ==
    AddMod(Sub(Sub(MultMod(t.u, t.v), MultMod(t.u, t.b)), MultMod(t.v, t.a)), t.c)
OneMinusX(t) == XPlus(XTimes(t, PR - 1), 1)

\* reduce_degree_1stLayer: rX masks x, rY the product.
FirstLayer(x, y, rX, rY) ==
    LET u == AddMod(x, rX)
        opened == AddMod(MultMod(rX, AdditiveInverse(y)), rY)
    IN [x |-> Sub(u, rX),
        triple |-> [a |-> rX, b |-> AdditiveInverse(y), c |-> Sub(opened, rY), u |-> u, v |-> 0]]

\* deltaReLU_opt for one y: the bit, and the triple of (bit, y).
DeltaReLUOpt(x, y, rBits, R, rX, rY) ==
    LET diff == LSBImpared(MultMod(2, x), rBits, R)
        layer == FirstLayer(MultMod(diff, diff), y, rX, rY)
    IN [cond |-> Sub(1, layer.x), triple |-> OneMinusX(layer.triple)]
ReLUOpt(x, rBits, R, rX, rY) == TripleMult(DeltaReLUOpt(x, x, rBits, R, rX, rY).triple)
\* ReLU_opt_test: the same with the layers in one function.
ReLUOptTest(x, rBits, R, rX, rY) ==
    LET diff == LSBImpared(MultMod(2, x), rBits, R)
    IN TripleMult(OneMinusX(FirstLayer(MultMod(diff, diff), x, rX, rY).triple))

-----------------------------------------------------------------------------
(* Truncation by d bits, with E random bits.                               *)

\* truncate() and reduce_truncate(): ConstEncode makes the number positive, and
\* a mask that overflowed is put right with the sign bits.
\* Mutant: the overflow is not put right.
TruncateSharedUnfixed(x, rBits) ==
    LET opened == Truncate(AddMod(Masked(x, rBits), ConstEncode), D)
    IN Sub(Sub(opened, Solved(TruncatedBits(rBits, D))), ConstDecode)
TruncateShared(x, rBits) ==
    LET opened == Truncate(AddMod(Masked(x, rBits), ConstEncode), D)
        overflow == MultMod(Sub(1, rBits[E]), Msb(opened))
    IN Sub(AddMod(Sub(opened, Solved(TruncatedBits(rBits, D))), MultMod(ConstGapInTruncation, overflow)),
           ConstDecode)

\* truncate(precision) and reduce_truncate(precision), without either.
TruncateByPrecision(x, rBits, d) ==
    Sub(Truncate(Masked(x, rBits), d), Solved(TruncatedBits(rBits, d)))

-----------------------------------------------------------------------------
(* Maxima of a row, with the one-hot index.  deltaReLU is its value.       *)

AtLeast(a, b) == 1 - Msb(Sub(a, b))

SeqMax(v) ==
    LET n == Len(v)
        OneHot(i) == [j \in 1 .. n |-> IF j = i THEN 1 ELSE 0]
        st[i \in 1 .. n] ==
            IF i = 1 THEN [max |-> v[1], idx |-> OneHot(1)]
            ELSE LET prev == st[i - 1]
                     cond == AtLeast(prev.max, v[i])
                 IN [max |-> IfElse(cond, prev.max, v[i]),
                     idx |-> [j \in 1 .. n |-> IfElse(cond, prev.idx[j], OneHot(i)[j])]]
    IN st[n]

\* One layer: the maxima of neighbours; an odd one is taken over.
Halves(v) == (Len(v) + 1) \div 2
MaxLayer(v) ==
    [i \in 1 .. Halves(v) |->
        IF 2 * i > Len(v) THEN v[2 * i - 1]
        ELSE IfElse(AtLeast(v[2 * i - 1], v[2 * i]), v[2 * i - 1], v[2 * i])]

IdxLayer(depth, v, idx) ==
    LET blk == 2^depth
    IN [j \in 1 .. Len(idx) |->
           LET i == (j - 1) \div blk + 1
               cond == AtLeast(v[2 * i - 1], v[2 * i])
           IN IF i > Len(v) \div 2 THEN idx[j]
              ELSE MultMod(IF (j - 1) % blk < blk \div 2 THEN cond ELSE Sub(1, cond), idx[j])]

\* hierMaxpoolRowwise_opt: the right half is as wide as the left in every block
\* or in none, so the last block can reach past the last column, and a short
\* right half asserts that there is one block only.
Fault == <<>>
InColumns(depth, v, n) ==
    IF 2^depth > n THEN Len(v) \div 2 = 1 ELSE (Len(v) \div 2) * 2^depth <= n

\* The layers of the tree, with the code's index columns or those of _opt.
Layers(v, opt) ==
    LET st[d \in 0 .. Len(v)] ==
            IF d = 0 THEN [v |-> v, idx |-> [j \in 1 .. Len(v) |-> 1]]
            ELSE LET prev == st[d - 1]
                     w == prev.v
                 IN IF Len(w) = 1 THEN prev
                    ELSE [v |-> MaxLayer(w),
                          idx |-> IF prev.idx = Fault \/ (opt /\ ~InColumns(d, w, Len(v))) THEN Fault
                                  ELSE IdxLayer(d, w, prev.idx)]
        root == st[Len(v)]
    IN [max |-> root.v[1], idx |-> root.idx]

MaxRowwise(v) == Layers(v, FALSE)
MaxRowwiseOpt(v) == Layers(v, TRUE)
=============================================================================
