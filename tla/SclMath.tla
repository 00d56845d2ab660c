------------------------------ MODULE SclMath ------------------------------
(***************************************************************************)
(* The mathematics of the secure computation library below its packed      *)
(* sharing: fields and rings of machine words, parsing of numbers, vectors *)
(* and matrices, polynomials by their coefficients, linear systems, and    *)
(* Shamir's and additive sharing with detection and correction of errors.  *)
(* A call that throws returns Thrown.  Index i of the code is i + 1 here.  *)
(***************************************************************************)
EXTENDS PackedSharing

CONSTANT H           \* bits of half a machine word; P = 2^(2*H - 1) - 1

Word == 2^(2 * H)
ASSUME WordAssumption == H \in Nat \ {0} /\ P = Word \div 2 - 1

Thrown == [thrown |-> TRUE]
Threw(res) == res = Thrown
Value(v) == [value |-> v]

-----------------------------------------------------------------------------
(* fields/details.h, mersenne61.cc, mersenne127.cc *)

AddSimpleType(t, v) == LET s == t + v IN IF s >= P THEN s - P ELSE s
SubtractSimpleType(t, v) == IF v > t THEN t + P - v ELSE t - v
NegateSimpleType(t) == IF t # 0 THEN P - t ELSE t

\* Truncating division, as the code's on numbers that stay nonnegative.
RECURSIVE Euclid(_, _, _, _)
Euclid(k, newK, r, newR) ==
    IF newR = 0 THEN k
    ELSE LET q == r \div newR IN Euclid(newK, k - q * newK, newR, r - q * newR)
InverseModPrimeSimpleType(v) ==
    IF v = 0 THEN Thrown ELSE LET k == Euclid(0, 1, P, v) IN Value(IF k < 0 THEN k + P ELSE k)

\* Mersenne61: the bits above the exponent, and the ones below.
Multiply61(t, v) == AddSimpleType((t * v) \div (P + 1), (t * v) % (P + 1))

\* Mersenne127: the double word of a product from those of the halves.
MultiplyFull(x, y) ==
    LET half == 2^H
        a == x \div half
        b == x % half
        c == y \div half
        d == y % half
        carry == ((a * d) % half) + ((b * c) % half) + (b * d) \div half
    IN [high |-> a * c + (a * d) \div half + (b * c) \div half + carry \div half,
        low  |-> (a * d * half + b * c * half + b * d) % Word]
Multiply127(t, v) ==
    LET z == MultiplyFull(t, v)
    IN AddSimpleType(((z.high * 2) % Word) + z.low \div (P + 1), z.low % (P + 1))

FromInt(v) == IF v < 0 THEN v + P ELSE v
FromBytes(word) == word % P

-----------------------------------------------------------------------------
(* z2k.h, z2k/details.h: sums and products are left on the whole word of   *)
(* width bits; equality, reading and writing look at the low k.            *)

Xor2(x) == IF (x \div 2) % 2 = 0 THEN x + 2 ELSE x - 2
\* Mutant: the doubling stops one step early.
InvertZ2kShort(v, k, width) ==
    LET RECURSIVE newton(_, _)
        newton(z, bits) == IF 2 * bits > k THEN z ELSE newton((z * (2 - v * z)) % 2^width, 2 * bits)
    IN IF v % 2 = 0 THEN Thrown ELSE Value(newton(Xor2((3 * v) % 2^width), 5))
InvertZ2k(v, k, width) ==
    LET RECURSIVE newton(_, _)
        newton(z, bits) == IF bits > k THEN z ELSE newton((z * (2 - v * z)) % 2^width, 2 * bits)
    IN IF v % 2 = 0 THEN Thrown ELSE Value(newton(Xor2((3 * v) % 2^width), 5))
MaskZ2k(v, k) == v % 2^k
EqualZ2k(a, b, k) == MaskZ2k(a, k) = MaskZ2k(b, k)

-----------------------------------------------------------------------------
(* str.h: digits stand for the characters of a string, Bad for one that is *)
(* no digit of the base, Pad for '='.                                      *)

Bad == 99
Pad64 == 98
Shift(t, base, d, word) == (t * base + d) % word
RECURSIVE Digits(_, _, _)
Digits(s, base, word) == IF s = <<>> THEN 0 ELSE Shift(Digits(SubSeq(s, 1, Len(s) - 1), base, word), base, s[Len(s)], word)
Wrong(s, base) == \E i \in 1 .. Len(s) : s[i] >= base
FromStringBinary(s, word) == IF Wrong(s, 2) THEN Thrown ELSE Value(Digits(s, 2, word))
FromStringDecimal(s, word) == IF Wrong(s, 10) THEN Thrown ELSE Value(Digits(s, 10, word))
FromStringHex(s, word) == IF Len(s) % 2 = 1 \/ Wrong(s, 16) THEN Thrown ELSE Value(Digits(s, 16, word))

\* Four characters make three bytes, a padded group of four one or two.
\* Mutant: the bits already used are not masked out.
Bytes64Unmasked(g) ==
    <<g[1] * 4 + g[2] \div 16>>
    \o (IF g[3] = Pad64 THEN <<>> ELSE <<g[2] * 16 + g[3] \div 4>>)
    \o (IF g[4] = Pad64 THEN <<>> ELSE <<g[3] * 64 + g[4]>>)
Bytes64(g) ==
    <<g[1] * 4 + g[2] \div 16>>
    \o (IF g[3] = Pad64 THEN <<>> ELSE <<(g[2] % 16) * 16 + g[3] \div 4>>)
    \o (IF g[4] = Pad64 THEN <<>> ELSE <<(g[3] % 4) * 64 + g[4]>>)
FromStringBase64(s, word) ==
    LET n == Len(s)
        padded == s[n] = Pad64
        m == n - (IF padded THEN 4 ELSE 0)
        RECURSIVE bytes(_)
        bytes(i) == IF i >= n THEN <<>> ELSE Bytes64(SubSeq(s, i + 1, i + 4)) \o bytes(i + 4)
        used == {i \in 1 .. n : i <= m \/ i < n - 1 \/ (i = n - 1 /\ s[i] # Pad64)}
    IN IF n % 4 # 0 \/ (\E i \in used : s[i] >= 64) THEN Thrown ELSE Value(Digits(bytes(0), 256, word))
FromStringSimpleType(s, base, word) ==
    CASE base = "BINARY"  -> FromStringBinary(s, word)
      [] base = "DECIMAL" -> FromStringDecimal(s, word)
      [] base = "HEX"     -> FromStringHex(s, word)
      [] base = "BASE64"  -> FromStringBase64(s, word)

-----------------------------------------------------------------------------
(* vec.h, mat.h *)

VecAdd(u, v) == Vec(Len(u), LAMBDA i : FF(u[i] + v[i]))
VecSubtract(u, v) == Vec(Len(u), LAMBDA i : FF(u[i] - v[i]))
VecMultiplyEntryWise(u, v) == Vec(Len(u), LAMBDA i : FF(u[i] * v[i]))
VecDot(u, v) == FSum(LAMBDA i : u[i] * v[i], Len(u))
VecSum(v) == FSum(LAMBDA i : v[i], Len(v))
VecScalarMultiply(v, scalar) == Vec(Len(v), LAMBDA i : FF(scalar * v[i]))

Rows(A) == Len(A)
Cols(A) == Len(A[1])
\* The storage of a matrix is row after row; Resize reads it with other sizes.
FromVector(n, m, v) == Vec(n, LAMBDA i : SubSeq(v, (i - 1) * m + 1, i * m))
ToVector(A) == Vec(Rows(A) * Cols(A), LAMBDA k : A[(k - 1) \div Cols(A) + 1][((k - 1) % Cols(A)) + 1])
Resize(A, n, m) == IF n * m # Rows(A) * Cols(A) THEN Thrown ELSE Value(FromVector(n, m, ToVector(A)))
Identity(n) == Vec(n, LAMBDA i : Vec(n, LAMBDA j : IF i = j THEN 1 ELSE 0))
IsIdentity(A) == Rows(A) = Cols(A) /\ A = Identity(Rows(A))
Column(A, j) == Vec(Rows(A), LAMBDA i : A[i][j])
Transpose(A) == Vec(Cols(A), LAMBDA j : Column(A, j))
MatAdd(A, B) == Vec(Rows(A), LAMBDA i : VecAdd(A[i], B[i]))
MatSubtract(A, B) == Vec(Rows(A), LAMBDA i : VecSubtract(A[i], B[i]))
MatMultiplyEntryWise(A, B) == Vec(Rows(A), LAMBDA i : VecMultiplyEntryWise(A[i], B[i]))
MatScalarMultiply(A, scalar) == Vec(Rows(A), LAMBDA i : VecScalarMultiply(A[i], scalar))
MatMultiply(A, B) ==
    IF Cols(A) # Rows(B) THEN Thrown
    ELSE Value(Vec(Rows(A), LAMBDA i : Vec(Cols(B), LAMBDA j : VecDot(A[i], Column(B, j)))))

-----------------------------------------------------------------------------
(* poly.h: the coefficients, constant term first, without leading zeros.   *)

RECURSIVE Create(_)
Create(c) ==
    IF c = <<>> THEN <<0>>
    ELSE IF c[Len(c)] = 0 THEN Create(SubSeq(c, 1, Len(c) - 1)) ELSE c
PolyDegree(p) == Len(p) - 1
PolyIsZero(p) == p = <<0>>
PolyEvaluate(p, x) ==
    LET y[i \in 1 .. Len(p)] == IF i = Len(p) THEN p[i] ELSE FF(p[i] + y[i + 1] * x) IN y[1]
Padded(p, n) == Vec(n, LAMBDA i : IF i <= Len(p) THEN p[i] ELSE 0)
Longer(p, q) == IF Len(p) > Len(q) THEN Len(p) ELSE Len(q)
PolyAdd(p, q) == Create(VecAdd(Padded(p, Longer(p, q)), Padded(q, Longer(p, q))))
PolySubtract(p, q) == Create(VecSubtract(Padded(p, Longer(p, q)), Padded(q, Longer(p, q))))
PolyMultiply(p, q) ==
    Create(Vec(Len(p) + Len(q) - 1, LAMBDA k :
        FSum(LAMBDA i : IF k + 1 - i \in 1 .. Len(q) THEN p[i] * q[k + 1 - i] ELSE 0, Len(p))))
DivideLeadingTerms(p, q) ==
    Create(Padded(<<>>, Len(p) - Len(q)) \o <<FDiv(p[Len(p)], q[Len(q)])>>)
Divide(p, d) ==
    LET RECURSIVE long(_, _)
        long(q, r) ==
            IF PolyIsZero(r) \/ Len(r) < Len(d) THEN <<q, r>>
            ELSE LET t == DivideLeadingTerms(r, d) IN long(PolyAdd(q, t), PolySubtract(r, PolyMultiply(t, d)))
    IN IF PolyIsZero(d) THEN Thrown ELSE Value(long(<<0>>, p))

\* evpoly.h: sums of polynomials known at the same points.
EvPolyAdd(p, q) == IF p.mX # q.mX THEN Thrown ELSE Value(EvPolynomial(p.mX, VecAdd(p.mY, q.mY)))
EvPolySubtract(p, q) == IF p.mX # q.mX THEN Thrown ELSE Value(EvPolynomial(p.mX, VecSubtract(p.mY, q.mY)))

-----------------------------------------------------------------------------
(* la.h *)

\* Mutant: the row is copied and the other one lost.
SwapRowsCopy(A, k, h) == [A EXCEPT ![h] = A[k]]
SwapRows(A, k, h) == [A EXCEPT ![k] = A[h], ![h] = A[k]]
MultiplyRow(A, row, m) == [A EXCEPT ![row] = VecScalarMultiply(@, m)]
AddRows(A, dst, op, m) == [A EXCEPT ![dst] = VecAdd(@, VecScalarMultiply(A[op], m))]

RowReduceInPlace(A) ==
    LET n == Rows(A)
        cleared(B, r, c) == Vec(n, LAMBDA k : IF k = r \/ B[k][c] = 0 THEN B[k] ELSE AddRows(B, k, r, FF(-B[k][c]))[k])
        RECURSIVE reduce(_, _, _)
        reduce(B, r, c) ==
            IF r > n \/ c > Cols(A) THEN B
            ELSE LET candidates == {k \in r .. n : B[k][c] # 0}
                     pivot == CHOOSE k \in candidates : \A h \in candidates : k <= h
                     C == SwapRows(B, pivot, r)
                 IN IF candidates = {} THEN reduce(B, r, c + 1)
                    ELSE reduce(cleared(MultiplyRow(C, r, InverseOf[C[r][c]]), r, c), r + 1, c + 1)
    IN reduce(A, 1, 1)

\* The row of the lowest entry of a column, 0 if there is none or something is
\* to its left, the column next to it excepted.
GetPivotInColumn(A, col) ==
    LET rows == {i \in 1 .. Rows(A) : A[i][col] # 0}
        low == CHOOSE i \in rows : \A h \in rows : h <= i
    IN IF rows = {} THEN 0 ELSE IF \E k \in 1 .. col - 2 : A[low][k] # 0 THEN 0 ELSE low

FindFirstNonZeroRow(A) ==
    LET rows == {i \in 1 .. Rows(A) : \E j \in 1 .. Cols(A) : A[i][j] # 0}
    IN IF rows = {} THEN 0 ELSE CHOOSE i \in rows : \A h \in rows : h <= i

\* Back substitution; a square system, as SolveLinearSystem's callers have.
ExtractSolution(A) ==
    LET n == Rows(A)
        m == Cols(A)
        first == FindFirstNonZeroRow(A)
        RECURSIVE back(_, _, _)
        back(x, i, c) ==
            IF c = 0 THEN x
            ELSE LET p == GetPivotInColumn(A, c)
                     sum == FSum(LAMBDA j : IF j > p THEN A[i][j] * x[j] ELSE 0, n)
                 IN IF p = 0 THEN back([x EXCEPT ![c] = 1], i, c - 1)
                    ELSE back([x EXCEPT ![c] = FF(A[i][m] - sum)], i - 1, c - 1)
    IN back(Vec(m - 1, LAMBDA j : 0), first, m - 1 - (n - first))

HasSolution(A, uniqueOnly) ==
    \A i \in 1 .. Rows(A) :
        (\A j \in 1 .. Cols(A) - 1 : A[i][j] = 0) => (~uniqueOnly /\ A[i][Cols(A)] = 0)

CreateAugmentedMatrix(A, b) == Vec(Rows(A), LAMBDA i : Append(A[i], b[i]))
SolveLinearSystem(A, b) ==
    LET aug == RowReduceInPlace(CreateAugmentedMatrix(A, b))
    IN [found |-> HasSolution(aug, TRUE), x |-> IF HasSolution(aug, TRUE) THEN ExtractSolution(aug) ELSE <<>>]

-----------------------------------------------------------------------------
(* shamir.h, additive.h; rnd is what the generator draws. *)

CreateShamirSharePolynomial(secret, t, rnd) == IF t = 0 THEN Thrown ELSE Value(Create(<<secret>> \o rnd))
CanonicalAlphas(n) == Vec(n, LAMBDA i : FF(i))
CreateShamirShares(p, alphas) == Vec(Len(alphas), LAMBDA i : PolyEvaluate(p, alphas[i]))

\* Lagrange's formula again, through the first k points.
InterpolateAt(ys, xs, k, x) == Evaluate(EvPolynomial(SubSeq(xs, 1, k), SubSeq(ys, 1, k)), x)

ReconstructShamirPassive(shares, alphas, pos, t) ==
    IF t + 1 > Len(shares) \/ t + 1 > Len(alphas) THEN Thrown
    ELSE Value(InterpolateAt(shares, alphas, t + 1, pos))

\* Mutant: one share fewer is compared.
ReconstructShamirShort(shares, alphas, pos, t) ==
    IF 2 * t + 1 > Len(shares) \/ 2 * t + 1 > Len(alphas) THEN Thrown
    ELSE IF \E k \in t + 2 .. 2 * t : InterpolateAt(shares, alphas, t + 1, alphas[k]) # shares[k] THEN Thrown
    ELSE Value(InterpolateAt(shares, alphas, t + 1, pos))
\* Only the first 2t+1 shares are looked at.
ReconstructShamir(shares, alphas, pos, t) ==
    IF 2 * t + 1 > Len(shares) \/ 2 * t + 1 > Len(alphas) THEN Thrown
    ELSE IF \E k \in t + 2 .. 2 * t + 1 : InterpolateAt(shares, alphas, t + 1, alphas[k]) # shares[k] THEN Thrown
    ELSE Value(InterpolateAt(shares, alphas, t + 1, pos))

\* The system of Berlekamp and Welch for e errors: the error locator's
\* coefficients but the leading one, then those of the product.
RobustRow(s, alpha, e, n) ==
    LET power[j \in 0 .. n] == IF j = 0 THEN 1 ELSE FF(power[j - 1] * alpha)
    IN [row |-> Vec(n, LAMBDA j : IF j <= e THEN FF(s * power[j - 1]) ELSE FF(-power[j - e - 1])),
        b   |-> FF(-s * power[e])]
ReconstructShamirRobust(shares, alphas, t) ==
    LET n == 3 * t + 1
        solve(e) == LET rows == Vec(n, LAMBDA i : RobustRow(shares[i], alphas[i], e, n))
                    IN SolveLinearSystem(Vec(n, LAMBDA i : rows[i].row), Vec(n, LAMBDA i : rows[i].b))
        RECURSIVE attempt(_)
        attempt(e) == LET s == solve(e) IN IF s.found \/ e = 0 THEN [e |-> e, x |-> s.x] ELSE attempt(e - 1)
        got == attempt(t)
        E == Create(Append(SubSeq(got.x, 1, got.e), 1))
        Q == Create(SubSeq(got.x, got.e + 1, n))
        qr == Divide(Q, E).value
    IN IF n > Len(shares) \/ n > Len(alphas) THEN Thrown
       ELSE IF PolyIsZero(qr[2]) THEN Value([p |-> qr[1], locator |-> E]) ELSE Thrown

CreateAdditiveShares(secret, n, rnd) == IF n = 0 THEN Thrown ELSE Value(<<FF(secret - VecSum(rnd))>> \o rnd)
ReconstructAdditive(shares) == VecSum(shares)
=============================================================================
