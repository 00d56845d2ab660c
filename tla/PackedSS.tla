------------------------------ MODULE PackedSS ------------------------------
(***************************************************************************)
(* packed-ss-template: packed sharing of l secrets with polynomials of     *)
(* degree d among n parties.  OptimizedPSS evaluates and interpolates with *)
(* discrete Fourier transforms over the 2^pow-th roots of unity;           *)
(* PackedSecretShare multiplies with Lagrange (hyper-invertible) matrices. *)
(* Vectors are sequences: index i of the code is i + 1 here.               *)
(***************************************************************************)
EXTENDS Integers, Sequences

CONSTANTS P,         \* the prime of the field; in the code 3193032821761
          Root       \* an element of order P - 1; in the code 14

\* The vector and the sum of f(0), ..., f(n-1); SubSeq has TLC evaluate it once.
Vec(n, f(_)) == SubSeq([i \in 1 .. n |-> f(i - 1)], 1, n)
SumTo(n, f(_)) == LET s[i \in 0 .. n] == IF i = 0 THEN 0 ELSE (s[i - 1] + f(i - 1)) % P IN s[n]

RECURSIVE Power(_, _)
Power(x, e) == IF e = 0 THEN 1 ELSE (x * Power(x, e - 1)) % P

inv(x) == Power(x, P - 2)
At(v, i) == v[i + 1]

\* A call that throws returns Refused; OutOfBounds is what a constructor leaves
\* that has read past the end of a vector.
Refused == "refused"
OutOfBounds == "out of bounds"

-----------------------------------------------------------------------------
(* The parameters of an instance and the roots it works with.              *)

RECURSIVE Log2Up(_)
Log2Up(m) == IF m = 1 THEN 0 ELSE 1 + Log2Up((m + 1) \div 2)
nearest_pow(q) == Log2Up(q.n + q.l)
Half(q) == 2^(nearest_pow(q) - 1)
Constructed(q) == q.d + 1 <= Half(q)
generator(q) == Power(Root, (P - 1) \div 2^nearest_pow(q))

\* The powers of the generator's square first, then its odd powers.
roots(q) ==
    Vec(2 * Half(q), LAMBDA i : Power(generator(q), IF i < Half(q) THEN 2 * i ELSE 2 * (i - Half(q)) + 1))

\* Another order: the 2^i-th roots come before those of higher order, for all i.
\* Exponent is that of the j-th root of order 2^i.
Exponent(i, j, total) ==
    LET RECURSIVE bits(_)
        bits(k) == IF k = i - 1 THEN 0 ELSE ((j \div 2^k) % 2) * 2^(total - 1 - k) + bits(k + 1)
    IN 2^(total - i) + bits(0)
RECURSIVE generateRoots(_, _, _)
generateRoots(gen, i, total) ==
    IF i = 0 THEN <<1>>
    ELSE generateRoots(gen, i - 1, total) \o Vec(2^(i - 1), LAMBDA j : Power(gen, Exponent(i, j, total)))

-----------------------------------------------------------------------------
(* Transforms.                                                             *)

prepareCoeffs(coeffs, pow) == Vec(2^pow, LAMBDA i : IF i < Len(coeffs) THEN At(coeffs, i) ELSE 0)

\* Adds 2^(pow-2) with the carry running towards the low bits.  The call after
\* the last pair finds no clear bit, shifts by -1, and its result is not used.
reverse_add(itr, pow) ==
    LET Clear == {ind \in 0 .. pow - 2 : (itr \div 2^ind) % 2 = 0}
        ind == CHOOSE i \in Clear : \A j \in Clear : j <= i
    IN IF Clear = {} THEN 0 ELSE (itr % 2^ind) + 2^ind

\* The first round of DFT, in place: coefficients are overwritten by the pairs
\* in bit-reversed order, those passed already being read from the scratch.
RECURSIVE FirstPass(_, _, _, _, _)
FirstPass(k, base, coeffs, scratch, pow) ==
    LET step == 2^(pow - 1)
        saved == [scratch EXCEPT ![2 * k + 1] = coeffs[2 * k + 1], ![2 * k + 2] = coeffs[2 * k + 2]]
        low == IF 2 * k >= base THEN At(saved, base) ELSE At(coeffs, base)
        high == IF 2 * k >= base + step THEN At(saved, base + step) ELSE At(coeffs, base + step)
    IN IF k = step THEN coeffs
       ELSE FirstPass(k + 1, reverse_add(base, pow),
                      [coeffs EXCEPT ![2 * k + 1] = (low + high) % P, ![2 * k + 2] = (low - high) % P], saved, pow)

\* The first round when the input is preserved.
RECURSIVE PairsInto(_, _, _, _)
PairsInto(k, base, coeffs, pow) ==
    LET step == 2^(pow - 1)
    IN IF k = step THEN <<>>
       ELSE <<(At(coeffs, base) + At(coeffs, base + step)) % P, (At(coeffs, base) - At(coeffs, base + step)) % P>>
            \o PairsInto(k + 1, reverse_add(base, pow), coeffs, pow)

\* The rounds that follow: entries 2^i apart are combined with a power of the
\* stride of the round.
RECURSIVE Butterflies(_, _, _, _)
Butterflies(c, i, pow, gen) ==
    LET step == 2^i
        stride == Power(gen, 2^pow \div 2^(i + 1))
        factor == Vec(step, LAMBDA k : Power(stride, k))
        entry(x) == IF (x \div step) % 2 = 0 THEN (At(c, x) + At(factor, x % step) * At(c, x + step)) % P
                    ELSE (At(c, x - step) - At(factor, x % step) * At(c, x)) % P
    IN IF i >= pow THEN c ELSE Butterflies(Vec(2^pow, entry), i + 1, pow, gen)

GenOf(pow, q) == IF pow = nearest_pow(q) THEN generator(q) ELSE Power(generator(q), 2)
SmallDFT(c) == IF Len(c) = 1 THEN c ELSE <<(c[1] + c[2]) % P, (c[1] - c[2]) % P>>

DFT(c, pow, q) ==
    IF pow <= 1 THEN SmallDFT(c)
    ELSE Butterflies(FirstPass(0, 0, c, Vec(2^pow, LAMBDA i : 0), pow), 1, pow, GenOf(pow, q))
PreserveInDFT(c, pow, q) ==
    IF pow <= 1 THEN SmallDFT(c) ELSE Butterflies(PairsInto(0, 0, c, pow), 1, pow, GenOf(pow, q))

\* Entries begin to end - 1 of a transform.
DFTRange(c, pow, begin, end, q) == SubSeq(DFT(c, pow, q), begin + 1, end)

\* The entries at the inverse powers, scaled; exchanged in pairs in the code.
AtInverses(c, pow, end) == LET scale == inv(2^pow % P) IN Vec(end, LAMBDA i : (scale * At(c, (2^pow - i) % 2^pow)) % P)
InvDFT(points, pow, end, q) == AtInverses(DFT(points, pow, q), pow, end)

-----------------------------------------------------------------------------
(* Polynomials by their coefficients.                                      *)

polyMult(a, b, q) ==
    LET pow == nearest_pow(q)
        num == Len(a) + Len(b) - 1
        x == DFT(prepareCoeffs(a, pow), pow, q)
        y == PreserveInDFT(prepareCoeffs(b, pow), pow, q)
    IN IF 2^pow < num THEN Refused ELSE InvDFT(Vec(2^pow, LAMBDA i : (At(x, i) * At(y, i)) % P), pow, num, q)

RECURSIVE multPolyList(_, _)
multPolyList(polys, q) ==
    LET mid == Len(polys) \div 2
    IN IF Len(polys) = 1 THEN polys[1]
       ELSE polyMult(multPolyList(SubSeq(polys, 1, mid), q), multPolyList(SubSeq(polys, mid + 1, Len(polys)), q), q)

\* The polynomial that is zero at the roots in positions first to last.
LinearFactors(first, last, q) == LET r == roots(q) IN Vec(last - first + 1, LAMBDA i : <<(-At(r, first + i)) % P, 1>>)
multiplyRoots(first, last, q) == multPolyList(LinearFactors(first, last, q), q)

\* The evaluations of a transform at the first num roots from position first:
\* even entries up to half of the points, then the odd ones from the start.  The
\* first bound of the code is negative (:128) only where ~Constructed(q).
Positions(c, first, num, q) ==
    Vec(num, LAMBDA i : At(c, IF first + i < Half(q) THEN 2 * (first + i) ELSE 2 * (first + i - Half(q)) + 1))

\* The constructor: A_share vanishes at the secrets' and the first shares'
\* roots, A_recover at those of the first d + 1 shares; with each, the inverses
\* of its derivative at these roots.  For A_share they are the even entries at
\* 2i for all i <= d, which is past the last one unless Constructed(q) (:394).
Derivative(a, d) == Vec(d + 1, LAMBDA i : (At(a, i + 1) * (i + 1)) % P)
Vanishing(first, last, q) == polyMult(multiplyRoots(first, last, q), multiplyRoots(q.l, q.d, q), q)
Weights(a, first, q) ==
    LET pow == nearest_pow(q)
        at == Positions(DFT(prepareCoeffs(Derivative(a, q.d), pow), pow, q), first, q.d + 1, q)
    IN Vec(q.d + 1, LAMBDA i : inv(At(at, i)))
OptimizedPSS(q) ==
    LET A_share == Vanishing(0, q.l - 1, q)
        A_recover == Vanishing(q.d + 1, q.d + q.l, q)
    IN IF ~Constructed(q) THEN OutOfBounds
       ELSE [A_share |-> A_share, A_recover |-> A_recover,
             A_pts_share |-> Weights(A_share, 0, q), A_pts_recover |-> Weights(A_recover, q.l, q)]

-----------------------------------------------------------------------------
(* Sharing and recovering.                                                 *)

\* The secrets an instance holds: setting replaces them, generating appends.
setSecrets(lsecrets, q) == IF Len(lsecrets) > q.l THEN Refused ELSE lsecrets
generateRandomSecrets(secrets, rnd, q) == secrets \o SubSeq(rnd, 1, q.l)
generateRandomDupSecret(secrets, same_secret, q) == secrets \o Vec(q.l, LAMBDA i : same_secret)
SecretAt(secrets, idx, q) == IF idx >= q.l \/ idx >= Len(secrets) THEN Refused ELSE At(secrets, idx)

\* Mutant: the points are read without the step to the next inverse power.
NextInversesUnshifted(e, pow, q) == Vec(q.d + 1, LAMBDA it : (-At(e, (2^pow - it) % 2^pow)) % P)
NextInverses(e, pow, q) == Vec(q.d + 1, LAMBDA it : (-At(e, 2^pow - it - 1)) % P)
computeN(c, pow, q) == NextInverses(DFT(prepareCoeffs(c, pow), pow, q), pow, q)

\* The coefficients of the polynomial through d + 1 points: those of the
\* quotient by A, times A, modulo X^(d+1).
WeighedShare(points, pss, q) == Vec(q.d + 1, LAMBDA i : (At(points, i) * At(pss.A_pts_share, i)) % P)
WeighedRecover(points, pss, q) ==
    LET at(x) == LET i == IF x % 2 = 0 THEN x \div 2 - q.l ELSE x \div 2 + Half(q) - q.l
                 IN IF i \in 0 .. q.d THEN (At(points, i) * At(pss.A_pts_recover, i)) % P ELSE 0
    IN Vec(2 * Half(q), at)
ptToCoeff(points, isShare, pss, q) ==
    LET pow == nearest_pow(q)
        quotient == IF isShare THEN computeN(WeighedShare(points, pss, q), pow - 1, q)
                    ELSE computeN(WeighedRecover(points, pss, q), pow, q)
    IN IF Len(points) # q.d + 1 THEN Refused
       ELSE SubSeq(polyMult(quotient, IF isShare THEN pss.A_share ELSE pss.A_recover, q), 1, q.d + 1)

\* Missing secrets are replaced by random values, as the values that follow.
defin_pts(secrets, rnd, q) == secrets \o SubSeq(rnd, 1, q.d + 1 - Len(secrets))
secretShareValues(secrets, rnd, pss, q) ==
    LET points == defin_pts(secrets, rnd, q)
        pow == nearest_pow(q)
        c == DFT(prepareCoeffs(ptToCoeff(points, TRUE, pss, q), pow), pow, q)
    IN IF ~Constructed(q) THEN OutOfBounds
       ELSE IF Len(points) # q.d + 1 THEN Refused
       ELSE SubSeq(points, q.l + 1, q.d + 1) \o Positions(c, q.d + 1, q.n - (q.d + 1 - q.l), q)

\* The shares beyond d + 1 are compared with the polynomial of the first ones.
\* With l + d + 1 > Half the first bound is negative: the second loop then
\* starts before the vector of the points to check, and what it reads there
\* (wild) decides.
Agrees(px, samplePoints, wild, q) ==
    LET checkNum == Len(samplePoints) - (q.d + 1)
        end == IF checkNum + q.l + q.d + 1 < Half(q) THEN checkNum ELSE Half(q) - (q.l + q.d + 1)
        checkPoint(i) == IF i < 0 THEN wild ELSE At(samplePoints, q.d + 1 + i)
    IN /\ \A i \in 0 .. end - 1 : At(px, 2 * (q.l + q.d + 1 + i)) = checkPoint(i)
       /\ \A i \in 0 .. checkNum - (Half(q) - (q.l + q.d + 1)) - 1 : At(px, 2 * i + 1) = checkPoint(end + i)
recoverSS(samplePoints, wild, pss, q) ==
    LET pow == nearest_pow(q)
        px == DFT(prepareCoeffs(ptToCoeff(SubSeq(samplePoints, 1, q.d + 1), FALSE, pss, q), pow), pow, q)
    IN IF ~Constructed(q) THEN OutOfBounds
       ELSE IF Len(samplePoints) < q.d + 1 \/ ~Agrees(px, samplePoints, wild, q) THEN Refused
       ELSE Vec(q.l, LAMBDA i : At(px, 2 * i))

-----------------------------------------------------------------------------
(* The implementation with matrices.                                       *)

\* The value at b of the j-th Lagrange polynomial of the points alpha.
Lambda(alpha, b, j) ==
    LET RECURSIVE product(_)
        product(k) == IF k = Len(alpha) THEN 1
                      ELSE IF k = j THEN product(k + 1)
                      ELSE (product(k + 1) * (b - At(alpha, k)) * inv((At(alpha, j) - At(alpha, k)) % P)) % P
    IN product(0)
\* A matrix has the dimensions it was constructed with, none by default.
Unset == <<>>
InitHIMByVectors(dims, alpha, beta) ==
    IF dims = Unset \/ dims # <<Len(beta), Len(alpha)>> THEN Refused
    ELSE Vec(Len(beta), LAMBDA i : Vec(Len(alpha), LAMBDA j : Lambda(alpha, At(beta, i), j)))
InitHIM(m, n) == InitHIMByVectors(<<m, n>>, Vec(n, LAMBDA i : i % P), Vec(m, LAMBDA i : (n + i) % P))
MatrixMult(m, v) == Vec(Len(m), LAMBDA i : SumTo(Len(v), LAMBDA j : At(At(m, i), j) * At(v, j)))

\* VDM: powers of alpha, or of 1, 2, ..., n; length columns are used.
InitVDMByVector(n, m, alpha) == IF Len(alpha) # n THEN Refused ELSE Vec(n, LAMBDA i : Vec(m, LAMBDA k : Power(At(alpha, i), k)))
InitVDM(n, m) == InitVDMByVector(n, m, Vec(n, LAMBDA i : (i + 1) % P))
VDMMatrixMult(m, v, length) == Vec(Len(m), LAMBDA i : SumTo(length, LAMBDA j : At(At(m, i), j) * At(v, j)))

\* The matrices the programs hand to PackedSecretShare, on the generator's
\* powers in their natural order.
PowersFrom(first, num, q) == Vec(num, LAMBDA i : Power(generator(q), first + i))
RecoverMtx(q) ==
    InitHIMByVectors(<<q.l + q.n - q.d - 1, q.d + 1>>,
                     PowersFrom(q.l, q.d + 1, q), PowersFrom(0, q.l, q) \o PowersFrom(q.l + q.d + 1, q.n - q.d - 1, q))
ShareMtx(q) ==
    InitHIMByVectors(<<q.n - (q.d + 1) + q.l, q.d + 1>>,
                     PowersFrom(0, q.l, q) \o PowersFrom(q.l, q.d + 1 - q.l, q), PowersFrom(q.d + 1, q.n - (q.d + 1) + q.l, q))

\* Its secrets: generating replaces them; two objects are equal when the first
\* l of them are.
GenerateRandomSecretsMtx(rnd, q) == SubSeq(rnd, 1, q.l)
SetSecretsMtx(secret_vals, q) == IF Len(secret_vals) > q.l THEN Refused ELSE secret_vals
SecretAtMtx(secrets, idx, q) == IF idx >= q.l \/ secrets = <<>> THEN Refused ELSE At(secrets, idx)
EqualMtx(secrets, others, l, m) == l = m /\ \A i \in 0 .. l - 1 : At(secrets, i) = At(others, i)
calcMinPoly(secrets, him, q) == IF Len(secrets) # q.l THEN Refused ELSE MatrixMult(him, secrets)

\* Missing secrets are zero here.
yValues(secrets, rnd, q) ==
    Vec(q.d + 1, LAMBDA i : IF i < q.l THEN (IF i < Len(secrets) THEN At(secrets, i) ELSE 0) ELSE At(rnd, i - q.l))
SecretShareValuesMtx(secrets, rnd, packSS, q) ==
    LET y == yValues(secrets, rnd, q) IN SubSeq(y, q.l + 1, q.d + 1) \o MatrixMult(packSS, y)
Consistent(recovered, points, q) ==
    \A j \in 0 .. Len(points) - (q.d + 1) - 1 : At(recovered, q.l + j) = At(points, q.d + 1 + j)
\* What is recovered is returned, and takes the place of the object's secrets.
RecoverSSMtx(points, recoverMTX, q) ==
    LET r == MatrixMult(recoverMTX, SubSeq(points, 1, q.d + 1))
        recovered == SubSeq(r, 1, q.l)
    IN IF Consistent(r, points, q) THEN [result |-> recovered, secrets |-> recovered]
       ELSE [result |-> Refused, secrets |-> <<>>]
=============================================================================
