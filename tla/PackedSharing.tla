--------------------------- MODULE PackedSharing ---------------------------
(***************************************************************************)
(* Packed secret sharing as the secure computation library provides it     *)
(* (scl/ss/packed.h on top of scl/ss/evpoly.h): a polynomial is kept as    *)
(* its values at chosen points, secrets sit at the points 0, -1, ..., and  *)
(* party i (counted from 0) holds the value at i+1.  The field is the      *)
(* integers modulo the prime P; the library's Mersenne prime 2^61-1 is     *)
(* replaced by a small one, which changes nothing below as long as the     *)
(* points in use stay different.                                           *)
(*                                                                         *)
(* Vectors are sequences, so index i of the code is i+1 here.              *)
(***************************************************************************)
EXTENDS Integers, Sequences

CONSTANT P          \* the modulus, a prime

Field == 0 .. P-1

FF(v) == v % P
\* The sum and the product of f(1), ..., f(n), the loops of the code.
FSum(f(_), n) ==
    LET sum[i \in 0 .. n] == IF i = 0 THEN 0 ELSE (sum[i - 1] + f(i)) % P IN sum[n]
FProd(f(_), n) ==
    LET prod[i \in 0 .. n] == IF i = 0 THEN 1 ELSE (prod[i - 1] * f(i)) % P IN prod[n]

\* The vector f(1), ..., f(n), built the way the code does, element by element.
\* ([i \in 1 .. n |-> f(i)] is the same sequence, but TLC would evaluate its
\* elements again at every use.)
Vec(n, f(_)) ==
    LET v[i \in 0 .. n] == IF i = 0 THEN <<>> ELSE Append(v[i - 1], f(i)) IN v[n]

\* FF::Inverse, by extended Euclid in the library; here by what it returns.
InverseOf == [a \in 1 .. P-1 |-> CHOOSE b \in 1 .. P-1 : (a * b) % P = 1]
FDiv(a, b) == (a * InverseOf[FF(b)]) % P

-----------------------------------------------------------------------------
(* EvPolynomial: mX and mY, the points and the values. *)

EvPolynomial(xPoints, yPoints) == [mX |-> xPoints, mY |-> yPoints]
Degree(poly) == Len(poly.mY) - 1

\* EvPolynomial::Evaluate, Lagrange's formula.
Evaluate(poly, x) ==
    LET n == Degree(poly) + 1
        ell(j) == FProd(LAMBDA m : IF m = j THEN 1
                            ELSE FDiv(x - poly.mX[m], poly.mX[j] - poly.mX[m]), n)
    IN FSum(LAMBDA j : poly.mY[j] * ell(j), n)

-----------------------------------------------------------------------------
(* Sharing.  rnd is the sequence of field elements the generator would     *)
(* produce, one for every point above those of the secrets.                *)

EvPolyFromSecretsAndPoints(secrets, xPoints, rnd) ==
    EvPolynomial(xPoints, Vec(Len(xPoints), LAMBDA i :
        IF i <= Len(secrets) THEN secrets[i] ELSE rnd[i - Len(secrets)]))

EvPolyFromSecretsAndDegree(secrets, degree, rnd) ==
    EvPolyFromSecretsAndPoints(secrets,
        Vec(degree + 1, LAMBDA i : IF i <= Len(secrets) THEN FF(1 - i)
                                   ELSE FF(i - Len(secrets))), rnd)

EvPolyFromSecretAndPointAndDegree(secret, xPoint, degree, rnd) ==
    EvPolyFromSecretsAndPoints(<<secret>>,
        Vec(degree + 1, LAMBDA i : IF i = 1 THEN FF(xPoint) ELSE FF(i - 1)), rnd)

SharesFromEvPoly(poly, nShares) ==
    Vec(nShares, LAMBDA i : Evaluate(poly, FF(i)))

-----------------------------------------------------------------------------
(* Reconstruction, always through all the shares given. *)

EvPolyFromShares(shares) ==
    EvPolynomial(Vec(Len(shares), LAMBDA i : FF(i)), shares)

SecretFromPointAndShares(xSecret, shares) ==
    Evaluate(EvPolyFromShares(shares), FF(xSecret))

SecretsFromSharesAndLength(shares, length) ==
    Vec(length, LAMBDA i : SecretFromPointAndShares(1 - i, shares))
=============================================================================
