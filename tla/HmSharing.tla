----------------------------- MODULE HmSharing -----------------------------
(***************************************************************************)
(* Shamir sharing in hmmpc (the static tables of ShareBase and the local   *)
(* computations of Share and ShareBundle).  Players are counted from 0 and *)
(* player i sits at the point i + 1; the secret is the value at 0.  The    *)
(* tables are sequences, so row i of the code is i + 1 here.               *)
(***************************************************************************)
EXTENDS HmMatrix

CONSTANTS N,         \* n_players
          T,         \* threshold
          Pking      \* the player that opens values

ASSUME PlayersAssumption == T \in Nat /\ N \in Nat /\ 0 < T /\ 2 * T < N /\ N < PR
\* The generator-based dealing is written for n = 2t+1 (ShareBundle.h:129).
ASSUME TwoTPlusOne == N = 2 * T + 1
ASSUME KingAssumption == Pking \in 0 .. N - 1

Players == 0 .. N - 1

\* get_vandermonde: no column for the constant term.
Vandermonde(xSize, ySize) ==
    Seqn(xSize, LAMBDA i : Seqn(ySize, LAMBDA j : Pow(i, j)))
vandermonde_t == Vandermonde(N, T)
vandermonde_2t == Vandermonde(N, 2 * T)
vandermonde_n_t == Vandermonde(N, N - T)

\* One factor of Lagrange's formula, with gfp_j at point.
Factor(gj, point, gi) == Div(Sub(gj, point), Sub(gj, gi))
Product(fs) == IF fs = <<>> THEN 1 ELSE PrefixMult(fs)[Len(fs)]

\* get_reconstruction_factor: the set starts at Pking and wraps around.
ReconstructionFactor(point, player_i, degree) ==
    Product(Seqn(degree + 1, LAMBDA o :
        LET j == (Pking + o - 1) % N
        IN IF j = player_i THEN 1 ELSE Factor(j + 1, point, player_i + 1)))

ReconstructionVector(point, degree) ==
    Seqn(degree + 1, LAMBDA o : ReconstructionFactor(point, (Pking + o - 1) % N, degree))
reconstruction_vector_t == ReconstructionVector(0, T)
reconstruction_vector_2t == ReconstructionVector(0, 2 * T)

InReconstructionSet(p, degree) == (p - Pking) % N <= degree

\* get_reconstruction_factor_with_secret and ..._vector_with_secret: the points
\* 0 .. degree + 1 without one of them.
FactorWithSecret(except, point, i, degree) ==
    Product(Seqn(degree + 2, LAMBDA o :
        IF o - 1 \in {except, i} THEN 1 ELSE Factor(o - 1, point, i)))
VectorWithSecret(except, point, degree) ==
    Seqn(degree + 1, LAMBDA k :
        FactorWithSecret(except, point, IF k <= except THEN k - 1 ELSE k, degree))
reconstruction_with_secret_2t == Seqn(N, LAMBDA i : VectorWithSecret(i, i, 2 * T))
reconstruction_with_secret_t ==
    Seqn(N - T, LAMBDA i : VectorWithSecret(1, IF i < N - T THEN T + 1 + i ELSE 1, T))

-----------------------------------------------------------------------------
(* Bundles: a vector of secrets, and per player the vector of its shares.  *)

\* calculate_sharings: coeffs has one row of random coefficients per power.
CalculateSharings(secrets, degree, coeffs) ==
    LET vandermonde == IF degree = T THEN vandermonde_t ELSE vandermonde_2t
    IN [p \in Players |-> Seqn(Len(secrets), LAMBDA j :
            AddMod(Dot(vandermonde[p + 1], [i \in 1 .. degree |-> coeffs[i][j]]), secrets[j]))]

\* calculate_secrets and calculate_block_secrets: sharings has the rows of the
\* first degree + 1 players, whoever the king is.
CalculateSecrets(sharings, degree) ==
    LET reconstruction == IF degree = T THEN reconstruction_vector_t ELSE reconstruction_vector_2t
    IN Seqn(Cols(sharings), LAMBDA j :
            Dot(reconstruction, [i \in 1 .. degree + 1 |-> sharings[i][j]]))

\* The secrets above the generator's rows, one column of it.
Material(secrets, prng, j) == <<secrets[j]>> \o [i \in 1 .. Len(prng) |-> prng[i][j]]

\* calculate_t_sharings_PRG / get_t_sharings_PRG: players 1..T take their row
\* of the generator's output, the others what the dealer computes and sends.
SharingsTPRG(secrets, prng) ==
    [q \in Players |->
        IF q \in 1 .. T THEN prng[q]
        ELSE Seqn(Len(secrets), LAMBDA j :
                 Dot(reconstruction_with_secret_t[IF q = 0 THEN T + 1 ELSE q - T],
                     Material(secrets, prng, j)))]

\* calculate_2t_sharings_PRG / get_2t_sharings_PRG: everybody but the dealer
\* takes a row; nothing is sent.
DealersRow2t(dealer, secrets, prng) ==
    Seqn(Len(secrets), LAMBDA j : Dot(reconstruction_with_secret_2t[dealer + 1], Material(secrets, prng, j)))
TakenRow2t(q, dealer, prng) == prng[IF q > dealer THEN q ELSE q + 1]
Sharings2tPRG(dealer, secrets, prng) ==
    [q \in Players |-> IF q = dealer THEN DealersRow2t(dealer, secrets, prng) ELSE TakenRow2t(q, dealer, prng)]

\* vandermonde_n_t.transpose() * crude: N - T rows of randomness.
ExtractRandom(crude) ==
    Seqn(N - T, LAMBDA i : Seqn(Cols(crude), LAMBDA j :
        Dot([k \in 1 .. N |-> vandermonde_n_t[k][i]], [k \in 1 .. N |-> crude[k][j]])))

Bundles(num) == num \div (N - T) + (IF num % (N - T) = 0 THEN 0 ELSE 1)

-----------------------------------------------------------------------------
(* Reference: polynomials through the values at the points 1 .. degree+1. *)

Lagrange ==
    [degree \in {T, 2 * T} |-> [x \in 0 .. N |-> [i \in 1 .. degree + 1 |->
        Product([k \in 1 .. degree + 1 |-> IF k = i THEN 1 ELSE Factor(k, x, i)])]]]
ValueAt(v, degree, x) == Dot(Lagrange[degree][x], v)
\* v, the sequence of all players' shares, lies on one of this degree.
OnCurve(v, degree) == \A x \in degree + 2 .. N : ValueAt(v, degree, x) = v[x]
=============================================================================
