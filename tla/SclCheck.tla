------------------------------ MODULE SclCheck ------------------------------
(***************************************************************************)
(* The secure computation library's fields, polynomials, linear systems    *)
(* and secret sharings, called on every input of small sets and compared   *)
(* with what they are meant to compute, and the same for the packed        *)
(* sharing and the integers of packed-ss-template.  A behaviour is one     *)
(* call: called holds its arguments, result what it returns.               *)
(***************************************************************************)
EXTENDS SclWire, NetworkConfig

CONSTANTS N, K,      \* parties, secrets per packed sharing
          T,         \* the threshold of Shamir's sharing
          Values,    \* the field elements secrets and randomness range over
          Width      \* bits of a word of the ring Z2k

ASSUME ShapeAssumption == K \in Nat \ {0} /\ N \in Nat /\ K <= N /\ T \in Nat \ {0}
\* The points of the secrets and of the shares are different field elements.
ASSUME PointsDiffer == N + K <= P /\ 3 * T + 1 < P
ASSUME ValuesAssumption == Values \subseteq Field

VARIABLES called, result

vars == <<called, result>>

Tuples(S, n) == [1 .. n -> S]
\* The packed sharing with Fourier transforms, over the field of 17 elements.
Pss == INSTANCE PackedSS WITH P <- 17, Root <- 3
PssShapes == {[l |-> 1, d |-> 2, n |-> 5], [l |-> 2, d |-> 4, n |-> 11], [l |-> 2, d |-> 3, n |-> 4],
              [l |-> 2, d |-> 2, n |-> 3], [l |-> 3, d |-> 6, n |-> 10], [l |-> 2, d |-> 4, n |-> 6]}
PssOf == [q \in PssShapes |-> Pss!OptimizedPSS(q)]
MatricesOf == [q \in PssShapes |-> [share |-> Pss!ShareMtx(q), recover |-> Pss!RecoverMtx(q)]]

\* Bytes of 4 values for integers.
Int4 == INSTANCE ScapiIntegers WITH Base <- 4

UpTo(S, n) == UNION {Tuples(S, m) : m \in 1 .. n}
Points == 3 * T + 1

Tasks ==
    [fn : {"field"}, a : Field, b : Field, word : {0, P - 1, P, P + 1, Word - 1}]
    \cup [fn : {"ring"}, v : 0 .. 2^Width - 1, k : 1 .. Width - 1]
    \cup [fn : {"parse"}, base : {2, 10, 16}, s : UpTo({0, 1, 7, 12, Bad}, 4)]
    \cup [fn : {"base64"}, s : Tuples({0, 17, 62, Bad, Pad64}, 4) \cup {<<0, 0, 0, 5>> \o s : s \in Tuples({0, 63, Pad64}, 4)}]
    \cup [fn : {"wire"}, ty : {FFType} \cup {Z2kType(k) : k \in {1, 3, 4, 5}}, v : UpTo({1, 11, P - 1}, MAX_READ_SIZE + 1) \cup {<<>>},
          shape : {<<0, 0>>, <<1, 3>>, <<3, 1>>, <<2, 2>>, <<3, 2>>}, beyond : {<<0, 0>>, <<Byte - 1, Byte - 1>>}]
    \cup [fn : {"config"}, me : 0 .. 3, lines : UpTo({BadLine} \cup {PartyEntry(id, "h", 9 - id) : id \in 0 .. 3}, 3)]
    \cup [fn : {"vector"}, u : UpTo(Values, 3), v : UpTo(Values, 3)]
    \cup [fn : {"matrix"}, A : Tuples(Tuples(Values, 2), 3)]
    \cup [fn : {"poly"}, p : UpTo(Values, 4), d : UpTo(Values, 3)]
    \cup [fn : {"linear"}, A : Tuples(Tuples(Values, 2), 2), b : Tuples(Values, 2)]
    \cup [fn : {"linear"}, A : Tuples(Tuples({0, 1}, 3), 3), b : {<<1, 2, 3>>, <<0, 1, 0>>}]
    \cup [fn : {"shamir"}, secret : Values, rnd : Tuples(Values, T), wrong : SUBSET (1 .. Points), by : {1, P - 2}]
    \cup [fn : {"additive"}, secret : Values, rnd : UpTo(Values, 3)]
    \cup UNION {[fn : {"packed"}, op : {"add", "sub", "mult"}, degree : {degree},
                 first : Tuples(Values, K), rnd : Tuples(Values, degree + 1 - K), second : Tuples(Values, K)]
                : degree \in K - 1 .. N - 1}
    \cup UNION {[fn : {"transform"}, q : {q}, pow : {Pss!nearest_pow(q), Pss!nearest_pow(q) - 1},
                 i : 0 .. Pss!Half(q) - 1, j : 0 .. Pss!Half(q) - 1] : q \in PssShapes}
    \cup [fn : {"product"}, q : PssShapes, a : UpTo({0, 1, 5}, 3), b : UpTo({0, 3}, 3)]
    \cup UNION {[fn : {"pss"}, q : {q}, secrets : UpTo({0, 12}, q.l), more : {"none", "random", "same"},
                 rnd : {<<3, 0, 16, 5, 2, 7, 1>>}, given : q.d + 1 .. q.n, wrong : 0 .. q.n]
                : q \in {s \in PssShapes : s.l + s.d < s.n + s.l}}
    \cup [fn : {"him"}, c : UpTo({0, 3, 5}, 3), m : 1 .. 3]
    \cup [fn : {"integer"}, v : -70 .. 70, min : {-3, 0, 2}, max : {2, 17}]
    \cup [fn : {"explode"}, s : UpTo({0, 1, 2}, 4)]
    \cup [fn : {"element"}, b : 0 .. 63, p : {2, 3, 7, 13, 17, 61}]

None == <<>>
Init == called \in {task \in Tasks : task.fn = "shamir" => Cardinality(task.wrong) <= T + 1} /\ result = None

Did(fn) == called.fn = fn /\ result # None
Call(fn, res) == called.fn = fn /\ result = None /\ result' = res /\ UNCHANGED called

CallField ==
    LET a == called.a
        b == called.b
    IN Call("field", [add |-> AddSimpleType(a, b), sub |-> SubtractSimpleType(a, b), neg |-> NegateSimpleType(a),
                      mult61 |-> Multiply61(a, b), mult127 |-> Multiply127(a, b),
                      inv |-> InverseModPrimeSimpleType(a), div |-> DivideFF(b, a), int |-> FromInt(a - b), read |-> FromBytes(called.word)])

CallRing ==
    LET a == (3 * called.v + 5) % Word
        b == called.v % Word
    IN Call("ring", [inv |-> InvertZ2k(called.v, called.k, Width), add |-> AddZ2k(a, b), sub |-> SubtractZ2k(a, b),
                     neg |-> NegateZ2k(b), mult |-> MultiplyZ2k(a, b), div |-> DivideZ2k(a, b, called.k)])

\* Numbers are read into words of 10 bits.
BaseName == [b \in {2, 10, 16} |-> CASE b = 2 -> "BINARY" [] b = 10 -> "DECIMAL" [] b = 16 -> "HEX"]
CallParse == Call("parse", [v |-> FromStringSimpleType(called.s, BaseName[called.base], 2^10)])
CallBase64 == Call("base64", [v |-> FromStringSimpleType(called.s, "BASE64", 2^20)])

\* A vector, a matrix, an std::vector of the same elements and the vector again,
\* one after the other on one channel.
WireMat == Mat(called.shape[1], called.shape[2], Vec(called.shape[1] * called.shape[2], LAMBDA i : (7 * i + Len(called.v)) % P))
CallWire ==
    LET ty == called.ty
        sent == SendVec(SendStl(SendMat(<<>>, ty, WireMat), called.v), ty, called.v)
        mat == RecvMat(sent, ty, called.beyond)
        stl == RecvStl(IF Threw(mat.got) THEN SendStl(<<>>, called.v) ELSE mat.chan, Len(called.v))
        vec == RecvVec(IF Threw(mat.got) THEN SendVec(<<>>, ty, called.v) ELSE stl.chan, ty, called.beyond)
    IN Call("wire", [mat |-> mat, stl |-> stl, vec |-> vec,
                     random |-> PartialRandom(ty, 3, 1 .. 3 \ {2}, <<<<Byte - 1, Byte - 1>>, <<2, 0>>>>),
                     all |-> VecRandom(ty, 2, <<<<1, 1>>, <<2, 0>>>>),
                     matRandom |-> MatRandom(ty, 1, 2, SubSeq(<<1, 1, 2, 0>>, 1, 2 * ByteSize(ty)), called.beyond)])

CallConfig ==
    Call("config", [loaded |-> Load(called.me, called.lines), local |-> Localhost(called.me, Len(called.lines), 7)])

CallVector ==
    Call("vector", [add |-> VecAddInPlace(called.u, called.v), sub |-> VecSubtractInPlace(called.u, called.v),
                    mult |-> VecMultiplyInPlace(called.u, called.v), dot |-> VecDot(called.u, called.u),
                    zero |-> NewMat(Len(called.u) - 1, 2), row |-> CheckedFromVector(1, Len(called.u), called.v),
                    addMat |-> MatAddInPlace(Mat(1, Len(called.u), called.u), Mat(Len(called.v), 1, called.v))])

CallMatrix ==
    LET A == called.A
        B == Transpose(A)
    IN Call("matrix", [product |-> MatMultiply(A, B), wrong |-> MatMultiply(A, A), back |-> Transpose(B),
                       resized |-> Resize(A, 2, 3), sum |-> MatAdd(A, A), difference |-> MatSubtract(A, A),
                       square |-> MatMultiplyEntryWise(A, A), twice |-> MatScalarMultiply(A, 2),
                       same |-> MatMultiply(A, Identity(2)), isOne |-> IsIdentity(MatMultiply(B, A).value)])

CallPoly ==
    LET p == Create(called.p)
        d == Create(called.d)
    IN Call("poly", [sum |-> PolyAdd(p, d), difference |-> PolySubtract(p, d), product |-> PolyMultiply(p, d),
                     divided |-> Divide(p, d)])

CallLinear == Call("linear", SolveLinearSystem(called.A, called.b))

Dealt == CreateShamirSharePolynomial(called.secret, T, called.rnd).value
\* The errors lie on a polynomial of degree T that is 0 at the first T honest
\* shares, so that the wrong shares fit a sharing of another secret.
Offset(i) ==
    LET honest == 1 .. Points \ called.wrong
        near == {h \in honest : Cardinality({g \in honest : g <= h}) <= T}
    IN FF(called.by * FProd(LAMBDA h : IF h \in near THEN i - h ELSE 1, Points))
Received ==
    LET shares == CreateShamirShares(Dealt, CanonicalAlphas(Points))
    IN Vec(Points, LAMBDA i : IF i \in called.wrong THEN FF(shares[i] + Offset(i)) ELSE shares[i])
CallShamir ==
    LET received == Received
        alphas == CanonicalAlphas(Points)
    IN Call("shamir", [passive |-> ReconstructShamirPassive(received, alphas, 0, T),
                       detecting |-> ReconstructShamir(SubSeq(received, 1, 2 * T + 1), alphas, 0, T),
                       robust |-> ReconstructShamirRobust(received, alphas, T)])

CallAdditive ==
    LET shares == CreateAdditiveShares(called.secret, Len(called.rnd) + 1, called.rnd).value
    IN Call("additive", [shares |-> shares, secret |-> ReconstructAdditive(shares)])

\* Two vectors of secrets are dealt, every party combines its two shares, and
\* the receiver rebuilds from all of them: the pattern of every round of the
\* multiplication protocol.  The second dealing has no randomness, as those of
\* the public mu values.
FirstShares == SharesFromEvPoly(EvPolyFromSecretsAndDegree(called.first, called.degree, called.rnd), N)
CallPacked ==
    LET a == FirstShares
        b == SharesFromEvPoly(EvPolyFromSecretsAndDegree(called.second, K - 1, <<>>), N)
        combined == CASE called.op = "add" -> VecAdd(a, b) [] called.op = "sub" -> VecSubtract(a, b)
                      [] called.op = "mult" -> VecMultiplyEntryWise(a, b)
    IN /\ called.fn = "packed"
       /\ called.op = "mult" => called.degree + K - 1 <= N - 1
       /\ Call("packed", [shares |-> a, rebuilt |-> SecretsFromSharesAndLength(combined, K)])

Sparse(pow, i, j) == Pss!Vec(2^pow, LAMBDA x : IF x % 2^(pow - 1) = i THEN 1 + x ELSE IF x = j THEN 5 ELSE 0)
CallTransform ==
    LET c == Sparse(called.pow, called.i, called.j)
        g == Pss!GenOf(called.pow, called.q)
        at == Pss!DFT(c, called.pow, called.q)
    IN Call("transform", [at |-> at, preserved |-> Pss!PreserveInDFT(c, called.pow, called.q),
                          part |-> Pss!DFTRange(c, called.pow, called.i, Len(c), called.q),
                          vdm |-> Pss!VDMMatrixMult(Pss!InitVDMByVector(Len(c), Len(c), Pss!Vec(Len(c), LAMBDA x : Pss!Power(g, x))), c, Len(c)),
                          roots |-> Pss!generateRoots(g, called.pow, called.pow),
                          back |-> Pss!InvDFT(at, called.pow, called.j + 1, called.q)])
CallProduct == Call("product", [ab |-> Pss!polyMult(called.a, called.b, called.q)])
\* The secrets of the objects: set, and then generated on top.
Held ==
    LET set == Pss!setSecrets(called.secrets, called.q)
    IN CASE called.more = "none" -> set
         [] called.more = "random" -> Pss!generateRandomSecrets(set, called.rnd, called.q)
         [] called.more = "same" -> Pss!generateRandomDupSecret(set, called.rnd[1], called.q)
HeldMtx == IF called.more = "random" THEN Pss!GenerateRandomSecretsMtx(called.rnd, called.q) ELSE Pss!SetSecretsMtx(called.secrets, called.q)
CallPss ==
    LET q == called.q
        shares == Pss!secretShareValues(Held, called.rnd, PssOf[q], q)
        byMatrix == Pss!SecretShareValuesMtx(HeldMtx, called.rnd, MatricesOf[q].share, q)
        shared == Pss!Constructed(q) /\ Len(Held) <= q.d + 1
        received(s) == Pss!Vec(called.given, LAMBDA i : IF i + 1 = called.wrong THEN (s[i + 1] + 1) % 17 ELSE s[i + 1])
        recovered == Pss!RecoverSSMtx(received(byMatrix), MatricesOf[q].recover, q)
    IN \E wild \in {0, 1} :
           Call("pss", [shares |-> shares, matrixShares |-> byMatrix,
                        opened |-> IF shared THEN Pss!recoverSS(received(shares), wild, PssOf[q], q) ELSE shares,
                        matrixOpened |-> recovered.result,
                        again |-> Pss!SecretShareValuesMtx(recovered.secrets, called.rnd, MatricesOf[q].share, q)])

\* A polynomial is evaluated at 1, 2, ... with powers, and from its values at
\* 0, 1, ... at the points that follow with a hyper-invertible matrix.
Horner(c, x) == LET v[i \in 0 .. Len(c)] == IF i = 0 THEN 0 ELSE (v[i - 1] * x + c[Len(c) + 1 - i]) % 17 IN v[Len(c)]
CallHim ==
    LET c == called.c
        n == Len(c)
        values == Pss!Vec(n, LAMBDA i : Horner(c, i))
        him == Pss!InitHIM(called.m, n)
        sized(dims) == Pss!InitHIMByVectors(dims, Pss!Vec(n, LAMBDA i : i), Pss!Vec(called.m, LAMBDA i : n + i))
    IN Call("him", [him |-> Pss!calcMinPoly(values, him, [l |-> n]), short |-> Pss!calcMinPoly(values, him, [l |-> n + 1]),
                    vdm |-> Pss!VDMMatrixMult(Pss!InitVDM(called.m, n), c, n),
                    sized |-> <<sized(Pss!Unset), sized(<<called.m + 1, n>>), sized(<<called.m, n + 1>>)>>])

Written(v, length) == Int4!encodeBigInteger(v, [i \in 1 .. length |-> 0])
CallInteger ==
    LET v == called.v
        bytes == Written(v, Int4!bytesCount(v))
    IN Call("integer", [bytes |-> bytes, back |-> Int4!decodeBigInteger(bytes), bits |-> Int4!NumberOfBits(v),
                        random |-> Int4!getRandomInRange(called.min, called.max, bytes),
                        fast |-> Int4!fastGetRandomInRange(called.max, bytes)])
CallExplode == Call("explode", [parts |-> Int4!explode(called.s, 0)])
CallElement ==
    LET e == Int4!Random(called.b % 16, called.b, 3, called.p)
        bytes == Int4!elementToBytes(e, called.p)
    IN Call("element", [e |-> e, bytes |-> bytes, back |-> Int4!bytesToElement(bytes, called.p)])

Next ==
    \/ CallTransform \/ CallProduct \/ CallPss \/ CallHim \/ CallInteger \/ CallElement
    \/ CallExplode
    \/ CallWire \/ CallConfig \/ CallVector \/ CallField \/ CallRing \/ CallParse \/ CallBase64 \/ CallMatrix \/ CallPoly \/ CallLinear
    \/ CallShamir \/ CallAdditive \/ CallPacked

Spec == Init /\ [][Next]_vars

-----------------------------------------------------------------------------
(* What the calls are meant to compute.                                    *)

\* The conditional subtractions, the folding of double words and Euclid's loop
\* are arithmetic modulo P with results below P, for both Mersenne fields; an
\* odd number has the inverse modulo 2^k that the doubling finds, for every k.
RingsRight ==
    /\ Did("field") =>
           LET a == called.a
               b == called.b
           IN /\ result.add = FF(a + b) /\ result.sub = FF(a - b) /\ result.neg = FF(-a)
              /\ result.mult61 = FF(a * b) /\ result.mult127 = FF(a * b)
              /\ result.int = FF(a - b) /\ result.read = FF(called.word)
              /\ (IF a = 0 THEN Threw(result.div) ELSE FF(result.div.value * a) = b)
              /\ (IF a = 0 THEN Threw(result.inv) ELSE result.inv.value \in Field /\ FF(result.inv.value * a) = 1)
    /\ Did("ring") =>
           LET a == 3 * called.v + 5
               Same(x, y) == called.k <= 2 * H => EqualZ2k(x, y, called.k)
           IN /\ Same(result.add, a + called.v) /\ Same(result.sub, a - called.v) /\ Same(result.neg, -called.v)
              /\ Same(result.mult, a * called.v)
              /\ IF called.v % 2 = 0 THEN Threw(result.inv) /\ Threw(result.div)
                 ELSE EqualZ2k(result.inv.value * called.v, 1, called.k) /\ Same(result.div.value * called.v, a)

\* Reference: the number written with these digits.
Positional(s, base) ==
    LET value[i \in 0 .. Len(s)] == IF i = 0 THEN 0 ELSE value[i - 1] * base + s[i] IN value[Len(s)]
Given(s) == SelectSeq(s, LAMBDA d : d # Pad64)
\* Integers of scapi come back from their bytes, with their sign, in the shortest
\* length that allows it, random ones within their bounds, and field elements
\* from theirs; a list is cut at its delimiters and nowhere else.
IntegersRight ==
    /\ Did("integer") =>
           LET v == called.v
           IN /\ result.back = v
              /\ Len(result.bytes) > 1 => Int4!decodeBigInteger(Written(v, Len(result.bytes) - 1)) # v
              /\ v # 0 => (IF v < 0 THEN -v ELSE v) \in 2^(result.bits - 1) .. 2^result.bits - 1
              /\ result.random \in called.min .. called.max /\ result.fast \in 1 .. called.max
    /\ Did("element") => result.e \in 0 .. called.p - 1 /\ result.back = result.e
    /\ Did("explode") =>
           LET s == called.s
               starts == {i \in 1 .. Len(s) : s[i] # 0 /\ (i = 1 \/ s[i - 1] = 0)}
               flat[i \in 0 .. Len(result.parts)] == IF i = 0 THEN <<>> ELSE flat[i - 1] \o result.parts[i]
           IN Len(result.parts) = Cardinality(starts) /\ flat[Len(result.parts)] = SelectSeq(s, LAMBDA c : c # 0)

\* A string is read as the number its digits write, modulo the word, and is
\* refused when it has a character that is no digit; base64 reads a whole number
\* of bytes, most significant first, with one or two '=' at the end only.  What is
\* sent on a channel, one typed message after the other, is what is received,
\* whatever lies behind the buffers a ring element is read from as a whole word
\* (z2k/details.h:113), and a vector or matrix is refused exactly above the limit
\* (channel.h:195, :213; rows times columns below the size of a word).  A
\* configuration is accepted when it has every id below its size once; only with
\* its lines in the order of the ids does GetParty find a party (config.h:131).
\* Integers and field elements of scapi come back from their bytes.
ParsedRight ==
    /\ Did("wire") =>
           LET ty == called.ty
               Elements == IF ty.of = "FF" THEN Field ELSE 0 .. 2^ty.k - 1
           IN /\ result.stl.got = called.v
              /\ IF Len(called.v) > MAX_READ_SIZE THEN Threw(result.vec.got)
                 ELSE VecEquals(ty, result.vec.got.value, called.v) /\ result.vec.chan = <<>>
              /\ IF called.shape[1] * called.shape[2] > MAX_READ_SIZE THEN Threw(result.mat.got)
                 ELSE MatEquals(ty, result.mat.got.value, WireMat)
              /\ result.random[2] = 0 /\ \A i \in 1 .. 3 : result.random[i] \in Elements
              /\ result.random[3] = result.all[2]
              /\ ByteSize(ty) = 2 => result.matRandom.values = result.all
              /\ \A i \in 1 .. 2 : result.matRandom.values[i] \in Elements
    /\ Did("config") =>
           LET n == Len(called.lines)
               Ids == {called.lines[i].id : i \in 1 .. n}
               config == result.loaded.value
               inOrder == \A i \in 1 .. n : called.lines[i].id = i - 1
           IN /\ Threw(result.loaded) <=> BadLine \in {called.lines[i] : i \in 1 .. n} \/ called.me >= n \/ Ids # 0 .. n - 1
              /\ ~Threw(result.loaded) => (inOrder <=> \A id \in 0 .. n - 1 : GetParty(config, id).id = id)
              /\ IF called.me >= n THEN Threw(result.local)
                 ELSE \A id \in 0 .. n - 1 : GetParty(result.local.value, id) = PartyEntry(id, "127.0.0.1", 7 + id)
    /\ Did("parse") =>
           IF Wrong(called.s, called.base) \/ (called.base = 16 /\ Len(called.s) % 2 = 1) THEN Threw(result.v)
           ELSE result.v.value = Positional(called.s, called.base) % 2^10
    /\ Did("base64") =>
           LET s == called.s
               given == Given(s)
               n == Len(given)
           IN IF \/ \E i \in 1 .. Len(s) : s[i] = Bad
                 \/ Len(s) - n > 2 \/ given # SubSeq(s, 1, n)
              THEN Threw(result.v)
              ELSE result.v.value = (Positional(given, 64) \div 2^((6 * n) % 8)) % 2^20
    /\ IntegersRight

EntriesRight(A, B) == \A i \in 1 .. 3, j \in 1 .. 3 : B[i][j] = VecDot(A[i], A[j])
Solves(A, x, b) == \A i \in 1 .. Len(b) : VecDot(A[i], x) = b[i]
\* Products, transposes and resizing of matrices keep every entry where it
\* belongs; a quotient and a remainder below the divisor make up the dividend,
\* with no leading zeros anywhere (Degree counts coefficients); a solution of a
\* linear system is found exactly when the rows are independent, and solves it,
\* whatever exchanges of rows the elimination needed.
LinearAlgebraRight ==
    /\ Did("vector") =>
           LET u == called.u
               v == called.v
           IN /\ Threw(result.zero) <=> Len(u) = 1
              /\ IF Len(u) # Len(v) THEN \A f \in {"add", "sub", "mult", "row", "addMat"} : Threw(result[f])
                 ELSE /\ VecSubtractInPlace(result.add.value, v).value = u /\ VecAddInPlace(result.sub.value, v).value = u
                      /\ FF(VecSum(result.mult.value) * 4) = FF(VecDot(result.add.value, result.add.value)
                                                              - VecDot(result.sub.value, result.sub.value))
                      /\ Threw(result.addMat) <=> Len(u) # 1
    /\ Did("matrix") =>
           LET A == called.A
           IN /\ EntriesRight(A, result.product.value) /\ Threw(result.wrong) /\ result.back = A
              /\ result.same.value = A /\ ToVector(result.resized.value) = ToVector(A)
              /\ result.sum = result.twice /\ \A i \in 1 .. 3 : VecSum(result.difference[i]) = 0
              /\ \A i \in 1 .. 3 : VecSum(result.square[i]) = result.product.value[i][i]
              /\ result.isOne <=> \A i, j \in 1 .. 2 : VecDot(Column(A, i), Column(A, j)) = IF i = j THEN 1 ELSE 0
    /\ Did("poly") =>
           LET p == Create(called.p)
               d == Create(called.d)
           IN /\ \A x \in Field : /\ PolyEvaluate(result.sum, x) = FF(PolyEvaluate(p, x) + PolyEvaluate(d, x))
                                  /\ PolyEvaluate(result.product, x) = FF(PolyEvaluate(p, x) * PolyEvaluate(d, x))
              /\ PolyAdd(result.difference, d) = p
              /\ IF d = <<0>> THEN Threw(result.divided)
                 ELSE LET q == result.divided.value[1]
                          r == result.divided.value[2]
                      IN PolyAdd(PolyMultiply(q, d), r) = p /\ (r = <<0>> \/ Len(r) < Len(d))
    /\ Did("linear") =>
           LET A == called.A
               n == Len(A)
               singular == \E x \in Tuples(Field, n) : (\E i \in 1 .. n : x[i] # 0) /\ Solves(A, x, Vec(n, LAMBDA i : 0))
           IN /\ result.found => Solves(A, result.x, called.b)
              /\ n = 2 => (result.found <=> ~singular)

\* The field, the rings and what is built on them: numbers, vectors, matrices,
\* polynomials and linear systems of SCL agree with their definitions.
AlgebraRight == RingsRight /\ LinearAlgebraRight

\* With up to T wrong shares among 2T+1 reconstruction never returns a wrong
\* secret, and among 3T+1 it returns the dealt polynomial and a locator that is
\* 0 exactly at the wrong shares; a polynomial returned for more errors still
\* goes through every share the locator does not blame.
ShamirRight ==
    /\ Did("shamir") =>
           LET errors(n) == called.wrong \cap 1 .. n
               robust == result.robust.value
           IN /\ errors(T + 1) = {} => result.passive.value = called.secret
              /\ (Cardinality(errors(2 * T + 1)) <= T /\ ~Threw(result.detecting)) => result.detecting.value = called.secret
              /\ errors(2 * T + 1) = {} => ~Threw(result.detecting)
              /\ Cardinality(errors(Points)) <= T =>
                     /\ ~Threw(result.robust) /\ robust.p = Dealt
                     /\ \A i \in 1 .. Points : PolyEvaluate(robust.locator, FF(i)) = 0 <=> i \in errors(Points)
              /\ ~Threw(result.robust) =>
                     \A i \in 1 .. Points : \/ PolyEvaluate(robust.locator, FF(i)) = 0
                                            \/ PolyEvaluate(robust.p, FF(i)) = Received[i]
    /\ Did("additive") => result.secret = called.secret /\ Len(result.shares) = Len(called.rnd) + 1

\* Rebuilding a packed sharing from all N shares yields slot by slot the sum,
\* the difference or the product of the dealt secrets at every degree up to N-1
\* in total, and a sharing of degree d is determined by its first d+1 shares
\* (test_fd_prep.cc rebuilds from n-k+1 of n shares).
SlotwiseRight ==
    Did("packed") =>
        LET some == SubSeq(result.shares, 1, called.degree + 1)
            combined(a, b) == CASE called.op = "add" -> FF(a + b) [] called.op = "sub" -> FF(a - b)
                                [] called.op = "mult" -> FF(a * b)
        IN /\ \A i \in 1 .. K : result.rebuilt[i] = combined(called.first[i], called.second[i])
           /\ \A i \in 1 .. N : SecretFromPointAndShares(i, some) = result.shares[i]
           /\ SecretsFromSharesAndLength(some, K) = called.first

\* In place or not, a transform evaluates at the powers of its root in order,
\* and its inverse gives the coefficients back; products are those of the
\* polynomials; the secrets and all shares of OptimizedPSS lie on one polynomial
\* of degree d at the roots in their order.  Both implementations recover the
\* secrets from any d+1 .. n first shares, padding missing secrets each its own
\* way, and refuse shares of which one is wrong whenever there is one to spare
\* (OptimizedPSS: as long as the shares it interpolates from are at even roots;
\* with d + 1 beyond half of the roots it cannot be constructed at all, and
\* PackedSecretShare can).  What PackedSecretShare recovers it holds, and shares
\* again like the secrets it was given.  A matrix is filled only when the points
\* fit the dimensions it was constructed with.
TransformsRight ==
    /\ Did("transform") =>
           LET c == Sparse(called.pow, called.i, called.j)
               g == Pss!GenOf(called.pow, called.q)
           IN /\ \A x \in 1 .. Len(c) : result.at[x] = Horner(c, Pss!Power(g, x - 1))
              /\ result.part = SubSeq(result.at, called.i + 1, Len(c)) /\ result.vdm = result.at
              /\ \A e \in 0 .. called.pow :
                     {result.roots[x] : x \in 1 .. 2^e} = {x \in 1 .. 16 : Pss!Power(x, 2^e) = 1}
              /\ result.preserved = result.at /\ result.back = SubSeq(c, 1, called.j + 1)
    /\ Did("product") =>
           IF Len(called.a) + Len(called.b) - 1 > 2 * Pss!Half(called.q) THEN result.ab = Pss!Refused
           ELSE \A x \in 0 .. 16 : Horner(result.ab, x) = (Horner(called.a, x) * Horner(called.b, x)) % 17
    /\ Did("pss") =>
           LET q == called.q
               right(opened, secrets) == IF called.wrong \notin 1 .. called.given THEN opened = SubSeq(secrets, 1, q.l)
                                         ELSE called.given > q.d + 1 => opened = Pss!Refused
               points == Held \o SubSeq(called.rnd, 1, q.l - Len(Held))
               all == SubSeq(points, 1, q.l) \o result.shares
               coeffs == Pss!ptToCoeff(SubSeq(all, 1, q.d + 1), TRUE, PssOf[q], q)
           IN /\ Len(result.matrixShares) = q.n
              /\ IF ~Pss!Constructed(q) THEN result.shares = Pss!OutOfBounds
                 ELSE IF Len(Held) > q.d + 1 THEN result.shares = Pss!Refused
                 ELSE /\ Len(result.shares) = q.n
                      /\ \A i \in 1 .. q.l + q.n : Horner(coeffs, Pss!roots(q)[i]) = all[i]
                      /\ q.l + q.d + 1 <= Pss!Half(q) => right(result.opened, points)
              /\ right(result.matrixOpened, HeldMtx \o Pss!Vec(q.l, LAMBDA i : 0))
              /\ called.wrong \notin 1 .. called.given => result.again = result.matrixShares
    /\ Did("him") =>
           /\ \A i \in 1 .. called.m : result.him[i] = Horner(called.c, Len(called.c) + i - 1)
           /\ \A i \in 1 .. called.m : result.vdm[i] = Horner(called.c, i)
           /\ result.short = Pss!Refused /\ \A i \in 1 .. 3 : result.sized[i] = Pss!Refused

\* The three packed sharings of the repository, packed.h, OptimizedPSS and
\* PackedSecretShare, give back what was dealt or computed on.
PackedRight == SlotwiseRight /\ TransformsRight
=============================================================================
