----------------------------- MODULE HmProtocol -----------------------------
(***************************************************************************)
(* hmmpc's protocols among N parties that all run the same program         *)
(* (Protocols/Share.cpp, ShareBundle.cpp, RandomShare.cpp, PhaseConfig.cpp *)
(* and the programs of UnitTest.cpp).  An instruction is a call on a       *)
(* bundle; Steps gives, for each, the points at which a party may be       *)
(* overtaken by the others, and each such step is an action.  Instruction  *)
(* i works on register i.  The parties share nothing but the seed of       *)
(* PRNG_agreed, which they have to consume in step, and the messages.      *)
(*                                                                         *)
(* The networking layer (Networking/Player.h) is external: what is sent to *)
(* a party arrives in order, sending never waits, nothing is sent to       *)
(* oneself, and a receive waits for its message.                           *)
(***************************************************************************)
EXTENDS HmSharing, FiniteSets, Functions, TLC

CONSTANTS Programs,  \* records [code, prg, trueOffline, disperse]
          Seeds,     \* what the generators are seeded with
          Size,      \* elements (rows) of a bundle
          Input      \* Input[k][i]: the secrets player k holds for register i

VARIABLES prog,      \* the program, with its seed
          party,     \* the state of every party
          chan       \* chan[q][p]: messages from q to p that p has not taken

vars == <<prog, party, chan>>

NoVector == <<>>
NotAborted == Len(prog.code) + 1   \* instead of the instruction that aborted
Zeros(n) == [j \in 1 .. n |-> 0]
Register == [shares |-> NoVector, aux |-> NoVector, secrets |-> NoVector, degree |-> T]

\* Element k of the agreed stream, and of a party's own secure_prng.
PRNG_agreed(k) == (k * k + prog.seed * k + 3) % PR
secure_prng(p, k) == (2 * k * k + k + 3 * p + prog.seed) % PR

\* random_matrix: row after row, from position pos on.
AgreedMatrix(pos, rows, cols) ==
    Matrix(rows, cols, LAMBDA i, j : PRNG_agreed(pos + (i - 1) * cols + j))
SecureMatrix(p, pos, rows, cols) ==
    Matrix(rows, cols, LAMBDA i, j : secure_prng(p, pos + (i - 1) * cols + j))

-----------------------------------------------------------------------------
(* The steps of every operation.                                           *)

\* RandomShare::generate_random_sharings[_PRG], DoubleRandom::generate_reduced...
generate_random_sharings ==
    IF prog.prg THEN <<"randomsRequestPRG", "randomsFinishPRG">>
    ELSE <<"randomsRequest", "randomsFinish">>
generate_reduced_random_sharings ==
    IF prog.prg THEN <<"pairsRequestPRG", "pairsAuxPRG", "pairsFinishPRG">>
    ELSE <<"pairsRequest", "pairsFinish">>

\* What random() and reduced_random() do before they take from the queue.
Prepared(generation) ==
    IF prog.trueOffline THEN <<>> ELSE <<"switchToOffline">> \o generation \o <<"switchToOnline">>

reveal_blocks_dispersed == <<"revealRequest", "revealFinish">>
input_blocks_dispersed_PRG == <<"blocksRequestPRG", "blocksFinishPRG">>
input_blocks_dispersed == <<"blocksRequest", "blocksFinish">>
reveal_dispersed == reveal_blocks_dispersed \o <<"secretsRequest", "secretsFinish">>
reveal_truncate_dispersed == reveal_blocks_dispersed \o <<"secretsRequestTruncated", "secretsFinish">>
\* Share::reveal, and ShareBundle::reveal without DISPERSE_PKING.
share_reveal == <<"revealToPking", "revealFromPking">>
reveal == IF prog.disperse THEN reveal_dispersed ELSE share_reveal
reveal_truncate ==
    IF prog.disperse THEN reveal_truncate_dispersed ELSE <<"revealToPking", "revealTruncatedFromPking">>

\* ShareBundle::reduce_degree and Share::reduce_degree, after a local product.
reduce_degree_with(generation) ==
    generation \o <<"mask">> \o reveal_blocks_dispersed \o input_blocks_dispersed_PRG \o <<"unmask">>
reduce_degree == reduce_degree_with(Prepared(generate_reduced_random_sharings))
share_reduce_degree == <<"mask">> \o share_reveal \o <<"unmaskOpened">>

\* RandomShare::generate_random_bits calls R.random() in the offline phase.
generate_random_bits ==
    (IF prog.trueOffline THEN <<>> ELSE generate_random_sharings) \o <<"squareRandoms">> \o reveal \o <<"pushBits">>

\* DoubleRandom::generate_[reduced_]truncated_random_sharings: bits.random(),
\* in the offline phase.
generate_truncated_random_sharings ==
    (IF prog.trueOffline THEN <<>> ELSE generate_random_bits) \o <<"pushTruncated">>

\* ShareBundle's truncate, reduce_truncate and their versions with a precision.
\* For queueReducedTruncatedWithPrecisionRandom nothing is generated on demand.
truncation(m, local) ==
    (IF m.op = "multTruncateBy" THEN <<>> ELSE Prepared(generate_truncated_random_sharings))
        \o <<local, "maskTruncated">> \o reveal_truncate \o <<"unmaskTruncated">>
truncate(m) == truncation(m, "copy")
reduce_truncate(m) == truncation(m, "product")
\* Share's: everybody truncates what the king opened.
share_truncate == <<"copy", "maskTruncated">> \o share_reveal \o <<"unmaskTruncatedOpened">>
share_reduce_truncate == <<"product", "maskTruncated">> \o share_reveal \o <<"unmaskTruncatedOpened">>

\* DoubleRandom::generate_unbounded_random_sharings, of one product of num
\* factors or of one per row, in the offline phase, and the products with what
\* it has made.
generate_unbounded_random_sharings ==
    (IF prog.trueOffline THEN <<>> ELSE generate_random_sharings) \o <<"blindProducts">>
        \o reduce_degree_with(IF prog.trueOffline THEN <<>> ELSE generate_reduced_random_sharings)
        \o <<"keepSquares">> \o reveal \o <<"pushUnbounded">>
unbounded_prefix_mult ==
    Prepared(generate_unbounded_random_sharings) \o <<"blind">> \o reveal \o <<"prefixProducts">>

\* PhaseConfig::generate_random.
generate_random(m) ==
    (IF m.randoms > 0 THEN generate_random_sharings ELSE <<>>)
        \o (IF m.pairs > 0 THEN generate_reduced_random_sharings ELSE <<>>)

\* Share's inputs, and DoubleShare's.
share_input == <<"input">>
share_input_PRG == <<"inputPRG">>
double_input_from_random == <<"inputDouble">>
double_input_from_random_PRG == <<"inputPRG", "inputAuxPRG">>
\* DoubleShareBundle's input, at once or with the 2t half between the request
\* and the wait for the t half.
bundle_input_from_random_PRG(m) ==
    IF m.op = "doubleBundlePRG" THEN <<"inputPRG", "inputAuxPRG">>
    ELSE <<"inputRequestPRG", "inputAuxPRG", "inputFinishPRG">>

Phases == {"startOffline", "endOffline", "startOnline", "endOnline", "clearStatus"}

Steps(m) ==
    CASE m.op = "generate"          -> generate_random(m)
      [] m.op = "generateBits"      -> generate_random_bits
      [] m.op = "generateTruncated" -> generate_truncated_random_sharings
      [] m.op \in Phases            -> <<m.op>>
      [] m.op = "input"             -> share_input
      [] m.op = "inputThreaded"     -> <<"inputRequest", "inputFinish">>
      [] m.op = "inputPRG"          -> share_input_PRG
      [] m.op = "inputThreadedPRG"  -> <<"inputRequestPRG", "inputFinishPRG">>
      [] m.op = "double"            -> double_input_from_random
      [] m.op = "doublePRG"         -> double_input_from_random_PRG
      [] m.op \in {"doubleBundlePRG", "doubleThreadedPRG"} -> bundle_input_from_random_PRG(m)
      [] m.op = "pairs"             -> Prepared(generate_reduced_random_sharings) \o <<"getPairs">>
      [] m.op = "generateUnbounded" -> generate_unbounded_random_sharings
      [] m.op \in {"prefixMult", "postfixMult"} -> unbounded_prefix_mult
      [] m.op = "communication"     -> <<"communicationRequest", "communicationFinish">>
      [] m.op = "random"            -> Prepared(generate_random_sharings) \o <<"getRandoms">>
      [] m.op = "bits"              -> Prepared(generate_random_bits) \o <<"getBits">>
      [] m.op = "mult"              -> <<"product">> \o reduce_degree
      [] m.op = "shareMult"         -> <<"product">> \o share_reduce_degree
      [] m.op = "reshare"           -> <<"copy">> \o reveal_blocks_dispersed \o input_blocks_dispersed
      [] m.op \in {"reveal", "revealAux"} -> <<"copy">> \o reveal
      [] m.op = "revealTruncate"    -> <<"copy">> \o reveal_truncate
      [] m.op = "shareReveal"       -> <<"copy">> \o share_reveal
      [] m.op \in {"truncate", "truncateBy"} -> truncate(m)
      [] m.op \in {"multTruncate", "multTruncateML", "multTruncateBy"} -> reduce_truncate(m)
      [] m.op = "shareTruncate"     -> share_truncate
      [] m.op \in {"shareMultTruncate", "shareMultTruncateBy"} -> share_reduce_truncate

-----------------------------------------------------------------------------
(* Where a party is, and what a step may do to it and to the channels.     *)

Done(p) == party[p].i > Len(prog.code)
Instr(p) == prog.code[party[p].i]
At(p, step) == ~Done(p) /\ Steps(Instr(p))[party[p].k] = step
Reg(p) == party[p].reg[party[p].i]
Msg(q, p) == Head(chan[q][p])
Others(p) == Players \ {p}
ToNobody == [q \in {} |-> <<>>]

Advanced(s) ==
    IF s.k < Len(Steps(prog.code[s.i])) THEN [s EXCEPT !.k = @ + 1] ELSE [s EXCEPT !.i = @ + 1, !.k = 1]

\* Party p, now in state s, goes on, having sent out[q] to every q of its
\* domain and taken a message of each party of from; the elements it has sent
\* are counted, or not (send_all_no_stats).
ContinueNoStats(p, s, out, from) ==
    /\ \A q \in from : chan[q][p] # <<>>
    /\ party' = [party EXCEPT ![p] = Advanced(s)]
    /\ chan' = [a \in Players |-> [b \in Players |->
                  IF a = p /\ b \in DOMAIN out THEN Append(chan[a][b], out[b])
                  ELSE IF b = p /\ a \in from THEN Tail(chan[a][b]) ELSE chan[a][b]]]
    /\ UNCHANGED prog
Continue(p, s, out, from) ==
    ContinueNoStats(p, [s EXCEPT !.sent = @ + FoldFunction(LAMBDA o, n : Len(o) + n, 0, out)], out, from)

Locally(p, s) == Continue(p, s, ToNobody, {})
WithReg(p, r) == [party[p] EXCEPT !.reg[party[p].i] = r]

-----------------------------------------------------------------------------
(* Phases.                                                                 *)

\* A phase starts with nothing sent, and adds what was sent to its total.
start_offline(s) == [s EXCEPT !.offline = TRUE, !.sent = 0]
end_offline(s) == [s EXCEPT !.offline = FALSE, !.offlineSent = @ + s.sent]
start_online(s) == [s EXCEPT !.online = TRUE, !.sent = 0]
end_online(s) == [s EXCEPT !.online = FALSE, !.onlineSent = @ + s.sent]

StartOffline(p) == At(p, "startOffline") /\ Locally(p, start_offline(party[p]))
EndOffline(p) == At(p, "endOffline") /\ Locally(p, end_offline(party[p]))
StartOnline(p) == At(p, "startOnline") /\ Locally(p, start_online(party[p]))
EndOnline(p) == At(p, "endOnline") /\ Locally(p, end_online(party[p]))

\* Offline already, the call generates without switching; otherwise it asserts
\* that the online phase runs.
SwitchToOffline(p) ==
    /\ At(p, "switchToOffline")
    /\ \/ party[p].offline /\ Locally(p, [party[p] EXCEPT !.switched = FALSE])
       \/ ~party[p].offline /\ party[p].online
          /\ Locally(p, [start_offline(end_online(party[p])) EXCEPT !.switched = TRUE])
SwitchToOnline(p) ==
    /\ At(p, "switchToOnline")
    /\ \/ ~party[p].switched /\ Locally(p, party[p])
       \/ party[p].switched /\ party[p].offline /\ Locally(p, start_online(end_offline(party[p])))

ClearStatus(p) ==
    At(p, "clearStatus") /\ Locally(p, [party[p] EXCEPT !.offlineSent = 0, !.onlineSent = 0])

\* get_global_communication, print_offline_communication and
\* print_online_communication: everybody's total to everybody.
NSent(p, phase) ==
    (IF phase # "online" THEN party[p].offlineSent ELSE 0) + (IF phase # "offline" THEN party[p].onlineSent ELSE 0)
CommunicationRequest(p) ==
    /\ At(p, "communicationRequest")
    /\ ContinueNoStats(p, party[p], [q \in Others(p) |-> <<NSent(p, Instr(p).phase)>>], {})
CommunicationFinish(p) ==
    LET global == FoldFunction(LAMBDA o, n : o + n, NSent(p, Instr(p).phase), [q \in Others(p) |-> Msg(q, p)[1]])
    IN /\ At(p, "communicationFinish")
       /\ ContinueNoStats(p, WithReg(p, [Register EXCEPT !.secrets = <<global>>]), ToNobody, Others(p))

-----------------------------------------------------------------------------
(* Inputs.  The dealer's secrets are given, or drawn from its generator.   *)

SecretDraws(m) == IF m.drawn THEN m.size ELSE 0
Secrets(p, m) ==
    IF m.drawn THEN Flat(SecureMatrix(p, party[p].secure, 1, m.size))
    ELSE SubSeq(Input[p][party[p].i], 1, m.size)

\* calculate_sharings for secrets, its coefficients drawn from position pos on.
Sharings(p, secrets, degree, pos) ==
    CalculateSharings(secrets, degree, SecureMatrix(p, pos, degree, Len(secrets)))

\* The dealer's half of an input: its own share is kept, the others' sent.
Distribute(p, m) ==
    LET secrets  == Secrets(p, m)
        sharings == Sharings(p, secrets, m.degree, party[p].secure + SecretDraws(m))
    IN Continue(p, [WithReg(p, [Register EXCEPT !.shares = sharings[p], !.secrets = secrets, !.degree = m.degree])
                       EXCEPT !.secure = @ + SecretDraws(m) + m.degree * m.size],
                [q \in Others(p) |-> sharings[q]], {})

\* input_from_party, input_from_file, input_from_random, input_from_pking.
InputFromParty(p) ==
    LET m == Instr(p)
    IN /\ At(p, "input")
       /\ \/ p = m.from /\ Distribute(p, m)
          \/ p # m.from
             /\ Continue(p, WithReg(p, [Register EXCEPT !.shares = Msg(m.from, p), !.degree = m.degree]),
                         ToNobody, {m.from})

InputRequest(p) ==
    LET m == Instr(p)
    IN /\ At(p, "inputRequest")
       /\ \/ p = m.from /\ Distribute(p, m)
          \/ p # m.from /\ Locally(p, WithReg(p, [Register EXCEPT !.degree = m.degree]))

FinishInput(p) ==
    LET m == Instr(p)
    IN /\ At(p, "inputFinish")
       /\ \/ p = m.from /\ Locally(p, party[p])
          \/ p # m.from
             /\ Continue(p, WithReg(p, [Reg(p) EXCEPT !.shares = Msg(m.from, p)]), ToNobody, {m.from})

\* DoubleShare[Bundle]::input_from_random and input_from_ath_random: a second
\* sharing, of degree 2t or of the secret's power, in the same message.
InputDouble(p) ==
    LET m == Instr(p)
        secrets == Secrets(p, m)
        pos == party[p].secure + SecretDraws(m)
        first == Sharings(p, secrets, T, pos)
        aux == Sharings(p, [j \in 1 .. m.size |-> Pow(secrets[j], m.exp)], m.auxDegree, pos + T * m.size)
    IN /\ At(p, "inputDouble")
       /\ \/ /\ p = m.from
             /\ Continue(p, [WithReg(p, [Register EXCEPT !.shares = first[p], !.aux = aux[p], !.secrets = secrets])
                                EXCEPT !.secure = pos + (T + m.auxDegree) * m.size],
                         [q \in Others(p) |-> first[q] \o aux[q]], {})
          \/ /\ p # m.from
             /\ Continue(p, WithReg(p, [Register EXCEPT !.shares = SubSeq(Msg(m.from, p), 1, m.size),
                                          !.aux = SubSeq(Msg(m.from, p), m.size + 1, 2 * m.size)]),
                         ToNobody, {m.from})

-----------------------------------------------------------------------------
(* Inputs with help of PRNG_agreed.  Of a t-sharing players 1 .. T have    *)
(* their row; the others wait for what the dealer computes.                *)

HasRow(p) == p \in 1 .. T
Waiting(p, dealer) == p # dealer /\ ~HasRow(p)

\* The messages of a dealer of a t-sharing: to Pt+1 ... P2t and P0.
SendPRG(p, sharings) == [q \in {q \in Others(p) : ~HasRow(q)} |-> sharings[q]]

\* calculate_t_sharings_PRG and get_t_sharings_PRG: what p knows at once of the
\* dealer's sharing with the generator's rows prng; a waiting party nothing.
OwnRow(p, dealer, secrets, prng) ==
    IF p = dealer THEN SharingsTPRG(secrets, prng)[p] ELSE IF HasRow(p) THEN prng[p] ELSE NoVector

\* Mutant: a party that only takes its row from the stream leaves the rows that
\* belong to the others in it.
DrawnRowsOwn(p, dealer, degree, size) == (IF p = dealer \/ degree = T THEN degree ELSE p) * size
DrawnRows(p, dealer, degree, size) == degree * size

\* distribute_sharings_PRG / get_sharings_PRG.
InputFromPartyPRG(p) ==
    LET m == Instr(p)
        prng == AgreedMatrix(party[p].agreed, m.degree, m.size)
        secrets == IF p = m.from THEN Secrets(p, m) ELSE NoVector
        s == [party[p] EXCEPT !.agreed = @ + DrawnRows(p, m.from, m.degree, m.size),
                              !.secure = @ + (IF p = m.from THEN SecretDraws(m) ELSE 0)]
        Keep(shares) == [s EXCEPT !.reg[s.i] =
            [Register EXCEPT !.shares = shares, !.secrets = secrets, !.degree = m.degree]]
    IN /\ At(p, "inputPRG")
       /\ \/ /\ m.degree = 2 * T
             /\ Locally(p, Keep(Sharings2tPRG(m.from, secrets, prng)[p]))
          \/ /\ m.degree = T /\ p = m.from
             /\ Continue(p, Keep(OwnRow(p, p, secrets, prng)), SendPRG(p, SharingsTPRG(secrets, prng)), {})
          \/ /\ m.degree = T /\ p # m.from /\ HasRow(p)
             /\ Locally(p, Keep(OwnRow(p, m.from, secrets, prng)))
          \/ /\ m.degree = T /\ Waiting(p, m.from)
             /\ Continue(p, Keep(Msg(m.from, p)), ToNobody, {m.from})

\* The 2t half of DoubleShare[Bundle]::input_from_random_PRG.
InputAuxPRG(p) ==
    LET m == Instr(p)
        prng == AgreedMatrix(party[p].agreed, 2 * T, m.size)
    IN /\ At(p, "inputAuxPRG")
       /\ Locally(p, [WithReg(p, [Reg(p) EXCEPT !.aux = Sharings2tPRG(m.from, Reg(p).secrets, prng)[p]])
                         EXCEPT !.agreed = @ + DrawnRows(p, m.from, 2 * T, m.size)])

InputRequestPRG(p) ==
    LET m == Instr(p)
        prng == AgreedMatrix(party[p].agreed, T, m.size)
        secrets == IF p = m.from THEN Secrets(p, m) ELSE NoVector
    IN /\ At(p, "inputRequestPRG")
       /\ Continue(p, [WithReg(p, [Register EXCEPT !.shares = OwnRow(p, m.from, secrets, prng), !.secrets = secrets])
                          EXCEPT !.agreed = @ + T * m.size,
                                 !.secure = @ + (IF p = m.from THEN SecretDraws(m) ELSE 0)],
                   IF p = m.from THEN SendPRG(p, SharingsTPRG(secrets, prng)) ELSE ToNobody, {})

FinishInputPRG(p) ==
    LET m == Instr(p)
    IN /\ At(p, "inputFinishPRG")
       /\ \/ ~Waiting(p, m.from) /\ Locally(p, party[p])
          \/ Waiting(p, m.from)
             /\ Continue(p, WithReg(p, [Reg(p) EXCEPT !.shares = Msg(m.from, p)]), ToNobody, {m.from})

-----------------------------------------------------------------------------
(* Randomness: every party deals a bundle, N - T are extracted from the N. *)

\* The queue a truncation takes its masks from, and whether it encodes.
QueueOf(m) ==
    CASE m.op = "generateTruncated"                     -> m.queue
      [] m.op \in {"truncate", "shareTruncate"}         -> "truncated"
      [] m.op = "truncateBy"                            -> "truncatedInML"
      [] m.op \in {"multTruncate", "shareMultTruncate"} -> "reducedTruncated"
      [] m.op = "multTruncateML"                        -> "reducedTruncatedInML"
      [] OTHER                                          -> "reducedTruncatedWithPrecision"
Queues == {"truncated", "truncatedInML", "reducedTruncated", "reducedTruncatedInML", "reducedTruncatedWithPrecision"}
Encoded(m) == QueueOf(m) \in {"truncated", "reducedTruncated"}

Products == {"generateUnbounded", "prefixMult", "postfixMult"}
\* A truncation takes the E bits of one mask per element.
Wanted(m, kind) ==
    IF m.op = "generate" THEN m[kind]
    ELSE IF m.op \in {"random", "bits", "generateBits", "mult", "pairs"} THEN m.size
    ELSE IF m.op \in Products THEN IF kind = "randoms" THEN 2 * m.size ELSE 2 * m.size - m.rows
    ELSE E * m.size
RandomBundle(p) == Bundles(Wanted(Instr(p), "randoms"))
PairBundle(p) == Bundles(Wanted(Instr(p), "pairs"))

\* What p holds of every dealer after the requests, from the generator alone.
HeldRows(p, secrets, size) ==
    [d \in Players |->
        OwnRow(p, d, IF d = p THEN secrets ELSE NoVector, AgreedMatrix(party[p].agreed + d * T * size, T, size))]
\* Row d of crude_inputs, once the messages are there.
Crude(p, held, waiting) == Seqn(N, LAMBDA d : IF d - 1 \in waiting THEN Msg(d - 1, p) ELSE held[d - 1])
WaitsFor(p) == IF HasRow(p) THEN {} ELSE Others(p)

Interleave(u, v) == [k \in 1 .. 2 * Len(u) |-> IF k % 2 = 1 THEN u[(k + 1) \div 2] ELSE v[k \div 2]]
Columns(m, a, b) == [i \in 1 .. Rows(m) |-> SubSeq(m[i], a, b)]

RandomsRequest(p) ==
    LET b == RandomBundle(p)
        secrets == Flat(SecureMatrix(p, party[p].secure, 1, b))
        sharings == Sharings(p, secrets, T, party[p].secure + b)
    IN /\ At(p, "randomsRequest")
       /\ Continue(p, [party[p] EXCEPT !.secure = @ + b + T * b, !.held = [d \in Players |-> sharings[p]]],
                   [q \in Others(p) |-> sharings[q]], {})

RandomsRequestPRG(p) ==
    LET b == RandomBundle(p)
        secrets == Flat(SecureMatrix(p, party[p].secure, 1, b))
        prng == AgreedMatrix(party[p].agreed + p * T * b, T, b)
    IN /\ At(p, "randomsRequestPRG")
       /\ Continue(p, [party[p] EXCEPT !.secure = @ + b, !.agreed = @ + N * T * b, !.held = HeldRows(p, secrets, b)],
                   SendPRG(p, SharingsTPRG(secrets, prng)), {})

RandomsExtracted(p, waiting) ==
    Continue(p, [party[p] EXCEPT !.random = @ \o Flat(ExtractRandom(Crude(p, party[p].held, waiting)))],
             ToNobody, waiting)
RandomsFinish(p) == At(p, "randomsFinish") /\ RandomsExtracted(p, Others(p))
RandomsFinishPRG(p) == At(p, "randomsFinishPRG") /\ RandomsExtracted(p, WaitsFor(p))

PairsRequest(p) ==
    LET b == PairBundle(p)
        pos == party[p].secure
        secrets == Flat(SecureMatrix(p, pos, 1, b))
        first == Sharings(p, secrets, T, pos + b)
        aux == Sharings(p, secrets, 2 * T, pos + b + T * b)
    IN /\ At(p, "pairsRequest")
       /\ Continue(p, [party[p] EXCEPT !.secure = @ + b + 3 * T * b, !.held = [d \in Players |-> first[p] \o aux[p]]],
                   [q \in Others(p) |-> first[q] \o aux[q]], {})

PairsFinish(p) ==
    LET b == PairBundle(p)
        extracted == ExtractRandom(Crude(p, party[p].held, Others(p)))
    IN /\ At(p, "pairsFinish")
       /\ Continue(p, [party[p] EXCEPT !.pairs = @ \o Interleave(Flat(Columns(extracted, 1, b)),
                                                                 Flat(Columns(extracted, b + 1, 2 * b)))],
                   ToNobody, Others(p))

PairsRequestPRG(p) ==
    LET b == PairBundle(p)
        secrets == Flat(SecureMatrix(p, party[p].secure, 1, b))
        prng == AgreedMatrix(party[p].agreed + p * T * b, T, b)
    IN /\ At(p, "pairsRequestPRG")
       /\ Continue(p, [party[p] EXCEPT !.secure = @ + b, !.agreed = @ + N * T * b, !.held = HeldRows(p, secrets, b),
                                       !.dealt = secrets],
                   SendPRG(p, SharingsTPRG(secrets, prng)), {})

PairsAuxPRG(p) ==
    LET b == PairBundle(p)
    IN /\ At(p, "pairsAuxPRG")
       /\ Locally(p, [party[p] EXCEPT !.agreed = @ + N * 2 * T * b,
            !.heldAux = [d \in Players |->
                Sharings2tPRG(d, IF d = p THEN party[p].dealt ELSE NoVector,
                              AgreedMatrix(party[p].agreed + d * 2 * T * b, 2 * T, b))[p]]])

PairsFinishPRG(p) ==
    LET waiting == WaitsFor(p)
    IN /\ At(p, "pairsFinishPRG")
       /\ Continue(p, [party[p] EXCEPT !.pairs = @ \o
                          Interleave(Flat(ExtractRandom(Crude(p, party[p].held, waiting))),
                                     Flat(ExtractRandom(Crude(p, party[p].heldAux, {}))))],
                   ToNobody, waiting)

\* get_randoms, get_random_pairs and get_random_triples assert that the queue
\* is long enough and pop its front.
Taken(Q, n) == SubSeq(Q, 1, n)
Left(Q, n) == SubSeq(Q, n + 1, Len(Q))
First(pairs) == [j \in 1 .. Len(pairs) \div 2 |-> pairs[2 * j - 1]]
Second(pairs) == [j \in 1 .. Len(pairs) \div 2 |-> pairs[2 * j]]

GetRandoms(p) ==
    LET size == Instr(p).size
    IN /\ At(p, "getRandoms") /\ size <= Len(party[p].random)
       /\ Locally(p, [WithReg(p, [Register EXCEPT !.shares = Taken(party[p].random, size)])
                         EXCEPT !.random = Left(@, size)])

\* DoubleShare[Bundle]::reduced_random.
GetPairs(p) ==
    LET size == Instr(p).size
        pairs == Taken(party[p].pairs, 2 * size)
    IN /\ At(p, "getPairs") /\ 2 * size <= Len(party[p].pairs)
       /\ Locally(p, [WithReg(p, [Register EXCEPT !.shares = First(pairs), !.aux = Second(pairs)])
                         EXCEPT !.pairs = Left(@, 2 * size)])

\* The squares of fresh randoms, a sharing of degree 2t, are opened.
SquareRandoms(p) ==
    LET size == Wanted(Instr(p), "randoms")
        r == Taken(party[p].random, size)
    IN /\ At(p, "squareRandoms") /\ size <= Len(party[p].random)
       /\ Locally(p, [WithReg(p, [Register EXCEPT !.shares = [j \in 1 .. size |-> MultMod(r[j], r[j])],
                                                 !.secrets = Zeros(size), !.degree = 2 * T])
                         EXCEPT !.random = Left(@, size), !.R = r])
\* r over the root of its square is 1 or -1.
BitShares(r, squares) ==
    LET inverse == BatchInversion([j \in 1 .. Len(r) |-> Sqrt(squares[j])])
    IN [j \in 1 .. Len(r) |-> Div(AddMod(MultMod(r[j], inverse[j]), 1), 2)]
PushBits(p) ==
    /\ At(p, "pushBits") /\ 0 \notin Range(Reg(p).secrets)
    /\ Locally(p, [party[p] EXCEPT !.bits = @ \o BitShares(party[p].R, Reg(p).secrets)])
\* throw abort_error: the program ends.
AbortBits(p) ==
    /\ At(p, "pushBits") /\ 0 \in Range(Reg(p).secrets)
    /\ party' = [party EXCEPT ![p].i = Len(prog.code) + 1, ![p].aborted = party[p].i]
    /\ UNCHANGED <<prog, chan>>

GetBits(p) ==
    LET size == Instr(p).size
    IN /\ At(p, "getBits") /\ size <= Len(party[p].bits)
       /\ Locally(p, [WithReg(p, [Register EXCEPT !.shares = Taken(party[p].bits, size)])
                         EXCEPT !.bits = Left(@, size)])

\* Per mask: [r/2^d], [r] and, where the number is encoded, the sign of r.  The
\* squaring that should make [r] a 2t-sharing has no effect.
PushTruncated(p) ==
    LET m == Instr(p)
        size == E * m.size
        Row(i) == SubSeq(party[p].bits, (i - 1) * E + 1, i * E)
        masks == Seqn(m.size, LAMBDA i :
            [truncated |-> Solved(TruncatedBits(Row(i), m.precision[i])), r |-> Solved(Row(i)), msb |-> Row(i)[E]])
    IN /\ At(p, "pushTruncated") /\ size <= Len(party[p].bits)
       /\ Locally(p, [party[p] EXCEPT !.bits = Left(@, size), !.truncated[QueueOf(m)] = @ \o masks])

Plus(u, v) == [j \in 1 .. Len(u) |-> AddMod(u[j], v[j])]
TruncateAll(v, precision) == [j \in 1 .. Len(v) |-> Truncate(v[j], precision[j])]
Minus(u, v) == [j \in 1 .. Len(u) |-> Sub(u[j], v[j])]

\* R.reduced_random() and shares += R.aux_shares.
Mask(p) ==
    LET size == Len(Reg(p).shares)
        R == Taken(party[p].pairs, 2 * size)
    IN /\ At(p, "mask") /\ 2 * size <= Len(party[p].pairs)
       /\ Locally(p, [WithReg(p, [Reg(p) EXCEPT !.shares = Plus(@, Second(R))])
                         EXCEPT !.pairs = Left(@, 2 * size), !.R = First(R)])
Unmask(p) ==
    At(p, "unmask") /\ Locally(p, WithReg(p, [Reg(p) EXCEPT !.shares = Minus(@, party[p].R)]))
UnmaskOpened(p) ==
    At(p, "unmaskOpened")
        /\ Locally(p, WithReg(p, [Reg(p) EXCEPT !.shares = Minus(Reg(p).secrets, party[p].R), !.degree = T]))

\* R.[reduced_]truncated_random(r_msb) and shares += R.aux_shares + ConstEncode;
\* truncate asserts the degree t.
MaskTruncated(p) ==
    LET m == Instr(p)
        masks == party[p].truncated[QueueOf(m)]
    IN /\ At(p, "maskTruncated") /\ m.size <= Len(masks)
       /\ QueueOf(m) \in {"truncated", "truncatedInML"} => Reg(p).degree = T
       /\ Locally(p, [WithReg(p, [Reg(p) EXCEPT !.shares = [j \in 1 .. m.size |->
                                AddMod(AddMod(@[j], masks[j].r), IF Encoded(m) THEN ConstEncode ELSE 0)]])
                         EXCEPT !.truncated[QueueOf(m)] = Left(@, m.size), !.R = Taken(masks, m.size)])

\* The mask is taken off the opened, truncated number; if encoded, the overflow
\* put right.
\* Mutant: the overflow stays in.
UnmaskedUnfixed(secret, mask, encoded) ==
    Sub(Sub(secret, mask.truncated), IF encoded THEN ConstDecode ELSE 0)
Unmasked(secret, mask, encoded) ==
    LET overflow == MultMod(Sub(1, mask.msb), Msb(secret))
    IN IF encoded
       THEN Sub(AddMod(Sub(secret, mask.truncated), MultMod(ConstGapInTruncation, overflow)), ConstDecode)
       ELSE Sub(secret, mask.truncated)
UnmaskTruncated(p) ==
    LET m == Instr(p)
    IN At(p, "unmaskTruncated")
        /\ Locally(p, WithReg(p, [Reg(p) EXCEPT !.degree = T, !.shares = [j \in 1 .. m.size |->
              Unmasked(Reg(p).secrets[j], party[p].R[j], Encoded(m))]]))
\* Share::reduce_truncate(precision) forgets to halve the degree.
UnmaskTruncatedOpened(p) ==
    LET m == Instr(p)
        secrets == TruncateAll(Reg(p).secrets, m.precision)
    IN At(p, "unmaskTruncatedOpened")
        /\ Locally(p, WithReg(p, [Reg(p) EXCEPT !.degree = IF m.op = "shareMultTruncateBy" THEN @ ELSE T, !.secrets = secrets,
              !.shares = [j \in 1 .. m.size |-> Unmasked(secrets[j], party[p].R[j], Encoded(m))]]))

\* A product of shares has the degree of both; a copy is the register itself.
Product2t(p) ==
    LET m == Instr(p)
        u == party[p].reg[m.a].shares
        v == party[p].reg[m.b].shares
    IN At(p, "product")
        /\ Locally(p, WithReg(p, [Register EXCEPT !.shares = [j \in 1 .. m.size |-> MultMod(u[j], v[j])],
                                                  !.secrets = Zeros(m.size), !.degree = 2 * T]))
AuxRegister(r, m) == [Register EXCEPT !.shares = r.aux, !.secrets = Zeros(m.size), !.degree = m.degree]
Copy(p) ==
    LET m == Instr(p)
        r == party[p].reg[m.a]
    IN At(p, "copy")
        /\ Locally(p, WithReg(p, IF m.op = "revealAux" THEN AuxRegister(r, m) ELSE [r EXCEPT !.secrets = Zeros(m.size)]))

-----------------------------------------------------------------------------
(* Products of many factors: b_j and b_{j-1} / b_j blind the j-th.         *)

Times(u, v) == [j \in 1 .. Len(u) |-> MultMod(u[j], v[j])]

\* The rows of a matrix stored row after row.
RowsOf(m, v) == Reshaped(v, m.rows, Len(v) \div m.rows)

\* b and b': the columns of R for one product, the upper and the lower rows of
\* R for one product per row.
BlindsOf(m, R) ==
    IF m.op = "generateUnbounded" THEN [b |-> <<First(R)>>, bPrime |-> <<Second(R)>>]
    ELSE [b |-> RowsOf(m, Taken(R, m.size)), bPrime |-> RowsOf(m, Left(R, m.size))]

\* In every row all b_j b'_j and all b_j b'_{j+1}.
BlindProducts(p) ==
    LET m == Instr(p)
        R == Taken(party[p].random, 2 * m.size)
        blinds == BlindsOf(m, R)
        Products2t(i) == LET b == blinds.b[i]
                             bPrime == blinds.bPrime[i]
                         IN Times(b, bPrime) \o Times(Taken(b, Len(b) - 1), Left(bPrime, 1))
    IN /\ At(p, "blindProducts") /\ 2 * m.size <= Len(party[p].random)
       /\ Locally(p, [WithReg(p, [Register EXCEPT !.secrets = Zeros(2 * m.size - m.rows), !.degree = 2 * T,
                                    !.shares = Flat(Seqn(m.rows, Products2t))])
                         EXCEPT !.random = Left(@, 2 * m.size), !.blinds = blinds])
\* B, the first of the products in every row, is to be opened.
KeepSquares(p) ==
    LET m == Instr(p)
        prod == RowsOf(m, Reg(p).shares)
        cols == m.size \div m.rows
    IN /\ At(p, "keepSquares")
       /\ Locally(p, [WithReg(p, [Register EXCEPT !.secrets = Zeros(m.size),
                                    !.shares = Flat(Seqn(m.rows, LAMBDA i : Taken(prod[i], cols)))])
                         EXCEPT !.dealt = Seqn(m.rows, LAMBDA i : Left(prod[i], cols))])
\* Mutant: the products that belong to the next factor are taken.
UnboundedPairsLate(b, bPrime, prod, inverses) ==
    Interleave(b, Times(inverses, Append(prod, bPrime[1])))
UnboundedPairs(b, bPrime, prod, inverses) ==
    Interleave(b, Times(inverses, <<bPrime[1]>> \o prod))
PushUnbounded(p) ==
    LET m == Instr(p)
        inverses == RowsOf(m, BatchInversion(Reg(p).secrets))
    IN /\ At(p, "pushUnbounded")
       /\ Locally(p, [party[p] EXCEPT !.unbounded = @ \o Flat(Seqn(m.rows, LAMBDA i :
             UnboundedPairs(party[p].blinds.b[i], party[p].blinds.bPrime[i], party[p].dealt[i], inverses[i])))])

\* unbounded_postfix_mult goes through the factors of a row from the last to
\* the first.
InOrder(m, v) ==
    IF m.op = "prefixMult" THEN v
    ELSE Flat([i \in 1 .. m.rows |-> LET row == RowsOf(m, v)[i] IN [j \in 1 .. Len(row) |-> row[Len(row) + 1 - j]]])
Blind(p) ==
    LET m == Instr(p)
        R == Taken(party[p].unbounded, 2 * m.size)
    IN /\ At(p, "blind") /\ 2 * m.size <= Len(party[p].unbounded)
       /\ Locally(p, [WithReg(p, [Register EXCEPT !.secrets = Zeros(m.size), !.degree = 2 * T,
                                    !.shares = Times(InOrder(m, party[p].reg[m.a].shares), Second(R))])
                         EXCEPT !.unbounded = Left(@, 2 * m.size), !.R = First(R)])
\* The degree stays doubled although the shares have that of R.
PrefixProducts(p) ==
    LET m == Instr(p)
        opened == RowsOf(m, Reg(p).secrets)
        secrets == Flat([i \in 1 .. m.rows |-> PrefixMult(opened[i])])
    IN /\ At(p, "prefixProducts")
       /\ Locally(p, WithReg(p, [Reg(p) EXCEPT !.secrets = secrets,
                                              !.shares = InOrder(m, Times(secrets, party[p].R))]))

-----------------------------------------------------------------------------
(* Opening, through the king or dispersed over all.                        *)

Opens(p, degree) == (0 .. degree) \ {p}
\* The rows of the first degree + 1 players; one's own only from inside the set.
Collected(p, degree, own) ==
    Seqn(degree + 1, LAMBDA q :
        IF q - 1 # p THEN Msg(q - 1, p) ELSE IF InReconstructionSet(p, degree) THEN own ELSE Zeros(Len(own)))

\* Mutant: every party sends its share, needed or not.
SendsToPkingAlways(p, degree) == p # Pking
SendsToPking(p, degree) == p # Pking /\ InReconstructionSet(p, degree)

RevealToPking(p) ==
    /\ At(p, "revealToPking")
    /\ Continue(p, party[p],
                IF SendsToPking(p, Reg(p).degree) THEN [q \in {Pking} |-> Reg(p).shares]
                ELSE ToNobody, {})

Opened(p) == CalculateSecrets(Collected(p, Reg(p).degree, Reg(p).shares), Reg(p).degree)
\* The king sends the secrets it has opened, the others take them.
FromPking(p, secrets) ==
    \/ p = Pking /\ Continue(p, WithReg(p, [Reg(p) EXCEPT !.secrets = secrets]),
                             [q \in Others(p) |-> secrets], Opens(p, Reg(p).degree))
    \/ p # Pking /\ Continue(p, WithReg(p, [Reg(p) EXCEPT !.secrets = Msg(Pking, p)]), ToNobody, {Pking})
RevealFromPking(p) == At(p, "revealFromPking") /\ FromPking(p, Opened(p))
RevealTruncatedFromPking(p) ==
    At(p, "revealTruncatedFromPking") /\ FromPking(p, TruncateAll(Opened(p), Instr(p).precision))

RevealRequest(p) ==
    LET r == Reg(p)
    IN /\ At(p, "revealRequest")
       /\ Continue(p, party[p],
                   IF p <= r.degree THEN [q \in Others(p) |-> PackRows(r.shares, N)[q + 1]] ELSE ToNobody, {})

\* Block b of v replaced by w.
WithBlock(v, b, w) == [j \in 1 .. Len(v) |-> IF j - b.start \in 1 .. b.size THEN w[j - b.start] ELSE v[j]]
Block(p) == BlockRows(Len(Reg(p).shares), N, p + 1)

RevealFinish(p) ==
    LET r == Reg(p)
        own == PackRows(r.shares, N)[p + 1]
    IN /\ At(p, "revealFinish")
       /\ Continue(p, WithReg(p, [r EXCEPT !.secrets =
              WithBlock(@, Block(p), CalculateSecrets(Collected(p, r.degree, own), r.degree))]),
              ToNobody, Opens(p, r.degree))

OwnBlock(p) == PackRows(Reg(p).secrets, N)[p + 1]
SecretsRequest(p) == At(p, "secretsRequest") /\ Continue(p, party[p], [q \in Others(p) |-> OwnBlock(p)], {})
\* The block is truncated before it is sent, and stays truncated here.
SecretsRequestTruncated(p) ==
    LET own == TruncateAll(OwnBlock(p), PackRows(Instr(p).precision, N)[p + 1])
    IN /\ At(p, "secretsRequestTruncated")
       /\ Continue(p, WithReg(p, [Reg(p) EXCEPT !.secrets = WithBlock(@, Block(p), own)]),
                   [q \in Others(p) |-> own], {})

SecretsFinish(p) ==
    /\ At(p, "secretsFinish")
    /\ Continue(p, WithReg(p, [Reg(p) EXCEPT !.secrets =
           UnpackRows(@, Seqn(N, LAMBDA q : IF q - 1 = p THEN <<>> ELSE Msg(q - 1, p)))]), ToNobody, Others(p))

\* Every party inputs its block of the secrets anew, as a t-sharing.
DealerBlock(p, d) == BlockRows(Len(Reg(p).shares), N, d + 1)

BlocksRequestPRG(p) ==
    LET size == Len(Reg(p).shares)
        PrngRows(d) == AgreedMatrix(party[p].agreed + T * DealerBlock(p, d).start, T, DealerBlock(p, d).size)
        secrets == PackRows(Reg(p).secrets, N)[p + 1]
    IN /\ At(p, "blocksRequestPRG")
       /\ Continue(p, [WithReg(p, [Reg(p) EXCEPT !.degree = T]) EXCEPT !.agreed = @ + T * size,
                          !.held = [d \in Players |-> OwnRow(p, d, IF d = p THEN secrets ELSE NoVector, PrngRows(d))]],
                   SendPRG(p, SharingsTPRG(secrets, PrngRows(p))), {})

BlocksRequest(p) ==
    LET secrets == PackRows(Reg(p).secrets, N)[p + 1]
        sharings == Sharings(p, secrets, T, party[p].secure)
    IN /\ At(p, "blocksRequest")
       /\ Continue(p, [WithReg(p, [Reg(p) EXCEPT !.degree = T]) EXCEPT !.secure = @ + T * Len(secrets),
                          !.held = [d \in Players |-> sharings[p]]],
                   [q \in Others(p) |-> sharings[q]], {})

BlocksReceived(p, waiting) ==
    Continue(p, WithReg(p, [Reg(p) EXCEPT !.shares =
        UnpackRows(@, Crude(p, party[p].held, waiting))]), ToNobody, waiting)
BlocksFinishPRG(p) == At(p, "blocksFinishPRG") /\ BlocksReceived(p, WaitsFor(p))
BlocksFinish(p) == At(p, "blocksFinish") /\ BlocksReceived(p, Others(p))

-----------------------------------------------------------------------------

\* The queues of RandomShare and DoubleRandom.
EmptyQueues ==
    [random |-> <<>>, bits |-> <<>>, pairs |-> <<>>, truncated |-> [q \in Queues |-> <<>>], unbounded |-> <<>>]
\* The phase and what was sent in the phases.
NoPhase ==
    [offline |-> FALSE, online |-> FALSE, switched |-> FALSE, sent |-> 0, offlineSent |-> 0, onlineSent |-> 0]
\* Where the party is, its registers and generators, what it holds between the
\* steps of an operation.
InitialParty ==
    [i |-> 1, k |-> 1, reg |-> [i \in 1 .. Len(prog.code) |-> Register], agreed |-> 0, secure |-> 0,
     held |-> <<>>, heldAux |-> <<>>, dealt |-> <<>>, R |-> <<>>, blinds |-> <<>>, aborted |-> NotAborted]
    @@ EmptyQueues @@ NoPhase

Init ==
    /\ \E program \in Programs, seed \in Seeds :
           prog = [code |-> program.code, prg |-> program.prg, trueOffline |-> program.trueOffline,
                   disperse |-> program.disperse, seed |-> seed]
    /\ party = [p \in Players |-> InitialParty]
    /\ chan = [q \in Players |-> [p \in Players |-> <<>>]]

Step(p) ==
    \/ StartOffline(p) \/ EndOffline(p) \/ StartOnline(p) \/ EndOnline(p) \/ SwitchToOffline(p) \/ SwitchToOnline(p)
    \/ ClearStatus(p) \/ CommunicationRequest(p) \/ CommunicationFinish(p)
    \/ InputFromParty(p) \/ InputRequest(p) \/ FinishInput(p) \/ InputDouble(p)
    \/ InputFromPartyPRG(p) \/ InputAuxPRG(p) \/ InputRequestPRG(p) \/ FinishInputPRG(p)
    \/ RandomsRequest(p) \/ RandomsRequestPRG(p) \/ RandomsFinish(p) \/ RandomsFinishPRG(p)
    \/ PairsRequest(p) \/ PairsFinish(p) \/ PairsRequestPRG(p) \/ PairsAuxPRG(p) \/ PairsFinishPRG(p)
    \/ SquareRandoms(p) \/ PushBits(p) \/ AbortBits(p) \/ GetBits(p)
    \/ PushTruncated(p) \/ MaskTruncated(p) \/ UnmaskTruncated(p) \/ UnmaskTruncatedOpened(p)
    \/ BlindProducts(p) \/ KeepSquares(p) \/ PushUnbounded(p) \/ Blind(p) \/ PrefixProducts(p)
    \/ GetRandoms(p) \/ GetPairs(p) \/ Mask(p) \/ Unmask(p) \/ UnmaskOpened(p) \/ Product2t(p) \/ Copy(p)
    \/ RevealToPking(p) \/ RevealFromPking(p) \/ RevealTruncatedFromPking(p) \/ RevealRequest(p)
    \/ RevealFinish(p) \/ SecretsRequest(p) \/ SecretsRequestTruncated(p) \/ SecretsFinish(p)
    \/ BlocksRequestPRG(p) \/ BlocksRequest(p) \/ BlocksFinishPRG(p) \/ BlocksFinish(p)

AllDone == \A p \in Players : Done(p)

Next == (\E p \in Players : Step(p)) \/ (AllDone /\ UNCHANGED vars)

\* Every step takes a party further in its program, so the parties either all
\* come to its end or to a state in which none can go on: a deadlock for TLC.
Spec == Init /\ [][Next]_vars
-----------------------------------------------------------------------------
(* Properties.                                                             *)

Broken == <<PR>>     \* no vector of field elements

\* The secret of a register, from everybody's shares; Broken when they do not
\* lie on one polynomial of the register's degree.
SecretOf(i) ==
    LET degree == party[0].reg[i].degree
        Shares(j) == [x \in 1 .. N |-> party[x - 1].reg[i].shares[j]]
        size == prog.code[i].size
    IN IF /\ \A p \in Players : party[p].reg[i].degree = degree /\ Len(party[p].reg[i].shares) = size
          /\ \A j \in 1 .. size : OnCurve(Shares(j), degree)
       THEN [j \in 1 .. size |-> ValueAt(Shares(j), degree, 0)]
       ELSE Broken

OpenedValue(i) ==
    IF \A p \in Players : party[p].reg[i].secrets = party[0].reg[i].secrets
    THEN party[0].reg[i].secrets ELSE Broken

\* What a register holds once every party is through its instruction.
Values ==
    [i \in 1 .. Len(prog.code) |->
        IF \/ prog.code[i].op \in {"generate", "generateBits", "generateTruncated", "generateUnbounded"} \cup Phases
           \/ \E p \in Players : party[p].i <= i \/ party[p].aborted <= i
        THEN NoVector
        ELSE IF prog.code[i].op \in {"reveal", "revealTruncate", "revealAux", "shareReveal", "communication"}
        THEN OpenedValue(i) ELSE SecretOf(i)]

OpenedAsZero ==
    [i \in 1 .. Len(prog.code) |-> {j \in 1 .. Len(party[0].reg[i].secrets) : party[0].reg[i].secrets[j] = 0}]

Ideal == INSTANCE HmIdeal WITH code <- prog.code, val <- Values, lost <- OpenedAsZero

\* The protocols implement the ideal machine: whatever order the parties' steps
\* and the messages come in, the shares all parties end up with for a register
\* lie on a polynomial of its degree through the value the program computes on
\* the secrets, and every party opens that value (ShareBundle.cpp:387 reduce_degree,
\* :958 reveal, :650 input_from_party, :1264 random).
ImplementsIdeal == Ideal!IdealSpec

\* Parties at the same point of the program have drawn equally much from
\* PRNG_agreed and have equally long queues: nothing but the program's order
\* keeps the agreed generator in step (ShareBundle.cpp:206, :242, :314).
PRGInStep ==
    \A p, q \in Players :
        party[p].i = party[q].i /\ party[p].k = party[q].k =>
            /\ party[p].agreed = party[q].agreed
            /\ Len(party[p].random) = Len(party[q].random)
            /\ Len(party[p].bits) = Len(party[q].bits)
            /\ Len(party[p].pairs) = Len(party[q].pairs)
            /\ Len(party[p].unbounded) = Len(party[q].unbounded)
            /\ \A k \in Queues : Len(party[p].truncated[k]) = Len(party[q].truncated[k])

\* While all parties are at the same point, every queued random element is a
\* t-sharing, every queued bit one of 0 or 1, every queued pair a t- and a
\* 2t-sharing of one value, the blinding pairs of a product of many factors are
\* t-sharings of b_j and b_{j-1} / b_j (of 0, all of them, if one opened to 0:
\* batch_inversion has one inversion for all), and every queued mask of truncate() and
\* reduce_truncate() one of a number, its truncation up to one unit and its sign
\* (RandomShare.cpp:121, :86, :261, :450 and :312).
QueuesRight ==
    (\A p, q \in Players : party[p].i = party[q].i /\ party[p].k = party[q].k) =>
        LET Shares(f, j) == [x \in 1 .. N |-> party[x - 1][f][j]]
        IN /\ \A j \in 1 .. Len(party[0].random) : OnCurve(Shares("random", j), T)
           /\ \A j \in 1 .. Len(party[0].bits) :
                 OnCurve(Shares("bits", j), T) /\ ValueAt(Shares("bits", j), T, 0) \in {0, 1}
           /\ \A j \in 1 .. Len(party[0].pairs) \div 2 :
                 /\ OnCurve(Shares("pairs", 2 * j - 1), T)
                 /\ ValueAt(Shares("pairs", 2 * j - 1), T, 0) = ValueAt(Shares("pairs", 2 * j), 2 * T, 0)
           /\ LET Value(j) == ValueAt(Shares("unbounded", j), T, 0)
                  num == Len(party[0].unbounded) \div 2
                  cols == IF Instr(0).op \in Products THEN Instr(0).size \div Instr(0).rows ELSE num
              IN /\ \A j \in 1 .. 2 * num : OnCurve(Shares("unbounded", j), T)
                 /\ \/ \A j \in 1 .. num : Value(2 * j) = 0
                    \/ \A j \in 1 .. num :
                           MultMod(Value(2 * j - 1), Value(2 * j)) = IF j % cols = 1 % cols THEN 1 ELSE Value(2 * j - 3)
           /\ \A k \in {"truncated", "reducedTruncated"} : \A j \in 1 .. Len(party[0].truncated[k]) :
                 LET Field(f) == [x \in 1 .. N |-> party[x - 1].truncated[k][j][f]]
                     Value(f) == ValueAt(Field(f), T, 0)
                 IN /\ \A f \in {"truncated", "r", "msb"} : OnCurve(Field(f), T)
                    /\ Value("msb") = Msb(Value("r")) \/ Value("r") = 0
                    /\ MapGfpToInt(Value("truncated")) - (MapGfpToInt(Value("r")) \div 2^D) \in 0 .. 1

\* A message is taken by the operation it was sent for: when all are through,
\* no channel holds one (the PRG variants send to Pt+1 ... P2t and P0 only,
\* ShareBundle.cpp:269).
NothingLeft == AllDone => \A q, p \in Players : chan[q][p] = <<>>
=============================================================================
