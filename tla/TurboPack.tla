----------------------------- MODULE TurboPack -----------------------------
(***************************************************************************)
(* The TurboPack protocol run by mParties parties on one circuit:          *)
(* function-independent preprocessing (fi_prep.cc), its mapping to the     *)
(* circuit, function-dependent preprocessing (correlator.cc), and the      *)
(* online phase (mult_gate.cc, input_gate.h, output_gate.h, online.cc), in *)
(* the order and with the threads of experiments/ours.cc or in the orders  *)
(* of the tests, some of which start from dummy preprocessing.             *)
(*                                                                         *)
(* Values, shares and messages are elements of a small prime field.        *)
(* Messages carry no tag: who receives what is decided by the order of the *)
(* two FIFO channels between two parties only (module InMemoryChannel      *)
(* shows that the channels are FIFO).  An action is one protocol function  *)
(* of one party.  One that receives waits until all it needs has come;     *)
(* sends never wait, as with the unbounded in-memory channels.             *)
(*                                                                         *)
(* Batches, their padding and the order in which sharings are handed out   *)
(* are taken as functions of the circuit; module Circuit derives them.     *)
(***************************************************************************)
EXTENDS PackedSharing, SequencesExt, FiniteSetsExt, TLC

CONSTANTS
    mParties, mBatchSize, mThreshold,
    Gates,            \* the circuit: a sequence of [kind, owner, left, right, layer]
    InputVectors,     \* the inputs tried: functions from input gates to the field
    Seeds             \* the generators tried

\* SetThreshold's two checks.
ASSUME ThresholdAssumption ==
    /\ mParties = mThreshold + 2 * (mBatchSize - 1) + 1
    /\ mParties > 2 * mThreshold
\* P1 itself takes its share of a product as 0 only if it is below the threshold.
ASSUME P1BelowThreshold == mThreshold > 0
ASSUME PointsDiffer == mParties + mBatchSize <= P

Party == 0 .. mParties - 1
P1 == 0
Slot == 1 .. mBatchSize
Pad == 0

-----------------------------------------------------------------------------
(* The circuit. *)

\* The concatenation of a sequence of sequences.  (With FlattenSeq, which is
\* defined through a RECURSIVE operator, TLC would evaluate every definition
\* below anew in each state.)
Concat(ss) ==
    LET upTo[i \in 0 .. Len(ss)] == IF i = 0 THEN <<>> ELSE upTo[i - 1] \o ss[i]
    IN upTo[Len(ss)]

GateIds(kind) == SelectSeq([g \in 1 .. Len(Gates) |-> g], LAMBDA g : Gates[g].kind = kind)
Owned(kind, p) == SelectSeq(GateIds(kind), LAMBDA g : Gates[g].owner = p)
InLayer(l) == SelectSeq(GateIds("mult"), LAMBDA g : Gates[g].layer = l)
Depth == Max({Gates[g].layer : g \in ToSet(GateIds("mult"))})
Left(g) == IF g = Pad THEN Pad ELSE Gates[g].left
Right(g) == IF g = Pad THEN Pad ELSE Gates[g].right

\* A closed layer: batches of mBatchSize gates, the last one padded.
Batches(gs) ==
    [b \in 1 .. Max({1, (Len(gs) + mBatchSize - 1) \div mBatchSize}) |->
        [i \in Slot |-> LET at == (b - 1) * mBatchSize + i
                        IN IF at <= Len(gs) THEN gs[at] ELSE Pad]]

PerOwner(kind) ==
    Concat([c \in 1 .. mParties |->
        LET bs == Batches(Owned(kind, c - 1))
        IN [b \in 1 .. Len(bs) |-> [owner |-> c - 1, gates |-> bs[b]]]])
IOBatches == PerOwner("input") \o PerOwner("output")
IOBatchesOf(p) == SelectSeq(IOBatches, LAMBDA b : b.owner = p)
LayerBatches == [l \in 1 .. Depth |-> Batches(InLayer(l))]
MultBatches == Concat(LayerBatches)
\* The batches of layer l as indices into MultBatches.
BatchesOf(l) ==
    LET before == Len(Concat(SubSeq(LayerBatches, 1, l - 1)))
    IN [b \in 1 .. Len(LayerBatches[l]) |-> before + b]

mNIndShrs == Len(GateIds("input")) + Len(GateIds("mult"))
mNMultBatches == Len(MultBatches)
mNInOutBatches == Len(IOBatches)
NBlocks(amount) == (amount + mThreshold) \div (mThreshold + 1)

\* Extends values of input and multiplication gates to all gates, as
\* AddGate and OutputGate do for mu, for the masks and for the clear values.
Extend(leaf) ==
    LET val[g \in 1 .. Len(Gates)] ==
            CASE Gates[g].kind \in {"input", "mult"} -> leaf[g]
              [] Gates[g].kind = "add" -> FF(val[Gates[g].left] + val[Gates[g].right])
              [] Gates[g].kind = "output" -> val[Gates[g].left]
    IN val

\* GetClear: evaluation in the clear.
Clear(inputs) ==
    LET val[g \in 1 .. Len(Gates)] ==
            CASE Gates[g].kind = "input" -> inputs[g]
              [] Gates[g].kind = "add" -> FF(val[Gates[g].left] + val[Gates[g].right])
              [] Gates[g].kind = "mult" -> FF(val[Gates[g].left] * val[Gates[g].right])
              [] Gates[g].kind = "output" -> val[Gates[g].left]
    IN val

-----------------------------------------------------------------------------
(* Tables of the correlator. *)

\* PrecomputeEi: party p's shares of the unit vectors.
mSharesOfEi ==
    [p \in Party |-> [i \in Slot |->
        FProd(LAMBDA j : IF j = i THEN 1 ELSE FDiv((p + 1) + (j - 1), (j - 1) - (i - 1)),
              mBatchSize)]]

\* PrecomputeVandermonde: row j, column idx is j^idx.
Power(x, n) == FProd(LAMBDA i : x, n)
mVandermonde == [j \in Party |-> [idx \in 0 .. mThreshold |-> Power(j, idx)]]

\* One row of received shares gives mThreshold+1 shares.
Extract(row) ==
    Vec(mThreshold + 1, LAMBDA idx :
        FSum(LAMBDA j : mVandermonde[j - 1][idx - 1] * row[j - 1], mParties))

\* The sum over the slots of Ei times f of the slot.
Pack(p, f(_)) == FSum(LAMBDA i : mSharesOfEi[p][i] * f(i), mBatchSize)

-----------------------------------------------------------------------------
VARIABLES
    chan,      \* chan[p][q]: field elements from p to q
    todo,      \* per party, the functions of the current section still to run
    sect,      \* per party, the current section of its program
    prog,      \* which program the parties run, one of Orders
    seed, inputs,
    st         \* per party, the correlator and gate state

vars == <<chan, todo, sect, prog, seed, inputs, st>>

\* FF::Random(mPRG): any field element; here a fixed spread of them per seed.
Draw(p, a, b, c) == FF(seed * (1 + 2 * p + 3 * a + p * b * b + 5 * b * c + c))
Draws(p, a, b, n) == [c \in 1 .. n |-> Draw(p, a, b, c)]

\* A section is a set of functions that run at the same time, each in a thread
\* of its own; the next section starts when all have returned (join).  What
\* returns at once because the party is not P1 is left out.
FDPrep(order) ==
    IF order = "ours"
    THEN <<"PrepMultPartiesSendP1", "PrepMultP1ReceivesAndSends", "PrepIOPartiesSendOwner",
           "PrepMultPartiesReceive", "PrepIOOwnerReceives">>
    ELSE <<"PrepMultPartiesSendP1", "PrepMultP1ReceivesAndSends", "PrepMultPartiesReceive",
           "PrepIOPartiesSendOwner", "PrepIOOwnerReceives">>
Online ==
    << <<"InputOwnerSendsP1", 0>>, <<"InputP1Receives", 0>> >>
    \o Concat([l \in 1 .. Depth |->
           << <<"MultP1Sends", l>>, <<"MultPartiesReceive", l>>,
              <<"MultPartiesSend", l>>, <<"MultP1Receives", l>> >>])
    \o << <<"OutputP1SendsMu", 0>>, <<"OutputOwnerReceivesMu", 0>> >>

\* The programs: the whole protocol in the order of the experiment or of the
\* tests; the tests that start from dummy function-independent preprocessing;
\* those that start from dummy function-dependent preprocessing, with one mask
\* for all gates or with none.
Orders == {"ours", "test", "dummyFI", "dummyFD", "zero"}

Preprocessing(order) ==
    LET correlated == <<{<<"MapCorrToCircuit", 0>>}>> \o [i \in 1 .. 5 |-> {<<FDPrep(order)[i], 0>>}]
    IN CASE order \in {"ours", "test"} ->
                << {<<"FIPrepSend", 0>>, <<"FIPrepRecv", 0>>},
                   {<<"GenProdPartiesSendP1", 0>>, <<"GenProdP1ReceivesAndSends", 0>>,
                    <<"GenProdPartiesReceive", 0>>} >> \o correlated
         [] order = "dummyFI" -> <<{<<"PopulateDummyCorrelator", 0>>}>> \o correlated
         [] order = "dummyFD" -> <<{<<"DummyPrep", 0>>}>>
         [] order = "zero" -> <<{<<"DummyPrepZero", 0>>}>>

Sections(order) == Preprocessing(order) \o [i \in 1 .. Len(Online) |-> {Online[i]}]

P1Only == {"GenProdP1ReceivesAndSends", "PrepMultP1ReceivesAndSends", "InputP1Receives",
           "MultP1Sends", "MultP1Receives", "OutputP1SendsMu"}

Program ==
    [o \in Orders |-> [p \in Party |->
        SelectSeq([s \in 1 .. Len(Sections(o)) |->
                      {f \in Sections(o)[s] : p = P1 \/ f[1] \notin P1Only}],
                  LAMBDA S : S # {})]]

Finished(p) == sect[p] > Len(Program[prog][p])

Start ==
    [ind |-> <<>>, unpacked |-> <<>>, zeroProd |-> <<>>, mult |-> <<>>, io |-> <<>>,
     map |-> <<>>, prep |-> <<>>, packedIO |-> <<>>, lambda |-> <<>>, mu |-> <<>>,
     shrMu |-> <<>>, value |-> <<>>]

Init ==
    /\ chan = [p \in Party |-> [q \in Party |-> <<>>]]
    /\ prog \in Orders
    /\ sect = [p \in Party |-> 1]
    /\ todo = [p \in Party |-> Program[prog][p][1]]
    /\ seed \in Seeds
    /\ inputs \in InputVectors
    /\ st = [p \in Party |-> Start]

\* Party p appends out[q] to its channel to q.
SendAll(p, out) == chan' = [chan EXCEPT ![p] = [q \in Party |-> chan[p][q] \o out[q]]]

\* Party p takes n[q] elements from q, which must all be there.
Available(p, n) == \A q \in Party : Len(chan[q][p]) >= n[q]
Taken(p, n) == [q \in Party |-> SubSeq(chan[q][p], 1, n[q])]
Without(c, p, n) ==
    [q \in Party |-> [c[q] EXCEPT ![p] = SubSeq(@, n[q] + 1, Len(@))]]

\* Party p takes n[q] elements from every q and then appends out[q].
TakeAndSend(p, n, out) ==
    chan' = [Without(chan, p, n) EXCEPT ![p] = [q \in Party |-> @[q] \o out[q]]]

FromAll(n) == [q \in Party |-> n]
Only(q, n) == [r \in Party |-> IF r = q THEN n ELSE 0]
Row(taken, i) == [q \in Party |-> taken[q][i]]
AsShares(row) == Vec(mParties, LAMBDA i : row[i - 1])

NBIndShrs == NBlocks(mNIndShrs)
NBUnpacked == NBlocks(3 * mNMultBatches)
NBZero == NBlocks(3 * mNMultBatches + mNInOutBatches)
NBZeroProd == NBlocks(mNMultBatches)
NDealings == NBIndShrs + mBatchSize * NBUnpacked + NBZero + mBatchSize * NBZeroProd

\* GetMu: P1's masked value of a gate; 0 for padding.  It throws when the input
\* or multiplication gates it is made of have not been learned.
Leaves ==
    LET of[g \in 1 .. Len(Gates)] ==
            CASE Gates[g].kind \in {"input", "mult"} -> {g}
              [] Gates[g].kind = "add" -> of[Gates[g].left] \cup of[Gates[g].right]
              [] Gates[g].kind = "output" -> of[Gates[g].left]
    IN of
Learned(g) == g = Pad \/ Leaves[g] \subseteq DOMAIN st[P1].mu

\* How many elements function f of party p receives, and from whom.
Need(p, f) ==
    CASE f[1] = "FIPrepRecv" -> FromAll(NDealings)
      [] f[1] = "GenProdP1ReceivesAndSends" -> FromAll(mBatchSize * mNMultBatches)
      [] f[1] = "GenProdPartiesReceive" ->
             Only(P1, IF p >= mThreshold THEN mBatchSize * mNMultBatches ELSE 0)
      [] f[1] = "PrepMultP1ReceivesAndSends" -> FromAll(2 * mNMultBatches)
      [] f[1] = "PrepMultPartiesReceive" -> Only(P1, 2 * mNMultBatches)
      [] f[1] = "PrepIOOwnerReceives" -> FromAll(Len(IOBatchesOf(p)))
      [] f[1] = "InputP1Receives" -> [q \in Party |-> Len(Owned("input", q))]
      [] f[1] = "MultPartiesReceive" -> Only(P1, 2 * Len(LayerBatches[f[2]]))
      [] f[1] = "MultP1Receives" -> FromAll(Len(LayerBatches[f[2]]))
      [] f[1] = "OutputOwnerReceivesMu" -> Only(P1, Len(Owned("output", p)))
      [] OTHER -> FromAll(0)

\* Whether function f can run to its end: all it receives has come, and P1 has
\* learned the masked values it sends.
CanRun(p, f) ==
    /\ Available(p, Need(p, f))
    /\ f[1] = "MultP1Sends" =>
           \A g \in ToSet(InLayer(f[2])) : Learned(Left(g)) /\ Learned(Right(g))
    /\ f[1] = "OutputP1SendsMu" => \A g \in ToSet(GateIds("output")) : Learned(g)

\* Function f of party p runs now and returns; the join is in the last one.
Runs(p, name, l) ==
    /\ <<name, l>> \in todo[p]
    /\ CanRun(p, <<name, l>>)
    /\ IF todo[p] = {<<name, l>>}
       THEN /\ sect' = [sect EXCEPT ![p] = @ + 1]
            /\ todo' = [todo EXCEPT ![p] =
                   IF sect[p] < Len(Program[prog][p]) THEN Program[prog][p][sect[p] + 1] ELSE {}]
       ELSE /\ todo' = [todo EXCEPT ![p] = @ \ {<<name, l>>}]
            /\ UNCHANGED sect
    /\ UNCHANGED <<prog, seed, inputs>>

-----------------------------------------------------------------------------
(* Function-independent preprocessing: every party deals random sharings   *)
(* of each sort, and keeps of each row of received shares the combinations *)
(* of Extract.  In each sort, pack_idx is the outer loop.                  *)

\* Mutant: the secret is put into the first slot only.
IndShrsOneSlot(p, block) ==
    LET degree == mParties - mBatchSize
    IN SharesFromEvPoly(EvPolyFromSecretAndPointAndDegree(Draw(p, 1, block, 0), 0, degree,
                            Draws(p, 1, block, degree)), mParties)
IndShrs(p, block) ==
    LET degree == mParties - mBatchSize
        secret == Draw(p, 1, block, 0)
    IN SharesFromEvPoly(EvPolyFromSecretsAndDegree([i \in Slot |-> secret], degree,
                            Draws(p, 1, block, degree + 1 - mBatchSize)), mParties)
UnpackedShr(p, i, block) ==
    SharesFromEvPoly(EvPolyFromSecretAndPointAndDegree(Draw(p, 2, block, i), 1 - i, mThreshold,
                         Draws(p, 2 + i, block, mThreshold)), mParties)
Zero(p, block) ==
    SharesFromEvPoly(EvPolyFromSecretsAndDegree([i \in Slot |-> 0], mParties - 1,
                         Draws(p, 3, block, mParties - mBatchSize)), mParties)
ZeroForProd(p, i, block) ==
    SharesFromEvPoly(EvPolyFromSecretAndPointAndDegree(0, 1 - i, mParties - 1,
                         Draws(p, 4 + i, block, mParties - 1)), mParties)

PerSlot(n, deal(_, _)) ==
    Concat([i \in Slot |-> [block \in 1 .. n |-> deal(i, block)]])

\* All sharings party p deals, in the order in which it sends them.
Dealings(p) ==
    [block \in 1 .. NBIndShrs |-> IndShrs(p, block)]
    \o PerSlot(NBUnpacked, LAMBDA i, block : UnpackedShr(p, i, block))
    \o [block \in 1 .. NBZero |-> Zero(p, block)]
    \o PerSlot(NBZeroProd, LAMBDA i, block : ZeroForProd(p, i, block))

FIPrepSend(p) ==
    /\ Runs(p, "FIPrepSend", 0)
    /\ SendAll(p, LET all == Dealings(p)
                  IN [q \in Party |-> [d \in 1 .. Len(all) |-> all[d][q + 1]]])
    /\ UNCHANGED st

\* The rows from .. from+n-1, each one turned into mThreshold+1 shares.
Extracted(taken, from, n) ==
    Concat([b \in 1 .. n |-> Extract(Row(taken, from + b - 1))])

\* GenZeroPartiesReceive, the shares of 0 of the b-th multiplication batch.
ZeroOf(zeros, m, b) ==
    [O1 |-> zeros[b], O2 |-> zeros[m + b], O3 |-> zeros[2 * m + b]]
\* ... and of the input and output batches: all but those of mShrO3.
IOZeros(zeros, m) == SubSeq(zeros, 1, 2 * m) \o SubSeq(zeros, 3 * m + 1, Len(zeros))

\* What the received rows, sort by sort, become.
AfterFIPrep(p, taken) ==
    LET m     == mNMultBatches
        un    == Vec(mBatchSize, LAMBDA i :
                     Extracted(taken, NBIndShrs + (i - 1) * NBUnpacked + 1, NBUnpacked))
        zero0 == NBIndShrs + mBatchSize * NBUnpacked
        zeros == Extracted(taken, zero0 + 1, NBZero)
    IN [st[p] EXCEPT
          !.ind = Extracted(taken, 1, NBIndShrs),
          !.unpacked = [A |-> [i \in Slot |-> SubSeq(un[i], 1, m)],
                        B |-> [i \in Slot |-> SubSeq(un[i], m + 1, 2 * m)],
                        Mask |-> [i \in Slot |-> SubSeq(un[i], 2 * m + 1, 3 * m)]],
          !.mult = [b \in 1 .. m |->
              [A |-> Pack(p, LAMBDA i : un[i][b]), B |-> Pack(p, LAMBDA i : un[i][m + b]), C |-> 0]
              @@ ZeroOf(zeros, m, b)],
          !.io = IOZeros(zeros, m),
          !.zeroProd = [i \in Slot |->
              Extracted(taken, zero0 + NBZero + (i - 1) * NBZeroProd + 1, NBZeroProd)]]

FIPrepRecv(p) ==
    LET n == Need(p, <<"FIPrepRecv", 0>>)
    IN /\ Runs(p, "FIPrepRecv", 0)
       /\ chan' = Without(chan, p, n)
       /\ st' = [st EXCEPT ![p] = AfterFIPrep(p, Taken(p, n))]

-----------------------------------------------------------------------------
(* The products of the triples: masked, opened to P1, dealt back. *)

\* Slot and batch of the n-th product, slots being the outer loop.
ProdSlot(n) == ((n - 1) \div mNMultBatches) + 1
ProdBatch(n) == ((n - 1) % mNMultBatches) + 1
Products == 1 .. mBatchSize * mNMultBatches

GenProdPartiesSendP1(p) ==
    /\ Runs(p, "GenProdPartiesSendP1", 0)
    /\ LET un == st[p].unpacked
           share(n) == LET i == ProdSlot(n)  b == ProdBatch(n)
                       IN FF(un.A[i][b] * un.B[i][b] + un.Mask[i][b] + st[p].zeroProd[i][b])
       IN SendAll(p, [q \in Party |-> IF q = P1 THEN [n \in Products |-> share(n)] ELSE <<>>])
    /\ UNCHANGED st

\* P1 deals the opened value with degree mThreshold, the shares at 1..mThreshold
\* being 0; those are not sent.
Redealt(i, secret) ==
    SharesFromEvPoly(EvPolynomial(
        Vec(mThreshold + 1, LAMBDA x : IF x = 1 THEN FF(1 - i) ELSE x - 1),
        Vec(mThreshold + 1, LAMBDA x : IF x = 1 THEN secret ELSE 0)), mParties)

\* Mutant: the loop over the parties starts one too high.
SentProductsOneLess == {q \in Party : q > mThreshold}
SentProducts == {q \in Party : q >= mThreshold}

GenProdP1ReceivesAndSends(p) ==
    LET n == Need(p, <<"GenProdP1ReceivesAndSends", 0>>)
        redeal(taken) == Vec(mBatchSize * mNMultBatches, LAMBDA k :
            Redealt(ProdSlot(k), SecretFromPointAndShares(1 - ProdSlot(k), AsShares(Row(taken, k)))))
    IN /\ Runs(p, "GenProdP1ReceivesAndSends", 0)
       /\ TakeAndSend(p, n, LET shares == redeal(Taken(p, n)) IN
              [q \in Party |-> IF q \in SentProducts
                               THEN [k \in Products |-> shares[k][q + 1]] ELSE <<>>])
       /\ UNCHANGED st

GenProdPartiesReceive(p) ==
    LET n == Need(p, <<"GenProdPartiesReceive", 0>>)
        taken == Taken(p, n)
        recv(k) == IF p >= mThreshold THEN taken[P1][k] ELSE 0
        prod(i, b) == recv((i - 1) * mNMultBatches + b) - st[p].unpacked.Mask[i][b]
    IN /\ Runs(p, "GenProdPartiesReceive", 0)
       /\ chan' = Without(chan, p, n)
       /\ st' = [st EXCEPT ![p].mult = [b \in DOMAIN @ |->
                    [@[b] EXCEPT !.C = FF(@ + Pack(p, LAMBDA i : prod(i, b)))]]]

\* mMapIndShrs: inputs and multiplications in order, padding gates 0.
MapCorrToCircuit(p) ==
    /\ Runs(p, "MapCorrToCircuit", 0)
    /\ LET order == GateIds("input") \o Concat([l \in 1 .. Depth |-> InLayer(l)])
           leaf == [g \in ToSet(order) |-> st[p].ind[CHOOSE i \in DOMAIN order : order[i] = g]]
           map == Extend(leaf)
       IN st' = [st EXCEPT ![p].map = [g \in 0 .. Len(Gates) |-> IF g = Pad THEN 0 ELSE map[g]]]
    /\ UNCHANGED chan

-----------------------------------------------------------------------------
(* Function-dependent preprocessing: the masks of each batch are packed;   *)
(* those of the factors go through P1, those of inputs and outputs to      *)
(* their owner.                                                            *)

MultBatchIdx == 1 .. mNMultBatches

\* A and B of every batch, two messages per batch.
TwoPerBatch(a(_), b(_)) ==
    Concat([x \in MultBatchIdx |-> <<a(x), b(x)>>])

PrepMultPartiesSendP1(p) ==
    LET map == st[p].map
        mult == st[p].mult
        shrA(b) == FF(Pack(p, LAMBDA i : map[Left(MultBatches[b][i])]) + mult[b].A + mult[b].O1)
        shrB(b) == FF(Pack(p, LAMBDA i : map[Right(MultBatches[b][i])]) + mult[b].B + mult[b].O2)
    IN /\ Runs(p, "PrepMultPartiesSendP1", 0)
       /\ SendAll(p, [q \in Party |-> IF q = P1 THEN TwoPerBatch(shrA, shrB) ELSE <<>>])
       /\ UNCHANGED st

\* Opens a row of mParties shares and deals it again with degree mBatchSize-1,
\* which leaves no randomness.
Repacked(secrets) ==
    SharesFromEvPoly(EvPolyFromSecretsAndDegree(secrets, mBatchSize - 1, <<>>), mParties)
Opened(row) == SecretsFromSharesAndLength(AsShares(row), mBatchSize)

PrepMultP1ReceivesAndSends(p) ==
    LET n == Need(p, <<"PrepMultP1ReceivesAndSends", 0>>)
        repack(taken) == Vec(2 * mNMultBatches, LAMBDA k : Repacked(Opened(Row(taken, k))))
    IN /\ Runs(p, "PrepMultP1ReceivesAndSends", 0)
       /\ TakeAndSend(p, n, LET shares == repack(Taken(p, n)) IN
              [q \in Party |-> [k \in 1 .. 2 * mNMultBatches |-> shares[k][q + 1]]])
       /\ UNCHANGED st

\* What an owner gets of a batch, and its batches in the order they are sent:
\* inputs before outputs.
IOShare(p, b) == FF(Pack(p, LAMBDA i : st[p].map[IOBatches[b].gates[i]]) + st[p].io[b])
SentTo(q) == SelectSeq([b \in 1 .. mNInOutBatches |-> b], LAMBDA b : IOBatches[b].owner = q)

PrepIOPartiesSendOwner(p) ==
    /\ Runs(p, "PrepIOPartiesSendOwner", 0)
    /\ SendAll(p, [q \in Party |-> [i \in DOMAIN SentTo(q) |-> IOShare(p, SentTo(q)[i])]])
    /\ UNCHANGED st

DeltaShare(p, b, recvA, recvB) ==
    LET t == st[p].mult[b]
    IN FF(recvA * recvB - recvA * t.B - recvB * t.A + t.C + t.O3
          - Pack(p, LAMBDA i : st[p].map[MultBatches[b][i]]))

PrepMultPartiesReceive(p) ==
    LET n == Need(p, <<"PrepMultPartiesReceive", 0>>)
        recv == Taken(p, n)[P1]
    IN /\ Runs(p, "PrepMultPartiesReceive", 0)
       /\ chan' = Without(chan, p, n)
       /\ st' = [st EXCEPT ![p].prep = [b \in MultBatchIdx |->
              [LambdaA |-> FF(recv[2 * b - 1] - st[p].mult[b].A),
               LambdaB |-> FF(recv[2 * b] - st[p].mult[b].B),
               DeltaC |-> DeltaShare(p, b, recv[2 * b - 1], recv[2 * b])]]]

\* Gives the real gates of a batch its opened values.
Assign(f, batch, values) ==
    [g \in {batch[i] : i \in Slot} \ {Pad} |-> values[CHOOSE i \in Slot : batch[i] = g]] @@ f

\* SetLambda for all gates of the opened batches.
AssignAll(f, batches, opened) ==
    LET upTo[b \in 0 .. Len(batches)] ==
            IF b = 0 THEN f ELSE Assign(upTo[b - 1], batches[b], opened[b])
    IN upTo[Len(batches)]
OpenedAll(taken, n) == Vec(n, LAMBDA b : Opened(Row(taken, b)))

PrepIOOwnerReceives(p) ==
    LET mine == IOBatchesOf(p)
        n == Need(p, <<"PrepIOOwnerReceives", 0>>)
    IN /\ Runs(p, "PrepIOOwnerReceives", 0)
       /\ chan' = Without(chan, p, n)
       /\ st' = [st EXCEPT ![p].lambda =
              AssignAll(<<>>, [b \in DOMAIN mine |-> mine[b].gates],
                        OpenedAll(Taken(p, n), Len(mine)))]

-----------------------------------------------------------------------------
(* Dummy preprocessing, of the tests: no messages, the same mask, known to *)
(* everyone, on all inputs and multiplications.                            *)

DummyLambda == FF(3 * seed)

\* GenPrepDummy: constant shares of the masks; triples and shares of 0 all 0.
PopulateDummyCorrelator(p) ==
    /\ Runs(p, "PopulateDummyCorrelator", 0)
    /\ st' = [st EXCEPT
          ![p].ind = [i \in 1 .. mNIndShrs |-> DummyLambda],
          ![p].mult = [b \in MultBatchIdx |->
                          [A |-> 0, B |-> 0, C |-> 0, O1 |-> 0, O2 |-> 0, O3 |-> 0]],
          ![p].io = [b \in 1 .. mNInOutBatches |-> 0]]
    /\ UNCHANGED chan

\* GetDummyLambda: the mask of a gate, made of those of the inputs and
\* multiplications; 0 for padding.
DummyMask(g) == IF g = Pad THEN 0 ELSE Extend([h \in 1 .. Len(Gates) |-> DummyLambda])[g]
DummyShare(p, gates) == Repacked(Vec(mBatchSize, LAMBDA i : DummyMask(gates[i])))[p + 1]

\* _DummyPrep(lambda): every party computes its own share of every batch.
DummyPrep(p) ==
    LET shr(b, side(_)) == DummyShare(p, Vec(mBatchSize, LAMBDA i : side(MultBatches[b][i])))
        own(g) == g
    IN /\ Runs(p, "DummyPrep", 0)
       /\ st' = [st EXCEPT
             ![p].lambda = [g \in 1 .. Len(Gates) |-> DummyMask(g)],
             ![p].packedIO = [b \in 1 .. mNInOutBatches |-> DummyShare(p, IOBatches[b].gates)],
             ![p].prep = [b \in MultBatchIdx |->
                 [LambdaA |-> shr(b, Left), LambdaB |-> shr(b, Right),
                  DeltaC |-> FF(shr(b, Left) * shr(b, Right) - shr(b, own))]]]
       /\ UNCHANGED chan

\* _DummyPrep of a batch: constant shares; of the gates of an input or an output
\* batch only the owner is given the masks.
ConstantMult(lambdaA, lambdaB, lambdaC) ==
    [LambdaA |-> lambdaA, LambdaB |-> lambdaB, DeltaC |-> FF(lambdaA * lambdaB - lambdaC)]
ConstantInputs(p, lambda) == [g \in ToSet(Owned("input", p)) |-> lambda]
ConstantOutputs(p, lambda) == [g \in ToSet(Owned("output", p)) |-> lambda]

\* _DummyPrep(): 0 everywhere.
DummyPrepZero(p) ==
    /\ Runs(p, "DummyPrepZero", 0)
    /\ st' = [st EXCEPT
          ![p].lambda = ConstantInputs(p, 0) @@ ConstantOutputs(p, 0),
          ![p].packedIO = [b \in 1 .. mNInOutBatches |-> 0],
          ![p].prep = [b \in MultBatchIdx |-> ConstantMult(0, 0, 0)]]
    /\ UNCHANGED chan

-----------------------------------------------------------------------------
(* Online phase. *)

\* What an input's owner sends: its input minus the mask it learned.
MaskedInput(p, g) == FF(inputs[g] - st[p].lambda[g])

\* OwnerSendsP1, in the order of the owner's gates.
InputOwnerSendsP1(p) ==
    LET gs == Owned("input", p)
    IN /\ Runs(p, "InputOwnerSendsP1", 0)
       /\ SendAll(p, [q \in Party |-> IF q = P1
              THEN [i \in DOMAIN gs |-> MaskedInput(p, gs[i])] ELSE <<>>])
       /\ UNCHANGED st

InputP1Receives(p) ==
    LET n == Need(p, <<"InputP1Receives", 0>>)
        taken == Taken(p, n)
        at(g) == CHOOSE i \in DOMAIN Owned("input", Gates[g].owner) :
                     Owned("input", Gates[g].owner)[i] = g
    IN /\ Runs(p, "InputP1Receives", 0)
       /\ chan' = Without(chan, p, n)
       /\ st' = [st EXCEPT ![p].mu = [g \in ToSet(GateIds("input")) |-> taken[Gates[g].owner][at(g)]]]

GetMu(g) ==
    LET mu == st[P1].mu
        val == Extend([h \in 1 .. Len(Gates) |-> IF h \in DOMAIN mu THEN mu[h] ELSE 0])
    IN IF g = Pad THEN 0 ELSE val[g]

MultP1Sends(p, l) ==
    LET sharesOf(b, side(_)) ==
            Repacked(Vec(mBatchSize, LAMBDA i : GetMu(side(LayerBatches[l][b][i]))))
    IN /\ Runs(p, "MultP1Sends", l)
       /\ SendAll(p, LET dealt == Vec(Len(LayerBatches[l]),
                                      LAMBDA b : <<sharesOf(b, Left), sharesOf(b, Right)>>)
                     IN [q \in Party |-> Concat(
                            [b \in DOMAIN dealt |-> <<dealt[b][1][q + 1], dealt[b][2][q + 1]>>])])
       /\ UNCHANGED st

MultPartiesReceive(p, l) ==
    LET n == Need(p, <<"MultPartiesReceive", l>>)
        recv == Taken(p, n)[P1]
    IN /\ Runs(p, "MultPartiesReceive", l)
       /\ chan' = Without(chan, p, n)
       /\ st' = [st EXCEPT ![p].shrMu =
              [b \in DOMAIN LayerBatches[l] |-> [A |-> recv[2 * b - 1], B |-> recv[2 * b]]]]

\* Mutant: the product of the two shares of mu is left out.
ShrMuCNoProduct(mu, prep) == FF(mu.B * prep.LambdaA + mu.A * prep.LambdaB + prep.DeltaC)
ShrMuC(mu, prep) ==
    FF(mu.B * prep.LambdaA + mu.A * prep.LambdaB + mu.A * mu.B + prep.DeltaC)

MultPartiesSend(p, l) ==
    LET share(b) == ShrMuC(st[p].shrMu[b], st[p].prep[BatchesOf(l)[b]])
    IN /\ Runs(p, "MultPartiesSend", l)
       /\ SendAll(p, [q \in Party |-> IF q = P1
              THEN [b \in DOMAIN LayerBatches[l] |-> share(b)] ELSE <<>>])
       /\ UNCHANGED st

MultP1Receives(p, l) ==
    LET n == Need(p, <<"MultP1Receives", l>>)
    IN /\ Runs(p, "MultP1Receives", l)
       /\ chan' = Without(chan, p, n)
       /\ st' = [st EXCEPT ![p].mu =
              AssignAll(@, LayerBatches[l], OpenedAll(Taken(p, n), Len(LayerBatches[l])))]

OutputP1SendsMu(p) ==
    LET gs(q) == Owned("output", q)
    IN /\ Runs(p, "OutputP1SendsMu", 0)
       /\ SendAll(p, [q \in Party |-> [i \in DOMAIN gs(q) |-> GetMu(gs(q)[i])]])
       /\ UNCHANGED st

\* The value of an output: what P1 sent plus the mask its owner learned.
Unmasked(p, g, mu) == FF(st[p].lambda[g] + mu)

OutputOwnerReceivesMu(p) ==
    LET gs == Owned("output", p)
        n == Need(p, <<"OutputOwnerReceivesMu", 0>>)
        recv == Taken(p, n)[P1]
    IN /\ Runs(p, "OutputOwnerReceivesMu", 0)
       /\ chan' = Without(chan, p, n)
       /\ st' = [st EXCEPT ![p].value =
              [i \in DOMAIN gs |-> Unmasked(p, gs[i], recv[i])]]

-----------------------------------------------------------------------------
Step(p) ==
    \/ FIPrepSend(p) \/ FIPrepRecv(p)
    \/ GenProdPartiesSendP1(p) \/ GenProdP1ReceivesAndSends(p) \/ GenProdPartiesReceive(p)
    \/ MapCorrToCircuit(p)
    \/ PrepMultPartiesSendP1(p) \/ PrepMultP1ReceivesAndSends(p) \/ PrepMultPartiesReceive(p)
    \/ PrepIOPartiesSendOwner(p) \/ PrepIOOwnerReceives(p)
    \/ PopulateDummyCorrelator(p) \/ DummyPrep(p) \/ DummyPrepZero(p)
    \/ InputOwnerSendsP1(p) \/ InputP1Receives(p)
    \/ \E l \in 1 .. Depth : \/ MultP1Sends(p, l) \/ MultPartiesReceive(p, l)
                             \/ MultPartiesSend(p, l) \/ MultP1Receives(p, l)
    \/ OutputP1SendsMu(p) \/ OutputOwnerReceivesMu(p)

Next == \E p \in Party : Step(p)

Spec == Init /\ [][Next]_vars

-----------------------------------------------------------------------------
(* Properties. *)

Has(p, name) == \E s \in DOMAIN Program[prog][p] : \E f \in Program[prog][p][s] : f[1] = name
Stage(p, name) ==
    CHOOSE s \in DOMAIN Program[prog][p] : \E f \in Program[prog][p][s] : f[1] = name
\* Every party has returned from the function, which is in its program.
AllPast(name) == \A p \in Party : Has(p, name) /\ sect[p] > Stage(p, name)

\* The parties' shares of one secret sharing.
SharesOf(f(_)) == Vec(mParties, LAMBDA i : f(i - 1))
OnDegree(shares, d) ==
    \A i \in 1 .. mParties :
        Evaluate(EvPolyFromShares(SubSeq(shares, 1, d + 1)), FF(i)) = shares[i]
Secrets(shares) == SecretsFromSharesAndLength(shares, mBatchSize)

\* The function-independent phase gives every input and multiplication gate its
\* own sharing of degree mParties-mBatchSize with the same secret in all slots:
\* what the packing with the Ei of the function-dependent phase relies on.  It
\* needs every party to combine the messages of the same block of all dealers.
IndSharesRight ==
    AllPast("FIPrepRecv") \/ AllPast("PopulateDummyCorrelator") =>
        \A i \in 1 .. mNIndShrs :
            LET shares == SharesOf(LAMBDA p : st[p].ind[i])
            IN /\ OnDegree(shares, mParties - mBatchSize)
               /\ \A s \in Slot : Secrets(shares)[s] = Secrets(shares)[1]

\* After the product round every batch has a triple: slot by slot the secrets
\* of mShrC are the products of those of mShrA and mShrB, and the three shares
\* of 0 share 0.
TriplesRight ==
    AllPast("GenProdPartiesReceive") =>
        \A b \in MultBatchIdx :
            LET of(f) == Secrets(SharesOf(LAMBDA p : st[p].mult[b][f]))
            IN \A s \in Slot : /\ of("C")[s] = FF(of("A")[s] * of("B")[s])
                              /\ \A z \in {"O1", "O2", "O3"} : of(z)[s] = 0

\* The masks of all gates, rebuilt from the shares all parties hold, or those of
\* the dummy preprocessing.
LambdaOf(g) ==
    CASE prog = "dummyFD" -> DummyMask(g)
      [] prog = "zero" -> 0
      [] OTHER -> Secrets(SharesOf(LAMBDA p : st[p].map[g]))[1]

\* What the online phase of a batch of multiplications needs, whichever
\* preprocessing it comes from: slot by slot, the shares of LambdaA and LambdaB
\* are of the masks of the factors, those of DeltaC of the product of these
\* masks minus the mask of the gate; padding has mask 0.
BatchesRight ==
    (\E f \in {"PrepMultPartiesReceive", "DummyPrep", "DummyPrepZero"} : AllPast(f)) =>
        \A b \in MultBatchIdx : \A s \in Slot :
            LET of(f) == Secrets(SharesOf(LAMBDA p : st[p].prep[b][f]))[s]
                g == MultBatches[b][s]
            IN /\ of("LambdaA") = LambdaOf(Left(g))
               /\ of("LambdaB") = LambdaOf(Right(g))
               /\ of("DeltaC") = FF(LambdaOf(Left(g)) * LambdaOf(Right(g)) - LambdaOf(g))

\* The shares of the masks of a batch of inputs or outputs, where set, share
\* the masks of its gates.
IOBatchesRight ==
    AllPast("DummyPrep") \/ AllPast("DummyPrepZero") =>
        \A b \in 1 .. mNInOutBatches : \A s \in Slot :
            Secrets(SharesOf(LAMBDA p : st[p].packedIO[b]))[s] = LambdaOf(IOBatches[b].gates[s])

\* What P1 learns for a gate is the gate's value in the clear minus the gate's
\* mask, for input and multiplication gates of every layer.
MuMasks ==
    \A g \in DOMAIN st[P1].mu :
        FF(st[P1].mu[g] + LambdaOf(g)) = Clear(inputs)[g]

\* The masks an owner has are those of its input and output gates, and it has
\* those of no other gate unless the preprocessing is a dummy one.
OwnersKnowMasks ==
    \A p \in Party : \A g \in DOMAIN st[p].lambda :
        /\ Gates[g].owner = p \/ prog = "dummyFD"
        /\ st[p].lambda[g] = LambdaOf(g)

\* What the two preprocessing phases leave with the parties is what the
\* online phase takes for granted.
PreprocessingRight ==
    /\ IndSharesRight /\ TriplesRight
    /\ BatchesRight /\ IOBatchesRight /\ OwnersKnowMasks

\* The owners of the output gates obtain what the circuit computes in the
\* clear, the assertion at the end of experiments/ours.cc and of the tests.
OutputsRight ==
    \A p \in Party : Finished(p) =>
        st[p].value = [i \in DOMAIN Owned("output", p) |-> Clear(inputs)[Owned("output", p)[i]]]

\* Messages carry no tags, so every one must have been taken by the function it
\* was meant for: nothing is left in the channels when all parties are done.
Drained == (\A p \in Party : Finished(p)) => \A p, q \in Party : chan[p][q] = <<>>

\* Parties never wait for each other in a circle, for a message that nobody
\* sends, or for one another function has taken: as long as one is not done,
\* some function of some party can run.  Since every function runs once, all
\* parties come to the end.
NobodyStuck ==
    \/ \A p \in Party : Finished(p)
    \/ \E p \in Party : \E f \in todo[p] : CanRun(p, f)

\* All parties come to the end, with the right outputs and empty channels.
EndsRight == NobodyStuck /\ OutputsRight /\ Drained
=============================================================================
