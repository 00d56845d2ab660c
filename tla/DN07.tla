------------------------------- MODULE DN07 -------------------------------
(***************************************************************************)
(* The DN07 baseline (dn07.h, dn07.cc) run by mParties parties in the      *)
(* order and with the threads of experiments/dn07.cc, or with the constant *)
(* preprocessing of its tests.  The last parties know their shares of all  *)
(* masked values beforehand (they are 0), so that they send their part of  *)
(* every multiplication before the inputs are known; only the first        *)
(* mThreshold + 1 take part in the online phase.                           *)
(*                                                                         *)
(* As in module TurboPack an action is one protocol function of one party, *)
(* which waits until all it receives has come, and messages carry no tag.  *)
(***************************************************************************)
EXTENDS PackedSharing, SequencesExt, FiniteSetsExt

CONSTANTS
    mParties, mThreshold,
    Gates,            \* the circuit: a sequence of [kind, owner, left, right, layer]
    Inputs,           \* the value of every input gate
    Seed              \* the generators of the parties

\* The constructor's check.
ASSUME HonestMajority == mParties > 2 * mThreshold
ASSUME PointsDiffer == mParties < P

Party == 0 .. mParties - 1
P1 == 0
First == 0 .. mThreshold

GateIds(kind) == SelectSeq([g \in 1 .. Len(Gates) |-> g], LAMBDA g : Gates[g].kind = kind)
Owned(kind, p) == SelectSeq(GateIds(kind), LAMBDA g : Gates[g].owner = p)
InLayer(l) == SelectSeq(GateIds("mult"), LAMBDA g : Gates[g].layer = l)
Depth == Max({Gates[g].layer : g \in ToSet(GateIds("mult"))})
Concat(ss) ==
    LET upTo[i \in 0 .. Len(ss)] == IF i = 0 THEN <<>> ELSE upTo[i - 1] \o ss[i]
    IN upTo[Len(ss)]

\* The order of the loops over owners and over layers.
InputOrder == Concat([c \in 1 .. mParties |-> Owned("input", c - 1)])
MultOrder == Concat([l \in 1 .. Depth |-> InLayer(l)])
mNInputs == Len(InputOrder)
mNMults == Len(MultOrder)
NBlocks(amount) == (amount + mThreshold) \div (mThreshold + 1)

\* GetDn07Share and GetClear from the leaves up; a gate below which a share has
\* not been set would throw.
Extend(leaf, mult(_, _)) ==
    LET val[g \in 1 .. Len(Gates)] ==
            CASE g \in DOMAIN leaf -> leaf[g]
              [] Gates[g].kind = "add" -> FF(val[Gates[g].left] + val[Gates[g].right])
              [] Gates[g].kind = "mult" -> mult(val[Gates[g].left], val[Gates[g].right])
              [] Gates[g].kind = "output" -> val[Gates[g].left]
    IN val
Clear == Extend(Inputs, LAMBDA x, y : FF(x * y))
NoProduct(x, y) == 0
GetDn07Share(shr, g) == Extend(shr, NoProduct)[g]

-----------------------------------------------------------------------------
VARIABLES
    chan,      \* chan[p][q]: field elements from p to q
    todo,      \* per party, the functions of the current section still to run
    sect,      \* per party, the current section of its program
    prep,      \* "random": the preprocessing protocol; "dummy": DummyPrep
    st         \* per party, its sharings, shares of gates, queues and results

vars == <<chan, todo, sect, prep, st>>

\* FF::Random(mPRG): any field element; here a fixed spread of them.
Draw(p, a, b, c) == FF(Seed * (1 + 2 * p + 3 * a + p * b * b + 5 * b * c + c))
Draws(p, a, b, n) == [c \in 1 .. n |-> Draw(p, a, b, c)]

\* A section is a set of functions that run at the same time, each in a thread
\* of its own; the next section starts when all have returned (join).
Sections(how) ==
    << IF how = "random" THEN {<<"PrepPartiesSend", 0>>, <<"PrepPartiesReceive", 0>>} ELSE {<<"DummyPrep", 0>>},
       {<<"FDMapPrepToGates", 0>>}, {<<"FDMultPartiesSendP1", 0>>}, {<<"FDMultP1Receives", 0>>},
       {<<"InputPartiesSendOwners", 0>>}, {<<"InputOwnersReceiveAndSendParties", 0>>}, {<<"InputPartiesReceive", 0>>} >>
    \o Concat([l \in 1 .. Depth |-> << {<<"MultPartiesSendP1", l>>, <<"MultP1Receives", l>>},
                                       {<<"MultP1SendsParties", l>>, <<"MultPartiesReceive", l>>} >>])
    \o << {<<"OutputPartiesSendOwners", 0>>}, {<<"OutputOwnersReceive", 0>>} >>

\* What returns at once because of the party's number is left out.
\* Mutant: the shares of the outputs are sent by all parties.
RunBySendAll(f, p) ==
    CASE f \in {"FDMultP1Receives", "MultP1Receives", "MultP1SendsParties"} -> p = P1
      [] f = "FDMultPartiesSendP1" -> p \notin First
      [] f \in {"InputPartiesSendOwners", "InputPartiesReceive", "MultPartiesSendP1", "MultPartiesReceive"} -> p \in First
      [] OTHER -> TRUE
RunBy(f, p) ==
    CASE f \in {"FDMultP1Receives", "MultP1Receives", "MultP1SendsParties"} -> p = P1
      [] f = "FDMultPartiesSendP1" -> p \notin First
      [] f \in {"InputPartiesSendOwners", "InputPartiesReceive", "MultPartiesSendP1", "MultPartiesReceive",
                "OutputPartiesSendOwners"} -> p \in First
      [] OTHER -> TRUE
Program ==
    [how \in {"random", "dummy"} |-> [p \in Party |->
        SelectSeq([s \in 1 .. Len(Sections(how)) |-> {f \in Sections(how)[s] : RunBy(f[1], p)}],
                  LAMBDA S : S # {})]]
Finished(p) == sect[p] > Len(Program[prep][p])

Init ==
    /\ chan = [p \in Party |-> [q \in Party |-> <<>>]]
    /\ prep \in {"random", "dummy"}
    /\ sect = [p \in Party |-> 1]
    /\ todo = [p \in Party |-> Program[prep][p][1]]
    /\ st = [p \in Party |-> [rand |-> <<>>, double |-> <<>>, map |-> <<>>, shr |-> <<>>,
                              fromLast |-> <<>>, toSend |-> <<>>, result |-> <<>>]]

Nothing == [q \in Party |-> <<>>]
ToOne(r, s) == [q \in Party |-> IF q = r THEN s ELSE <<>>]
From(S, n) == [q \in Party |-> IF q \in S THEN n ELSE 0]

\* How many elements function f of party p receives, and from whom.
Need(p, f) ==
    CASE f[1] = "PrepPartiesReceive" -> From(Party, NBlocks(mNInputs) + 2 * NBlocks(mNMults))
      [] f[1] = "FDMultP1Receives" -> From(Party \ First, mNMults)
      [] f[1] = "InputOwnersReceiveAndSendParties" -> From(First, Len(Owned("input", p)))
      [] f[1] = "InputPartiesReceive" -> [q \in Party |-> Len(Owned("input", q))]
      [] f[1] = "MultP1Receives" -> From(First, Len(InLayer(f[2])))
      [] f[1] = "MultPartiesReceive" -> From({P1}, Len(InLayer(f[2])))
      [] f[1] = "OutputOwnersReceive" -> From(First, Len(Owned("output", p)))
      [] OTHER -> From({}, 0)

CanRun(p, f) == \A q \in Party : Len(chan[q][p]) >= Need(p, f)[q]

\* Function name(l) of party p runs now: it takes what it receives, appends
\* out[q] to its channel to q, and leaves its state as new; the join of the
\* section is in the last function of it.
Runs(p, name, l, out, new) ==
    LET n == Need(p, <<name, l>>)
        left == [q \in Party |-> [chan[q] EXCEPT ![p] = SubSeq(@, n[q] + 1, Len(@))]]
    IN /\ <<name, l>> \in todo[p]
       /\ CanRun(p, <<name, l>>)
       /\ chan' = [left EXCEPT ![p] = [q \in Party |-> @[q] \o out[q]]]
       /\ st' = [st EXCEPT ![p] = new]
       /\ IF todo[p] = {<<name, l>>}
          THEN /\ sect' = [sect EXCEPT ![p] = @ + 1]
               /\ todo' = [todo EXCEPT ![p] = IF Finished(p) \/ sect[p] = Len(Program[prep][p]) THEN {}
                                              ELSE Program[prep][p][sect[p] + 1]]
          ELSE todo' = [todo EXCEPT ![p] = @ \ {<<name, l>>}] /\ UNCHANGED sect
       /\ UNCHANGED prep

\* The i-th element from every party in S, in the order of the parties.
Column(p, S, i) == Vec(Cardinality(S), LAMBDA j : chan[SetToSortSeq(S, <)[j]][p][i])

-----------------------------------------------------------------------------
(* Offline phase: every party deals, all keep the combinations given by    *)
(* the powers of the dealers' numbers.                                     *)

\* Mutant: the two sharings of a block get secrets of their own.
DealtDoubleApart(p, block) ==
    <<SharesFromEvPoly(EvPolyFromSecretAndPointAndDegree(Draw(p, 2, block, 0), 0, mThreshold, Draws(p, 2, block, mThreshold)), mParties),
      SharesFromEvPoly(EvPolyFromSecretAndPointAndDegree(Draw(p, 4, block, 0), 0, 2 * mThreshold,
                           Draws(p, 3, block, 2 * mThreshold)), mParties)>>
DealtDouble(p, block) ==
    LET secret == Draw(p, 2, block, 0)
        shares(degree, a) ==
            SharesFromEvPoly(EvPolyFromSecretAndPointAndDegree(secret, 0, degree, Draws(p, a, block, degree)), mParties)
    IN <<shares(mThreshold, 2), shares(2 * mThreshold, 3)>>
DealtRandom(p, block) ==
    SharesFromEvPoly(EvPolyFromSecretAndPointAndDegree(Draw(p, 1, block, 0), 0, mThreshold,
                         Draws(p, 1, block, mThreshold)), mParties)

PrepPartiesSend(p) ==
    LET dealt == Vec(NBlocks(mNInputs), LAMBDA block : DealtRandom(p, block))
                 \o Concat(Vec(NBlocks(mNMults), LAMBDA block : DealtDouble(p, block)))
    IN Runs(p, "PrepPartiesSend", 0, [q \in Party |-> Vec(Len(dealt), LAMBDA d : dealt[d][q + 1])], st[p])

\* PrecomputeVandermonde, and one row of received shares multiplied by it.
mVandermonde == [j \in Party |-> [idx \in 0 .. mThreshold |-> FProd(LAMBDA i : j, idx)]]
Extract(row) ==
    Vec(mThreshold + 1, LAMBDA idx : FSum(LAMBDA j : mVandermonde[j - 1][idx - 1] * row[j], mParties))

PrepPartiesReceive(p) ==
    LET nRand == NBlocks(mNInputs)
        rand == Concat(Vec(nRand, LAMBDA b : Extract(Column(p, Party, b))))
        double == Concat(Vec(NBlocks(mNMults), LAMBDA b :
                      LET shr == Extract(Column(p, Party, nRand + 2 * b - 1))
                          dshr == Extract(Column(p, Party, nRand + 2 * b))
                      IN Vec(mThreshold + 1, LAMBDA i : [shr |-> shr[i], dshr |-> dshr[i]])))
    IN Runs(p, "PrepPartiesReceive", 0, Nothing, [st[p] EXCEPT !.rand = @ \o rand, !.double = @ \o double])

DummyPrep(p) ==
    LET value == FF(Seed)
    IN Runs(p, "DummyPrep", 0, Nothing,
            [st[p] EXCEPT !.rand = [i \in 1 .. mNInputs |-> value],
                          !.double = [i \in 1 .. mNMults |-> [shr |-> value, dshr |-> value]]])

-----------------------------------------------------------------------------
(* Function-dependent phase. *)

FDMapPrepToGates(p) ==
    LET at(order) == [g \in ToSet(order) |-> CHOOSE i \in DOMAIN order : order[i] = g]
    IN Runs(p, "FDMapPrepToGates", 0, Nothing, [st[p] EXCEPT !.map = [inputs |-> at(InputOrder), mults |-> at(MultOrder)]])

RandOf(p, g) == st[p].rand[st[p].map.inputs[g]]
DoubleOf(p, g) == st[p].double[st[p].map.mults[g]]

\* The share of a product minus that of the degree-2t mask.
MaskedProduct(p, shr, g) ==
    FF(GetDn07Share(shr, Gates[g].left) * GetDn07Share(shr, Gates[g].right) - DoubleOf(p, g).dshr)

\* The last parties take the shares of the masks as those of the gates.
FDMultPartiesSendP1(p) ==
    LET shr == [g \in ToSet(InputOrder) \cup ToSet(MultOrder) |->
                   IF Gates[g].kind = "input" THEN RandOf(p, g) ELSE DoubleOf(p, g).shr]
    IN Runs(p, "FDMultPartiesSendP1", 0, ToOne(P1, Vec(mNMults, LAMBDA i : MaskedProduct(p, shr, MultOrder[i]))),
            [st[p] EXCEPT !.shr = shr])

FDMultP1Receives(p) ==
    Runs(p, "FDMultP1Receives", 0, Nothing,
         [st[p] EXCEPT !.fromLast = Vec(mNMults, LAMBDA i : Column(p, Party \ First, i))])

-----------------------------------------------------------------------------
(* Online phase. *)

InputPartiesSendOwners(p) ==
    Runs(p, "InputPartiesSendOwners", 0,
         [q \in Party |-> [i \in DOMAIN Owned("input", q) |-> RandOf(p, Owned("input", q)[i])]], st[p])

\* The shares of the first parties of a sharing of degree mThreshold of a
\* public value in which the last mThreshold parties have 0.
ZeroAtTheLast(value) ==
    SharesFromEvPoly(EvPolynomial(
        Vec(mThreshold + 1, LAMBDA i : IF i = 1 THEN 0 ELSE FF(mParties - mThreshold + i - 1)),
        Vec(mThreshold + 1, LAMBDA i : IF i = 1 THEN value ELSE 0)), mThreshold + 1)

InputOwnersReceiveAndSendParties(p) ==
    LET gs == Owned("input", p)
        dealt == Vec(Len(gs), LAMBDA i :
                     ZeroAtTheLast(FF(Inputs[gs[i]] - SecretFromPointAndShares(0, Column(p, First, i)))))
    IN Runs(p, "InputOwnersReceiveAndSendParties", 0,
            [q \in Party |-> IF q \in First THEN [i \in DOMAIN gs |-> dealt[i][q + 1]] ELSE <<>>], st[p])

InputPartiesReceive(p) ==
    LET got(g) == LET gs == Owned("input", Gates[g].owner)
                  IN chan[Gates[g].owner][p][CHOOSE i \in DOMAIN gs : gs[i] = g]
        shr == [g \in ToSet(InputOrder) |-> FF(got(g) + RandOf(p, g))]
    IN Runs(p, "InputPartiesReceive", 0, Nothing, [st[p] EXCEPT !.shr = shr])

MultPartiesSendP1(p, l) ==
    Runs(p, "MultPartiesSendP1", l,
         ToOne(P1, [i \in DOMAIN InLayer(l) |-> MaskedProduct(p, st[p].shr, InLayer(l)[i])]), st[p])

MultP1Receives(p, l) ==
    LET n == Len(InLayer(l))
        secret(i) == SecretFromPointAndShares(0, Column(p, First, i) \o st[p].fromLast[i])
    IN Runs(p, "MultP1Receives", l, Nothing,
            [st[p] EXCEPT !.toSend = @ \o Vec(n, LAMBDA i : ZeroAtTheLast(secret(i))),
                          !.fromLast = SubSeq(@, n + 1, Len(@))])

MultP1SendsParties(p, l) ==
    LET n == Len(InLayer(l))
    IN Runs(p, "MultP1SendsParties", l,
            [q \in Party |-> IF q \in First THEN [i \in 1 .. n |-> st[p].toSend[i][q + 1]] ELSE <<>>],
            [st[p] EXCEPT !.toSend = SubSeq(@, n + 1, Len(@))])

MultPartiesReceive(p, l) ==
    LET gs == InLayer(l)
        shr == [g \in ToSet(gs) |-> FF(chan[P1][p][CHOOSE i \in DOMAIN gs : gs[i] = g] + DoubleOf(p, g).shr)]
    IN Runs(p, "MultPartiesReceive", l, Nothing,
            [st[p] EXCEPT !.shr = [g \in DOMAIN @ \cup DOMAIN shr |-> IF g \in DOMAIN shr THEN shr[g] ELSE @[g]]])

OutputShares(p) ==
    [q \in Party |-> LET gs == Owned("output", q) IN [i \in DOMAIN gs |-> GetDn07Share(st[p].shr, gs[i])]]
OutputPartiesSendOwners(p) == Runs(p, "OutputPartiesSendOwners", 0, OutputShares(p), st[p])

OutputOwnersReceive(p) ==
    Runs(p, "OutputOwnersReceive", 0, Nothing,
         [st[p] EXCEPT !.result = [i \in DOMAIN Owned("output", p) |-> SecretFromPointAndShares(0, Column(p, First, i))]])

-----------------------------------------------------------------------------
Step(p) ==
    \/ PrepPartiesSend(p) \/ PrepPartiesReceive(p) \/ DummyPrep(p)
    \/ FDMapPrepToGates(p) \/ FDMultPartiesSendP1(p) \/ FDMultP1Receives(p)
    \/ InputPartiesSendOwners(p) \/ InputOwnersReceiveAndSendParties(p) \/ InputPartiesReceive(p)
    \/ \E l \in 1 .. Depth : \/ MultPartiesSendP1(p, l) \/ MultP1Receives(p, l)
                             \/ MultP1SendsParties(p, l) \/ MultPartiesReceive(p, l)
    \/ OutputPartiesSendOwners(p) \/ OutputOwnersReceive(p)
Next == \E p \in Party : Step(p)

Spec == Init /\ [][Next]_vars

-----------------------------------------------------------------------------
\* The parties' shares of gate g lie on one polynomial of degree mThreshold with
\* the gate's value at 0, as soon as all have set theirs: the first parties from
\* what the owner or P1 sends online, the last ones long before, from the masks
\* alone.  Everything P1 opens rests on it.
SharesRight ==
    \A g \in 1 .. Len(Gates) :
        (Gates[g].kind \in {"input", "mult"} /\ \A p \in Party : g \in DOMAIN st[p].shr) =>
            LET shares == Vec(mParties, LAMBDA i : st[i - 1].shr[g])
                some == SubSeq(shares, 1, mThreshold + 1)
            IN /\ SecretFromPointAndShares(0, some) = Clear[g]
               /\ \A i \in 1 .. mParties : SecretFromPointAndShares(i, some) = shares[i]

\* Whatever order the threads and the messages take, the parties stop only at
\* the end of their programs (every function runs once, so they do stop): the
\* owners then have what the circuit computes in the clear (the assertion of
\* experiments/dn07.cc), and no message, opened value or share from the last
\* parties is left over.
EndsRight ==
    (\A p \in Party : \A f \in todo[p] : ~CanRun(p, f)) =>
        \A p \in Party :
           /\ Finished(p) /\ chan[p] = Nothing /\ st[p].fromLast = <<>> /\ st[p].toSend = <<>>
           /\ st[p].result = [i \in DOMAIN Owned("output", p) |-> Clear[Owned("output", p)[i]]]
=============================================================================
