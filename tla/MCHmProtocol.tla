---------------------------- MODULE MCHmProtocol ----------------------------
(***************************************************************************)
(* Programs for HmProtocol, after those of UnitTest.cpp, and their inputs. *)
(***************************************************************************)
EXTENDS HmProtocol

In(op, from, degree, size) == [op |-> op, from |-> from, drawn |-> FALSE, degree |-> degree, size |-> size]
Drawn(op, from, degree, size) == [In(op, from, degree, size) EXCEPT !.drawn = TRUE]
Double(op, from, size, exp, auxDegree) ==
    [op |-> op, from |-> from, drawn |-> TRUE, degree |-> T, size |-> size, exp |-> exp, auxDegree |-> auxDegree]
Generate(randoms, pairs) == [op |-> "generate", randoms |-> randoms, pairs |-> pairs]
GenerateBits(n) == [op |-> "generateBits", size |-> n]
GenerateTruncated(queue, precision) ==
    [op |-> "generateTruncated", queue |-> queue, size |-> Len(precision), precision |-> precision]
Phase(op) == [op |-> op]
Online == Phase("startOnline")
Bits(size) == [op |-> "bits", size |-> size]
Random(size) == [op |-> "random", size |-> size]
Mult(op, a, b, size) == [op |-> op, a |-> a, b |-> b, size |-> size]
Trunc(op, a, b, precision) == [op |-> op, a |-> a, b |-> b, size |-> Len(precision), precision |-> precision]
Open(op, a, size) == [op |-> op, a |-> a, size |-> size]
OpenTruncated(a, precision) == [op |-> "revealTruncate", a |-> a, size |-> Len(precision), precision |-> precision]
OpenAux(a, size, degree) == [op |-> "revealAux", a |-> a, size |-> size, degree |-> degree]
Ds(size) == [j \in 1 .. size |-> D]

DoubleBundle(op, from, size) == Double(op, from, size, 1, 2 * T)
Pairs(size) == [op |-> "pairs", size |-> size, exp |-> 1]
GenerateUnbounded(num) == [op |-> "generateUnbounded", size |-> num, rows |-> 1]
Prefix(op, a, rows, size) == [op |-> op, a |-> a, rows |-> rows, size |-> size]
Communication(phase) == [op |-> "communication", phase |-> phase, size |-> 1]

debugSharePRG ==
    <<Online, In("inputPRG", 0, 2 * T, 1), Double("doublePRG", 2, 1, 1, 2 * T),
      Open("shareReveal", 2, 1), Open("reveal", 3, 1), OpenAux(3, 1, 2 * T)>>
\* The test generates 1000 randoms; what it does with them is the same for 1.
debugShareBundlePRG ==
    <<Phase("startOffline"), Generate(1, 0), Phase("endOffline"), Online, DoubleBundle("doubleThreadedPRG", 0, Size),
      Phase("endOnline"), Open("reveal", 5, Size), OpenAux(5, Size, 2 * T)>>
debugRandomSharePRG ==
    <<Phase("startOffline"), Generate(0, 1), Phase("endOffline"), Online, Pairs(Size), Open("reveal", 5, Size),
      OpenAux(5, Size, 2 * T), Phase("endOnline")>>
\* print_communication_oneline, after both phases.
print_communication_oneline == <<Communication("online"), Communication("offline"), Communication("all")>>
counted ==
    <<Phase("startOffline"), Generate(1, 0), Phase("endOffline"), Online, DoubleBundle("doubleBundlePRG", 2, 2),
      Open("reveal", 5, 2), Phase("endOnline")>> \o print_communication_oneline
        \o <<Phase("clearStatus"), Communication("all")>>
\* Single shares: inputs, a product, an opening; a pair of a secret and its power.
shares ==
    <<Phase("startOffline"), Generate(0, 1), Phase("endOffline"), Online, In("input", 0, T, 1), Drawn("input", 1, T, 1), Mult("shareMult", 5, 6, 1),
      Open("shareReveal", 7, 1), Double("double", 1, 1, 3, T), OpenAux(9, 1, T)>>
\* Bundles, with randomness made on demand.
onDemand ==
    <<Online, In("inputThreaded", 0, T, Size), Random(Size), Mult("mult", 2, 3, Size), OpenTruncated(4, Ds(Size))>>
\* Bundles, with all randomness made before.
before ==
    <<Generate(Size, Size), Online, In("inputThreadedPRG", 2, T, Size), Random(Size), Mult("mult", 3, 4, Size),
      Phase("endOnline"), Open("reveal", 5, Size)>>
reshared ==
    <<Drawn("inputThreadedPRG", 1, T, Size), Open("reshare", 1, Size), Drawn("inputPRG", 1, T, Size),
      OpenTruncated(2, Ds(Size))>>
\* Random bits on demand, in the offline phase and in the online phase.
bitsOnDemand == <<Phase("startOffline"), GenerateBits(1), Phase("endOffline"), Online, Bits(2), Open("reveal", 5, 2)>>
\* Random bits made before.
bitsBefore == <<Phase("startOffline"), Generate(2, 0), GenerateBits(2), Phase("endOffline"), Online, Bits(2)>>

\* Truncations with masks made on demand, of bundles and then of a product.
truncated ==
    <<Online, In("input", 0, T, 1), In("input", 1, T, 1), Trunc("truncate", 2, 2, Ds(1)),
      Trunc("multTruncate", 2, 3, Ds(1))>>
truncatedInML ==
    <<Online, In("input", 2, T, 1), In("input", 1, T, 1), Trunc("truncateBy", 2, 2, <<1>>),
      Trunc("multTruncateML", 2, 3, <<D + 1>>)>>
\* Masks of several precisions made before, in the order of their use.
precisions ==
    <<Generate(4 * E, 0), GenerateBits(4 * E), GenerateTruncated("reducedTruncatedWithPrecision", <<1, 2>>),
      GenerateTruncated("reducedTruncatedWithPrecision", <<3>>), In("input", 0, T, 2), In("input", 1, T, 2),
      Trunc("multTruncateBy", 5, 6, <<1, 2>>), Trunc("shareMultTruncateBy", 5, 6, <<3>>), Open("shareReveal", 8, 1)>>
\* Truncations of single shares.
sharesTruncated ==
    <<Generate(2 * E, 0), GenerateBits(2 * E), GenerateTruncated("truncated", Ds(1)),
      GenerateTruncated("reducedTruncated", Ds(1)), In("input", 0, T, 1), In("input", 1, T, 1),
      Trunc("shareTruncate", 5, 5, Ds(1)), Trunc("shareMultTruncate", 5, 6, Ds(1)), Open("shareReveal", 8, 1)>>
\* Products of many factors with blinding pairs made before.
products ==
    <<Phase("startOffline"), Generate(6, 5), GenerateUnbounded(3), Phase("endOffline"), Online, In("input", 0, T, 3),
      Prefix("prefixMult", 6, 1, 3), Open("shareReveal", 7, 3)>>
productsBackwards == [products EXCEPT ![7] = Prefix("postfixMult", 6, 1, 3)]
\* A matrix, the products of its rows on demand.
debugUnboundedPrefixMult ==
    <<In("input", 0, T, 4), Online, Prefix("prefixMult", 1, 2, 4), Open("reveal", 3, 4), Phase("endOnline")>>

Program(code, trueOffline, prg, disperse) ==
    [code |-> code, prg |-> prg, trueOffline |-> trueOffline, disperse |-> disperse]

MCPrograms ==
    {Program(debugSharePRG, FALSE, TRUE, disperse) : disperse \in BOOLEAN}
    \cup {Program(code, FALSE, prg, TRUE) :
             code \in {debugShareBundlePRG, debugRandomSharePRG, counted}, prg \in BOOLEAN}
    \cup {Program(code, TRUE, prg, FALSE) : code \in {products, productsBackwards}, prg \in BOOLEAN}
    \cup {Program(debugUnboundedPrefixMult, FALSE, prg, TRUE) : prg \in BOOLEAN}
    \cup {Program(shares, TRUE, prg, FALSE) : prg \in BOOLEAN}
    \cup {Program(onDemand, FALSE, prg, disperse) : prg \in BOOLEAN, disperse \in BOOLEAN}
    \cup {Program(before, TRUE, prg, TRUE) : prg \in BOOLEAN}
    \cup {Program(reshared, TRUE, TRUE, disperse) : disperse \in BOOLEAN}
    \cup {Program(bitsOnDemand, FALSE, prg, FALSE) : prg \in BOOLEAN}
    \cup {Program(bitsBefore, TRUE, prg, TRUE) : prg \in BOOLEAN}
    \cup {Program(truncated, FALSE, prg, FALSE) : prg \in BOOLEAN}
    \cup {Program(truncatedInML, FALSE, TRUE, disperse) : disperse \in BOOLEAN}
    \cup {Program(precisions, TRUE, TRUE, disperse) : disperse \in BOOLEAN}
    \cup {Program(sharesTruncated, TRUE, TRUE, FALSE)}

MCInput == [k \in Players |-> [i \in 1 .. 10 |-> [j \in 1 .. Size |-> (3 * k + 2 * i + j * j) % PR]]]
=============================================================================
