---------------------------- MODULE MCHmFunctions ----------------------------
EXTENDS HmFunctionsCheck

MCBlinds == {[j \in 1 .. E |-> 1], [j \in 1 .. E |-> 3 * j], [j \in 1 .. E |-> PR - j],
             [j \in 1 .. E |-> j - 1]}
\* Rows of 1 to 4 small entries of both signs, and rows of 5 to 16 that rise, fall
\* and tie.
MCRowss ==
    UNION {[1 .. n -> {0, 1, 3, PR - 1, PR - 4}] : n \in 1 .. 4}
        \cup UNION {{[j \in 1 .. n |-> MapIntToGfp(j - 8)], [j \in 1 .. n |-> MapIntToGfp(4 - j)],
                     [j \in 1 .. n |-> MapIntToGfp((j * k) % 8)]} : n \in 5 .. 16, k \in {3, 5}}
MCImages == {[i \in 1 .. 18 |-> i], [i \in 1 .. 18 |-> (5 * i) % 7]}
=============================================================================
