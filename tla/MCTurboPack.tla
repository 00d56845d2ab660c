---------------------------- MODULE MCTurboPack ----------------------------
(***************************************************************************)
(* A circuit for module TurboPack.  Batch size 2: layer 1 has a full batch *)
(* and a padded one, layer 2 a padded one; some parties own no input or no *)
(* output, one owns two; an addition feeds a multiplication, another feeds *)
(* an output, and one output is an input passed through.                   *)
(***************************************************************************)
EXTENDS TurboPack

InputGate(o) == [kind |-> "input", owner |-> o, left |-> 0, right |-> 0, layer |-> 0]
AddGate(l, r) == [kind |-> "add", owner |-> 0, left |-> l, right |-> r, layer |-> 0]
MultGate(l, r, n) == [kind |-> "mult", owner |-> 0, left |-> l, right |-> r, layer |-> n]
OutputGate(o, l) == [kind |-> "output", owner |-> o, left |-> l, right |-> 0, layer |-> 0]

MCGates ==
    << InputGate(0), InputGate(1), InputGate(1),     \* 1 2 3
       AddGate(1, 2),                                \* 4
       MultGate(1, 3, 1), MultGate(4, 2, 1), MultGate(3, 3, 1),  \* 5 6 7
       MultGate(5, 6, 2),                            \* 8
       AddGate(8, 7),                                \* 9
       OutputGate(3, 9), OutputGate(0, 8), OutputGate(0, 4), OutputGate(2, 1) >>

MCInputVectors == {[g \in 1 .. 3 |-> IF g = 1 THEN 2 ELSE IF g = 2 THEN 3 ELSE 5]}
=============================================================================
