------------------------------- MODULE MCDN07 -------------------------------
(***************************************************************************)
(* A circuit for module DN07: two layers, more multiplications than one    *)
(* block of sharings holds, an addition below a multiplication and below   *)
(* an output, owners with two, one and no inputs or outputs.               *)
(***************************************************************************)
EXTENDS DN07

InputGate(o) == [kind |-> "input", owner |-> o, left |-> 0, right |-> 0, layer |-> 0]
AddGate(l, r) == [kind |-> "add", owner |-> 0, left |-> l, right |-> r, layer |-> 0]
MultGate(l, r, n) == [kind |-> "mult", owner |-> 0, left |-> l, right |-> r, layer |-> n]
OutputGate(o, l) == [kind |-> "output", owner |-> o, left |-> l, right |-> 0, layer |-> 0]

MCGates ==
    << InputGate(1), InputGate(0), InputGate(1),                 \* 1 2 3
       AddGate(1, 2),                                            \* 4
       MultGate(4, 3, 1), MultGate(2, 2, 1),                     \* 5 6
       MultGate(5, 6, 2),                                        \* 7
       AddGate(7, 4),                                            \* 8
       OutputGate(2, 8), OutputGate(0, 7), OutputGate(0, 5) >>
MCInputs == [g \in 1 .. 3 |-> <<2, 3, 4>>[g]]
=============================================================================
