-------------------------- MODULE CircuitFromConfig --------------------------
(***************************************************************************)
(* Circuit::FromConfig, the synthetic circuit of the experiments, as the   *)
(* sequence of Circuit calls it makes.  A configuration is any the caller  *)
(* may pass; FromConfig refuses some by an exception.  Division by zero    *)
(* and an index past the end of a layer end the program; they are the      *)
(* outcomes "fpe" and "oob".  Circuits built call by call, within bounds of *)
(* their own, are the behaviours with pc = "free".                         *)
(***************************************************************************)
EXTENDS Circuit

CONSTANTS
    MaxPerClient, MaxWidth, MaxDepth,                      \* bounds of the configurations
    MaxInputs, MaxAdds, MaxMults, MaxOutputs, MaxLayers    \* bounds of the free circuits

ASSUME BoundAssumption ==
    {MaxPerClient, MaxWidth, MaxDepth, MaxInputs, MaxAdds, MaxMults, MaxOutputs, MaxLayers} \subseteq Nat

VARIABLES config, pc, ctr
fvars == <<vars, config, pc, ctr>>

\* n_clients.  FromConfig numbers the clients with the index of its loops.
nParties == Cardinality(Clients)
ASSUME NumberedClients == nParties \in Nat /\ Clients = 0 .. nParties - 1

PerClientCounts == UNION {[1 .. n -> 0 .. MaxPerClient] : n \in {nParties, nParties + 1}}

Configs == [inp_gates : PerClientCounts, out_gates : PerClientCounts, width : 0 .. MaxWidth, depth : 0 .. MaxDepth]
NoConfig == [inp_gates |-> <<>>, out_gates |-> <<>>, width |-> 0, depth |-> 0]

FInit ==
    /\ Init /\ ctr = 0
    /\ \/ config \in Configs /\ pc = "validate"
       \/ config = NoConfig /\ pc = "free"

\* Any call in any order the callers keep to.
Small ==
    /\ Cardinality(OfKind("input")) <= MaxInputs /\ Cardinality(OfKind("add")) <= MaxAdds
    /\ mSize <= MaxMults /\ Cardinality(OfKind("output")) <= MaxOutputs /\ GetDepth <= MaxLayers
FreeCall == pc = "free" /\ Next /\ Small' /\ UNCHANGED <<config, pc, ctr>>

ComputeNumberOf(counts) == SumFunction(counts)
nInputs == ComputeNumberOf(config.inp_gates)
nOutputs == ComputeNumberOf(config.out_gates)

\* The client that owns the i-th gate of a nested loop over clients and gates.
OwnerOf(counts, i) ==
    Min({c \in Clients : SumFunctionOnSet(counts, 1 .. c + 1) > i})

Goto(label, c) == pc' = label /\ ctr' = c

\* Mutant: the width is not checked against the number of inputs.
ValidateAnyWidth ==
    /\ pc = "validate"
    /\ Goto(CASE Len(config.inp_gates) # nParties -> "thrown"
              [] Len(config.out_gates) # nParties -> "thrown"
              [] nInputs = 0 -> "fpe"
              [] nInputs % 2 # 0 -> "thrown"
              [] OTHER -> "inputs", 0)
    /\ UNCHANGED <<vars, config>>

\* The checks in the order of the code, the modulo by nInputs included.
Validate ==
    /\ pc = "validate"
    /\ Goto(IF Len(config.inp_gates) # nParties \/ Len(config.out_gates) # nParties
            THEN "thrown"
            ELSE IF nInputs = 0 THEN "fpe"
            ELSE IF config.width % nInputs # 0 \/ nInputs % 2 # 0 THEN "thrown"
            ELSE "inputs", 0)
    /\ UNCHANGED <<vars, config>>

AddInput ==
    /\ pc = "inputs" /\ ctr < nInputs
    /\ Input(OwnerOf(config.inp_gates, ctr))
    /\ Goto("inputs", ctr + 1)
    /\ UNCHANGED config

EndInputs ==
    /\ pc = "inputs" /\ ctr = nInputs
    /\ CloseInputs
    /\ Goto("add", 0)
    /\ UNCHANGED config

\* x and y of the ctr-th pair: inputs in the first layer, which are the gates
\* made first, multiplications of the layer before in the others.
PairSource ==
    IF GetDepth = 1 THEN [i \in 1 .. nInputs |-> i]
    ELSE flatMultLayers[GetDepth - 1]
PairIndex(k) == IF GetDepth = 1 THEN ((2 * ctr + k) % nInputs) + 1 ELSE 2 * ctr + k + 1

AddPair ==
    /\ pc = "add" /\ ctr < config.width \div 2
    /\ IF {PairIndex(0), PairIndex(1)} \subseteq DOMAIN PairSource
       THEN Add(PairSource[PairIndex(0)], PairSource[PairIndex(1)]) /\ Goto("mult", ctr)
       ELSE UNCHANGED vars /\ Goto("oob", ctr)
    /\ UNCHANGED config

MultFirst  == pc = "mult" /\ Mult /\ Goto("mult2", ctr) /\ UNCHANGED config
MultSecond == pc = "mult2" /\ Mult /\ Goto("add", ctr + 1) /\ UNCHANGED config

NextLayer ==
    /\ pc = "add" /\ ctr = config.width \div 2 /\ GetDepth < config.depth
    /\ NewLayer
    /\ Goto("add", 0)
    /\ UNCHANGED config

EndLayers ==
    /\ pc = "add" /\ ctr = config.width \div 2 /\ GetDepth >= config.depth
    /\ LastLayer
    /\ Goto("outputs", 0)
    /\ UNCHANGED config

AddOutput ==
    /\ pc = "outputs" /\ ctr < nOutputs
    /\ IF config.width = 0 THEN UNCHANGED vars /\ Goto("fpe", ctr)
       ELSE IF config.depth = 0
               \/ (ctr % config.width) + 1 \notin DOMAIN flatMultLayers[config.depth]
       THEN UNCHANGED vars /\ Goto("oob", ctr)
       ELSE /\ Output(OwnerOf(config.out_gates, ctr),
                      flatMultLayers[config.depth][(ctr % config.width) + 1])
            /\ Goto("outputs", ctr + 1)
    /\ UNCHANGED config

EndOutputs ==
    /\ pc = "outputs" /\ ctr = nOutputs
    /\ CloseOutputs
    /\ Goto("built", 0)
    /\ UNCHANGED config

\* Preparing the circuit for a run, as the experiments go on.
Prepare ==
    /\ pc = "built"
    /\ SetNetwork \/ GenCorrelator \/ FIPrepRecv \/ MapCorrToCircuit
    /\ UNCHANGED <<config, pc, ctr>>

FNext ==
    \/ Validate \/ AddInput \/ EndInputs \/ AddPair \/ MultFirst \/ MultSecond
    \/ NextLayer \/ EndLayers \/ AddOutput \/ EndOutputs \/ Prepare
    \/ FreeCall

FSpec == FInit /\ [][FNext]_fvars

-----------------------------------------------------------------------------
\* The checks refuse every configuration that would index past a layer: only
\* zero inputs, zero width or zero depth get by them and end the program.
FaultsOnlyOnZero ==
    /\ pc = "fpe" => nInputs = 0 \/ (config.width = 0 /\ nOutputs > 0)
    /\ pc = "oob" => config.depth = 0 /\ nOutputs > 0

\* A built circuit has the metrics test_circuit.cc requires, and wastes less
\* than a batch per layer: a layer of w gates has ceil(w/k) batches (one when
\* it is empty), all of them full.
MetricsRight ==
    pc = "built" =>
        /\ config.depth > 0 => GetDepth = config.depth /\ mSize = config.width * config.depth
        /\ Cardinality(OfKind("input")) = nInputs
        /\ Cardinality(OfKind("output")) = nOutputs
        /\ width = config.width
        /\ \A l \in 1 .. GetDepth :
               Len(multLayers[l]) =
                   Max({1, (Len(flatMultLayers[l]) + mBatchSize - 1) \div mBatchSize})
        /\ \A layer \in AllLayers : \A batch \in ToSet(layer) : Len(batch) = mBatchSize

\* FromConfig refuses, builds what was asked for, or faults on a zero.
FromConfigRight == FaultsOnlyOnZero /\ MetricsRight


-----------------------------------------------------------------------------
(* The inductive invariant behind FromConfigRight, next to IndInv *)

Building == {"inputs", "add", "mult", "mult2", "outputs", "built"}

\* The checks of FromConfig, as long as it builds.
Accepted ==
    /\ Len(config.inp_gates) = nParties /\ Len(config.out_gates) = nParties
    /\ nInputs # 0 /\ config.width % nInputs = 0 /\ nInputs % 2 = 0
AcceptedInv ==
    /\ pc \in Building \cup {"validate"} => config \in Configs /\ ctr \in Nat
    /\ pc \in Building => Accepted

Count(kind) == Cardinality(OfKind(kind))

\* Inputs only, one for every turn of the loop.
InputsInv ==
    pc \in {"validate", "inputs"} =>
        /\ Count("input") = ctr /\ Count("mult") = 0 /\ Count("output") = 0
        /\ GetDepth = 1 /\ Len(flatMultLayers[1]) = 0 /\ width = 0
        /\ pc = "validate" => ctr = 0

\* Two multiplications for every turn; all layers before the last have the
\* configured width, and so far no more than the configured depth is begun.
Done == 2 * ctr + (IF pc = "mult2" THEN 1 ELSE 0)
GrowthInv ==
    pc \in {"add", "mult", "mult2"} =>
        /\ nInputs \in Nat \ {0} /\ Count("input") = nInputs /\ Count("output") = 0
        /\ Count("mult") = config.width * (GetDepth - 1) + Done
        /\ GetDepth = 1 \/ GetDepth <= config.depth
        /\ ctr <= config.width \div 2 /\ (pc # "add" => ctr < config.width \div 2)
        /\ \A l \in 1 .. GetDepth - 1 : Len(flatMultLayers[l]) = config.width
        /\ Len(flatMultLayers[GetDepth]) = Done
        /\ (GetDepth = 1 => width = 0) /\ (GetDepth > 1 => width = config.width)

\* All layers are built; on a zero, the first output is already a fault.
OutputsInv ==
    pc \in {"outputs", "built"} =>
        /\ Count("input") = nInputs /\ (pc = "outputs" => Count("output") = ctr)
        /\ Count("mult") = config.width * GetDepth
        /\ (config.depth = 0 => GetDepth = 1) /\ (config.depth > 0 => GetDepth = config.depth)
        /\ \A l \in 1 .. GetDepth : Len(flatMultLayers[l]) = config.width
        /\ width = config.width
        /\ pc = "outputs" /\ (config.width = 0 \/ config.depth = 0) => ctr = 0
        /\ pc = "built" => isClosed /\ Count("output") = nOutputs

BuildInv == IndInv /\ AcceptedInv /\ InputsInv /\ GrowthInv /\ OutputsInv /\ FaultsOnlyOnZero

\* FromConfig makes the inputs first, so that the i-th gate is the i-th input.
InputsFirst ==
    /\ pc \in {"validate", "inputs"} => DOMAIN gates = OfKind("input")
    /\ pc \in {"add", "mult", "mult2"} => 1 .. nInputs \subseteq OfKind("input")
=============================================================================
