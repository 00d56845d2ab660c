------------------------------ MODULE HmIdeal ------------------------------
(***************************************************************************)
(* What hmmpc's protocols promise: a machine that works on the secrets     *)
(* themselves.  Every instruction of the program assigns a vector of field *)
(* elements to its register once the registers it uses have values: an     *)
(* input takes the dealer's secret, a product multiplies element by        *)
(* element, a truncation drops bits as well as the masks allow, a random   *)
(* vector can be anything, and an opening makes a register's value known.  *)
(***************************************************************************)
EXTENDS Gfp, Sequences

CONSTANTS Input      \* Input[k][i]: the secrets player k holds for register i

VARIABLES code,      \* the instructions
          val,       \* val[i]: what register i holds, or NoValue
          lost       \* lost[i]: the elements of register i that were opened as 0

NoValue == <<>>

\* Register i gets its value in this step.
Ready(i) == val[i] = NoValue /\ val'[i] # NoValue

Assign(i, v) == val' = [val EXCEPT ![i] = v] /\ UNCHANGED code

Inputs == {"input", "inputThreaded", "inputPRG", "inputThreadedPRG", "double", "doublePRG",
           "doubleBundlePRG", "doubleThreadedPRG"}

InputStep(i) ==
    /\ code[i].op \in Inputs /\ ~code[i].drawn /\ Ready(i)
    /\ Assign(i, SubSeq(Input[code[i].from][i], 1, code[i].size))

\* A random vector, of bits if asked, or an input that the dealer draws.
RandomStep(i) ==
    /\ code[i].op \in {"random", "bits", "pairs"} \/ (code[i].op \in Inputs /\ code[i].drawn)
    /\ Ready(i)
    /\ val'[i] \in [1 .. code[i].size -> IF code[i].op = "bits" THEN {0, 1} ELSE Gf]
    /\ Assign(i, val'[i])

MultStep(i) ==
    /\ code[i].op \in {"mult", "shareMult"} /\ Ready(i)
    /\ val[code[i].a] # NoValue /\ val[code[i].b] # NoValue
    /\ Assign(i, [j \in 1 .. code[i].size |-> MultMod(val[code[i].a][j], val[code[i].b][j])])

\* In every row the products of the factors up to each one, or from each one on; nothing but
\* zeros if all were opened as 0, as they are when a blinding factor is 0.
PrefixStep(i) ==
    LET m == code[i]
        v == val[m.a]
        cols == m.size \div m.rows
        first(j) == ((j - 1) \div cols) * cols + 1
        Of(a, b) == LET prod[j \in a .. b] == IF j = a THEN v[a] ELSE MultMod(prod[j - 1], v[j]) IN prod[b]
    IN /\ m.op \in {"prefixMult", "postfixMult"} /\ Ready(i) /\ v # NoValue
       /\ Assign(i, [j \in 1 .. m.size |-> IF lost'[i] = 1 .. m.size THEN 0
                                           ELSE IF m.op = "prefixMult" THEN Of(first(j), j) ELSE Of(j, first(j) + cols - 1)])

\* How much was sent is a number all parties agree on.
CommunicationStep(i) ==
    /\ code[i].op = "communication" /\ Ready(i)
    /\ val'[i] \in [{1} -> Nat]
    /\ Assign(i, val'[i])

Truncations ==
    {"truncate", "truncateBy", "shareTruncate", "multTruncate", "multTruncateML", "multTruncateBy",
     "shareMultTruncate", "shareMultTruncateBy"}
Encodes == {"truncate", "shareTruncate", "multTruncate", "shareMultTruncate"}

\* x without its last d bits, up to one unit.  A gap of 2^(E-d) - 1 is missing
\* if the masked number was opened as 0 and may have lost its sign.  Without the
\* encoding a mask that wraps around leaves the gap in either direction.
TruncationOf(x, d, gaps) ==
    {(MapGfpToInt(x) \div 2^d + e + g * (2^(E - d) - 1)) % PR : e \in -1 .. 1, g \in gaps}
Gaps(i, j) ==
    IF code[i].op \notin Encodes THEN {-1, 0, 1} ELSE IF j \in lost'[i] THEN {-1, 0} ELSE {0}
\* The encoding makes only these positive.
Encodable(x) == MapGfpToInt(x) \in -ConstEncode .. ConstEncode - 1

TruncateStep(i) ==
    LET m == code[i]
        Exact(j) == IF m.op \in {"truncate", "truncateBy", "shareTruncate"} THEN val[m.a][j]
                    ELSE MultMod(val[m.a][j], val[m.b][j])
        encodes == m.op \in Encodes
    IN /\ m.op \in Truncations /\ Ready(i)
       /\ \A j \in 1 .. m.size :
              IF encodes /\ ~Encodable(Exact(j)) THEN val'[i][j] \in Gf
              ELSE val'[i][j] \in TruncationOf(Exact(j), m.precision[j], Gaps(i, j))
       /\ Assign(i, val'[i])

\* reveal_aux opens the second sharing: of the same secret, or of its power.
OpenStep(i) ==
    /\ code[i].op \in {"reveal", "revealTruncate", "revealAux", "shareReveal", "reshare"} /\ Ready(i)
    /\ val[code[i].a] # NoValue
    /\ Assign(i, [j \in 1 .. code[i].size |->
           LET v == val[code[i].a][j]
           IN CASE code[i].op = "revealAux"      -> Pow(v, code[code[i].a].exp)
                [] code[i].op = "revealTruncate" -> Truncate(v, code[i].precision[j])
                [] OTHER                         -> v])

IdealNext == \E i \in 1 .. Len(code) : InputStep(i) \/ RandomStep(i) \/ MultStep(i) \/ PrefixStep(i)
                                         \/ CommunicationStep(i) \/ TruncateStep(i) \/ OpenStep(i)

IdealInit == val = [i \in 1 .. Len(code) |-> NoValue]

IdealSpec == IdealInit /\ [][IdealNext]_<<code, val>>
=============================================================================
