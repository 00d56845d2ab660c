---------------------------- MODULE LibraryCheck ----------------------------
(***************************************************************************)
(* The libraries under the protocols, called in all ways within bounds: a  *)
(* behaviour is one call of SclCheck, or a sequence of requests made of    *)
(* the generators of GeneratorsCheck.                                      *)
(***************************************************************************)
EXTENDS SclCheck

CONSTANTS BLOCK_SIZE, Base, CachedSizes, Keys, MaxRequests

VARIABLES aes, own, sc, rc4, scl, given, starts, steps

Gen == INSTANCE GeneratorsCheck

genVars == <<aes, own, sc, rc4, scl, given, starts, steps>>
libraryVars == <<called, result, genVars>>

\* No call: the behaviour is that of the generators.
NoCall == [fn |-> "generators"]
LibraryInit ==
    \/ Init /\ aes = None /\ own = None /\ sc = None /\ rc4 = None /\ scl = None
            /\ given = None /\ starts = None /\ steps = None
    \/ Gen!Init /\ called = NoCall /\ result = None

LibraryNext ==
    \/ called # NoCall /\ Next /\ UNCHANGED genVars
    \/ called = NoCall /\ Gen!Next /\ UNCHANGED <<called, result>>

LibrarySpec == LibraryInit /\ [][LibraryNext]_libraryVars

\* What GeneratorsCheck says of the bytes handed out.
FreshBytes == called = NoCall => Gen!FreshBytes
=============================================================================
