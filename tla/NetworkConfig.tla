--------------------------- MODULE NetworkConfig ---------------------------
(***************************************************************************)
(* The configuration of a network (scl/net/config.h, config.cc): this      *)
(* party's id and one entry per party, read from a file or made for        *)
(* processes on one host.  A line of the file is its three fields, or      *)
(* BadLine if commas or numbers are missing.                               *)
(***************************************************************************)
EXTENDS SclMath

BadLine == [bad |-> TRUE]
PartyEntry(id, hostname, port) == [id |-> id, hostname |-> hostname, port |-> port]

ValidateIdAndSize(id, n) == id < n
Validate(id, parties) ==
    /\ id < Len(parties)
    /\ \A i \in 1 .. Len(parties) : parties[i].id < Len(parties)
    /\ \A i, j \in 1 .. Len(parties) : i < j => parties[i].id # parties[j].id
\* The constructor from a list, and the one for a single party.
Config(id, parties) == IF Validate(id, parties) THEN Value([id |-> id, parties |-> parties]) ELSE Thrown
LonelyConfig == [id |-> 0, parties |-> <<PartyEntry(0, "0.0.0.0", 0)>>]

Load(id, lines) ==
    IF BadLine \in {lines[i] : i \in 1 .. Len(lines)} \/ ~ValidateIdAndSize(id, Len(lines)) THEN Thrown
    ELSE Config(id, lines)
Localhost(id, n, port_base) ==
    IF ~ValidateIdAndSize(id, n) THEN Thrown
    ELSE Config(id, Vec(n, LAMBDA i : PartyEntry(i - 1, "127.0.0.1", port_base + i - 1)))

\* By position, whatever id the entry there has.
GetParty(config, id) == config.parties[id + 1]
=============================================================================
