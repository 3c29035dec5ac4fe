-------------------------------- MODULE MCDtd --------------------------------
(***************************************************************************)
(* The DTD and what it and the parser store things in: the prolog, hash    *)
(* tables, string pools and allocations.  A behavior is one of one of      *)
(* these components; the others stay in an initial state.                  *)
(***************************************************************************)
EXTENDS MCProlog, HashTable, StringPool, AllocTracker

VARIABLE part
dtdPartVars == <<part, prologVars, hashVars, poolVars, vars>>

MCKeys == 1 .. 5
\* every name in one chain, every name for itself, and names that part only
\* when the table has grown
MCHashes == {[n \in MCKeys |-> 3], [n \in MCKeys |-> n], [n \in MCKeys |-> 16 * n + 1], [n \in MCKeys |-> 8 * n]}
MCStrings == {<<"a">>, <<"b", "b", "b">>}

DtdInit ==
    /\ part \in {"prolog", "names", "pool", "allocations"}
    /\ part # "prolog" => scenario = SectionScene /\ paramEntityParsing = "ALWAYS"
    /\ part # "names" => hash = CHOOSE h \in Hashes : TRUE
    /\ part # "allocations" => activationThresholdBytes = 6 /\ maximumAmplificationFactor = 4
    /\ PrologInit /\ HashInit /\ PoolInit /\ Init

\* Entries and BLOCKs are as good as one another: the first that is free is
\* taken.
EntriesInOrder ==
    \A e \in Entries : (keys'[e] # NoKey /\ keys[e] = NoKey) => \A f \in Entries : f < e => keys[f] # NoKey
BlocksInOrder ==
    \A b \in Blocks : (blockSize'[b] # 0 /\ blockSize[b] = 0) => \A c \in Blocks : c < b => blockSize[c] # 0

Prologs == part = "prolog" /\ PrologNext /\ UNCHANGED <<part, hashVars, poolVars, vars>>
Lookups == /\ part = "names" /\ HashNext /\ EntriesInOrder
           /\ UNCHANGED <<part, prologVars, poolVars, vars>>
Appends == /\ part = "pool" /\ PoolNext /\ BlocksInOrder
           /\ UNCHANGED <<part, prologVars, hashVars, vars>>
Allocates == part = "allocations" /\ Next /\ UNCHANGED <<part, prologVars, hashVars, poolVars>>
DtdNext == Prologs \/ Lookups \/ Appends \/ Allocates
DtdSpec == DtdInit /\ [][DtdNext]_dtdPartVars
=============================================================================
