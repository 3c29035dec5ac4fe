------------------------------ MODULE HashTable ------------------------------
(***************************************************************************)
(* HASH_TABLE: open addressing with double hashing in an array whose size  *)
(* is a power of two.  lookup, with the rehashing when the array is half   *)
(* full, is a sequence of steps; no other call comes between them.         *)
(***************************************************************************)
EXTENDS Integers, FiniteSets

CONSTANTS
    KeySet,        \* names
    Entries,       \* the NAMED structures, allocated and free
    NoEntry,       \* NULL
    NoKey,
    Hashes,        \* the hash functions: one for each salt
    INIT_POWER, InitSize,
    PowerLimit     \* sizeof(unsigned long) * 8

ASSUME HashAssumption ==
    /\ NoEntry \notin Entries /\ NoKey \notin KeySet
    /\ Hashes \subseteq [KeySet -> Nat]
    /\ <<INIT_POWER, InitSize>> \in {<<2, 4>>, <<3, 8>>, <<4, 16>>, <<5, 32>>, <<6, 64>>}

VARIABLES
    hash,        \* hash: sip24 with the salt of the parser
    tabV, tabPower, tabSize, tabUsed,    \* v, power, size and used of the table
    keys,        \* name of each entry
    newV,        \* the array that is filled when the table grows
    rehashed,    \* how far
    stage,       \* where in lookup: "idle" (not in it), "grow", "insert"
    wanted,      \* its argument name
    answer       \* <<name, what it returned>>
tabVars == <<tabV, tabPower, tabSize, tabUsed>>
hashVars == <<hash, tabVars, keys, newV, rehashed, stage, wanted, answer>>

\* size is 1 << power; SECOND_HASH is even, so that | 1 adds one
PROBE_STEPEven(h, size) == (((h \div size) * 2) % (size \div 4)) % 256
PROBE_STEP(h, size) == ((((h \div size) * 2) % (size \div 4)) + 1) % 256
\* the k-th slot that is looked at for a hash value
SlotOf(h, size, k) == ((h % size) + k * (size - PROBE_STEP(h, size))) % size
Slot(n, size, k) == SlotOf(hash[n], size, k)

Slots(size) == 0 .. size - 1
Empty(size) == [i \in Slots(size) |-> NoEntry]
\* the k-th slot is the first where the loop ends: at n or at NULL
EndsAt(v, size, n, k) ==
    LET ends(j) == v[Slot(n, size, j)] # NoEntry => keys[v[Slot(n, size, j)]] = n
    IN ends(k) /\ \A j \in 0 .. k - 1 : ~ends(j)
\* the same for the loops that do not compare names
FreeAt(v, size, n, k) ==
    /\ v[Slot(n, size, k)] = NoEntry
    /\ \A j \in 0 .. k - 1 : v[Slot(n, size, j)] # NoEntry

HashInit ==
    /\ hash \in Hashes /\ keys = [e \in Entries |-> NoKey]
    /\ tabV = Empty(0) /\ tabPower = 0 /\ tabSize = 0 /\ tabUsed = 0
    /\ newV = Empty(0) /\ rehashed = 0 /\ stage = "idle"
    /\ wanted = NoKey /\ answer = <<NoKey, NoEntry>>

Return(n, e) == answer' = <<n, e>> /\ stage' = "idle" /\ wanted' = NoKey
-----------------------------------------------------------------------------
\* nothing was inserted yet, and nothing is: a lookup without createSize or
\* one that gets no memory
LookupNoTable(n) ==
    /\ stage = "idle" /\ tabSize = 0
    /\ Return(n, NoEntry)
    /\ UNCHANGED <<hash, tabVars, keys, newV, rehashed>>
LookupFirst(n) ==
    /\ stage = "idle" /\ tabSize = 0
    /\ tabPower' = INIT_POWER /\ tabSize' = InitSize /\ tabV' = Empty(InitSize)
    /\ stage' = "insert" /\ wanted' = n
    /\ UNCHANGED <<hash, tabUsed, keys, newV, rehashed, answer>>
LookupFound(n) ==
    /\ stage = "idle" /\ tabSize > 0
    /\ \E k \in Slots(tabSize) :
         /\ EndsAt(tabV, tabSize, n, k)
         /\ tabV[Slot(n, tabSize, k)] # NoEntry
         /\ Return(n, tabV[Slot(n, tabSize, k)])
    /\ UNCHANGED <<hash, tabVars, keys, newV, rehashed>>
Missed(n) ==
    /\ stage = "idle" /\ tabSize > 0
    /\ \E k \in Slots(tabSize) :
         EndsAt(tabV, tabSize, n, k) /\ tabV[Slot(n, tabSize, k)] = NoEntry
HalfFull == tabUsed >= tabSize \div 2
\* without createSize, or without memory for a larger array
LookupMissed(n) ==
    /\ Missed(n)
    /\ Return(n, NoEntry)
    /\ UNCHANGED <<hash, tabVars, keys, newV, rehashed>>
LookupRoom(n) ==
    /\ Missed(n) /\ ~HalfFull
    /\ stage' = "insert" /\ wanted' = n
    /\ UNCHANGED <<hash, tabVars, keys, newV, rehashed, answer>>
LookupGrow(n) ==
    /\ Missed(n) /\ HalfFull /\ tabPower + 1 < PowerLimit
    /\ stage' = "grow" /\ wanted' = n /\ newV' = Empty(2 * tabSize) /\ rehashed' = 0
    /\ UNCHANGED <<hash, tabVars, keys, answer>>
RehashOldSize ==
    /\ stage = "grow" /\ rehashed < tabSize
    /\ IF tabV[rehashed] = NoEntry THEN newV' = newV
       ELSE LET n == keys[tabV[rehashed]] IN
            \E k \in Slots(tabSize) :
              /\ FreeAt(newV, tabSize, n, k)
              /\ newV' = [newV EXCEPT ![Slot(n, tabSize, k)] = tabV[rehashed]]
    /\ rehashed' = rehashed + 1
    /\ UNCHANGED <<hash, tabVars, keys, stage, wanted, answer>>
Rehash ==
    /\ stage = "grow" /\ rehashed < tabSize
    /\ IF tabV[rehashed] = NoEntry THEN newV' = newV
       ELSE LET n == keys[tabV[rehashed]] IN
            \E k \in Slots(2 * tabSize) :
              /\ FreeAt(newV, 2 * tabSize, n, k)
              /\ newV' = [newV EXCEPT ![Slot(n, 2 * tabSize, k)] = tabV[rehashed]]
    /\ rehashed' = rehashed + 1
    /\ UNCHANGED <<hash, tabVars, keys, stage, wanted, answer>>
Rehashed ==
    /\ stage = "grow" /\ rehashed = tabSize
    /\ tabV' = newV /\ tabPower' = tabPower + 1 /\ tabSize' = 2 * tabSize
    /\ stage' = "insert" /\ newV' = Empty(0) /\ rehashed' = 0
    /\ UNCHANGED <<hash, tabUsed, keys, wanted, answer>>
\* an entry that is not in the table: memory from the allocator
Insert ==
    /\ stage = "insert"
    /\ \E k \in Slots(tabSize), e \in Entries :
         /\ FreeAt(tabV, tabSize, wanted, k)
         /\ \A i \in Slots(tabSize) : tabV[i] # e
         /\ tabV' = [tabV EXCEPT ![Slot(wanted, tabSize, k)] = e]
         /\ keys' = [keys EXCEPT ![e] = wanted]
         /\ Return(wanted, e)
    /\ tabUsed' = tabUsed + 1
    /\ UNCHANGED <<hash, tabPower, tabSize, newV, rehashed>>
InsertFails ==
    /\ stage = "insert"
    /\ Return(wanted, NoEntry)
    /\ UNCHANGED <<hash, tabVars, keys, newV, rehashed>>
hashTableClear ==
    /\ stage = "idle"
    /\ tabV' = Empty(tabSize) /\ tabUsed' = 0 /\ keys' = [e \in Entries |-> NoKey]
    /\ UNCHANGED <<hash, tabPower, tabSize, newV, rehashed, stage, wanted, answer>>

HashNext ==
    \/ \E n \in KeySet : \/ LookupNoTable(n) \/ LookupFirst(n) \/ LookupFound(n) \/ LookupMissed(n)
                         \/ LookupRoom(n) \/ LookupGrow(n)
    \/ Rehash \/ Rehashed \/ Insert \/ InsertFails \/ hashTableClear
HashSpec == HashInit /\ [][HashNext]_hashVars
-----------------------------------------------------------------------------
Occupied(v, size) == { i \in Slots(size) : v[i] # NoEntry }
KnownIn(v, size) == { <<keys[v[i]], v[i]>> : i \in Occupied(v, size) }

Table == INSTANCE NameTable WITH known <- KnownIn(tabV, tabSize), reply <- answer
\* lookup and hashTableClear are a set of names with an entry each: through
\* collisions and growth a name is found if and only if it was inserted, and
\* always as the same entry.
LookupIsNameTable == Table!NameTableSpec

\* Every search ends: used counts the entries, they fill at most half of the
\* table, and whatever the name, its probe sequence comes to the name or to a
\* free slot, in the table and in the one that is being filled.
ProbingEnds ==
    /\ tabUsed = Cardinality(Occupied(tabV, tabSize))
    /\ tabSize > 0 => 2 * tabUsed <= tabSize
    /\ \A n \in KeySet :
         /\ tabSize > 0 => \E k \in Slots(tabSize) : EndsAt(tabV, tabSize, n, k)
         /\ stage = "grow" => \E k \in Slots(2 * tabSize) : FreeAt(newV, 2 * tabSize, n, k)
=============================================================================
