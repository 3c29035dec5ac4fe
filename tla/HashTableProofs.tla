--------------------------- MODULE HashTableProofs ---------------------------
(***************************************************************************)
(* lookup and hashTableClear implement NameTable, and every search ends,   *)
(* for every set of names and every hash function.                         *)
(***************************************************************************)
EXTENDS HashTable, FiniteSetTheorems, NaturalsInduction, TLAPS

\* An array of entries in which every name is found where it is: names are
\* distinct, and no slot is free before an entry on its probe sequence.
Placed(hf, ks, v, size) ==
    /\ \A i \in Occupied(v, size) : ks[v[i]] \in KeySet
    /\ \A i, j \in Occupied(v, size) : ks[v[i]] = ks[v[j]] => i = j
    /\ \A i \in Occupied(v, size) :
         \E k \in Slots(size) :
           /\ SlotOf(hf[ks[v[i]]], size, k) = i
           /\ \A j \in 0 .. k - 1 : v[SlotOf(hf[ks[v[i]]], size, j)] # NoEntry

HashTypeOK ==
    /\ hash \in [KeySet -> Nat]
    /\ tabSize \in Nat /\ tabV \in [Slots(tabSize) -> Entries \cup {NoEntry}]
    /\ keys \in [Entries -> KeySet \cup {NoKey}]
    /\ stage \in {"idle", "grow", "insert"} /\ rehashed \in Nat
    /\ stage # "idle" => tabSize > 0 /\ wanted \in KeySet
    /\ stage = "grow" => newV \in [Slots(2 * tabSize) -> Entries \cup {NoEntry}]

Growing ==
    /\ Placed(hash, keys, newV, 2 * tabSize)
    /\ rehashed <= tabSize
    /\ \A i \in Occupied(tabV, tabSize) :
         i < rehashed => \E j \in Occupied(newV, 2 * tabSize) : newV[j] = tabV[i]
    /\ \A j \in Occupied(newV, 2 * tabSize) :
         \E i \in Occupied(tabV, tabSize) : i < rehashed /\ newV[j] = tabV[i]

HashInv ==
    /\ HashTypeOK
    /\ Placed(hash, keys, tabV, tabSize)
    /\ stage # "idle" => \A i \in Occupied(tabV, tabSize) : keys[tabV[i]] # wanted
    /\ stage = "grow" => Growing

\* A remainder is an index.
LEMMA SlotInRange ==
    ASSUME NEW h \in Nat, NEW size \in Nat, size > 0, NEW k \in Nat
    PROVE  SlotOf(h, size, k) \in Slots(size)
<1> DEFINE x == (h % size) + k * (size - PROBE_STEP(h, size))
<1>1. PROBE_STEP(h, size) \in Int
  BY DEF PROBE_STEP
<1>2. x \in Int
  BY <1>1
<1>3. x % size \in 0 .. size - 1
  BY <1>2
<1> QED
  BY <1>3 DEF SlotOf, Slots

\* A search that comes to a free slot is for a name that is not in the array.
LEMMA FreeMeansAbsent ==
    ASSUME NEW hf \in [KeySet -> Nat], NEW ks \in [Entries -> KeySet \cup {NoKey}],
           NEW size \in Nat, NEW v \in [Slots(size) -> Entries \cup {NoEntry}],
           NEW n \in KeySet, NEW k \in Slots(size), Placed(hf, ks, v, size),
           v[SlotOf(hf[n], size, k)] = NoEntry,
           \A j \in 0 .. k - 1 : /\ v[SlotOf(hf[n], size, j)] # NoEntry
                                 /\ ks[v[SlotOf(hf[n], size, j)]] # n
    PROVE  \A i \in Occupied(v, size) : ks[v[i]] # n
<1> SUFFICES ASSUME NEW i \in Occupied(v, size), ks[v[i]] = n PROVE FALSE
  OBVIOUS
<1>1. PICK m \in Slots(size) : /\ SlotOf(hf[n], size, m) = i
                               /\ \A j \in 0 .. m - 1 : v[SlotOf(hf[n], size, j)] # NoEntry
  BY DEF Placed
<1>2. v[i] # NoEntry
  BY DEF Occupied
<1>3. ~(k < m)
  <2> SUFFICES ASSUME k < m PROVE FALSE
    OBVIOUS
  <2>1. k \in 0 .. m - 1
    BY DEF Slots
  <2> QED
    BY <1>1, <2>1
<1>4. ~(m < k)
  <2> SUFFICES ASSUME m < k PROVE FALSE
    OBVIOUS
  <2>1. m \in 0 .. k - 1
    BY DEF Slots
  <2> QED
    BY <1>1, <2>1
<1>5. m = k
  BY <1>3, <1>4 DEF Slots
<1> QED
  BY <1>1, <1>2, <1>5

Fillable(hf, ks, v, size, n, e, k) ==
    /\ hf \in [KeySet -> Nat] /\ ks \in [Entries -> KeySet \cup {NoKey}]
    /\ size \in Nat /\ size > 0 /\ v \in [Slots(size) -> Entries \cup {NoEntry}]
    /\ n \in KeySet /\ e \in Entries /\ k \in Slots(size) /\ Placed(hf, ks, v, size)
    /\ \A i \in Occupied(v, size) : ks[v[i]] # n /\ v[i] # e
    /\ v[SlotOf(hf[n], size, k)] = NoEntry
    /\ \A j \in 0 .. k - 1 : v[SlotOf(hf[n], size, j)] # NoEntry
FilledWith(hf, ks, v, size, n, e, k, ls, w) ==
    /\ w \in [Slots(size) -> Entries \cup {NoEntry}]
    /\ ls \in [Entries -> KeySet \cup {NoKey}]
    /\ Placed(hf, ls, w, size)
    /\ Occupied(w, size) = Occupied(v, size) \cup {SlotOf(hf[n], size, k)}
    /\ \A i \in Occupied(v, size) : w[i] = v[i] /\ ls[w[i]] = ks[v[i]]
    /\ w[SlotOf(hf[n], size, k)] = e /\ ls[e] = n

\* Filling the first free slot of a new name leaves every name where it is
\* found, and adds that name.
LEMMA FillKeepsPlaced ==
    ASSUME NEW hf, NEW ks, NEW v, NEW size, NEW n, NEW e, NEW k,
           Fillable(hf, ks, v, size, n, e, k)
    PROVE  FilledWith(hf, ks, v, size, n, e, k, [ks EXCEPT ![e] = n],
                      [v EXCEPT ![SlotOf(hf[n], size, k)] = e])
<1> USE HashAssumption DEF Fillable
<1> DEFINE w == [v EXCEPT ![SlotOf(hf[n], size, k)] = e]
           ls == [ks EXCEPT ![e] = n]
<1> DEFINE s == SlotOf(hf[n], size, k)
<1>1. s \in Slots(size)
  <2>1. hf[n] \in Nat /\ k \in Nat
    BY DEF Slots
  <2> QED
    BY <2>1, SlotInRange
<1>0. w = [v EXCEPT ![s] = e] /\ ls = [ks EXCEPT ![e] = n] /\ s = SlotOf(hf[n], size, k)
  OBVIOUS
<1> HIDE DEF s, w, ls
<1>2. w \in [Slots(size) -> Entries \cup {NoEntry}] /\ ls \in [Entries -> KeySet \cup {NoKey}]
  BY <1>0, <1>1
<1>3. v[s] = NoEntry /\ w[s] = e /\ ls[e] = n /\ s \notin Occupied(v, size)
  BY <1>0, <1>1 DEF Occupied
<1>4. \A i \in Slots(size) : i # s => w[i] = v[i]
  BY <1>0, <1>1
<1>5. Occupied(w, size) = Occupied(v, size) \cup {s}
  BY <1>1, <1>3, <1>4 DEF Occupied
<1>6. \A i \in Occupied(v, size) : i \in Slots(size) /\ w[i] = v[i] /\ v[i] \in Entries /\ ls[w[i]] = ks[v[i]]
  BY <1>0, <1>3, <1>4 DEF Occupied
<1>7. \A i \in Occupied(w, size) : ls[w[i]] \in KeySet
  BY <1>3, <1>5, <1>6 DEF Placed
<1>8. \A i, j \in Occupied(w, size) : ls[w[i]] = ls[w[j]] => i = j
  BY <1>3, <1>5, <1>6 DEF Placed
<1>9. \A i \in Occupied(w, size) :
         \E m \in Slots(size) :
           /\ SlotOf(hf[ls[w[i]]], size, m) = i
           /\ \A j \in 0 .. m - 1 : w[SlotOf(hf[ls[w[i]]], size, j)] # NoEntry
  <2> SUFFICES ASSUME NEW i \in Occupied(w, size)
               PROVE  \E m \in Slots(size) :
                        /\ SlotOf(hf[ls[w[i]]], size, m) = i
                        /\ \A j \in 0 .. m - 1 : w[SlotOf(hf[ls[w[i]]], size, j)] # NoEntry
    OBVIOUS
  <2>0. \A p \in KeySet, j \in Nat : SlotOf(hf[p], size, j) \in Slots(size)
    BY SlotInRange
  <2>1. \A p \in KeySet, j \in Nat : v[SlotOf(hf[p], size, j)] # NoEntry
                                     => w[SlotOf(hf[p], size, j)] # NoEntry
    BY <2>0, <1>3, <1>4
  <2>2. CASE i = s
    <3>1. ls[w[i]] = n
      BY <2>2, <1>3
    <3>2. \A j \in 0 .. k - 1 : w[SlotOf(hf[n], size, j)] # NoEntry
      BY <2>1
    <3> QED
      BY <1>0, <2>2, <3>1, <3>2
  <2>3. CASE i \in Occupied(v, size)
    <3>1. ls[w[i]] = ks[v[i]] /\ ks[v[i]] \in KeySet
      BY <2>3, <1>6 DEF Placed
    <3>2. PICK m \in Slots(size) : /\ SlotOf(hf[ks[v[i]]], size, m) = i
                                   /\ \A j \in 0 .. m - 1 : v[SlotOf(hf[ks[v[i]]], size, j)] # NoEntry
      BY <2>3 DEF Placed
    <3>3. \A j \in 0 .. m - 1 : j \in Nat
      BY DEF Slots
    <3>4. \A j \in 0 .. m - 1 : w[SlotOf(hf[ks[v[i]]], size, j)] # NoEntry
      BY <3>1, <3>2, <3>3, <2>1
    <3> QED
      BY <3>1, <3>2, <3>4
  <2> QED
    BY <2>2, <2>3, <1>5
<1>10. Placed(hf, ls, w, size)
  BY <1>7, <1>8, <1>9 DEF Placed
<1> QED
  BY <1>0, <1>2, <1>3, <1>5, <1>6, <1>10, Zenon DEF FilledWith, w, ls

\* Initially there is no array.
LEMMA HashInitOK == HashInit => HashInv
<1> SUFFICES ASSUME HashInit PROVE HashInv
  OBVIOUS
<1>1. Slots(0) = {} /\ Occupied(tabV, 0) = {}
  BY DEF Slots, Occupied
<1>2. HashTypeOK
  BY HashAssumption, <1>1 DEF HashInit, HashTypeOK, Empty
<1>3. Placed(hash, keys, tabV, tabSize)
  BY <1>1 DEF Placed, HashInit
<1> QED
  BY <1>2, <1>3 DEF HashInv, HashInit

\* Every step keeps names where they are found, in both arrays.
LEMMA HashStepOK == HashInv /\ [HashNext]_hashVars => HashInv'
<1> SUFFICES ASSUME HashInv, [HashNext]_hashVars PROVE HashInv'
  OBVIOUS
<1> USE HashAssumption DEF HashInv, HashTypeOK
<1>1. ASSUME NEW n \in KeySet, LookupNoTable(n) PROVE HashInv'
  BY <1>1 DEF LookupNoTable, Return, tabVars
<1>2. ASSUME NEW n \in KeySet, LookupFirst(n) PROVE HashInv'
  <2>1. Occupied(tabV, tabSize)' = {}
    BY <1>2 DEF LookupFirst, Occupied, Empty
  <2>2. Placed(hash, keys, tabV, tabSize)'
    BY <2>1 DEF Placed
  <2>3. HashTypeOK'
    BY <1>2 DEF LookupFirst, Empty
  <2> QED
    BY <1>2, <2>1, <2>2, <2>3 DEF LookupFirst
<1>3. ASSUME NEW n \in KeySet, LookupFound(n) PROVE HashInv'
  BY <1>3 DEF LookupFound, Return, tabVars
<1>4. ASSUME NEW n \in KeySet, LookupMissed(n) PROVE HashInv'
  BY <1>4 DEF LookupMissed, Return, tabVars
<1>5. ASSUME NEW n \in KeySet, Missed(n) PROVE \A i \in Occupied(tabV, tabSize) : keys[tabV[i]] # n
  <2>1. PICK k \in Slots(tabSize) : EndsAt(tabV, tabSize, n, k) /\ tabV[Slot(n, tabSize, k)] = NoEntry
    BY <1>5 DEF Missed
  <2>2. \A j \in 0 .. k - 1 : /\ tabV[SlotOf(hash[n], tabSize, j)] # NoEntry
                              /\ keys[tabV[SlotOf(hash[n], tabSize, j)]] # n
    BY <2>1 DEF EndsAt, Slot
  <2>3. tabV[SlotOf(hash[n], tabSize, k)] = NoEntry
    BY <2>1 DEF Slot
  <2> QED
    BY <2>2, <2>3, FreeMeansAbsent
<1>6. ASSUME NEW n \in KeySet, LookupRoom(n) PROVE HashInv'
  <2>1. \A i \in Occupied(tabV, tabSize) : keys[tabV[i]] # n
    BY <1>5, <1>6 DEF LookupRoom
  <2> QED
    BY <1>6, <2>1 DEF LookupRoom, Missed, tabVars
<1>7. ASSUME NEW n \in KeySet, LookupGrow(n) PROVE HashInv'
  <2>1. \A i \in Occupied(tabV, tabSize) : keys[tabV[i]] # n
    BY <1>5, <1>7 DEF LookupGrow
  <2>2. Occupied(newV', 2 * tabSize) = {}
    BY <1>7 DEF LookupGrow, Occupied, Empty
  <2>3. Placed(hash, keys, newV', 2 * tabSize)
    BY <2>2 DEF Placed
  <2>4. Growing'
    <3>1. rehashed' = 0 /\ tabSize' = tabSize /\ keys' = keys /\ hash' = hash /\ tabV' = tabV
      BY <1>7 DEF LookupGrow, tabVars
    <3>2. \A i \in Occupied(tabV, tabSize) : ~(i < 0)
      BY DEF Occupied, Slots
    <3> QED
      BY <2>2, <2>3, <3>1, <3>2 DEF Growing
  <2> QED
    BY <1>7, <2>1, <2>4 DEF LookupGrow, Missed, tabVars, Empty
<1>8. ASSUME Rehash PROVE HashInv'
  <2>1. stage = "grow" /\ rehashed \in Slots(tabSize) /\ rehashed' = rehashed + 1
        /\ UNCHANGED <<hash, tabV, tabSize, keys, stage, wanted>>
    BY <1>8 DEF Rehash, tabVars, Slots
  <2>2. Growing
    BY <2>1
  <2>3. CASE tabV[rehashed] = NoEntry
    <3>1. newV' = newV
      BY <1>8, <2>3 DEF Rehash
    <3>2. \A i \in Occupied(tabV, tabSize) : i \in Int /\ i # rehashed
      BY <2>3 DEF Occupied, Slots
    <3>3. \A i \in Occupied(tabV, tabSize) : i < rehashed + 1 <=> i < rehashed
      BY <3>2
    <3>4. Growing'
      BY <2>1, <2>2, <3>1, <3>3 DEF Growing, Slots
    <3> QED
      BY <2>1, <3>1, <3>4
  <2>4. CASE tabV[rehashed] # NoEntry
    <3> DEFINE e == tabV[rehashed]
               n == keys[e]
               size == 2 * tabSize
    <3>1. rehashed \in Occupied(tabV, tabSize) /\ e \in Entries /\ n \in KeySet
      BY <2>1, <2>4 DEF Occupied, Placed
    <3>2. PICK k \in Slots(size) : /\ FreeAt(newV, size, n, k)
                                   /\ newV' = [newV EXCEPT ![Slot(n, size, k)] = e]
      BY <1>8, <2>4 DEF Rehash
    <3>3. size \in Nat /\ size > 0 /\ newV \in [Slots(size) -> Entries \cup {NoEntry}]
      BY <2>1 DEF Slots
    <3>4. newV[SlotOf(hash[n], size, k)] = NoEntry
          /\ \A j \in 0 .. k - 1 : newV[SlotOf(hash[n], size, j)] # NoEntry
      BY <3>2 DEF FreeAt, Slot
    <3>5. Placed(hash, keys, newV, size)
      BY <2>2 DEF Growing
    <3>6. \A j \in Occupied(newV, size) :
             \E i \in Occupied(tabV, tabSize) : i < rehashed /\ newV[j] = tabV[i]
      BY <2>2 DEF Growing
    <3>7. \A j \in Occupied(newV, size) : keys[newV[j]] # n /\ newV[j] # e
      <4> SUFFICES ASSUME NEW j \in Occupied(newV, size), keys[newV[j]] = n PROVE FALSE
        OBVIOUS
      <4>1. PICK i \in Occupied(tabV, tabSize) : i < rehashed /\ newV[j] = tabV[i]
        BY <3>6
      <4>2. i = rehashed
        BY <4>1, <3>1 DEF Placed
      <4> QED
        BY <4>1, <4>2, <2>1 DEF Slots
    <3>8. keys = [keys EXCEPT ![e] = n]
      BY <3>1
    <3> DEFINE s == SlotOf(hash[n], size, k)
    <3>9. newV' = [newV EXCEPT ![s] = e]
      BY <3>2 DEF Slot
    <3> HIDE DEF e, n, size, s
    <3>f. Fillable(hash, keys, newV, size, n, e, k)
      BY <3>1, <3>3, <3>4, <3>5, <3>7 DEF Fillable
    <3>g. FilledWith(hash, keys, newV, size, n, e, k, keys, newV')
      <4>1. FilledWith(hash, keys, newV, size, n, e, k, [keys EXCEPT ![e] = n],
                       [newV EXCEPT ![SlotOf(hash[n], size, k)] = e])
        BY ONLY <3>f, FillKeepsPlaced
      <4> QED
        BY ONLY <4>1, <3>8, <3>9, Zenon DEF s
    <3>10. /\ newV' \in [Slots(size) -> Entries \cup {NoEntry}]
           /\ Placed(hash, keys, newV', size)
           /\ Occupied(newV', size) = Occupied(newV, size) \cup {s}
           /\ \A i \in Occupied(newV, size) : newV'[i] = newV[i]
           /\ newV'[s] = e
      BY <3>g DEF FilledWith, s
    <3>11. \A i \in Occupied(tabV, tabSize) : i \in Int /\ (i < rehashed + 1 <=> i < rehashed \/ i = rehashed)
      BY <2>1 DEF Occupied, Slots
    <3>12. \A i \in Occupied(tabV, tabSize) :
             i < rehashed + 1 => \E j \in Occupied(newV', size) : newV'[j] = tabV[i]
      BY <3>10, <3>11, <2>2 DEF Growing, e, size
    <3>13. \A j \in Occupied(newV', size) :
             \E i \in Occupied(tabV, tabSize) : i < rehashed + 1 /\ newV'[j] = tabV[i]
      BY <3>1, <3>6, <3>10, <3>11 DEF e
    <3>14. rehashed + 1 <= tabSize
      BY <2>1 DEF Slots
    <3>15. Growing'
      BY <2>1, <3>10, <3>12, <3>13, <3>14 DEF Growing, size
    <3> QED
      BY <2>1, <3>10, <3>15 DEF size
  <2> QED
    BY <2>3, <2>4
<1>9. ASSUME Rehashed PROVE HashInv'
  <2>1. stage = "grow" /\ rehashed = tabSize /\ tabV' = newV /\ tabSize' = 2 * tabSize
        /\ stage' = "insert" /\ UNCHANGED <<hash, keys, wanted>>
    BY <1>9 DEF Rehashed
  <2>2. Growing
    BY <2>1
  <2>3. Placed(hash, keys, tabV, tabSize)'
    BY <2>1, <2>2 DEF Growing
  <2>4. \A i \in Occupied(newV, 2 * tabSize) : keys[newV[i]] # wanted
    BY <2>1, <2>2 DEF Growing
  <2>5. rehashed' = 0
    BY <1>9 DEF Rehashed
  <2> QED
    BY <2>1, <2>3, <2>4, <2>5
<1>10. ASSUME Insert PROVE HashInv'
  <2>1. stage = "insert" /\ stage' = "idle" /\ UNCHANGED <<hash, tabSize, newV, rehashed>>
    BY <1>10 DEF Insert, Return
  <2>2. PICK k \in Slots(tabSize), e \in Entries :
           /\ FreeAt(tabV, tabSize, wanted, k)
           /\ \A i \in Slots(tabSize) : tabV[i] # e
           /\ tabV' = [tabV EXCEPT ![Slot(wanted, tabSize, k)] = e]
           /\ keys' = [keys EXCEPT ![e] = wanted]
    BY <1>10, ZenonT(60) DEF Insert
  <2>3. tabV[SlotOf(hash[wanted], tabSize, k)] = NoEntry
        /\ \A j \in 0 .. k - 1 : tabV[SlotOf(hash[wanted], tabSize, j)] # NoEntry
    BY <2>2 DEF FreeAt, Slot
  <2>4. \A i \in Occupied(tabV, tabSize) : tabV[i] # e
    BY <2>2 DEF Occupied
  <2>5. tabV' = [tabV EXCEPT ![SlotOf(hash[wanted], tabSize, k)] = e]
    BY <2>2 DEF Slot
  <2>6. tabV' \in [Slots(tabSize) -> Entries \cup {NoEntry}]
        /\ keys' \in [Entries -> KeySet \cup {NoKey}] /\ Placed(hash, keys', tabV', tabSize)
    <3>1. Fillable(hash, keys, tabV, tabSize, wanted, e, k)
      BY <2>1, <2>3, <2>4 DEF Fillable
    <3>2. FilledWith(hash, keys, tabV, tabSize, wanted, e, k, keys', tabV')
      <4>1. FilledWith(hash, keys, tabV, tabSize, wanted, e, k, [keys EXCEPT ![e] = wanted],
                       [tabV EXCEPT ![SlotOf(hash[wanted], tabSize, k)] = e])
        BY ONLY <3>1, FillKeepsPlaced
      <4> QED
        BY ONLY <4>1, <2>2, <2>5, Zenon
    <3> QED
      BY <3>2 DEF FilledWith
  <2> QED
    BY <2>1, <2>6
<1>11. ASSUME InsertFails PROVE HashInv'
  BY <1>11 DEF InsertFails, Return, tabVars
<1>12. ASSUME hashTableClear PROVE HashInv'
  <2>1. Occupied(tabV', tabSize) = {}
    BY <1>12 DEF hashTableClear, Occupied, Empty
  <2>2. Placed(hash, keys', tabV', tabSize)
    BY <2>1 DEF Placed
  <2> QED
    BY <1>12, <2>2 DEF hashTableClear, Empty
<1>13. ASSUME UNCHANGED hashVars PROVE HashInv'
  BY <1>13 DEF hashVars, tabVars, Growing
<1> QED
  BY <1>1, <1>2, <1>3, <1>4, <1>6, <1>7, <1>8, <1>9, <1>10, <1>11, <1>12, <1>13, Zenon DEF HashNext

\* The invariant holds in every state.
THEOREM NamesAreFound == HashSpec => []HashInv
<1>1. HashInit => HashInv
  BY HashInitOK
<1>2. HashInv /\ [HashNext]_hashVars => HashInv'
  BY HashStepOK
<1> QED
  BY <1>1, <1>2, PTL DEF HashSpec

\* An entry of the array is an entry of the set, under its name.
LEMMA KnownIsOccupied ==
    ASSUME NEW v, NEW size, NEW n, NEW e
    PROVE  <<n, e>> \in KnownIn(v, size) <=> \E i \in Occupied(v, size) : keys[v[i]] = n /\ v[i] = e
  BY DEF KnownIn

\* Each step of the array is one of the set of names, or changes nothing
\* there.
LEMMA StepsRefine == HashInv /\ [HashNext]_hashVars => [Table!TableNext]_(Table!tableVars)
<1> SUFFICES ASSUME HashInv, [HashNext]_hashVars PROVE [Table!TableNext]_(Table!tableVars)
  OBVIOUS
<1> USE HashAssumption DEF HashInv, HashTypeOK
<1> DEFINE known == KnownIn(tabV, tabSize)
<1>s. ASSUME answer' = answer, KnownIn(tabV, tabSize)' = known PROVE [Table!TableNext]_(Table!tableVars)
  BY <1>s DEF Table!tableVars
<1>k. ASSUME UNCHANGED <<tabV, tabSize, keys>> PROVE KnownIn(tabV, tabSize)' = known
  BY <1>k DEF KnownIn, Occupied
<1>a. ASSUME NEW n \in KeySet, \A i \in Occupied(tabV, tabSize) : keys[tabV[i]] # n,
             answer' = <<n, NoEntry>>, UNCHANGED <<tabV, tabSize, keys>>
      PROVE  [Table!TableNext]_(Table!tableVars)
  <2>1. \A e \in Entries : <<n, e>> \notin known
    BY <1>a, KnownIsOccupied
  <2>2. Table!Absent(n)
    BY <1>a, <1>k, <2>1 DEF Table!Absent
  <2> QED
    BY <2>2 DEF Table!TableNext
<1>1. ASSUME NEW n \in KeySet, LookupNoTable(n) PROVE [Table!TableNext]_(Table!tableVars)
  <2>1. Occupied(tabV, tabSize) = {}
    BY <1>1 DEF LookupNoTable, Occupied, Slots
  <2> QED
    BY <1>1, <1>a, <2>1 DEF LookupNoTable, Return, tabVars
<1>2. ASSUME NEW n \in KeySet, LookupFirst(n) PROVE [Table!TableNext]_(Table!tableVars)
  <2>1. Occupied(tabV, tabSize) = {}
    BY <1>2 DEF LookupFirst, Occupied, Slots
  <2>2. Occupied(tabV', tabSize') = {}
    BY <1>2 DEF LookupFirst, Occupied, Empty
  <2>3. KnownIn(tabV, tabSize)' = known
    BY <2>1, <2>2 DEF KnownIn
  <2> QED
    BY <1>2, <1>s, <2>3 DEF LookupFirst
<1>3. ASSUME NEW n \in KeySet, LookupFound(n) PROVE [Table!TableNext]_(Table!tableVars)
  <2>1. PICK k \in Slots(tabSize) :
           /\ EndsAt(tabV, tabSize, n, k) /\ tabV[Slot(n, tabSize, k)] # NoEntry
           /\ answer' = <<n, tabV[Slot(n, tabSize, k)]>>
    BY <1>3 DEF LookupFound, Return
  <2> DEFINE i == Slot(n, tabSize, k)
  <2>2. i \in Slots(tabSize)
    <3>1. tabSize > 0 /\ k \in Nat /\ hash[n] \in Nat
      BY <1>3 DEF LookupFound, Slots
    <3> QED
      BY <3>1, SlotInRange DEF Slot
  <2>3. i \in Occupied(tabV, tabSize) /\ tabV[i] \in Entries /\ keys[tabV[i]] = n
    BY <2>1, <2>2 DEF Occupied, EndsAt
  <2> HIDE DEF i
  <2>4. <<n, tabV[i]>> \in known
    BY <2>3, KnownIsOccupied
  <2>5. known' = known
    BY <1>3, <1>k DEF LookupFound, tabVars
  <2>6. Table!Found(n)
    BY <2>1, <2>3, <2>4, <2>5, Zenon DEF Table!Found, i
  <2> QED
    BY <2>6 DEF Table!TableNext
<1>4. ASSUME NEW n \in KeySet, Missed(n) PROVE \A i \in Occupied(tabV, tabSize) : keys[tabV[i]] # n
  <2>1. PICK k \in Slots(tabSize) : EndsAt(tabV, tabSize, n, k) /\ tabV[Slot(n, tabSize, k)] = NoEntry
    BY <1>4 DEF Missed
  <2>2. \A j \in 0 .. k - 1 : /\ tabV[SlotOf(hash[n], tabSize, j)] # NoEntry
                              /\ keys[tabV[SlotOf(hash[n], tabSize, j)]] # n
    BY <2>1 DEF EndsAt, Slot
  <2>3. tabV[SlotOf(hash[n], tabSize, k)] = NoEntry
    BY <2>1 DEF Slot
  <2> QED
    BY <2>2, <2>3, FreeMeansAbsent
<1>5. ASSUME NEW n \in KeySet, LookupMissed(n) PROVE [Table!TableNext]_(Table!tableVars)
  <2>1. \A i \in Occupied(tabV, tabSize) : keys[tabV[i]] # n
    BY <1>4, <1>5 DEF LookupMissed
  <2> QED
    BY <1>5, <1>a, <2>1 DEF LookupMissed, Return, tabVars
<1>6. ASSUME NEW n \in KeySet, LookupRoom(n) PROVE [Table!TableNext]_(Table!tableVars)
  BY <1>6, <1>s, <1>k DEF LookupRoom, tabVars
<1>7. ASSUME NEW n \in KeySet, LookupGrow(n) PROVE [Table!TableNext]_(Table!tableVars)
  BY <1>7, <1>s, <1>k DEF LookupGrow, tabVars
<1>8. ASSUME Rehash PROVE [Table!TableNext]_(Table!tableVars)
  BY <1>8, <1>s, <1>k DEF Rehash, tabVars
<1>9. ASSUME Rehashed PROVE [Table!TableNext]_(Table!tableVars)
  <2>1. stage = "grow" /\ rehashed = tabSize /\ tabV' = newV /\ tabSize' = 2 * tabSize
        /\ keys' = keys /\ answer' = answer
    BY <1>9 DEF Rehashed
  <2>2. Growing
    BY <2>1
  <2>3. \A i \in Occupied(tabV, tabSize) : i < tabSize
    BY DEF Occupied, Slots
  <2>4. \A i \in Occupied(tabV, tabSize) : \E j \in Occupied(newV, 2 * tabSize) : newV[j] = tabV[i]
    BY <2>1, <2>2, <2>3 DEF Growing
  <2>5. \A j \in Occupied(newV, 2 * tabSize) : \E i \in Occupied(tabV, tabSize) : newV[j] = tabV[i]
    BY <2>2 DEF Growing
  <2>6. KnownIn(newV, 2 * tabSize) = known
    BY <2>4, <2>5 DEF KnownIn
  <2>7. KnownIn(tabV, tabSize)' = KnownIn(newV, 2 * tabSize)
    BY <2>1 DEF KnownIn, Occupied
  <2> QED
    BY <2>1, <2>6, <2>7, <1>s
<1>10. ASSUME Insert PROVE [Table!TableNext]_(Table!tableVars)
  <2>1. stage = "insert" /\ UNCHANGED <<hash, tabSize>>
    BY <1>10 DEF Insert
  <2>2. PICK k \in Slots(tabSize), e \in Entries :
           /\ FreeAt(tabV, tabSize, wanted, k)
           /\ \A i \in Slots(tabSize) : tabV[i] # e
           /\ tabV' = [tabV EXCEPT ![Slot(wanted, tabSize, k)] = e]
           /\ keys' = [keys EXCEPT ![e] = wanted]
           /\ answer' = <<wanted, e>>
    BY <1>10, ZenonT(60) DEF Insert, Return
  <2>3. tabV[SlotOf(hash[wanted], tabSize, k)] = NoEntry
        /\ \A j \in 0 .. k - 1 : tabV[SlotOf(hash[wanted], tabSize, j)] # NoEntry
    BY <2>2 DEF FreeAt, Slot
  <2>4. \A i \in Occupied(tabV, tabSize) : tabV[i] # e
    BY <2>2 DEF Occupied
  <2>5. tabV' = [tabV EXCEPT ![SlotOf(hash[wanted], tabSize, k)] = e]
    BY <2>2 DEF Slot
  <2>6. Fillable(hash, keys, tabV, tabSize, wanted, e, k)
    BY <2>1, <2>3, <2>4 DEF Fillable
  <2>7. FilledWith(hash, keys, tabV, tabSize, wanted, e, k, keys', tabV')
    <3>1. FilledWith(hash, keys, tabV, tabSize, wanted, e, k, [keys EXCEPT ![e] = wanted],
                     [tabV EXCEPT ![SlotOf(hash[wanted], tabSize, k)] = e])
      BY ONLY <2>6, FillKeepsPlaced
    <3> QED
      BY ONLY <3>1, <2>2, <2>5, Zenon
  <2> DEFINE s == SlotOf(hash[wanted], tabSize, k)
  <2>8. /\ Occupied(tabV', tabSize) = Occupied(tabV, tabSize) \cup {s}
        /\ \A i \in Occupied(tabV, tabSize) : tabV'[i] = tabV[i] /\ keys'[tabV'[i]] = keys[tabV[i]]
        /\ tabV'[s] = e /\ keys'[e] = wanted
    BY <2>7 DEF FilledWith
  <2> HIDE DEF s
  <2>9. KnownIn(tabV, tabSize)' = { <<keys'[tabV'[i]], tabV'[i]>> : i \in Occupied(tabV', tabSize) }
    BY <2>1 DEF KnownIn, Occupied
  <2>10. KnownIn(tabV, tabSize)' = known \cup {<<wanted, e>>}
    BY <2>8, <2>9, SMTT(30) DEF KnownIn
  <2>11. \A m \in KeySet : <<m, e>> \notin known
    BY <2>4, KnownIsOccupied
  <2>12. \A f \in Entries : <<wanted, f>> \notin known
    BY <2>1, KnownIsOccupied
  <2>13. wanted \in KeySet
    BY <2>1
  <2>14. Table!Created(wanted)
    BY <2>2, <2>10, <2>11, <2>12, Zenon DEF Table!Created
  <2> QED
    BY <2>13, <2>14 DEF Table!TableNext
<1>11. ASSUME InsertFails PROVE [Table!TableNext]_(Table!tableVars)
  BY <1>11, <1>a DEF InsertFails, Return, tabVars
<1>12. ASSUME hashTableClear PROVE [Table!TableNext]_(Table!tableVars)
  <2>1. Occupied(tabV', tabSize') = {}
    BY <1>12 DEF hashTableClear, Occupied, Empty
  <2>2. KnownIn(tabV, tabSize)' = {} /\ answer' = answer
    BY <1>12, <2>1 DEF KnownIn, hashTableClear
  <2>3. Table!Cleared
    BY <2>2 DEF Table!Cleared
  <2> QED
    BY <2>3 DEF Table!TableNext
<1>13. ASSUME UNCHANGED hashVars PROVE [Table!TableNext]_(Table!tableVars)
  BY <1>13, <1>s, <1>k DEF hashVars, tabVars
<1> QED
  BY <1>1, <1>2, <1>3, <1>5, <1>6, <1>7, <1>8, <1>9, <1>10, <1>11, <1>12, <1>13 DEF HashNext

\* The hash table implements the set of names: through collisions, growth
\* and failed allocations a lookup finds the one entry of a name.
THEOREM HashTableImplementsNames == HashSpec => LookupIsNameTable
<1>1. HashInit => Table!TableInit
  <2> SUFFICES ASSUME HashInit PROVE Table!TableInit
    OBVIOUS
  <2>1. Occupied(tabV, tabSize) = {}
    BY DEF HashInit, Occupied, Slots
  <2> QED
    BY <2>1 DEF HashInit, KnownIn, Table!TableInit
<1>2. HashInv /\ [HashNext]_hashVars => [Table!TableNext]_(Table!tableVars)
  BY StepsRefine
<1> QED
  BY <1>1, <1>2, NamesAreFound, PTL DEF HashSpec, LookupIsNameTable, Table!NameTableSpec

-----------------------------------------------------------------------------
\* Searches end.  Modulo a power of two an odd step is invertible, so that
\* its multiples come to every remainder before they come to one again.

LEMMA Euclid ==
    ASSUME NEW a \in Int, NEW b \in Nat \ {0}
    PROVE  \E q \in Int : a = q * b + (a % b)
<1>1. a = (a \div b) * b + (a % b) OBVIOUS
<1>2. a \div b \in Int OBVIOUS
<1> QED BY <1>1, <1>2, Zenon

Odd(s) == \E m \in Int : s = 2 * m + 1

\* No odd step comes back to where it began before it has been to every slot.
Turns(size) ==
    \A s, d, q \in Int : Odd(s) /\ d \in 0 .. size - 1 /\ d * s = q * size => d = 0

LEMMA TurnsDouble ==
    ASSUME NEW size \in Nat, Turns(size)
    PROVE  Turns(2 * size)
<1> SUFFICES ASSUME NEW s \in Int, NEW d \in Int, NEW q \in Int, Odd(s),
                    d \in 0 .. 2 * size - 1, d * s = q * (2 * size)
             PROVE  d = 0
  BY DEF Turns
<1>1. PICK m \in Int : s = 2 * m + 1 BY DEF Odd
<1> DEFINE e == q * size - d * m
<1>2. d * s = 2 * (d * m) + d BY <1>1
<1>3. q * (2 * size) = 2 * (q * size) OBVIOUS
<1>4. d * m \in Int /\ q * size \in Int OBVIOUS
<1>5. d = 2 * e /\ e \in Int BY <1>2, <1>3, <1>4
<1>6. e \in 0 .. size - 1 BY <1>5
<1>7. e * s = q * size
  <2>1. (2 * e) * s = 2 * (e * s) BY <1>5
  <2>2. e * s \in Int BY <1>5
  <2> QED BY <1>3, <1>4, <1>5, <2>1, <2>2
<1>8. e = 0 BY <1>5, <1>6, <1>7, Zenon DEF Turns
<1> QED BY <1>5, <1>8

LEMMA TurnsOne == Turns(1)
BY DEF Turns

\* The sizes of the tables.
ProperSize(size) ==
    size \in Nat /\ (size = 4 \/ \E j \in Nat \ {0} : size = 8 * j) /\ Turns(size)

LEMMA ProperDouble ==
    ASSUME NEW size, ProperSize(size)
    PROVE  ProperSize(2 * size)
<1>1. \E j \in Nat \ {0} : 2 * size = 8 * j
  <2>1. CASE size = 4
    <3>1. 1 \in Nat \ {0} /\ 2 * size = 8 * 1 BY <2>1
    <3> QED BY <3>1
  <2>2. CASE \E j \in Nat \ {0} : size = 8 * j
    <3>1. PICK j \in Nat \ {0} : size = 8 * j BY <2>2
    <3>2. 2 * j \in Nat \ {0} /\ 2 * size = 8 * (2 * j) BY <3>1
    <3> QED BY <3>2, Zenon
  <2> QED BY <2>1, <2>2 DEF ProperSize
<1> QED BY <1>1, TurnsDouble DEF ProperSize

LEMMA ProperInit == ProperSize(InitSize)
<1>1. Turns(2) BY TurnsOne, TurnsDouble
<1>2. Turns(4) BY <1>1, TurnsDouble
<1>3. ProperSize(4) BY <1>2 DEF ProperSize
<1>4. ProperSize(8) BY <1>3, ProperDouble
<1>5. ProperSize(16) BY <1>4, ProperDouble
<1>6. ProperSize(32) BY <1>5, ProperDouble
<1>7. ProperSize(64) BY <1>6, ProperDouble
<1>8. InitSize \in {4, 8, 16, 32, 64} BY HashAssumption
<1> QED BY <1>3, <1>4, <1>5, <1>6, <1>7, <1>8

\* PROBE_STEP is odd: SECOND_HASH is even, unless it is masked to nothing.
LEMMA StepIsOdd ==
    ASSUME NEW h \in Nat, NEW size, ProperSize(size)
    PROVE  PROBE_STEP(h, size) \in Int /\ Odd(PROBE_STEP(h, size))
<1> DEFINE a == h \div size
           x == (a * 2) % (size \div 4)
<1>1. size \in Nat \ {0} /\ a \in Int BY DEF ProperSize
<1>2. x \in Int /\ \E m \in Int : x = 2 * m
  <2>1. CASE size = 4
    <3>1. size \div 4 = 1 BY <2>1
    <3>2. x = 0 BY <1>1, <3>1
    <3>3. 0 \in Int /\ x = 2 * 0 BY <3>2
    <3> QED BY <3>3
  <2>2. CASE \E j \in Nat \ {0} : size = 8 * j
    <3>1. PICK j \in Nat \ {0} : size = 8 * j BY <2>2
    <3>2. size \div 4 = 2 * j BY <3>1
    <3>3. 2 * j \in Nat \ {0} /\ a * 2 \in Int BY <1>1, <3>1
    <3>4. PICK q \in Int : a * 2 = q * (2 * j) + ((a * 2) % (2 * j))
      BY <3>3, Euclid, Zenon
    <3>5. x = (a * 2) % (2 * j) /\ x \in Int BY <3>2, <3>3
    <3>6. q * (2 * j) = 2 * (q * j) /\ q * j \in Int BY <3>1
    <3>7. x = 2 * (a - q * j) /\ a - q * j \in Int BY <1>1, <3>4, <3>5, <3>6
    <3> QED BY <3>5, <3>7
  <2> QED BY <2>1, <2>2 DEF ProperSize
<1>3. PICK m \in Int : x = 2 * m BY <1>2
<1> HIDE DEF x
<1>4. PROBE_STEP(h, size) = (x + 1) % 256 BY DEF PROBE_STEP, x
<1>5. (x + 1) % 256 \in Int BY <1>2
<1>6. \E l \in Int : (x + 1) % 256 = 2 * l + 1
  <2>0. x + 1 \in Int /\ 256 \in Nat \ {0} BY <1>2
  <2>1. PICK q \in Int : x + 1 = q * 256 + ((x + 1) % 256) BY <2>0, Euclid, Zenon
  <2>2. (x + 1) % 256 = 2 * (m - q * 128) + 1 BY <1>2, <1>3, <2>1
  <2>3. m - q * 128 \in Int OBVIOUS
  <2> QED BY <2>2, <2>3, Zenon
<1> QED BY <1>4, <1>5, <1>6 DEF Odd

\* So the probe sequence of a name comes to every slot, once.
LEMMA SlotsDiffer ==
    ASSUME NEW h \in Nat, NEW size, ProperSize(size),
           NEW k \in Slots(size), NEW j \in Slots(size), k < j
    PROVE  SlotOf(h, size, k) # SlotOf(h, size, j)
<1> SUFFICES ASSUME SlotOf(h, size, k) = SlotOf(h, size, j) PROVE FALSE OBVIOUS
<1> DEFINE c == size - PROBE_STEP(h, size)
           b == h % size
<1>1. size \in Nat \ {0} /\ b \in Int BY DEF ProperSize
<1>2. c \in Int /\ Odd(c)
  <2>1. PICK m \in Int : PROBE_STEP(h, size) = 2 * m + 1 BY StepIsOdd DEF Odd
  <2>2. PICK n \in Int : size = 2 * n
    <3>1. CASE size = 4
      <4>1. 2 \in Int /\ size = 2 * 2 BY <3>1
      <4> QED BY <4>1
    <3>2. CASE \E i \in Nat \ {0} : size = 8 * i
      <4>1. PICK i \in Nat \ {0} : size = 8 * i BY <3>2
      <4>2. 4 * i \in Int /\ size = 2 * (4 * i) BY <4>1
      <4> QED BY <4>2
    <3> QED BY <3>1, <3>2 DEF ProperSize
  <2>3. c = 2 * (n - m - 1) + 1 /\ n - m - 1 \in Int /\ c \in Int BY <2>1, <2>2
  <2> HIDE DEF c
  <2> QED BY <2>3, Zenon DEF Odd
<1>3. k \in Int /\ j \in Int /\ j - k \in 0 .. size - 1 /\ j - k # 0
  BY <1>1 DEF Slots
<1> HIDE DEF c, b
<1>4. (b + k * c) % size = (b + j * c) % size BY DEF SlotOf, c, b
<1>5. b + k * c \in Int /\ b + j * c \in Int BY <1>1, <1>2, <1>3
<1>6. PICK p \in Int : b + k * c = p * size + ((b + k * c) % size) BY <1>1, <1>5, Euclid, Zenon
<1>7. PICK q \in Int : b + j * c = q * size + ((b + j * c) % size) BY <1>1, <1>5, Euclid, Zenon
<1>8. j * c - k * c = q * size - p * size
  <2> DEFINE r == (b + j * c) % size
             x == k * c
             y == j * c
             u == p * size
             w == q * size
  <2>1. r \in Int /\ x \in Int /\ y \in Int /\ u \in Int /\ w \in Int
    BY <1>1, <1>2, <1>3, <1>5
  <2>2. b + x = u + r /\ b + y = w + r BY <1>4, <1>6, <1>7
  <2>3. y - x = w - u
    <3> HIDE DEF r, x, y, u, w
    <3> QED BY <1>1, <2>1, <2>2
  <2> QED BY <2>3
<1>9. (j - k) * c = (q - p) * size
  <2>1. (j - k) * c = j * c - k * c BY <1>2, <1>3
  <2>2. (q - p) * size = q * size - p * size BY <1>1
  <2> QED BY <1>8, <2>1, <2>2
<1>10. j - k \in Int /\ q - p \in Int BY <1>3
<1> QED BY <1>2, <1>3, <1>9, <1>10, Zenon DEF ProperSize, Turns

\* Induction, from the well-foundedness of < on Nat: a property that some
\* number has, a least number has.
LEMMA MinimalIn ==
    ASSUME NEW R, IsWellFoundedOn(R, Nat), NEW S \in SUBSET Nat, S # {}
    PROVE  \E m \in S : \A k \in S : ~(<<k, m>> \in R)
BY WFMin, Zenon

LEMMA LeastIn ==
    ASSUME NEW R, IsWellFoundedOn(R, Nat), \A k, m \in Nat : k < m => <<k, m>> \in R,
           NEW S \in SUBSET Nat, S # {}
    PROVE  \E m \in S : \A k \in S : ~(k < m)
<1>1. \E m \in S : \A k \in S : ~(<<k, m>> \in R) BY MinimalIn, Zenon
<1>2. S \subseteq Nat OBVIOUS
<1>3. ASSUME NEW m \in S, NEW k \in S, ~(<<k, m>> \in R) PROVE ~(k < m)
  BY <1>2, <1>3, Zenon
<1> QED BY <1>1, <1>3, Zenon

LEMMA LeastNatural ==
    ASSUME NEW S \in SUBSET Nat, S # {}
    PROVE  \E m \in S : \A k \in S : ~(k < m)
<1>1. \A k, m \in Nat : k < m => <<k, m>> \in OpToRel(<, Nat) BY Zenon DEF OpToRel
<1> QED BY <1>1, NatLessThanWellFounded, LeastIn, Zenon

\* With a free slot in the array every search ends: not all of its probes
\* can be to occupied slots, as these are fewer.
LEMMA SearchEnds ==
    ASSUME NEW h \in Nat, NEW size, ProperSize(size), NEW v,
           Cardinality(Occupied(v, size)) < size
    PROVE  \E k \in Slots(size) : /\ v[SlotOf(h, size, k)] = NoEntry
                                  /\ \A j \in 0 .. k - 1 : v[SlotOf(h, size, j)] # NoEntry
<1>1. size \in Nat /\ size > 0 BY DEF ProperSize
<1>2. IsFiniteSet(Slots(size)) /\ Cardinality(Slots(size)) = size
  <2>1. 0 \in Int /\ size - 1 \in Int /\ ~(0 > size - 1) /\ (size - 1) - 0 + 1 = size BY <1>1
  <2> QED BY <2>1, FS_Interval DEF Slots
<1>3. IsFiniteSet(Occupied(v, size)) BY <1>2, FS_Subset DEF Occupied
<1> DEFINE Free == {k \in Slots(size) : v[SlotOf(h, size, k)] = NoEntry}
<1>4. Free # {}
  <2> SUFFICES ASSUME Free = {} PROVE FALSE OBVIOUS
  <2> DEFINE f == [k \in Slots(size) |-> SlotOf(h, size, k)]
  <2>1. ASSUME NEW k \in Slots(size) PROVE SlotOf(h, size, k) \in Occupied(v, size)
    <3>1. k \in Nat BY <1>1 DEF Slots
    <3>2. SlotOf(h, size, k) \in Slots(size) BY <1>1, <3>1, SlotInRange
    <3> QED BY <3>2 DEF Occupied
  <2>2. f \in [Slots(size) -> Occupied(v, size)] BY <2>1
  <2> HIDE DEF Free
  <2>3. \E k, j \in Slots(size) : k # j /\ f[k] = f[j]
    <3> HIDE DEF f
    <3> QED BY <1>2, <1>3, <2>2, FS_PigeonHole
  <2>4. PICK k \in Slots(size), j \in Slots(size) :
           k # j /\ SlotOf(h, size, k) = SlotOf(h, size, j)
    BY <2>3
  <2>5. k < j \/ j < k BY <1>1, <2>4 DEF Slots
  <2> QED BY <2>4, <2>5, SlotsDiffer
<1>5. Free \in SUBSET Nat BY <1>1 DEF Slots
<1>6. PICK k \in Free : \A j \in Free : ~(j < k)
  <2> HIDE DEF Free
  <2> QED BY <1>4, <1>5, LeastNatural
<1>7. ASSUME NEW j \in 0 .. k - 1 PROVE v[SlotOf(h, size, j)] # NoEntry
  <2>1. j \in Slots(size) /\ j < k BY <1>1 DEF Slots
  <2> QED BY <1>6, <2>1
<1> QED BY <1>7

LEMMA LookupEnds ==
    ASSUME hash \in [KeySet -> Nat], NEW n \in KeySet, NEW size, ProperSize(size), NEW v,
           Cardinality(Occupied(v, size)) < size
    PROVE  /\ \E k \in Slots(size) : FreeAt(v, size, n, k)
           /\ \E k \in Slots(size) : EndsAt(v, size, n, k)
<1>1. PICK k \in Slots(size) :
         /\ v[SlotOf(hash[n], size, k)] = NoEntry
         /\ \A j \in 0 .. k - 1 : v[SlotOf(hash[n], size, j)] # NoEntry
  BY SearchEnds
<1>2. FreeAt(v, size, n, k) BY <1>1 DEF FreeAt, Slot
<1> DEFINE ends(j) == v[Slot(n, size, j)] # NoEntry => keys[v[Slot(n, size, j)]] = n
           Ends == {j \in Slots(size) : ends(j)}
<1>3. Ends # {} BY <1>1 DEF Slot
<1>4. size \in Nat BY DEF ProperSize
<1>5. Ends \in SUBSET Nat BY <1>4 DEF Slots
<1>6. PICK m \in Ends : \A j \in Ends : ~(j < m)
  <2> HIDE DEF Ends
  <2> QED BY <1>3, <1>5, LeastNatural
<1>7. ASSUME NEW j \in 0 .. m - 1 PROVE ~ends(j)
  <2>1. j \in Slots(size) /\ j < m BY <1>4 DEF Slots
  <2> QED BY <1>6, <2>1
<1>8. EndsAt(v, size, n, m) BY <1>7, Zenon DEF EndsAt
<1> QED BY <1>2, <1>8, Zenon

LEMMA OccupiedFinite ==
    ASSUME NEW size \in Nat, NEW v
    PROVE  /\ IsFiniteSet(Occupied(v, size))
           /\ Cardinality(Occupied(v, size)) \in Nat
<1>1. IsFiniteSet(Slots(size))
  <2>1. 0 \in Int /\ size - 1 \in Int OBVIOUS
  <2> QED BY <2>1, FS_Interval DEF Slots
<1>2. IsFiniteSet(Occupied(v, size)) BY <1>1, FS_Subset DEF Occupied
<1> QED BY <1>2, FS_CardinalityType

LEMMA OneMore ==
    ASSUME NEW size \in Nat, NEW v \in [Slots(size) -> Entries \cup {NoEntry}],
           NEW s \in Slots(size), v[s] = NoEntry, NEW e \in Entries
    PROVE  Cardinality(Occupied([v EXCEPT ![s] = e], size))
             = Cardinality(Occupied(v, size)) + 1
<1>1. e # NoEntry BY HashAssumption
<1>2. Occupied([v EXCEPT ![s] = e], size) = Occupied(v, size) \cup {s}
  BY <1>1 DEF Occupied
<1>3. s \notin Occupied(v, size) BY DEF Occupied
<1> QED BY <1>2, <1>3, OccupiedFinite, FS_AddElement, Zenon

\* used counts the entries, and there is room for one more when one is about
\* to be inserted.  The array that is filled has one entry for each that was
\* passed in the old one.
PassedBy == {i \in Occupied(tabV, tabSize) : i < rehashed}
CountInv ==
    /\ tabSize = 0 \/ ProperSize(tabSize)
    /\ tabUsed = Cardinality(Occupied(tabV, tabSize))
    /\ 2 * tabUsed <= tabSize
    /\ stage = "insert" => 2 * tabUsed < tabSize
    /\ stage = "grow" => Cardinality(Occupied(newV, 2 * tabSize)) = Cardinality(PassedBy)

LEMMA CountStart == HashInit => CountInv
<1> SUFFICES ASSUME HashInit PROVE CountInv OBVIOUS
<1>1. Occupied(tabV, tabSize) = {} BY DEF HashInit, Occupied, Slots
<1> QED BY <1>1, FS_EmptySet DEF HashInit, CountInv

LEMMA CountKept ==
    ASSUME CountInv, UNCHANGED <<tabV, tabSize, tabUsed>>, stage' = "idle"
    PROVE  CountInv'
BY DEF CountInv

LEMMA CountLookup ==
    ASSUME HashInv, CountInv, NEW n \in KeySet,
           \/ LookupNoTable(n) \/ LookupFirst(n) \/ LookupFound(n) \/ LookupMissed(n)
           \/ LookupRoom(n) \/ LookupGrow(n)
    PROVE  CountInv'
<1>0. /\ tabSize \in Nat /\ tabUsed \in Nat
      /\ tabUsed = Cardinality(Occupied(tabV, tabSize))
  BY OccupiedFinite DEF HashInv, HashTypeOK, CountInv
<1>1. CASE LookupNoTable(n) \/ LookupFound(n) \/ LookupMissed(n)
  BY <1>1, CountKept, Zenon DEF LookupNoTable, LookupFound, LookupMissed, Return, tabVars
<1>2. CASE LookupFirst(n)
  <2>1. /\ tabSize = 0 /\ tabSize' = InitSize /\ tabUsed' = tabUsed /\ stage' = "insert"
        /\ tabV' = Empty(InitSize)
    BY <1>2 DEF LookupFirst
  <2>2. tabUsed = 0 BY <1>0, <2>1 DEF CountInv
  <2>3. Occupied(tabV', tabSize') = {} BY <2>1 DEF Occupied, Empty
  <2>4. ProperSize(InitSize) /\ InitSize \in Nat /\ InitSize > 0
    BY ProperInit, HashAssumption
  <2> QED BY <2>1, <2>2, <2>3, <2>4, FS_EmptySet DEF CountInv
<1>3. CASE LookupRoom(n)
  <2>1. /\ UNCHANGED <<tabV, tabSize, tabUsed>> /\ stage' = "insert"
        /\ ~(tabUsed >= tabSize \div 2)
    BY <1>3 DEF LookupRoom, HalfFull, tabVars
  <2>2. 2 * tabUsed < tabSize BY <1>0, <2>1
  <2> QED BY <2>1, <2>2 DEF CountInv
<1>4. CASE LookupGrow(n)
  <2>1. /\ UNCHANGED <<tabV, tabSize, tabUsed>> /\ stage' = "grow"
        /\ newV' = Empty(2 * tabSize) /\ rehashed' = 0
    BY <1>4 DEF LookupGrow, tabVars
  <2>2. Occupied(newV', 2 * tabSize) = {} BY <2>1 DEF Occupied, Empty
  <2>3. PassedBy' = {} BY <1>0, <2>1 DEF PassedBy, Occupied, Slots
  <2> QED BY <2>1, <2>2, <2>3 DEF CountInv
<1> QED BY <1>1, <1>2, <1>3, <1>4

LEMMA CountRehash ==
    ASSUME HashInv, CountInv, Rehash
    PROVE  CountInv'
<1>1. /\ stage = "grow" /\ stage' = "grow" /\ rehashed < tabSize /\ rehashed' = rehashed + 1
      /\ UNCHANGED <<hash, tabV, tabSize, tabUsed, keys>>
  BY Zenon DEF Rehash, tabVars
<1>2. /\ tabSize \in Nat /\ rehashed \in Nat /\ rehashed \in Slots(tabSize)
      /\ tabV \in [Slots(tabSize) -> Entries \cup {NoEntry}]
      /\ newV \in [Slots(2 * tabSize) -> Entries \cup {NoEntry}]
      /\ hash \in [KeySet -> Nat]
  BY <1>1 DEF HashInv, HashTypeOK, Slots
<1>3. IsFiniteSet(PassedBy) BY <1>2, OccupiedFinite, FS_Subset DEF PassedBy
<1>4. CASE tabV[rehashed] = NoEntry
  <2>1. newV' = newV BY <1>4 DEF Rehash
  <2>2. PassedBy' = PassedBy BY <1>1, <1>2, <1>4 DEF PassedBy, Occupied, Slots
  <2> QED BY <1>1, <2>1, <2>2 DEF CountInv
<1>5. CASE tabV[rehashed] # NoEntry
  <2> DEFINE e == tabV[rehashed]
             size == 2 * tabSize
  <2>1. PICK k \in Slots(size) :
           /\ FreeAt(newV, size, keys[e], k)
           /\ newV' = [newV EXCEPT ![Slot(keys[e], size, k)] = e]
    BY <1>5, Zenon DEF Rehash
  <2>2. rehashed \in Occupied(tabV, tabSize) /\ e \in Entries
    BY <1>2, <1>5 DEF Occupied
  <2>3. keys[e] \in KeySet BY <2>2 DEF HashInv, Placed
  <2>4. size \in Nat /\ size > 0 /\ k \in Nat BY <1>1, <1>2 DEF Slots
  <2>5. hash[keys[e]] \in Nat BY <1>2, <2>3
  <2>6. Slot(keys[e], size, k) \in Slots(size) BY <2>4, <2>5, SlotInRange DEF Slot
  <2>7. newV[Slot(keys[e], size, k)] = NoEntry BY <2>1 DEF FreeAt
  <2>8. Cardinality(Occupied(newV', size)) = Cardinality(Occupied(newV, size)) + 1
    <3> DEFINE s == Slot(keys[e], size, k)
    <3>1. newV' = [newV EXCEPT ![s] = e] BY <2>1
    <3> HIDE DEF e, size, s
    <3>2. newV \in [Slots(size) -> Entries \cup {NoEntry}] BY <1>2 DEF size
    <3>3. s \in Slots(size) /\ newV[s] = NoEntry BY <2>6, <2>7 DEF s
    <3> QED BY <2>2, <2>4, <3>1, <3>2, <3>3, OneMore, Zenon
  <2>9. PassedBy' = PassedBy \cup {rehashed} /\ rehashed \notin PassedBy
    BY <1>1, <1>2, <2>2 DEF PassedBy, Occupied, Slots
  <2>10. Cardinality(PassedBy') = Cardinality(PassedBy) + 1
    BY <1>3, <2>9, FS_AddElement
  <2> QED BY <1>1, <2>8, <2>10 DEF CountInv
<1> QED BY <1>4, <1>5

LEMMA CountRehashed ==
    ASSUME HashInv, CountInv, Rehashed
    PROVE  CountInv'
<1>1. /\ stage = "grow" /\ rehashed = tabSize /\ tabV' = newV /\ tabSize' = 2 * tabSize
      /\ stage' = "insert" /\ tabUsed' = tabUsed
  BY DEF Rehashed
<1>2. /\ tabSize \in Nat /\ tabSize > 0 BY <1>1 DEF HashInv, HashTypeOK
<1>3. PassedBy = Occupied(tabV, tabSize) BY <1>1, <1>2 DEF PassedBy, Occupied, Slots
<1>4. tabUsed' = Cardinality(Occupied(tabV', tabSize')) BY <1>1, <1>3 DEF CountInv
<1>5. tabUsed \in Nat BY <1>2, OccupiedFinite DEF CountInv
<1>6. 2 * tabUsed < 2 * tabSize BY <1>2, <1>5 DEF CountInv
<1>7. ProperSize(2 * tabSize) BY <1>2, ProperDouble DEF CountInv
<1>8. 2 * tabUsed' <= tabSize' /\ 2 * tabUsed' < tabSize' BY <1>1, <1>2, <1>5, <1>6
<1> QED BY <1>1, <1>4, <1>7, <1>8 DEF CountInv

LEMMA CountInsert ==
    ASSUME HashInv, CountInv, Insert
    PROVE  CountInv'
<1>1. /\ stage = "insert" /\ stage' = "idle" /\ tabSize' = tabSize /\ tabUsed' = tabUsed + 1
  BY DEF Insert, Return
<1>2. PICK k \in Slots(tabSize), e \in Entries :
         /\ FreeAt(tabV, tabSize, wanted, k)
         /\ tabV' = [tabV EXCEPT ![Slot(wanted, tabSize, k)] = e]
  BY Zenon DEF Insert
<1>3. /\ tabSize \in Nat /\ tabSize > 0 /\ hash \in [KeySet -> Nat] /\ wanted \in KeySet
      /\ tabV \in [Slots(tabSize) -> Entries \cup {NoEntry}]
  BY <1>1 DEF HashInv, HashTypeOK
<1>4. k \in Nat /\ hash[wanted] \in Nat BY <1>3 DEF Slots
<1>5. Slot(wanted, tabSize, k) \in Slots(tabSize) BY <1>3, <1>4, SlotInRange DEF Slot
<1>6. tabV[Slot(wanted, tabSize, k)] = NoEntry BY <1>2 DEF FreeAt
<1>7. Cardinality(Occupied(tabV', tabSize)) = Cardinality(Occupied(tabV, tabSize)) + 1
  BY <1>2, <1>3, <1>5, <1>6, OneMore, Zenon
<1>8. tabUsed \in Nat BY <1>3, OccupiedFinite DEF CountInv
<1>9. 2 * (tabUsed + 1) <= tabSize
  <2>1. 2 * tabUsed < tabSize BY <1>1 DEF CountInv
  <2>2. ProperSize(tabSize) BY <1>3 DEF CountInv
  <2>3. CASE tabSize = 4 BY <1>8, <2>1, <2>3
  <2>4. CASE \E j \in Nat \ {0} : tabSize = 8 * j
    <3>1. PICK j \in Nat \ {0} : tabSize = 8 * j BY <2>4
    <3> QED BY <1>8, <2>1, <3>1
  <2> QED BY <2>2, <2>3, <2>4 DEF ProperSize
<1> QED BY <1>1, <1>7, <1>9 DEF CountInv

LEMMA CountStep == HashInv /\ CountInv /\ [HashNext]_hashVars => CountInv'
<1> SUFFICES ASSUME HashInv, CountInv, [HashNext]_hashVars PROVE CountInv'
  OBVIOUS
<1>1. CASE InsertFails BY <1>1, CountKept DEF InsertFails, Return, tabVars
<1>2. CASE hashTableClear
  <2>1. tabV' = Empty(tabSize) /\ tabUsed' = 0 /\ tabSize' = tabSize /\ stage' = "idle"
    BY <1>2 DEF hashTableClear
  <2>2. Occupied(tabV', tabSize') = {} BY <2>1 DEF Occupied, Empty
  <2>3. tabSize \in Nat BY DEF HashInv, HashTypeOK
  <2> QED BY <2>1, <2>2, <2>3, FS_EmptySet DEF CountInv
<1>3. CASE UNCHANGED hashVars
  BY <1>3 DEF hashVars, tabVars, CountInv, PassedBy
<1> QED
  BY <1>1, <1>2, <1>3, CountLookup, CountRehash, CountRehashed, CountInsert DEF HashNext

\* Every search ends, in the table and in the array that is being filled,
\* whatever the names hash to: the probe sequence has an odd step, comes to
\* every slot, and at most half of them are occupied.
THEOREM SearchesEnd == HashSpec => []ProbingEnds
<1>1. ASSUME HashInv, CountInv PROVE ProbingEnds
  <2>1. tabSize \in Nat /\ hash \in [KeySet -> Nat] BY <1>1 DEF HashInv, HashTypeOK
  <2>2. tabUsed \in Nat BY <1>1, <2>1, OccupiedFinite DEF CountInv
  <2>3. /\ tabUsed = Cardinality(Occupied(tabV, tabSize)) /\ 2 * tabUsed <= tabSize
        /\ tabSize > 0 => ProperSize(tabSize)
    BY <1>1, <2>1 DEF CountInv
  <2>4. ASSUME NEW n \in KeySet, tabSize > 0
        PROVE  \E k \in Slots(tabSize) : EndsAt(tabV, tabSize, n, k)
    <3>1. Cardinality(Occupied(tabV, tabSize)) < tabSize BY <2>1, <2>2, <2>3, <2>4
    <3> QED BY <2>1, <2>3, <2>4, <3>1, LookupEnds
  <2>5. ASSUME NEW n \in KeySet, stage = "grow"
        PROVE  \E k \in Slots(2 * tabSize) : FreeAt(newV, 2 * tabSize, n, k)
    <3>1. tabSize > 0 BY <1>1, <2>5 DEF HashInv, HashTypeOK
    <3>2. ProperSize(2 * tabSize) BY <2>3, <3>1, ProperDouble
    <3>3. Cardinality(PassedBy) <= tabUsed
      BY <2>1, <2>3, OccupiedFinite, FS_Subset DEF PassedBy
    <3>4. Cardinality(Occupied(newV, 2 * tabSize)) <= tabUsed
      BY <1>1, <2>5, <3>3 DEF CountInv
    <3>5. Cardinality(Occupied(newV, 2 * tabSize)) \in Nat
      <4>1. 2 * tabSize \in Nat BY <2>1
      <4> QED BY <4>1, OccupiedFinite
    <3>6. Cardinality(Occupied(newV, 2 * tabSize)) < 2 * tabSize
      BY <2>1, <2>2, <2>3, <3>1, <3>4, <3>5
    <3> QED BY <2>1, <3>2, <3>6, LookupEnds
  <2> QED BY <2>3, <2>4, <2>5 DEF ProbingEnds
<1> QED BY <1>1, CountStart, CountStep, NamesAreFound, PTL DEF HashSpec
=============================================================================
