---------------------------- MODULE MemoryProofs ----------------------------
(***************************************************************************)
(* The memory of a parser: the accounting of the bytes it allocates, and   *)
(* the pools it keeps strings in.                                          *)
(***************************************************************************)
EXTENDS AllocTracker, StringPool, FiniteSetTheorems, TLAPS

-----------------------------------------------------------------------------
(* AllocTracker: the count of allocated bytes is exact, and the assertions *)
(* about it hold, for every header, word size, memory and setting.         *)
(*                                                                         *)
(* That the count covers a block is not inductive on its own: freeing one  *)
(* block could take away from the count of another.  The strengthening is  *)
(* that blocks are disjoint and that the count is the number of addresses  *)
(* they own; sums of sizes then become cardinalities of unions.            *)

(* What a block owns: as many addresses as its header and size say. *)
LEMMA CellsCount ==
    ASSUME NEW base \in Nat, NEW size \in Nat
    PROVE  /\ IsFiniteSet(Cells(base, size))
           /\ Cardinality(Cells(base, size)) = Header + size
<1> DEFINE e == base + Header + size - 1
<1>1. e \in Int /\ base <= e
  BY AllocAssumption
<1>2. /\ IsFiniteSet(base..e)
      /\ Cardinality(base..e) = e - base + 1
  <2> HIDE DEF e
  <2> QED BY <1>1, FS_Interval
<1> QED BY <1>2, AllocAssumption DEF Cells

(* Memory, and so any set of blocks in it, is finite. *)
LEMMA InMemory ==
    ASSUME NEW S, S \subseteq Memory
    PROVE  IsFiniteSet(S) /\ Cardinality(S) \in Nat /\ Cardinality(S) <= MemSize
<1>1. IsFiniteSet(Memory) /\ Cardinality(Memory) = MemSize
  <2>1. MemSize - 1 \in Int /\ 0 \in Int
    BY AllocAssumption
  <2>2. /\ IsFiniteSet(0..(MemSize - 1))
        /\ Cardinality(0..(MemSize - 1))
             = IF 0 > MemSize - 1 THEN 0 ELSE (MemSize - 1) - 0 + 1
    BY <2>1, FS_Interval
  <2> QED BY <2>2, AllocAssumption DEF Memory
<1>2. IsFiniteSet(S) /\ Cardinality(S) <= Cardinality(Memory)
  BY <1>1, FS_Subset
<1>3. Cardinality(S) \in Nat
  BY <1>2, FS_CardinalityType
<1> QED BY <1>1, <1>2, <1>3

(* Adding disjoint memory adds up. *)
LEMMA Adds ==
    ASSUME NEW S, NEW T, IsFiniteSet(S), IsFiniteSet(T), S \cap T = {}
    PROVE  Cardinality(S \cup T) = Cardinality(S) + Cardinality(T)
<1>1. Cardinality(S) \in Nat /\ Cardinality(T) \in Nat
  BY FS_CardinalityType
<1>2. Cardinality(S \cup T) = Cardinality(S) + Cardinality(T) - Cardinality(S \cap T)
  BY FS_Union
<1>3. Cardinality(S \cap T) = 0
  BY FS_EmptySet
<1> QED BY <1>1, <1>2, <1>3

-----------------------------------------------------------------------------
(* A heap: blocks in memory that do not overlap. *)
Heap(B) ==
    /\ B \subseteq [base : Memory, size : Sizes, root : BOOLEAN]
    /\ Owned(B) \subseteq Memory
    /\ \A b, c \in B : b # c => Cells(b.base, b.size) \cap Cells(c.base, c.size) = {}

Size(B) == Cardinality(Owned(B))

LEMMA HeapSize ==
    ASSUME NEW B, Heap(B)
    PROVE  Size(B) \in Nat /\ Size(B) <= MemSize
BY InMemory DEF Heap, Size

(* A new block in fresh memory. *)
LEMMA HeapAdds ==
    ASSUME NEW B, Heap(B), NEW base \in Memory, NEW size \in Sizes,
           NEW root \in BOOLEAN, Fresh(base, size, B)
    PROVE  /\ Heap(B \cup {Block(base, size, root)})
           /\ Size(B \cup {Block(base, size, root)}) = Size(B) + Header + size
<1> DEFINE n == Block(base, size, root)
           C == Cells(base, size)
<1>1. base \in Nat /\ size \in Nat
  BY AllocAssumption DEF Memory, Sizes
<1>2. n \in [base : Memory, size : Sizes, root : BOOLEAN]
      /\ n.base = base /\ n.size = size
  BY DEF Block
<1>3. Owned(B \cup {n}) = Owned(B) \cup C
  <2> HIDE DEF n
  <2> QED BY <1>2 DEF Owned
<1>4. C \subseteq Memory /\ C \cap Owned(B) = {}
  BY DEF Fresh
<1>5. \A b \in B : Cells(b.base, b.size) \cap C = {}
  BY <1>4 DEF Owned
<1>6. Heap(B \cup {n})
  <2> HIDE DEF n, C
  <2>1. B \cup {n} \subseteq [base : Memory, size : Sizes, root : BOOLEAN]
    BY <1>2 DEF Heap
  <2>2. Owned(B \cup {n}) \subseteq Memory
    BY <1>3, <1>4, Zenon DEF Heap
  <2>3. ASSUME NEW b \in B \cup {n}, NEW c \in B \cup {n}, b # c
        PROVE  Cells(b.base, b.size) \cap Cells(c.base, c.size) = {}
    <3>1. Cells(n.base, n.size) = C
      BY <1>2 DEF C
    <3>2. CASE b \in B /\ c \in B
      BY <3>2, <2>3 DEF Heap
    <3>3. CASE b = n /\ c \in B
      BY <3>1, <3>3, <1>5
    <3>4. CASE c = n /\ b \in B
      BY <3>1, <3>4, <1>5
    <3> QED BY <2>3, <3>2, <3>3, <3>4
  <2> QED BY <2>1, <2>2, <2>3 DEF Heap
<1>7. Size(B \cup {n}) = Size(B) + (Header + size)
  <2>1. IsFiniteSet(C) /\ Cardinality(C) = Header + size
    BY <1>1, CellsCount
  <2>2. IsFiniteSet(Owned(B))
    BY InMemory DEF Heap
  <2>3. Owned(B) \cap C = {}
    BY <1>4
  <2> HIDE DEF n, C
  <2>4. Cardinality(Owned(B) \cup C) = Cardinality(Owned(B)) + Cardinality(C)
    BY <2>1, <2>2, <2>3, Adds
  <2> QED BY <2>1, <2>4, <1>3, Zenon DEF Size
<1>8. Size(B) \in Nat /\ Header \in Nat
  BY HeapSize, AllocAssumption
<1> QED BY <1>1, <1>6, <1>7, <1>8

(* A block that goes. *)
LEMMA HeapRemoves ==
    ASSUME NEW B, Heap(B), NEW b \in B
    PROVE  /\ Heap(B \ {b})
           /\ Size(B) = Size(B \ {b}) + Header + b.size
<1> DEFINE R == B \ {b}
           C == Cells(b.base, b.size)
<1>1. b.base \in Nat /\ b.size \in Nat
  BY AllocAssumption DEF Heap, Memory, Sizes
<1>2. Owned(B) = Owned(R) \cup C
  BY DEF Owned
<1>3. Heap(R)
  <2>1. Owned(R) \subseteq Memory
    BY <1>2 DEF Heap
  <2> QED BY <2>1, Zenon DEF Heap
<1>4. \A c \in R : Cells(c.base, c.size) \cap C = {}
  BY DEF Heap
<1>5. Owned(R) \cap C = {}
  <2> HIDE DEF R, C
  <2> QED BY <1>4 DEF Owned
<1>6. Size(B) = Size(R) + (Header + b.size)
  <2>1. IsFiniteSet(C) /\ Cardinality(C) = Header + b.size
    BY <1>1, CellsCount
  <2>2. IsFiniteSet(Owned(R))
    BY <1>3, InMemory, Zenon DEF Heap
  <2> HIDE DEF R, C
  <2>3. Cardinality(Owned(R) \cup C) = Cardinality(Owned(R)) + Cardinality(C)
    BY <2>1, <2>2, <1>5, Adds
  <2> QED BY <2>1, <2>3, <1>2 DEF Size
<1>7. Size(R) \in Nat /\ Header \in Nat
  BY <1>3, HeapSize, AllocAssumption
<1> HIDE DEF R
<1>8. Size(B) = Size(R) + Header + b.size
  BY <1>1, <1>6, <1>7
<1> QED BY <1>3, <1>8 DEF R

(* A count that fits does not wrap. *)
LEMMA NoWrap ==
    ASSUME NEW a \in Int, 0 <= a, a <= CountMax
    PROVE  a % (CountMax + 1) = a
BY AllocAssumption

-----------------------------------------------------------------------------
(* The inductive invariant. *)
Bounds ==
    /\ countBytesDirect \in 0..MaxDirect
    /\ activationThresholdBytes \in Thresholds
    /\ maximumAmplificationFactor \in Factors
    /\ limit \in Int
    /\ Header + Struct <= limit
    /\ LimitOf(activationThresholdBytes, maximumAmplificationFactor,
               countBytesDirect) <= limit

IInv ==
    /\ Heap(blocks)
    /\ created \in BOOLEAN
    /\ ~created => blocks = {}
    /\ bytesAllocated = Size(blocks)
    /\ Bounds
    /\ bytesAllocated <= limit

LEMMA CountFits ==
    ASSUME IInv
    PROVE  bytesAllocated \in 0..CountMax
BY HeapSize, AllocAssumption DEF IInv

(* What the tolerance check lets through stays within the limit. *)
LEMMA TolerableLimit ==
    ASSUME IInv, NEW n \in Nat, Tolerable(n)
    PROVE  bytesAllocated + n <= limit
<1> DEFINE product == maximumAmplificationFactor * countBytesDirect
<1>1. product \in Int /\ activationThresholdBytes \in Int /\ limit \in Int
  BY AllocAssumption DEF IInv, Bounds
<1>2. bytesAllocated \in Int
  BY CountFits
<1>3. activationThresholdBytes - 1 <= limit /\ product <= limit
  <2>1. Greater(activationThresholdBytes - 1, product) <= limit
    BY DEF IInv, Bounds, LimitOf
  <2> HIDE DEF product
  <2> QED BY <2>1, <1>1 DEF Greater
<1>4. bytesAllocated + n < activationThresholdBytes \/ bytesAllocated + n <= product
  BY DEF Tolerable
<1> HIDE DEF product
<1> QED BY <1>1, <1>2, <1>3, <1>4

(* Allocation of a block: for a parser, or by expat_malloc. *)
LEMMA Allocates ==
    ASSUME IInv, NEW base \in Memory, NEW size \in Sizes, NEW root \in BOOLEAN,
           Fresh(base, size, blocks),
           bytesAllocated + (Header + size) <= limit,
           blocks' = blocks \cup {Block(base, size, root)},
           bytesAllocated' = Plus(bytesAllocated, Header + size),
           created' = TRUE,
           UNCHANGED settings
    PROVE  IInv'
<1>1. /\ Heap(blocks')
      /\ Size(blocks') = Size(blocks) + Header + size
  BY HeapAdds DEF IInv
<1>2. Size(blocks') \in Nat /\ Size(blocks') <= MemSize /\ Size(blocks) \in Nat
  BY <1>1, HeapSize DEF IInv
<1>3. bytesAllocated + (Header + size) = Size(blocks')
  BY <1>1, <1>2, AllocAssumption DEF IInv, Sizes
<1>4. bytesAllocated' = Size(blocks')
  <2> DEFINE n == Size(blocks')
  <2>1. n \in Int /\ 0 <= n /\ n <= CountMax
    BY <1>2, AllocAssumption
  <2>2. bytesAllocated' = n % (CountMax + 1)
    BY <1>3 DEF Plus
  <2> HIDE DEF n
  <2>3. bytesAllocated' = n
    BY <2>1, <2>2, NoWrap
  <2> QED BY <2>3 DEF n
<1>5. Bounds'
  BY DEF IInv, Bounds, settings
<1>6. bytesAllocated' <= limit'
  BY <1>3, <1>4 DEF settings
<1> QED BY <1>1, <1>4, <1>5, <1>6 DEF IInv

LEMMA FreshFits ==
    ASSUME NEW B, NEW base \in Memory, NEW size \in Nat, Fresh(base, size, B)
    PROVE  size \in Sizes /\ Header + size <= MemSize
<1>1. Cardinality(Cells(base, size)) <= MemSize
  BY InMemory DEF Fresh
<1>2. Cardinality(Cells(base, size)) = Header + size
  BY CellsCount, AllocAssumption DEF Memory
<1> QED BY <1>1, <1>2, AllocAssumption DEF Sizes

LEMMA RootCreateStep ==
    ASSUME IInv, NEW base \in Memory, RootCreate(base)
    PROVE  IInv'
<1>1. bytesAllocated = 0
  <2>1. blocks = {}
    BY DEF IInv, RootCreate
  <2>2. Owned(blocks) = {}
    BY <2>1 DEF Owned
  <2> QED BY <2>2, FS_EmptySet DEF IInv, Size
<1>2. Struct \in Sizes
  BY FreshFits, AllocAssumption DEF RootCreate
<1>3. bytesAllocated + (Header + Struct) <= limit
  BY <1>1, AllocAssumption DEF IInv, Bounds
<1> QED BY <1>2, <1>3, Allocates, Zenon DEF RootCreate

LEMMA ParserCreateStep ==
    ASSUME IInv, NEW base \in Memory, ParserCreate(base)
    PROVE  IInv'
<1>1. Struct \in Sizes
  BY FreshFits, AllocAssumption DEF ParserCreate
<1>2. bytesAllocated + (Header + Struct) <= limit
  <2>1. Header + Struct \in Nat
    BY AllocAssumption
  <2> QED BY <2>1, TolerableLimit DEF ParserCreate
<1>3. created' = TRUE
  BY DEF IInv, ParserCreate
<1> QED BY <1>1, <1>2, <1>3, Allocates, Zenon DEF ParserCreate

LEMMA MallocStep ==
    ASSUME IInv, NEW size \in Sizes, NEW base \in Memory, Malloc(size, base)
    PROVE  IInv'
<1>1. bytesAllocated + (Header + size) <= limit
  <2>1. Header + size \in Nat
    BY AllocAssumption DEF Sizes
  <2> QED BY <2>1, TolerableLimit DEF Malloc
<1>2. created' = TRUE
  BY DEF IInv, Malloc
<1> QED BY <1>1, <1>2, Allocates, Zenon DEF Malloc

LEMMA FreeStep ==
    ASSUME IInv, NEW b \in blocks, Free(b)
    PROVE  IInv'
<1>1. /\ Heap(blocks')
      /\ Size(blocks) = Size(blocks') + Header + b.size
  BY HeapRemoves DEF IInv, Free
<1>2. Size(blocks') \in Nat /\ Size(blocks') <= MemSize
  BY <1>1, HeapSize
<1>3. b.size \in Nat
  BY AllocAssumption DEF IInv, Heap, Sizes
<1>4. bytesAllocated - (Header + b.size) = Size(blocks')
  BY <1>1, <1>2, <1>3, AllocAssumption DEF IInv
<1>5. bytesAllocated' = Size(blocks')
  <2> DEFINE n == Size(blocks')
  <2>1. n \in Int /\ 0 <= n /\ n <= CountMax
    BY <1>2, AllocAssumption
  <2>2. bytesAllocated' = n % (CountMax + 1)
    BY <1>4 DEF Free, Minus
  <2> HIDE DEF n
  <2>3. bytesAllocated' = n
    BY <2>1, <2>2, NoWrap
  <2> QED BY <2>3 DEF n
<1>6. Bounds' /\ limit' = limit
  BY DEF IInv, Bounds, settings, Free
<1>7. bytesAllocated' <= limit'
  BY <1>1, <1>2, <1>3, <1>5, <1>6, AllocAssumption DEF IInv, Bounds
<1>8. created' \in BOOLEAN /\ (~created' => blocks' = {})
  BY DEF IInv, Free
<1> QED BY <1>1, <1>5, <1>6, <1>7, <1>8 DEF IInv

LEMMA ReallocStep ==
    ASSUME IInv, NEW b \in blocks, NEW size \in Sizes, NEW base \in Memory,
           Realloc(b, size, base)
    PROVE  IInv'
<1> DEFINE R == blocks \ {b}
<1>1. /\ Heap(R)
      /\ Size(blocks) = Size(R) + Header + b.size
  BY HeapRemoves DEF IInv
<1>2. /\ Heap(blocks')
      /\ Size(blocks') = Size(R) + Header + size
  BY <1>1, HeapAdds, Zenon DEF Realloc
<1>3. /\ Size(blocks') \in Nat /\ Size(blocks') <= MemSize
      /\ Size(R) \in Nat /\ b.size \in Nat /\ size \in Nat
  <2>1. Size(blocks') \in Nat /\ Size(blocks') <= MemSize /\ Size(R) \in Nat
    BY <1>1, <1>2, HeapSize
  <2>2. b.size \in Nat /\ size \in Nat
    BY AllocAssumption DEF IInv, Heap, Sizes
  <2> QED BY <2>1, <2>2
<1> HIDE DEF R
<1>4. /\ bytesAllocated + (size - b.size) = Size(blocks')
      /\ bytesAllocated - (b.size - size) = Size(blocks')
  BY <1>1, <1>2, <1>3, AllocAssumption DEF IInv
<1>5. bytesAllocated' = Size(blocks')
  <2> DEFINE n == Size(blocks')
  <2>1. n \in Int /\ 0 <= n /\ n <= CountMax
    BY <1>3, AllocAssumption
  <2>2. bytesAllocated' = n % (CountMax + 1)
    BY <1>4 DEF Realloc, Plus, Minus
  <2> HIDE DEF n
  <2>3. bytesAllocated' = n
    BY <2>1, <2>2, NoWrap
  <2> QED BY <2>3 DEF n
<1>6. Bounds' /\ limit' = limit
  BY DEF IInv, Bounds, settings, Realloc
<1>7. bytesAllocated' <= limit'
  <2>1. CASE size > b.size
    <3>1. size - b.size \in Nat /\ Tolerable(size - b.size)
      BY <2>1, <1>3 DEF Realloc
    <3>2. bytesAllocated + (size - b.size) <= limit
      BY <3>1, TolerableLimit
    <3> QED BY <3>2, <1>4, <1>5, <1>6
  <2>2. CASE ~(size > b.size)
    BY <2>2, <1>1, <1>2, <1>3, <1>5, <1>6, AllocAssumption DEF IInv, Bounds
  <2> QED BY <2>1, <2>2
<1>8. created' \in BOOLEAN /\ (~created' => blocks' = {})
  BY Zenon DEF IInv, Realloc
<1> QED BY <1>2, <1>5, <1>6, <1>7, <1>8 DEF IInv

LEMMA SetStep ==
    ASSUME IInv, NEW direct \in 0..MaxDirect, NEW threshold \in Thresholds,
           NEW factor \in Factors, Set(direct, threshold, factor)
    PROVE  IInv'
<1> DEFINE l == LimitOf(threshold, factor, direct)
<1>1. l \in Int
  <2>1. factor * direct \in Int /\ threshold - 1 \in Int
    BY AllocAssumption
  <2> QED BY <2>1 DEF LimitOf, Greater
<1>2. limit' = Greater(limit, l)
  BY DEF Set
<1>3. LimitOf(activationThresholdBytes, maximumAmplificationFactor,
              countBytesDirect)' = l
  BY DEF Set, LimitOf
<1> HIDE DEF l
<1>4. limit' \in Int /\ l <= limit' /\ limit <= limit'
  BY <1>1, <1>2 DEF Greater, IInv, Bounds
<1>5. Header + Struct <= limit'
  BY <1>4, AllocAssumption DEF IInv, Bounds
<1>6. Bounds'
  BY <1>3, <1>4, <1>5 DEF Set, Bounds
<1>7. bytesAllocated' <= limit'
  BY <1>4, CountFits, AllocAssumption DEF IInv, Bounds, Set
<1> QED BY <1>6, <1>7 DEF IInv, Set

LEMMA InitInv == Init => IInv
<1> SUFFICES ASSUME Init PROVE IInv
  OBVIOUS
<1>1. Owned(blocks) = {}
  BY DEF Init, Owned
<1>2. Heap(blocks) /\ bytesAllocated = Size(blocks)
  BY <1>1, FS_EmptySet DEF Init, Heap, Size
<1>3. /\ activationThresholdBytes - 1 \in Int
      /\ maximumAmplificationFactor * 0 = 0
      /\ Header + Struct \in Nat
  BY AllocAssumption DEF Init
<1>4. limit \in Int /\ Header + Struct <= limit /\ activationThresholdBytes - 1 <= limit
  BY <1>3 DEF Init, Greater
<1>5. Bounds
  BY <1>3, <1>4, AllocAssumption DEF Init, Bounds, LimitOf, Greater
<1>6. bytesAllocated <= limit
  BY <1>3, <1>4 DEF Init
<1> QED BY <1>2, <1>5, <1>6, Zenon DEF Init, IInv

LEMMA NextInv == IInv /\ [Next]_vars => IInv'
<1> SUFFICES ASSUME IInv, [Next]_vars PROVE IInv'
  OBVIOUS
<1>1. CASE \E base \in Memory : RootCreate(base) \/ ParserCreate(base)
  BY <1>1, RootCreateStep, ParserCreateStep
<1>2. CASE \E size \in Sizes, base \in Memory : Malloc(size, base)
  BY <1>2, MallocStep
<1>3. CASE \E b \in blocks : Free(b)
  BY <1>3, FreeStep
<1>4. CASE \E b \in blocks, size \in Sizes, base \in Memory : Realloc(b, size, base)
  BY <1>4, ReallocStep
<1>5. /\ countBytesDirect \in 0..MaxDirect
      /\ activationThresholdBytes \in Thresholds
      /\ maximumAmplificationFactor \in Factors
      /\ 0 \in 0..MaxDirect
  BY AllocAssumption DEF IInv, Bounds
<1>6. CASE \E t \in Thresholds : SetActivationThreshold(t)
  BY <1>5, <1>6, SetStep DEF SetActivationThreshold
<1>7. CASE \E f \in Factors : SetMaximumAmplification(f)
  BY <1>5, <1>7, SetStep DEF SetMaximumAmplification
<1>8. CASE \E n \in 1..MaxDirect : CountDirect(n)
  <2>1. PICK n \in 1..MaxDirect : CountDirect(n)
    BY <1>8
  <2>2. countBytesDirect + n \in 0..MaxDirect
    BY <2>1, <1>5, AllocAssumption DEF CountDirect
  <2> QED BY <2>1, <2>2, <1>5, SetStep DEF CountDirect
<1>9. CASE ParserReset
  BY <1>5, <1>9, SetStep DEF ParserReset
<1>10. CASE UNCHANGED vars
  BY <1>10, Zenon DEF vars, IInv, Bounds, Heap, Owned, Size, LimitOf
<1> QED BY <1>1, <1>2, <1>3, <1>4, <1>6, <1>7, <1>8, <1>9, <1>10 DEF Next

(* The assertions follow from the exact count: a block that is live is     *)
(* covered by it, and memory that could be allocated can be counted.       *)
LEMMA InvAssertions == IInv => AssertionsHold
<1> SUFFICES ASSUME IInv PROVE AssertionsHold
  OBVIOUS
<1>1. bytesAllocated \in Nat /\ bytesAllocated <= MemSize
  BY HeapSize DEF IInv
<1>2. ASSUME NEW b \in blocks
      PROVE  bytesAllocated >= Header + b.size /\ b.size \in Nat
  <2>1. Heap(blocks \ {b}) /\ Size(blocks) = Size(blocks \ {b}) + Header + b.size
    BY HeapRemoves DEF IInv
  <2>2. Size(blocks \ {b}) \in Nat
    BY <2>1, HeapSize
  <2>3. b.size \in Nat
    BY AllocAssumption DEF IInv, Heap, Sizes
  <2> QED BY <2>1, <2>2, <2>3, AllocAssumption DEF IInv
<1>3. ASSUME NEW b \in blocks, NEW size \in Sizes,
             size > b.size => Tolerable(size - b.size)
      PROVE  /\ SizeMax - Header >= size
             /\ IF size > b.size THEN CountMax - bytesAllocated >= size - b.size
                                 ELSE bytesAllocated >= b.size - size
  <2>1. size \in Nat
    BY AllocAssumption DEF Sizes
  <2>2. CASE size > b.size
    <3>1. CountMax - bytesAllocated >= size - b.size
      BY <1>3, <2>2 DEF Tolerable
    <3> QED BY <3>1, <2>1, <2>2, <1>1, <1>2, AllocAssumption
  <2>3. CASE ~(size > b.size)
    BY <2>1, <2>3, <1>1, <1>2, AllocAssumption
  <2> QED BY <2>2, <2>3
<1>4. ASSUME NEW base \in Memory, Fresh(base, Struct, blocks)
      PROVE  SizeMax - bytesAllocated >= Header + Struct
  <2>1. Struct \in Sizes
    BY <1>4, FreshFits, AllocAssumption
  <2> DEFINE B == blocks \cup {Block(base, Struct, FALSE)}
  <2>2. Heap(B) /\ Size(B) = Size(blocks) + Header + Struct
    BY <1>4, <2>1, HeapAdds, Zenon DEF IInv
  <2>3. Size(B) <= MemSize
    BY <2>2, HeapSize
  <2> HIDE DEF B
  <2> QED BY <2>2, <2>3, <1>1, AllocAssumption DEF IInv
<1> QED BY <1>2, <1>3, <1>4 DEF AssertionsHold

(* bytesAllocated of the root parser is the number of bytes in live        *)
(* blocks, for every header, struct and word size and every sequence of    *)
(* expat_malloc, expat_realloc and expat_free; and the assertions of       *)
(* expat_free, expat_realloc and parserCreate hold: in particular adding   *)
(* the header to the new size in expat_realloc, which has no check of its  *)
(* own, cannot overflow.                                                   *)
THEOREM ExactCount == Spec => []TrackingIsExact
<1>1. IInv => CountIsExact
  BY DEF IInv, CountIsExact, Size
<1>2. IInv => TrackingIsExact
  BY <1>1, InvAssertions DEF TrackingIsExact
<1> QED BY <1>2, InitInv, NextInv, PTL DEF Spec

(* The bytes in use never exceed the largest limit that was in force. *)
THEOREM Growth == Spec => []GrowthIsBounded
<1>1. IInv => GrowthIsBounded
  BY DEF IInv, GrowthIsBounded
<1> QED BY <1>1, InitInv, NextInv, PTL DEF Spec

(* Every variable keeps its type; the count fits an XmlBigCount. *)
THEOREM Types == Spec => []TypeOK
<1>1. IInv => TypeOK
  BY CountFits DEF IInv, Heap, Bounds, TypeOK
<1> QED BY <1>1, InitInv, NextInv, PTL DEF Spec

-----------------------------------------------------------------------------
(* StringPool: finished strings stay and the unfinished one is what was    *)
(* appended, for every sequence of calls, every size of the first block    *)
(* and wherever the allocator puts a block.                                *)

Distinct(s) == \A i, j \in 1 .. Len(s) : s[i] = s[j] => i = j
String == [block : Blocks, at : Nat, text : Seq(Char)]
StringIn(cells, at, s) == \A i \in 1 .. Len(s) : cells[at + i - 1] = s[i]

PoolTypeOK ==
    /\ poolBlocks \in Seq(Blocks) /\ poolFree \in Seq(Blocks)
    /\ poolStart \in Nat /\ poolPtr \in Nat /\ poolEnd \in Nat
    /\ blockSize \in [Blocks -> 0 .. MaxBlock]
    /\ blockText \in [Blocks -> [PoolCells -> Char \cup {Garbage}]]
    /\ todo \in Seq(Char) /\ current \in Seq(Char)
    /\ finished \subseteq String

\* The lists of blocks have no block in common and none twice.
BlocksOK ==
    /\ Distinct(poolBlocks) /\ Distinct(poolFree) /\ Elems(poolBlocks) \cap Elems(poolFree) = {}
    /\ \A b \in Elems(poolBlocks) \cup Elems(poolFree) : blockSize[b] > 0

\* start, ptr and end are in the first block; without one nothing is stored.
PlacesOK ==
    /\ poolPtr = poolStart + Len(current) /\ poolPtr <= poolEnd
    /\ poolBlocks = <<>> => poolEnd = 0 /\ finished = {}
    /\ poolBlocks # <<>> => poolEnd = blockSize[First] /\ StringIn(blockText[First], poolStart, current)

\* A finished string is in a block in use, in the first one before start.
FinishedOK(f) ==
    /\ f.block \in Elems(poolBlocks) /\ Len(f.text) > 0
    /\ f.at + Len(f.text) <= blockSize[f.block]
    /\ f.block = First => f.at + Len(f.text) <= poolStart
    /\ StringIn(blockText[f.block], f.at, f.text)

PoolInv == PoolTypeOK /\ BlocksOK /\ PlacesOK /\ \A f \in finished : FinishedOK(f)
-----------------------------------------------------------------------------
\* A block put in front of a list.
LEMMA PushOK ==
    ASSUME NEW bs \in Seq(Blocks), NEW b \in Blocks, Distinct(bs), b \notin Elems(bs)
    PROVE  LET c == <<b>> \o bs
           IN c \in Seq(Blocks) /\ c # <<>> /\ c[1] = b /\ Distinct(c) /\ Elems(c) = Elems(bs) \cup {b}
<1> DEFINE c == <<b>> \o bs
<1>1. c \in Seq(Blocks) /\ Len(c) = Len(bs) + 1 /\ c[1] = b
  OBVIOUS
<1>2. \A i \in 2 .. Len(c) : c[i] = bs[i - 1] /\ i - 1 \in 1 .. Len(bs)
  BY <1>1
<1>3. \A i \in 1 .. Len(bs) : bs[i] = c[i + 1] /\ i + 1 \in 2 .. Len(c)
  BY <1>1
<1>4. Len(bs) \in Nat /\ \A i \in 1 .. Len(c) : i = 1 \/ i \in 2 .. Len(c)
  BY <1>1
<1> HIDE DEF c
<1>5. Elems(c) = Elems(bs) \cup {b}
  <2>1. ASSUME NEW x \in Elems(c) PROVE x \in Elems(bs) \cup {b}
    <3>1. PICK i \in 1 .. Len(c) : x = c[i]
      BY DEF Elems
    <3>2. CASE i \in 2 .. Len(c)
      BY <3>1, <3>2, <1>2 DEF Elems
    <3> QED
      BY <3>1, <3>2, <1>1, <1>4
  <2>2. ASSUME NEW x \in Elems(bs) PROVE x \in Elems(c)
    <3>1. PICK i \in 1 .. Len(bs) : x = bs[i]
      BY DEF Elems
    <3>2. i + 1 \in 1 .. Len(c) /\ x = c[i + 1]
      BY <3>1, <1>1, <1>3, <1>4
    <3> QED
      BY <3>2 DEF Elems
  <2>3. b \in Elems(c)
    <3>1. 1 \in 1 .. Len(c)
      BY <1>1, <1>4
    <3> QED
      BY <3>1, <1>1 DEF Elems
  <2> QED
    BY <2>1, <2>2, <2>3
<1>6. Distinct(c)
  <2> SUFFICES ASSUME NEW i \in 1 .. Len(c), NEW j \in 1 .. Len(c), c[i] = c[j] PROVE i = j
    BY DEF Distinct
  <2>1. \A k \in 2 .. Len(c) : c[k] # b
    BY <1>2 DEF Elems
  <2>2. CASE i = 1 \/ j = 1
    BY <2>1, <2>2, <1>1, <1>4
  <2>3. CASE i # 1 /\ j # 1
    <3>1. bs[i - 1] = bs[j - 1] /\ i - 1 \in 1 .. Len(bs) /\ j - 1 \in 1 .. Len(bs)
      BY <2>3, <1>2, <1>4
    <3>2. i - 1 = j - 1
      BY <3>1 DEF Distinct
    <3> QED
      BY <3>2
  <2> QED
    BY <2>2, <2>3
<1>7. c # <<>>
  BY <1>1, <1>4
<1> QED
  BY <1>1, <1>5, <1>6, <1>7 DEF c

\* The first of a list taken off.
LEMMA TailOK ==
    ASSUME NEW s \in Seq(Blocks), s # <<>>, Distinct(s)
    PROVE  /\ Tail(s) \in Seq(Blocks) /\ Distinct(Tail(s)) /\ Elems(Tail(s)) = Elems(s) \ {Head(s)}
           /\ Head(s) = s[1] /\ Head(s) \in Elems(s) /\ Head(s) \in Blocks
<1> DEFINE t == Tail(s)
<1>1. t \in Seq(Blocks) /\ Len(t) = Len(s) - 1 /\ Len(s) \in Nat /\ Len(s) > 0
  OBVIOUS
<1>2. \A i \in 1 .. Len(t) : t[i] = s[i + 1] /\ i + 1 \in 1 .. Len(s)
  BY <1>1
<1>3. \A i \in 2 .. Len(s) : s[i] = t[i - 1] /\ i - 1 \in 1 .. Len(t)
  BY <1>1
<1>4. Head(s) = s[1] /\ 1 \in 1 .. Len(s) /\ s[1] \in Blocks
  BY <1>1
<1>5. \A i \in 1 .. Len(s) : i = 1 \/ i \in 2 .. Len(s)
  BY <1>1
<1> HIDE DEF t
<1>6. Elems(t) = Elems(s) \ {s[1]}
  <2>1. ASSUME NEW x \in Elems(t) PROVE x \in Elems(s) /\ x # s[1]
    <3>1. PICK i \in 1 .. Len(t) : x = t[i]
      BY DEF Elems
    <3>2. x = s[i + 1] /\ i + 1 \in 1 .. Len(s) /\ i + 1 # 1
      BY <3>1, <1>1, <1>2
    <3> QED
      BY <3>2, <1>4 DEF Elems, Distinct
  <2>2. ASSUME NEW x \in Elems(s), x # s[1] PROVE x \in Elems(t)
    BY <2>2, <1>3, <1>5 DEF Elems
  <2> QED
    BY <2>1, <2>2
<1>7. Distinct(t)
  <2> SUFFICES ASSUME NEW i \in 1 .. Len(t), NEW j \in 1 .. Len(t), t[i] = t[j] PROVE i = j
    BY DEF Distinct
  <2>1. s[i + 1] = s[j + 1] /\ i + 1 \in 1 .. Len(s) /\ j + 1 \in 1 .. Len(s)
    BY <1>2
  <2>2. i + 1 = j + 1
    BY <2>1 DEF Distinct
  <2> QED
    BY <2>2
<1> QED
  BY <1>1, <1>4, <1>6, <1>7 DEF t, Elems

\* Two lists, the first turned round, one behind the other.
LEMMA FlippedOK ==
    ASSUME NEW s \in Seq(Blocks), NEW t \in Seq(Blocks), Distinct(s), Distinct(t),
           Elems(s) \cap Elems(t) = {}
    PROVE  LET c == Flipped(s) \o t
           IN c \in Seq(Blocks) /\ Distinct(c) /\ Elems(c) = Elems(s) \cup Elems(t)
<1> DEFINE r == Flipped(s)
           c == r \o t
<1>0. Len(s) \in Nat /\ Len(t) \in Nat
  OBVIOUS
<1>1. r \in Seq(Blocks) /\ Len(r) = Len(s) /\ \A i \in 1 .. Len(s) : r[i] = s[Len(s) + 1 - i]
  <2>1. \A i \in 1 .. Len(s) : Len(s) + 1 - i \in 1 .. Len(s)
    BY <1>0
  <2>2. \A i \in 1 .. Len(s) : s[Len(s) + 1 - i] \in Blocks
    BY <2>1
  <2>3. r = [i \in 1 .. Len(s) |-> s[Len(s) + 1 - i]]
    BY DEF Flipped
  <2> QED
    BY <2>2, <2>3, <1>0
<1> HIDE DEF r
<1>2. c \in Seq(Blocks) /\ Len(c) = Len(s) + Len(t)
  <2>1. r \in Seq(Blocks) /\ Len(r) = Len(s)
    BY <1>1
  <2>2. Len(c) = Len(r) + Len(t) /\ c \in Seq(Blocks)
    BY ONLY <2>1, t \in Seq(Blocks)
  <2> QED
    BY <2>1, <2>2
<1>3. \A i \in 1 .. Len(s) : c[i] = s[Len(s) + 1 - i] /\ Len(s) + 1 - i \in 1 .. Len(s)
  BY <1>0, <1>1
<1>4. \A i \in Len(s) + 1 .. Len(c) : c[i] = t[i - Len(s)] /\ i - Len(s) \in 1 .. Len(t)
  BY <1>0, <1>1, <1>2
<1>5. \A i \in 1 .. Len(t) : i + Len(s) \in Len(s) + 1 .. Len(c) /\ i + Len(s) - Len(s) = i
  BY <1>0, <1>2
<1>6. \A i \in 1 .. Len(c) : i \in 1 .. Len(s) \/ i \in Len(s) + 1 .. Len(c)
  BY <1>0, <1>2
<1>7. \A i \in 1 .. Len(s) : i \in 1 .. Len(c) /\ Len(s) + 1 - (Len(s) + 1 - i) = i
  BY <1>0, <1>2
<1>8. \A i \in Len(s) + 1 .. Len(c) : i \in 1 .. Len(c)
  BY <1>0, <1>2
<1> HIDE DEF c
<1>9. Elems(c) = Elems(s) \cup Elems(t)
  <2>1. ASSUME NEW x \in Elems(c) PROVE x \in Elems(s) \cup Elems(t)
    BY <1>3, <1>4, <1>6, Zenon DEF Elems
  <2>2. ASSUME NEW x \in Elems(s) PROVE x \in Elems(c)
    <3>1. PICK i \in 1 .. Len(s) : x = s[i]
      BY DEF Elems
    <3>2. Len(s) + 1 - i \in 1 .. Len(s)
      BY <1>3
    <3>3. x = c[Len(s) + 1 - i] /\ Len(s) + 1 - i \in 1 .. Len(c)
      BY <3>1, <3>2, <1>3, <1>7
    <3> QED
      BY <3>3 DEF Elems
  <2>3. ASSUME NEW x \in Elems(t) PROVE x \in Elems(c)
    <3>1. PICK i \in 1 .. Len(t) : x = t[i]
      BY DEF Elems
    <3>2. x = c[i + Len(s)] /\ i + Len(s) \in 1 .. Len(c)
      BY <3>1, <1>4, <1>5, <1>8
    <3> QED
      BY <3>2 DEF Elems
  <2> QED
    BY <2>1, <2>2, <2>3
<1>10. Distinct(c)
  <2> SUFFICES ASSUME NEW i \in 1 .. Len(c), NEW j \in 1 .. Len(c), c[i] = c[j] PROVE i = j
    BY DEF Distinct
  <2>1. CASE i \in 1 .. Len(s) /\ j \in 1 .. Len(s)
    <3>1. Len(s) + 1 - i = Len(s) + 1 - j
      BY <2>1, <1>3, Zenon DEF Distinct
    <3> QED
      BY <3>1, <1>0
  <2>2. CASE i \in Len(s) + 1 .. Len(c) /\ j \in Len(s) + 1 .. Len(c)
    <3>1. i - Len(s) = j - Len(s)
      BY <2>2, <1>4, Zenon DEF Distinct
    <3> QED
      BY <3>1, <1>0
  <2>3. ASSUME NEW k \in 1 .. Len(s), NEW m \in Len(s) + 1 .. Len(c) PROVE c[k] # c[m]
    <3>1. c[k] \in Elems(s)
      BY <1>3, Zenon DEF Elems
    <3>2. c[m] \in Elems(t)
      BY <1>4, SMTT(30) DEF Elems
    <3> QED
      BY <3>1, <3>2
  <2> QED
    BY <2>1, <2>2, <2>3, <1>6
<1> QED
  BY <1>2, <1>9, <1>10 DEF c, r
-----------------------------------------------------------------------------
LEMMA FirstInUse == PoolTypeOK /\ poolBlocks # <<>> => First \in Elems(poolBlocks) /\ First \in Blocks
<1> SUFFICES ASSUME PoolTypeOK, poolBlocks # <<>> PROVE First \in Elems(poolBlocks) /\ First \in Blocks
  OBVIOUS
<1>1. 1 \in 1 .. Len(poolBlocks) /\ poolBlocks[1] \in Blocks
  BY DEF PoolTypeOK
<1> QED
  BY <1>1 DEF Elems, First

LEMMA ElemsAreBlocks == ASSUME NEW s \in Seq(Blocks) PROVE Elems(s) \subseteq Blocks
BY DEF Elems

\* What a step that only puts a block in front and moves the unfinished
\* string to it keeps.
LEMMA PushKeeps ==
    ASSUME PoolInv, NEW b \in Blocks, b \notin Elems(poolBlocks), poolBlocks' = <<b>> \o poolBlocks,
           MovedTo(b), poolStart' = 0, poolPtr' = poolPtr - poolStart, poolEnd' = blockSize'[b],
           blockSize' \in [Blocks -> 0 .. MaxBlock], blockSize'[b] >= poolEnd - poolStart,
           \A x \in Elems(poolBlocks) : blockSize'[x] = blockSize[x],
           current' = current, finished' = finished
    PROVE  /\ PlacesOK' /\ \A f \in finished' : FinishedOK(f)'
           /\ blockText' \in [Blocks -> [PoolCells -> Char \cup {Garbage}]]
           /\ poolPtr' \in Nat /\ poolEnd' \in Nat
<1> DEFINE n == Len(current)
<1>1. /\ poolBlocks \in Seq(Blocks) /\ n \in Nat /\ poolStart \in Nat /\ poolPtr = poolStart + n /\ poolEnd \in Nat
      /\ poolPtr <= poolEnd /\ Distinct(poolBlocks) /\ MaxBlock \in Nat
      /\ blockText \in [Blocks -> [PoolCells -> Char \cup {Garbage}]]
      /\ poolPtr - poolStart = n
  BY PoolAssumption DEF PoolInv, PoolTypeOK, BlocksOK, PlacesOK
<1>2. First' = b /\ poolBlocks' # <<>> /\ Elems(poolBlocks)' = Elems(poolBlocks) \cup {b}
  <2> DEFINE c == <<b>> \o poolBlocks
  <2>1. c # <<>> /\ c[1] = b /\ Elems(c) = Elems(poolBlocks) \cup {b}
    BY <1>1, PushOK, Zenon
  <2>2. poolBlocks' = c /\ Elems(poolBlocks)' = Elems(poolBlocks')
    BY DEF Elems
  <2> QED
    BY <2>1, <2>2 DEF First
<1>3. blockSize'[b] \in Nat /\ n <= blockSize'[b] /\ blockSize'[b] <= MaxBlock
  BY <1>1
<1>4. poolBlocks # <<>> => First \in Blocks /\ First \in Elems(poolBlocks) /\ poolEnd = blockSize[First]
  BY FirstInUse, SMTT(30) DEF PoolInv, PlacesOK
<1>5. poolBlocks = <<>> => n = 0
  BY <1>1 DEF PoolInv, PlacesOK
<1>6. \A i \in PoolCells : i < n => poolStart + i \in PoolCells /\ poolBlocks # <<>>
  <2> SUFFICES ASSUME NEW i \in PoolCells, i < n PROVE poolStart + i \in PoolCells /\ poolBlocks # <<>>
    OBVIOUS
  <2>1. poolBlocks # <<>>
    BY <1>1, <1>5 DEF PoolCells
  <2>2. poolEnd <= MaxBlock
    BY <2>1, <1>4, <1>1 DEF PoolInv, PoolTypeOK
  <2> QED
    BY <2>1, <2>2, <1>1, SMTT(30) DEF PoolCells
<1>7. blockText' = [x \in Blocks |->
        IF x = b THEN [i \in PoolCells |-> IF i < n THEN blockText[First][poolStart + i] ELSE Garbage]
        ELSE IF poolBlocks # <<>> /\ x = First THEN Kept(blockText[x], poolStart) ELSE blockText[x]]
  BY <1>1, Zenon DEF MovedTo
<1>8. ASSUME NEW x \in Blocks PROVE blockText'[x] \in [PoolCells -> Char \cup {Garbage}]
  <2>1. CASE x = b
    BY <2>1, <1>1, <1>4, <1>6, <1>7, SMTT(30)
  <2>2. CASE x # b
    BY <2>2, <1>1, <1>7 DEF Kept
  <2> QED
    BY <2>1, <2>2
<1>9. blockText' \in [Blocks -> [PoolCells -> Char \cup {Garbage}]]
  BY <1>7, <1>8
<1>10. PlacesOK'
  <2>1. StringIn(blockText'[b], 0, current)
    <3> SUFFICES ASSUME NEW i \in 1 .. n PROVE blockText'[b][0 + i - 1] = current[i]
      BY DEF StringIn
    <3>1. i - 1 \in PoolCells /\ i - 1 < n /\ 0 + i - 1 = i - 1 /\ poolStart + (i - 1) = poolStart + i - 1
      BY <1>1, <1>3, SMTT(30) DEF PoolCells
    <3>2. blockText'[b][i - 1] = blockText[First][poolStart + (i - 1)] /\ poolBlocks # <<>>
      BY <3>1, <1>6, <1>7, Zenon
    <3>3. blockText[First][poolStart + i - 1] = current[i]
      BY <3>2, SMTT(30) DEF PoolInv, PlacesOK, StringIn
    <3> QED
      BY <3>1, <3>2, <3>3
  <2>2. poolPtr' = poolStart' + Len(current') /\ poolPtr' <= poolEnd'
    BY <1>1, <1>3
  <2>3. poolEnd' = blockSize'[First'] /\ poolStart' = 0 /\ blockText'[First'] = blockText'[b]
    BY <1>2, Zenon
  <2> QED
    BY <2>1, <2>2, <2>3, <1>2, Zenon DEF PlacesOK
<1>11. ASSUME NEW f \in finished PROVE FinishedOK(f)'
  <2>1. FinishedOK(f) /\ f.block \in Blocks /\ f.at \in Nat /\ f.text \in Seq(Char)
    BY SMTT(30) DEF PoolInv, PoolTypeOK, String
  <2>2. f.block # b /\ f.block \in Elems(poolBlocks)' /\ blockSize'[f.block] = blockSize[f.block]
    BY <2>1, <1>2 DEF FinishedOK
  <2>3. StringIn(blockText'[f.block], f.at, f.text)
    <3>1. CASE poolBlocks # <<>> /\ f.block = First
      <4> SUFFICES ASSUME NEW i \in 1 .. Len(f.text) PROVE blockText'[f.block][f.at + i - 1] = f.text[i]
        BY Zenon DEF StringIn
      <4>0. Len(f.text) \in Nat /\ f.at + Len(f.text) <= poolStart /\ poolStart <= MaxBlock
        <5>1. Len(f.text) \in Nat /\ f.at + Len(f.text) <= poolStart
          BY <2>1, <3>1 DEF FinishedOK
        <5>2. poolEnd <= MaxBlock
          BY <3>1, <1>1, <1>4, SMTT(30) DEF PoolInv, PoolTypeOK
        <5> QED
          BY <5>1, <5>2, <1>1
      <4>1. f.at + i - 1 \in PoolCells /\ f.at + i - 1 < poolStart
        <5>1. i \in Nat /\ i >= 1 /\ i <= Len(f.text)
          BY <4>0
        <5>2. f.at + i - 1 >= 0 /\ f.at + i - 1 < poolStart /\ f.at + i - 1 \in Int
          <6> DEFINE a == f.at
                     m == Len(f.text)
          <6>1. a \in Nat /\ m \in Nat /\ a + m <= poolStart /\ i <= m /\ i \in Nat /\ i >= 1 /\ poolStart \in Nat
            BY <5>1, <4>0, <2>1, <1>1
          <6> HIDE DEF a, m
          <6>2. a + i - 1 >= 0 /\ a + i - 1 < poolStart /\ a + i - 1 \in Int
            BY ONLY <6>1
          <6> QED
            BY <6>2 DEF a
        <5> QED
          BY <5>2, <4>0, <1>1, SMTT(30) DEF PoolCells
      <4>2. blockText'[f.block] = Kept(blockText[f.block], poolStart)
        BY ONLY <3>1, <2>1, <2>2, <1>7
      <4>3. blockText'[f.block][f.at + i - 1] = blockText[f.block][f.at + i - 1]
        BY <4>1, <4>2 DEF Kept
      <4> QED
        BY <4>3, <2>1 DEF FinishedOK, StringIn
    <3>2. CASE ~(poolBlocks # <<>> /\ f.block = First)
      <4>1. blockText'[f.block] = blockText[f.block]
        BY <3>2, <2>1, <2>2, <1>7
      <4> QED
        BY <4>1, <2>1, Zenon DEF FinishedOK
    <3> QED
      BY <3>1, <3>2
  <2> QED
    BY <2>1, <2>2, <2>3, <1>2 DEF FinishedOK
<1> QED
  BY <1>1, <1>3, <1>9, <1>10, <1>11
-----------------------------------------------------------------------------
LEMMA PoolInitOK == PoolInit => PoolInv
<1> SUFFICES ASSUME PoolInit PROVE PoolInv
  OBVIOUS
<1>1. Unused \in [PoolCells -> Char \cup {Garbage}]
  BY DEF Unused
<1>2. PoolTypeOK
  BY <1>1, PoolAssumption DEF PoolInit, PoolTypeOK
<1>3. Elems(<<>>) = {} /\ Distinct(<<>>)
  BY DEF Elems, Distinct
<1> QED
  BY <1>2, <1>3 DEF PoolInit, PoolInv, BlocksOK, PlacesOK

\* A free block becomes the first.
LEMMA GrowFirstOK == PoolInv /\ GrowFirst => PoolInv'
<1> SUFFICES ASSUME PoolInv, GrowFirst PROVE PoolInv'
  OBVIOUS
<1> DEFINE b == Head(poolFree)
<1>1. /\ poolFree \in Seq(Blocks) /\ poolFree # <<>> /\ Distinct(poolFree) /\ poolBlocks = <<>>
      /\ poolBlocks' = <<b>> /\ poolFree' = Tail(poolFree) /\ finished = {} /\ finished' = {}
      /\ poolStart' = 0 /\ poolPtr' = 0 /\ poolEnd' = blockSize'[b] /\ blockSize' = blockSize
      /\ current' = current /\ Len(current) = 0 /\ blockText' = blockText /\ todo' = todo
  BY DEF PoolInv, PoolTypeOK, BlocksOK, PlacesOK, GrowFirst
<1>2. /\ Tail(poolFree) \in Seq(Blocks) /\ Distinct(Tail(poolFree)) /\ b \in Elems(poolFree) /\ b \in Blocks
      /\ Elems(Tail(poolFree)) = Elems(poolFree) \ {b}
  BY <1>1, TailOK
<1> HIDE DEF b
<1>3. blockSize[b] > 0 /\ blockSize[b] \in Nat
  BY <1>2, PoolAssumption DEF PoolInv, PoolTypeOK, BlocksOK
<1>4. <<b>> \in Seq(Blocks) /\ <<b>> # <<>> /\ <<b>>[1] = b /\ Elems(<<b>>) = {b} /\ Distinct(<<b>>)
  BY <1>2 DEF Elems, Distinct
<1>5. PoolTypeOK'
  BY <1>1, <1>2, <1>3, <1>4 DEF PoolInv, PoolTypeOK
<1>6. BlocksOK'
  <2>1. Elems(poolBlocks)' = {b} /\ Elems(poolFree)' = Elems(poolFree) \ {b} /\ Distinct(poolBlocks)' /\ Distinct(poolFree)'
    <3>1. Elems(poolBlocks)' = Elems(poolBlocks') /\ Elems(poolFree)' = Elems(poolFree')
      BY DEF Elems
    <3>2. Distinct(poolBlocks)' = Distinct(poolBlocks') /\ Distinct(poolFree)' = Distinct(poolFree')
      BY DEF Distinct
    <3> QED
      BY <3>1, <3>2, <1>1, <1>2, <1>4
  <2> QED
    BY <2>1, <1>1, <1>2, Zenon DEF PoolInv, BlocksOK
<1>7. PlacesOK'
  BY <1>1, <1>3, <1>4 DEF PlacesOK, First, StringIn
<1> QED
  BY <1>1, <1>5, <1>6, <1>7 DEF PoolInv

\* A larger free block comes in front.
LEMMA GrowFreeOK == PoolInv /\ GrowFree => PoolInv'
<1> SUFFICES ASSUME PoolInv, GrowFree PROVE PoolInv'
  OBVIOUS
<1> DEFINE b == Head(poolFree)
<1>1. /\ poolFree \in Seq(Blocks) /\ poolFree # <<>> /\ Distinct(poolFree) /\ poolBlocks \in Seq(Blocks)
      /\ Distinct(poolBlocks) /\ Elems(poolBlocks) \cap Elems(poolFree) = {}
      /\ poolBlocks' = <<b>> \o poolBlocks /\ poolFree' = Tail(poolFree) /\ finished' = finished
      /\ MovedTo(b) /\ poolStart' = 0 /\ poolPtr' = poolPtr - poolStart /\ poolEnd' = blockSize'[b]
      /\ blockSize' = blockSize /\ current' = current /\ todo' = todo
      /\ poolEnd - poolStart < blockSize[b] /\ blockSize \in [Blocks -> 0 .. MaxBlock]
      /\ poolStart \in Nat /\ poolEnd \in Nat
  BY Zenon DEF PoolInv, PoolTypeOK, BlocksOK, GrowFree, FreeIsLarger
<1>2. /\ Tail(poolFree) \in Seq(Blocks) /\ Distinct(Tail(poolFree)) /\ b \in Elems(poolFree) /\ b \in Blocks
      /\ Elems(Tail(poolFree)) = Elems(poolFree) \ {b}
  BY <1>1, TailOK
<1> HIDE DEF b
<1>3. b \notin Elems(poolBlocks) /\ blockSize'[b] >= poolEnd - poolStart
  BY <1>1, <1>2, PoolAssumption
<1>4. /\ PlacesOK' /\ \A f \in finished' : FinishedOK(f)'
      /\ blockText' \in [Blocks -> [PoolCells -> Char \cup {Garbage}]] /\ poolPtr' \in Nat /\ poolEnd' \in Nat
  BY <1>1, <1>2, <1>3, PushKeeps, Zenon
<1>5. /\ <<b>> \o poolBlocks \in Seq(Blocks) /\ Distinct(<<b>> \o poolBlocks)
      /\ Elems(<<b>> \o poolBlocks) = Elems(poolBlocks) \cup {b}
  BY <1>1, <1>2, <1>3, PushOK
<1>6. PoolTypeOK'
  BY <1>1, <1>2, <1>4, <1>5 DEF PoolInv, PoolTypeOK
<1>7. BlocksOK'
  <2>1. /\ Elems(poolBlocks)' = Elems(poolBlocks) \cup {b} /\ Elems(poolFree)' = Elems(poolFree) \ {b}
        /\ Distinct(poolBlocks)' /\ Distinct(poolFree)'
    <3>1. Elems(poolBlocks)' = Elems(poolBlocks') /\ Elems(poolFree)' = Elems(poolFree')
      BY DEF Elems
    <3>2. Distinct(poolBlocks)' = Distinct(poolBlocks') /\ Distinct(poolFree)' = Distinct(poolFree')
      BY DEF Distinct
    <3> QED
      BY <3>1, <3>2, <1>1, <1>2, <1>5, Zenon
  <2> QED
    BY <2>1, <1>1, <1>2, SMTT(30) DEF PoolInv, BlocksOK
<1> QED
  BY <1>4, <1>6, <1>7 DEF PoolInv

\* A new block comes in front.
LEMMA GrowMallocOK == PoolInv /\ GrowMalloc => PoolInv'
<1> SUFFICES ASSUME PoolInv, GrowMalloc PROVE PoolInv'
  OBVIOUS
<1>0. PICK b \in Blocks : blockSize[b] = 0 /\ blockSize' = [blockSize EXCEPT ![b] = NewSize]
                          /\ poolBlocks' = <<b>> \o poolBlocks /\ MovedTo(b)
  BY Zenon DEF GrowMalloc
<1>1. /\ poolFree \in Seq(Blocks) /\ poolBlocks \in Seq(Blocks) /\ Distinct(poolBlocks)
      /\ poolFree' = poolFree /\ finished' = finished /\ current' = current /\ todo' = todo
      /\ poolStart' = 0 /\ poolPtr' = poolPtr - poolStart /\ poolEnd' = NewSize /\ NewSize <= MaxBlock
      /\ blockSize \in [Blocks -> 0 .. MaxBlock] /\ poolStart \in Nat /\ poolEnd \in Nat
      /\ poolStart <= poolEnd
  BY SMTT(30) DEF PoolInv, PoolTypeOK, BlocksOK, PlacesOK, GrowMalloc
<1>2. NewSize \in 0 .. MaxBlock /\ NewSize >= poolEnd - poolStart /\ NewSize > 0
  BY <1>1, PoolAssumption DEF NewSize
<1>3. b \notin Elems(poolBlocks) \cup Elems(poolFree)
  BY <1>0 DEF PoolInv, BlocksOK
<1>4. /\ blockSize' \in [Blocks -> 0 .. MaxBlock] /\ poolEnd' = blockSize'[b]
      /\ \A x \in Elems(poolBlocks) \cup Elems(poolFree) : blockSize'[x] = blockSize[x]
      /\ blockSize'[b] = NewSize
  BY <1>0, <1>1, <1>2, <1>3, ElemsAreBlocks, Zenon
<1>5. /\ PlacesOK' /\ \A f \in finished' : FinishedOK(f)'
      /\ blockText' \in [Blocks -> [PoolCells -> Char \cup {Garbage}]] /\ poolPtr' \in Nat /\ poolEnd' \in Nat
  BY <1>0, <1>1, <1>2, <1>3, <1>4, PushKeeps, Zenon
<1>6. /\ <<b>> \o poolBlocks \in Seq(Blocks) /\ Distinct(<<b>> \o poolBlocks)
      /\ Elems(<<b>> \o poolBlocks) = Elems(poolBlocks) \cup {b}
  BY <1>1, <1>3, PushOK
<1>7. PoolTypeOK'
  BY <1>0, <1>1, <1>4, <1>5, <1>6 DEF PoolInv, PoolTypeOK
<1>8. BlocksOK'
  <2>1. /\ Elems(poolBlocks)' = Elems(poolBlocks) \cup {b} /\ Elems(poolFree)' = Elems(poolFree)
        /\ Distinct(poolBlocks)' /\ Distinct(poolFree)' = Distinct(poolFree)
    <3>1. Elems(poolBlocks)' = Elems(poolBlocks') /\ Elems(poolFree)' = Elems(poolFree')
      BY DEF Elems
    <3>2. Distinct(poolBlocks)' = Distinct(poolBlocks') /\ Distinct(poolFree)' = Distinct(poolFree')
      BY DEF Distinct
    <3> QED
      BY <3>1, <3>2, <1>0, <1>1, <1>6
  <2> QED
    BY <2>1, <1>2, <1>3, <1>4 DEF PoolInv, BlocksOK
<1> QED
  BY <1>5, <1>7, <1>8 DEF PoolInv

\* The first block is reallocated: nothing finished is in it.
LEMMA GrowReallocOK == PoolInv /\ GrowRealloc => PoolInv'
<1> SUFFICES ASSUME PoolInv, GrowRealloc PROVE PoolInv'
  OBVIOUS
<1> DEFINE size == 2 * (poolEnd - poolStart)
           rest == Tail(poolBlocks)
<1>0. PICK b \in Blocks :
         /\ b = First \/ blockSize[b] = 0
         /\ poolBlocks' = <<b>> \o rest
         /\ blockSize' = [x \in Blocks |-> IF x = b THEN size ELSE IF x = First THEN 0 ELSE blockSize[x]]
         /\ blockText' = [x \in Blocks |-> IF x = b THEN blockText[First] ELSE IF x = First THEN Unused ELSE blockText[x]]
  BY Zenon DEF GrowRealloc
<1>1. /\ poolFree \in Seq(Blocks) /\ poolBlocks \in Seq(Blocks) /\ Distinct(poolBlocks) /\ poolBlocks # <<>>
      /\ poolFree' = poolFree /\ finished' = finished /\ current' = current /\ todo' = todo
      /\ poolStart = 0 /\ poolStart' = poolStart /\ poolPtr' = poolPtr /\ poolEnd' = size /\ size <= MaxBlock
      /\ blockSize \in [Blocks -> 0 .. MaxBlock] /\ poolEnd \in Nat /\ poolPtr \in Nat
      /\ poolEnd = blockSize[First] /\ poolPtr <= poolEnd
      /\ blockText \in [Blocks -> [PoolCells -> Char \cup {Garbage}]]
  BY DEF PoolInv, PoolTypeOK, BlocksOK, PlacesOK, GrowRealloc
<1>2. /\ rest \in Seq(Blocks) /\ Distinct(rest) /\ Elems(rest) = Elems(poolBlocks) \ {First}
      /\ First \in Elems(poolBlocks) /\ First \in Blocks
  BY <1>1, TailOK, SMTT(30) DEF First
<1> HIDE DEF rest
<1>3. b \notin Elems(rest) /\ b \notin Elems(poolFree)
  BY <1>0, <1>2 DEF PoolInv, BlocksOK
<1>4. /\ <<b>> \o rest \in Seq(Blocks) /\ Distinct(<<b>> \o rest) /\ <<b>> \o rest # <<>>
      /\ (<<b>> \o rest)[1] = b /\ Elems(<<b>> \o rest) = Elems(rest) \cup {b}
  BY <1>2, <1>3, PushOK
<1>5. poolEnd > 0 /\ size \in 0 .. MaxBlock /\ size > 0 /\ poolEnd <= size
  BY <1>1, <1>2, PoolAssumption, SMTT(30) DEF PoolInv, BlocksOK
<1>6. blockSize' \in [Blocks -> 0 .. MaxBlock] /\ blockSize'[b] = size
  BY <1>0, <1>1, <1>5, PoolAssumption, Zenon
<1>7. \A x \in Elems(rest) \cup Elems(poolFree) :
         x \in Blocks /\ x # b /\ x # First /\ blockSize'[x] = blockSize[x] /\ blockText'[x] = blockText[x]
  <2>1. First \notin Elems(rest) /\ First \notin Elems(poolFree)
    BY <1>2 DEF PoolInv, BlocksOK
  <2>2. Elems(rest) \subseteq Blocks /\ Elems(poolFree) \subseteq Blocks
    BY <1>1, <1>2, ElemsAreBlocks
  <2> QED
    BY <2>1, <2>2, <1>0, <1>3
<1>8. blockText' \in [Blocks -> [PoolCells -> Char \cup {Garbage}]] /\ blockText'[b] = blockText[First]
  <2>1. Unused \in [PoolCells -> Char \cup {Garbage}]
    BY DEF Unused
  <2> QED
    BY <2>1, <1>0, <1>1, <1>2, Zenon
<1>9. PoolTypeOK'
  <2>1. poolBlocks' \in Seq(Blocks) /\ poolEnd' \in Nat
    BY <1>0, <1>1, <1>4, <1>5
  <2> QED
    BY <2>1, <1>1, <1>6, <1>8, Zenon DEF PoolInv, PoolTypeOK
<1>10. /\ Elems(poolBlocks)' = Elems(rest) \cup {b} /\ Elems(poolFree)' = Elems(poolFree)
       /\ Distinct(poolBlocks)' /\ Distinct(poolFree)' = Distinct(poolFree) /\ First' = b
  <2>1. Elems(poolBlocks)' = Elems(poolBlocks') /\ Elems(poolFree)' = Elems(poolFree')
    BY DEF Elems
  <2>2. Distinct(poolBlocks)' = Distinct(poolBlocks') /\ Distinct(poolFree)' = Distinct(poolFree')
    BY DEF Distinct
  <2> QED
    BY <2>1, <2>2, <1>0, <1>1, <1>4, Zenon DEF First
<1>11. BlocksOK'
  BY <1>2, <1>3, <1>5, <1>6, <1>7, <1>10, Zenon DEF PoolInv, BlocksOK
<1>12. PlacesOK'
  <2>1. poolPtr' = poolStart' + Len(current') /\ poolPtr' <= poolEnd' /\ StringIn(blockText[First], poolStart, current)
    BY <1>1, <1>5, SMTT(30) DEF PoolInv, PlacesOK
  <2>2. StringIn(blockText[First], poolStart, current)' = StringIn(blockText'[First'], poolStart', current')
    BY DEF StringIn
  <2>3. blockText'[First'] = blockText[First] /\ poolEnd' = blockSize'[First'] /\ poolBlocks' # <<>>
    BY <1>0, <1>1, <1>4, <1>6, <1>8, <1>10, Zenon
  <2> QED
    BY <2>1, <2>2, <2>3, <1>1 DEF PlacesOK
<1>13. ASSUME NEW f \in finished PROVE FinishedOK(f)'
  <2>1. FinishedOK(f) /\ f.block \in Blocks /\ f.at \in Nat /\ f.text \in Seq(Char)
    BY SMTT(30) DEF PoolInv, PoolTypeOK, String
  <2>2. f.block # First
    <3>1. Len(f.text) \in Nat /\ Len(f.text) > 0
      BY <2>1 DEF FinishedOK
    <3> QED
      BY <2>1, <3>1, <1>1, SMTT(30) DEF FinishedOK
  <2>3. f.block \in Elems(rest)
    BY <2>1, <2>2, <1>2, Zenon DEF FinishedOK
  <2> QED
    BY <2>1, <2>3, <1>7, <1>10 DEF FinishedOK
<1> QED
  BY <1>1, <1>9, <1>11, <1>12, <1>13, Zenon DEF PoolInv

\* Steps that leave the blocks and write the first one only from poolStart on.
LEMMA WriteKeeps ==
    ASSUME PoolInv, poolBlocks # <<>>,
           UNCHANGED <<poolBlocks, poolFree, poolStart, poolEnd, blockSize, finished>>,
           blockText' \in [Blocks -> [PoolCells -> Char \cup {Garbage}]],
           \A x \in Blocks : x # First => blockText'[x] = blockText[x],
           \A i \in PoolCells : i < poolStart => blockText'[First][i] = blockText[First][i]
    PROVE  BlocksOK' /\ \A f \in finished' : FinishedOK(f)'
<1>1. BlocksOK'
  BY SMTT(30) DEF PoolInv, BlocksOK, Elems, Distinct
<1>2. First' = First /\ Elems(poolBlocks)' = Elems(poolBlocks) /\ First \in Blocks
  BY FirstInUse DEF First, Elems, PoolInv
<1>3. poolStart \in Nat /\ poolStart <= MaxBlock /\ MaxBlock \in Nat
  <2>1. /\ poolEnd = blockSize[First] /\ poolPtr <= poolEnd /\ poolPtr = poolStart + Len(current)
        /\ Len(current) \in Nat /\ poolStart \in Nat /\ blockSize[First] \in 0 .. MaxBlock
    BY <1>2 DEF PoolInv, PoolTypeOK, PlacesOK
  <2> QED
    BY <2>1, PoolAssumption
<1>4. ASSUME NEW f \in finished PROVE FinishedOK(f)'
  <2>1. FinishedOK(f) /\ f.block \in Blocks /\ f.at \in Nat /\ f.text \in Seq(Char) /\ Len(f.text) \in Nat
    BY DEF PoolInv, PoolTypeOK, String
  <2>2. StringIn(blockText'[f.block], f.at, f.text)
    <3>1. CASE f.block = First
      <4> DEFINE a == f.at
                 n == Len(f.text)
      <4>1. a \in Nat /\ n \in Nat /\ a + n <= poolStart
        BY <3>1, <2>1 DEF FinishedOK
      <4> HIDE DEF a, n
      <4>2. \A i \in 1 .. n : a + i - 1 \in PoolCells /\ a + i - 1 < poolStart
        BY <4>1, <1>3 DEF PoolCells
      <4>3. \A i \in 1 .. n : blockText'[f.block][a + i - 1] = blockText[f.block][a + i - 1]
        BY <4>2, <3>1, Zenon
      <4> QED
        BY <4>3, <2>1, Zenon DEF FinishedOK, StringIn, a, n
    <3>2. CASE f.block # First
      BY <3>2, <2>1 DEF FinishedOK
    <3> QED
      BY <3>1, <3>2, Zenon
  <2> QED
    BY <2>1, <2>2, <1>2, Zenon DEF FinishedOK
<1> QED
  BY <1>1, <1>4, Zenon

LEMMA StoreOK == PoolInv /\ Store => PoolInv'
<1> SUFFICES ASSUME PoolInv, Store PROVE PoolInv'
  OBVIOUS
<1> DEFINE n == Len(current)
           m == Len(todo)
           cells == [i \in PoolCells |-> IF i >= poolPtr /\ i < poolPtr + m THEN todo[i - poolPtr + 1]
                                     ELSE blockText[First][i]]
<1>1. /\ current \in Seq(Char) /\ todo \in Seq(Char) /\ n \in Nat /\ m \in Nat /\ todo # <<>> /\ m > 0
      /\ poolStart \in Nat /\ poolPtr = poolStart + n /\ poolEnd \in Nat /\ poolPtr <= poolEnd
      /\ m <= poolEnd - poolPtr
      /\ blockText \in [Blocks -> [PoolCells -> Char \cup {Garbage}]]
      /\ UNCHANGED <<poolBlocks, poolFree, poolStart, poolEnd, blockSize, finished>>
      /\ poolPtr' = poolPtr + m /\ current' = current \o todo /\ todo' = <<>>
      /\ blockText' = [blockText EXCEPT ![First] = cells]
  BY SMTT(30) DEF PoolInv, PoolTypeOK, PlacesOK, Store, Needed
<1>2. poolBlocks # <<>>
  BY <1>1 DEF PoolInv, PlacesOK
<1>3. First \in Blocks /\ First' = First /\ poolEnd <= MaxBlock /\ MaxBlock \in Nat /\ poolEnd = blockSize[First]
  <2>1. First \in Blocks /\ First' = First /\ poolEnd = blockSize[First]
    BY <1>1, <1>2, FirstInUse DEF PoolInv, PlacesOK, First
  <2>2. blockSize[First] \in 0 .. MaxBlock
    BY <2>1 DEF PoolInv, PoolTypeOK
  <2> QED
    BY <2>1, <2>2, PoolAssumption
<1>4. \A i \in PoolCells : i >= poolPtr /\ i < poolPtr + m => i - poolPtr + 1 \in 1 .. m
  BY <1>1 DEF PoolCells
<1>5. cells \in [PoolCells -> Char \cup {Garbage}]
  BY <1>1, <1>3, <1>4, SMTT(30)
<1>6. blockText' \in [Blocks -> [PoolCells -> Char \cup {Garbage}]] /\ blockText'[First] = cells
  BY <1>1, <1>3, <1>5, Zenon
<1>7. \A i \in PoolCells : i < poolPtr => cells[i] = blockText[First][i]
  BY <1>1 DEF PoolCells
<1>8. BlocksOK' /\ \A f \in finished' : FinishedOK(f)'
  <2>1. \A i \in PoolCells : i < poolStart => blockText'[First][i] = blockText[First][i]
    BY <1>1, <1>6, <1>7 DEF PoolCells
  <2>2. \A x \in Blocks : x # First => blockText'[x] = blockText[x]
    BY <1>1
  <2> QED
    BY <2>1, <2>2, <1>1, <1>2, <1>6, WriteKeeps, Zenon
<1>9. PlacesOK'
  <2>1. /\ Len(current \o todo) = n + m
        /\ \A i \in 1 .. n : (current \o todo)[i] = current[i]
        /\ \A i \in n + 1 .. n + m : (current \o todo)[i] = todo[i - n]
    BY <1>1, SMTT(30)
  <2>2. ASSUME NEW i \in 1 .. n + m PROVE cells[poolStart + i - 1] = (current \o todo)[i]
    <3>1. poolStart + i - 1 \in PoolCells
      <4> HIDE DEF n, m
      <4>1. i >= 1 /\ i <= n + m /\ i \in Int
        BY <1>1
      <4>2. poolStart + i - 1 \in Int /\ poolStart + i - 1 >= 0 /\ poolStart + i - 1 <= MaxBlock - 1
        BY <4>1, <1>1, <1>3, SMTT(30)
      <4> QED
        BY <4>2, <1>3 DEF PoolCells
    <3>2. CASE i \in 1 .. n
      <4>1. poolStart + i - 1 < poolPtr
        BY <3>2, <1>1
      <4>2. cells[poolStart + i - 1] = blockText[First][poolStart + i - 1]
        BY <4>1, <3>1, <1>7
      <4>3. blockText[First][poolStart + i - 1] = current[i]
        BY <3>2, <1>2 DEF PoolInv, PlacesOK, StringIn
      <4> QED
        BY <3>2, <4>2, <4>3, <2>1
    <3>3. CASE i \in n + 1 .. n + m
      <4>1. poolStart + i - 1 >= poolPtr /\ poolStart + i - 1 < poolPtr + m /\ (poolStart + i - 1) - poolPtr + 1 = i - n
        BY <3>3, <1>1
      <4>2. cells[poolStart + i - 1] = todo[i - n]
        BY <4>1, <3>1, Zenon
      <4> QED
        BY <4>2, <3>3, <2>1
    <3> QED
      BY <3>2, <3>3, <1>1
  <2>3. StringIn(blockText'[First'], poolStart', current')
    BY <2>1, <2>2, <1>1, <1>3, <1>6, Zenon DEF StringIn
  <2>4. poolPtr' = poolStart' + Len(current') /\ poolPtr' <= poolEnd'
    BY <2>1, <1>1
  <2> QED
    BY <2>3, <2>4, <1>1, <1>2, <1>3, Zenon DEF PlacesOK
<1>10. PoolTypeOK'
  BY <1>1, <1>6 DEF PoolInv, PoolTypeOK
<1> QED
  BY <1>8, <1>9, <1>10, Zenon DEF PoolInv

\* The end of the unfinished string, or all of it, is dropped.
LEMMA DropOK ==
    ASSUME PoolInv, poolBlocks # <<>>, NEW n \in 0 .. Len(current),
           UNCHANGED <<poolBlocks, poolFree, poolStart, poolEnd, blockSize, finished, todo>>,
           poolPtr' = poolStart + n, current' = SubSeq(current, 1, n),
           blockText' = [blockText EXCEPT ![First] = Kept(blockText[First], poolStart + n)]
    PROVE  PoolInv'
<1>1. /\ current \in Seq(Char) /\ Len(current) \in Nat /\ poolStart \in Nat /\ n \in Nat /\ n <= Len(current)
      /\ poolEnd \in Nat /\ poolStart + Len(current) <= poolEnd
      /\ blockText \in [Blocks -> [PoolCells -> Char \cup {Garbage}]]
  BY DEF PoolInv, PoolTypeOK, PlacesOK
<1>2. First \in Blocks /\ First' = First /\ poolEnd <= MaxBlock /\ MaxBlock \in Nat /\ poolEnd = blockSize[First]
  <2>1. First \in Blocks /\ First' = First /\ poolEnd = blockSize[First]
    BY FirstInUse DEF PoolInv, PlacesOK, First
  <2>2. blockSize[First] \in 0 .. MaxBlock
    BY <2>1 DEF PoolInv, PoolTypeOK
  <2> QED
    BY <2>1, <2>2, PoolAssumption
<1>3. Kept(blockText[First], poolStart + n) \in [PoolCells -> Char \cup {Garbage}]
  BY <1>1, <1>2 DEF Kept
<1>4. blockText' \in [Blocks -> [PoolCells -> Char \cup {Garbage}]] /\ blockText'[First] = Kept(blockText[First], poolStart + n)
  BY <1>1, <1>2, <1>3
<1>5. \A i \in PoolCells : i < poolStart + n => blockText'[First][i] = blockText[First][i]
  BY <1>4 DEF Kept
<1>6. BlocksOK' /\ \A f \in finished' : FinishedOK(f)'
  <2>1. \A i \in PoolCells : i < poolStart => blockText'[First][i] = blockText[First][i]
    BY <1>1, <1>5 DEF PoolCells
  <2>2. \A x \in Blocks : x # First => blockText'[x] = blockText[x]
    BY <1>1
  <2> QED
    BY <2>1, <2>2, <1>4, WriteKeeps
<1>7. /\ SubSeq(current, 1, n) \in Seq(Char) /\ Len(SubSeq(current, 1, n)) = n
      /\ \A i \in 1 .. n : SubSeq(current, 1, n)[i] = current[i]
  BY <1>1
<1>8. PlacesOK'
  <2>1. ASSUME NEW i \in 1 .. n PROVE blockText'[First][poolStart + i - 1] = current[i]
    <3>1. poolStart + i - 1 \in PoolCells /\ poolStart + i - 1 < poolStart + n /\ i \in 1 .. Len(current)
      BY <1>1, <1>2 DEF PoolCells
    <3>2. blockText[First][poolStart + i - 1] = current[i]
      BY <3>1, Zenon DEF PoolInv, PlacesOK, StringIn
    <3> QED
      BY <3>1, <3>2, <1>5
  <2>2. StringIn(blockText'[First'], poolStart', current')
    BY <2>1, <1>2, <1>7 DEF StringIn
  <2>3. poolPtr' = poolStart' + Len(current') /\ poolPtr' <= poolEnd'
    BY <1>1, <1>7, SMTT(30)
  <2> QED
    BY <2>2, <2>3, <1>2, Zenon DEF PlacesOK
<1>9. PoolTypeOK'
  BY <1>1, <1>4, <1>7 DEF PoolInv, PoolTypeOK
<1> QED
  BY <1>6, <1>8, <1>9 DEF PoolInv

LEMMA FinishOK == PoolInv /\ poolFinish => PoolInv'
<1> SUFFICES ASSUME PoolInv, poolFinish PROVE PoolInv'
  OBVIOUS
<1> DEFINE new == [block |-> First, at |-> poolStart, text |-> current]
           n == Len(current)
<1>1. /\ current \in Seq(Char) /\ n \in Nat /\ n > 0 /\ poolStart \in Nat /\ poolEnd \in Nat
      /\ poolPtr = poolStart + n /\ poolPtr <= poolEnd
      /\ UNCHANGED <<poolBlocks, poolFree, poolPtr, poolEnd, blockSize, blockText, todo>>
      /\ finished' = finished \cup {new} /\ poolStart' = poolPtr /\ current' = <<>>
  BY SMTT(30) DEF PoolInv, PoolTypeOK, PlacesOK, poolFinish
<1>2. poolBlocks # <<>>
  BY <1>1 DEF PoolInv, PlacesOK
<1>3. /\ First \in Blocks /\ First' = First /\ poolEnd = blockSize[First] /\ First \in Elems(poolBlocks)
      /\ Elems(poolBlocks)' = Elems(poolBlocks) /\ StringIn(blockText[First], poolStart, current)
  BY <1>1, <1>2, FirstInUse, Zenon DEF PoolInv, PlacesOK, First, Elems
<1>4. new \in String /\ new.block = First /\ new.at = poolStart /\ new.text = current
  BY <1>1, <1>3 DEF String
<1> HIDE DEF new
<1>5. PoolTypeOK'
  BY <1>1, <1>4 DEF PoolInv, PoolTypeOK
<1>6. BlocksOK'
  <2>1. UNCHANGED <<poolBlocks, poolFree, blockSize>>
    BY <1>1
  <2>2. BlocksOK
    BY DEF PoolInv
  <2>3. /\ Distinct(poolBlocks') /\ Distinct(poolFree')
        /\ Elems(poolBlocks') \cap Elems(poolFree') = {}
        /\ \A b \in Elems(poolBlocks') \cup Elems(poolFree') : blockSize'[b] > 0
    BY ONLY <2>1, <2>2 DEF BlocksOK
  <2> QED
    BY ONLY <2>3 DEF BlocksOK
<1>7. PlacesOK'
  <2>1. StringIn(blockText[First], poolStart, current)'
    BY <1>1 DEF StringIn
  <2>2. poolPtr' = poolStart' + Len(current') /\ poolPtr' <= poolEnd' /\ poolBlocks' # <<>>
    BY <1>1, <1>2
  <2>3. poolEnd' = blockSize'[First']
    BY <1>1, <1>3
  <2> QED
    BY <2>1, <2>2, <2>3 DEF PlacesOK
<1>8. ASSUME NEW f \in finished' PROVE FinishedOK(f)'
  <2>1. CASE f = new
    <3>1. f.at + Len(f.text) = poolPtr
      BY <2>1, <1>1, <1>4, Zenon
    <3> QED
      BY <2>1, <3>1, <1>1, <1>3, <1>4 DEF FinishedOK, StringIn
  <2>2. CASE f \in finished
    <3>1. FinishedOK(f) /\ f.at \in Nat /\ Len(f.text) \in Nat
      BY <2>2, SMTT(30) DEF PoolInv, PoolTypeOK, String
    <3>2. f.block = First => f.at + Len(f.text) <= poolStart'
      BY <3>1, <1>1 DEF FinishedOK
    <3> QED
      BY <3>1, <3>2, <1>1, <1>3 DEF FinishedOK, StringIn
  <2> QED
    BY <2>1, <2>2, <1>1, Zenon
<1> QED
  BY <1>5, <1>6, <1>7, <1>8, Zenon DEF PoolInv

LEMMA ClearOK == PoolInv /\ poolClear => PoolInv'
<1> SUFFICES ASSUME PoolInv, poolClear PROVE PoolInv'
  OBVIOUS
<1>1. /\ poolBlocks \in Seq(Blocks) /\ poolFree \in Seq(Blocks) /\ Distinct(poolBlocks) /\ Distinct(poolFree)
      /\ Elems(poolBlocks) \cap Elems(poolFree) = {}
      /\ poolFree' = IF poolFree = <<>> THEN poolBlocks ELSE Flipped(poolBlocks) \o poolFree
      /\ poolBlocks' = <<>> /\ poolStart' = 0 /\ poolPtr' = 0 /\ poolEnd' = 0
      /\ current' = <<>> /\ finished' = {} /\ blockText' = [b \in Blocks |-> Unused]
      /\ blockSize' = blockSize /\ todo' = todo
  BY DEF PoolInv, PoolTypeOK, BlocksOK, poolClear
<1>2. poolFree' \in Seq(Blocks) /\ Distinct(poolFree') /\ Elems(poolFree') \subseteq Elems(poolBlocks) \cup Elems(poolFree)
  BY <1>1, FlippedOK
<1>3. Elems(<<>>) = {} /\ Distinct(<<>>)
  BY DEF Elems, Distinct
<1>4. Unused \in [PoolCells -> Char \cup {Garbage}]
  BY DEF Unused
<1>5. PoolTypeOK'
  BY <1>1, <1>2, <1>4 DEF PoolInv, PoolTypeOK
<1>6. BlocksOK'
  <2>1. Elems(poolBlocks)' = Elems(poolBlocks') /\ Elems(poolFree)' = Elems(poolFree')
    BY DEF Elems
  <2>2. Distinct(poolBlocks)' = Distinct(poolBlocks') /\ Distinct(poolFree)' = Distinct(poolFree')
    BY DEF Distinct
  <2> QED
    BY <2>1, <2>2, <1>1, <1>2, <1>3 DEF PoolInv, BlocksOK
<1>7. PlacesOK'
  BY <1>1 DEF PlacesOK
<1> QED
  BY <1>1, <1>5, <1>6, <1>7, Zenon DEF PoolInv
-----------------------------------------------------------------------------
LEMMA PoolStepOK == PoolInv /\ [PoolNext]_poolVars => PoolInv'
<1> SUFFICES ASSUME PoolInv, [PoolNext]_poolVars PROVE PoolInv'
  OBVIOUS
<1>1. CASE UNCHANGED <<poolBlocks, poolFree, placeVars, blockSize, blockText, current, finished>>
           /\ todo' \in Seq(Char)
  <2>1. PoolTypeOK'
    BY <1>1 DEF PoolInv, PoolTypeOK, placeVars
  <2>2. BlocksOK'
    <3>1. poolBlocks' = poolBlocks /\ poolFree' = poolFree /\ blockSize' = blockSize
      BY <1>1, Zenon
    <3>2. Elems(poolBlocks)' = Elems(poolBlocks) /\ Elems(poolFree)' = Elems(poolFree)
      BY <3>1, Zenon DEF Elems
    <3>3. Distinct(poolBlocks)' = Distinct(poolBlocks) /\ Distinct(poolFree)' = Distinct(poolFree)
      BY <3>1, Zenon DEF Distinct
    <3>4. BlocksOK
      BY Zenon DEF PoolInv
    <3> QED BY <3>1, <3>2, <3>3, <3>4, Zenon DEF BlocksOK
  <2>3. PlacesOK'
    BY <1>1 DEF PoolInv, PlacesOK, First, StringIn, placeVars
  <2>4. \A f \in finished : FinishedOK(f) => FinishedOK(f)'
    BY <1>1 DEF FinishedOK, Elems, First, StringIn, placeVars
  <2> QED
    BY <1>1, <2>1, <2>2, <2>3, <2>4 DEF PoolInv
<1>2. CASE UNCHANGED poolVars
  BY <1>1, <1>2 DEF poolVars, PoolInv, PoolTypeOK
<1>3. CASE GrowFails
  BY <1>1, <1>3 DEF GrowFails
<1>4. ASSUME NEW s \in Strings, Append1(s) PROVE PoolInv'
  BY <1>1, <1>4, PoolAssumption DEF Append1
<1>5. CASE poolDiscard
  <2>1. /\ 0 \in 0 .. Len(current) /\ SubSeq(current, 1, 0) = <<>> /\ poolStart + 0 = poolStart
    BY DEF PoolInv, PoolTypeOK
  <2>2. /\ poolBlocks # <<>> /\ poolPtr' = poolStart + 0 /\ current' = SubSeq(current, 1, 0)
        /\ blockText' = [blockText EXCEPT ![First] = Kept(blockText[First], poolStart + 0)]
        /\ UNCHANGED <<poolBlocks, poolFree, poolStart, poolEnd, blockSize, finished, todo>>
    BY <1>5, <2>1, Zenon DEF poolDiscard
  <2> QED
    BY <2>1, <2>2, DropOK, Zenon
<1>6. CASE poolChop
  <2> DEFINE n == Len(current) - 1
  <2>0. Len(current) \in Nat /\ poolStart \in Nat /\ poolPtr = poolStart + Len(current)
        /\ poolPtr <= poolEnd /\ poolEnd \in Nat /\ current # <<>> /\ Len(current) > 0
    BY <1>6, SMTT(30) DEF PoolInv, PoolTypeOK, PlacesOK, poolChop
  <2>1. n \in 0 .. Len(current) /\ poolPtr - 1 = poolStart + n /\ poolBlocks # <<>>
    BY <2>0 DEF PoolInv, PlacesOK
  <2>2. /\ poolPtr' = poolStart + n /\ current' = SubSeq(current, 1, n)
        /\ blockText' = [blockText EXCEPT ![First] = Kept(blockText[First], poolStart + n)]
        /\ UNCHANGED <<poolBlocks, poolFree, poolStart, poolEnd, blockSize, finished, todo>>
    BY <1>6, <2>1, Zenon DEF poolChop
  <2> HIDE DEF n
  <2> QED
    BY <2>1, <2>2, DropOK, Zenon
<1> QED
  BY Zenon, <1>2, <1>3, <1>4, <1>5, <1>6, GrowFirstOK, GrowFreeOK, GrowReallocOK, GrowMallocOK, StoreOK,
     FinishOK, ClearOK DEF PoolNext, poolGrow

\* The lists of blocks, the three pointers and the strings stay as PoolInv
\* says: a block with a finished string is never reallocated.
THEOREM PoolIsConsistent == PoolSpec => []PoolInv
BY PoolInitOK, PoolStepOK, PTL DEF PoolSpec

\* A finished string stays until the pool is cleared, and the unfinished one
\* is what was appended, wherever it was moved: for every block size and every
\* sequence of appends, growth, failures, poolDiscard, poolChop and poolClear.
THEOREM PoolKeepsStrings == PoolSpec => []StringsAreKept
<1>1. PoolInv => FinishedStringsStay
  BY DEF PoolInv, FinishedStringsStay, FinishedOK, StringIn
<1>2. PoolInv => CurrentIsAppended
  <2> SUFFICES ASSUME PoolInv PROVE CurrentIsAppended
    OBVIOUS
  <2>1. poolBlocks = <<>> => Len(current) = 0
    BY DEF PoolInv, PoolTypeOK, PlacesOK
  <2> QED
    BY <2>1 DEF PoolInv, PlacesOK, CurrentIsAppended, StringIn
<1>3. PoolInv => StringsAreKept
  BY <1>1, <1>2 DEF StringsAreKept
<1> QED
  BY <1>3, PoolIsConsistent, PTL
=============================================================================
