------------------------------ MODULE StringPool ------------------------------
(***************************************************************************)
(* STRING_POOL: strings are built at the end of the newest of a list of    *)
(* blocks.  The one that is being built may be moved to a larger block;    *)
(* those that are finished are pointed to and must stay.  An append is a   *)
(* sequence of steps (poolGrowUntil, then the copy); no other call comes   *)
(* between them.                                                           *)
(***************************************************************************)
EXTENDS Integers, Sequences, FiniteSets

CONSTANTS
    Blocks,           \* the BLOCKs, allocated and not
    Char, Garbage,       \* what is written; what is in a cell that is in no string
    Strings,          \* what is appended at a time
    INIT_BLOCK_SIZE,
    MaxBlock,         \* the largest size for which poolBytesToAllocateFor is not 0
    MaxFinished       \* bound on the strings that are finished

PoolCells == 0 .. MaxBlock - 1

ASSUME PoolAssumption ==
    /\ INIT_BLOCK_SIZE \in Nat /\ MaxBlock \in Nat /\ INIT_BLOCK_SIZE > 0
    /\ INIT_BLOCK_SIZE <= MaxBlock /\ MaxFinished \in Nat
    /\ Garbage \notin Char /\ Strings \subseteq Seq(Char)

Unused == [i \in PoolCells |-> Garbage]

VARIABLES
    poolBlocks, poolFree,          \* blocks and freeBlocks, the head first
    poolStart, poolPtr, poolEnd,   \* start, ptr and end: places in the first of blocks
    blockSize, blockText,          \* size of each BLOCK (0: not allocated) and s
    todo,        \* what is being appended; <<>> outside an append
    current,     \* what was appended since the last finished string
    finished     \* the finished strings: [block, at, text]
placeVars == <<poolStart, poolPtr, poolEnd>>
poolVars == <<poolBlocks, poolFree, placeVars, blockSize, blockText, todo, current, finished>>

PoolInit ==
    /\ poolBlocks = <<>> /\ poolFree = <<>> /\ poolStart = 0 /\ poolPtr = 0 /\ poolEnd = 0
    /\ blockSize = [b \in Blocks |-> 0] /\ blockText = [b \in Blocks |-> Unused]
    /\ todo = <<>> /\ current = <<>> /\ finished = {}

First == poolBlocks[1]
Needed == Len(todo) > poolEnd - poolPtr
Kept(text, n) == [i \in PoolCells |-> IF i < n THEN text[i] ELSE Garbage]
\* the unfinished string is now at the begin of b and no longer in First
MovedTo(b) ==
    blockText' = [x \in Blocks |->
        IF x = b THEN [i \in PoolCells |-> IF i < poolPtr - poolStart THEN blockText[First][poolStart + i] ELSE Garbage]
        ELSE IF poolBlocks # <<>> /\ x = First THEN Kept(blockText[x], poolStart) ELSE blockText[x]]
-----------------------------------------------------------------------------
\* poolGrow, its branches in their order

\* the first block, taken from the free ones
GrowFirst ==
    /\ Needed /\ poolFree # <<>> /\ poolBlocks = <<>>
    /\ poolBlocks' = <<Head(poolFree)>> /\ poolFree' = Tail(poolFree)
    /\ poolStart' = 0 /\ poolPtr' = 0 /\ poolEnd' = blockSize[Head(poolFree)]
    /\ UNCHANGED <<blockSize, blockText, todo, current, finished>>
FreeIsLarger == poolFree # <<>> /\ poolEnd - poolStart < blockSize[Head(poolFree)]
\* a free block that is larger than what is left of the first
GrowFree ==
    /\ Needed /\ poolBlocks # <<>> /\ FreeIsLarger
    /\ poolBlocks' = <<Head(poolFree)>> \o poolBlocks /\ poolFree' = Tail(poolFree)
    /\ MovedTo(Head(poolFree))
    /\ poolStart' = 0 /\ poolPtr' = poolPtr - poolStart /\ poolEnd' = blockSize[Head(poolFree)]
    /\ UNCHANGED <<blockSize, todo, current, finished>>
AllocateBlock == Needed /\ ~(poolFree # <<>> /\ (poolBlocks = <<>> \/ FreeIsLarger))
\* realloc to twice the size, in place or not, if no finished string is in
\* the block
GrowReallocAlways ==
    LET size == 2 * (poolEnd - poolStart) IN
    /\ AllocateBlock /\ poolBlocks # <<>> /\ size <= MaxBlock
    /\ \E b \in Blocks :
         /\ b = First \/ blockSize[b] = 0
         /\ poolBlocks' = <<b>> \o Tail(poolBlocks)
         /\ blockSize' = [x \in Blocks |-> IF x = b THEN size ELSE IF x = First THEN 0 ELSE blockSize[x]]
         /\ blockText' = [x \in Blocks |-> IF x = b THEN blockText[First] ELSE IF x = First THEN Unused ELSE blockText[x]]
    /\ poolStart' = 0 /\ poolPtr' = poolPtr - poolStart /\ poolEnd' = size
    /\ UNCHANGED <<poolFree, todo, current, finished>>
GrowRealloc ==
    LET size == 2 * (poolEnd - poolStart) IN
    /\ AllocateBlock /\ poolBlocks # <<>> /\ poolStart = 0 /\ size <= MaxBlock
    /\ \E b \in Blocks :
         /\ b = First \/ blockSize[b] = 0
         /\ poolBlocks' = <<b>> \o Tail(poolBlocks)
         /\ blockSize' = [x \in Blocks |-> IF x = b THEN size ELSE IF x = First THEN 0 ELSE blockSize[x]]
         /\ blockText' = [x \in Blocks |-> IF x = b THEN blockText[First] ELSE IF x = First THEN Unused ELSE blockText[x]]
    /\ poolEnd' = size
    /\ UNCHANGED <<poolFree, poolStart, poolPtr, todo, current, finished>>
NewSize == IF poolEnd - poolStart < INIT_BLOCK_SIZE THEN INIT_BLOCK_SIZE ELSE 2 * (poolEnd - poolStart)
\* a new block in front of the others
GrowMalloc ==
    /\ AllocateBlock /\ ~(poolBlocks # <<>> /\ poolStart = 0) /\ NewSize <= MaxBlock
    /\ \E b \in Blocks :
         /\ blockSize[b] = 0 /\ blockSize' = [blockSize EXCEPT ![b] = NewSize]
         /\ poolBlocks' = <<b>> \o poolBlocks
         /\ MovedTo(b)
    /\ poolStart' = 0 /\ poolPtr' = poolPtr - poolStart /\ poolEnd' = NewSize
    /\ UNCHANGED <<poolFree, todo, current, finished>>
\* there is no memory, or the size is too large: the append fails
GrowFails ==
    /\ AllocateBlock /\ todo' = <<>>
    /\ UNCHANGED <<poolBlocks, poolFree, placeVars, blockSize, blockText, current, finished>>

\* poolAppendChar, poolAppendChars, poolAppend, poolAppendString
Append1(s) ==
    /\ todo = <<>> /\ s # <<>> /\ todo' = s
    /\ UNCHANGED <<poolBlocks, poolFree, placeVars, blockSize, blockText, current, finished>>
Store ==
    /\ todo # <<>> /\ ~Needed
    /\ blockText' = [blockText EXCEPT ![First] =
         [i \in PoolCells |-> IF i >= poolPtr /\ i < poolPtr + Len(todo) THEN todo[i - poolPtr + 1] ELSE @[i]]]
    /\ poolPtr' = poolPtr + Len(todo) /\ current' = current \o todo /\ todo' = <<>>
    /\ UNCHANGED <<poolBlocks, poolFree, poolStart, poolEnd, blockSize, finished>>
poolDiscard ==
    /\ todo = <<>> /\ poolBlocks # <<>>
    /\ poolPtr' = poolStart /\ current' = <<>>
    /\ blockText' = [blockText EXCEPT ![First] = Kept(@, poolStart)]
    /\ UNCHANGED <<poolBlocks, poolFree, poolStart, poolEnd, blockSize, todo, finished>>
poolChop ==
    /\ todo = <<>> /\ current # <<>>
    /\ poolPtr' = poolPtr - 1 /\ current' = SubSeq(current, 1, Len(current) - 1)
    /\ blockText' = [blockText EXCEPT ![First] = Kept(@, poolPtr - 1)]
    /\ UNCHANGED <<poolBlocks, poolFree, poolStart, poolEnd, blockSize, todo, finished>>
poolFinish ==
    /\ todo = <<>> /\ current # <<>> /\ Cardinality(finished) < MaxFinished
    /\ finished' = finished \cup {[block |-> First, at |-> poolStart, text |-> current]}
    /\ poolStart' = poolPtr /\ current' = <<>>
    /\ UNCHANGED <<poolBlocks, poolFree, poolPtr, poolEnd, blockSize, blockText, todo>>
Flipped(s) == [i \in 1 .. Len(s) |-> s[Len(s) + 1 - i]]
poolClear ==
    /\ todo = <<>>
    /\ poolFree' = IF poolFree = <<>> THEN poolBlocks ELSE Flipped(poolBlocks) \o poolFree
    /\ poolBlocks' = <<>> /\ poolStart' = 0 /\ poolPtr' = 0 /\ poolEnd' = 0
    /\ current' = <<>> /\ finished' = {} /\ blockText' = [b \in Blocks |-> Unused]
    /\ UNCHANGED <<blockSize, todo>>

poolGrow == GrowFirst \/ GrowFree \/ GrowRealloc \/ GrowMalloc \/ GrowFails
PoolNext == poolGrow \/ (\E s \in Strings : Append1(s)) \/ Store \/ poolDiscard \/ poolChop
            \/ poolFinish \/ poolClear
PoolSpec == PoolInit /\ [][PoolNext]_poolVars
-----------------------------------------------------------------------------
Elems(s) == { s[i] : i \in 1 .. Len(s) }
\* A finished string stays where it is and what it is until the pool is
\* cleared, whatever is appended, moved and reallocated after it: names of
\* elements, attributes and entities are pointers to such strings.
FinishedStringsStay ==
    \A f \in finished :
      /\ f.block \in Elems(poolBlocks)
      /\ \A i \in 1 .. Len(f.text) : blockText[f.block][f.at + i - 1] = f.text[i]

\* The string that is being built is what was appended, through every move,
\* and lies in its block.
CurrentIsAppended ==
    /\ poolPtr = poolStart + Len(current) /\ poolPtr <= poolEnd
    /\ poolBlocks # <<>> => poolEnd = blockSize[First]
    /\ \A i \in 1 .. Len(current) : blockText[First][poolStart + i - 1] = current[i]

\* Through growth, failure, discarding and clearing a pool keeps its strings:
\* those that poolFinish has handed out where they are, the one that is being
\* built as it was appended.
StringsAreKept == FinishedStringsStay /\ CurrentIsAppended
=============================================================================
