---------------------------- MODULE AllocTracker ----------------------------
(***************************************************************************)
(* Tracking of dynamic memory: expat_malloc, expat_realloc, expat_free and *)
(* the part of parserCreate that allocates an XML_ParserStruct.  Every     *)
(* block starts with a header that records its size; the root parser       *)
(* counts the bytes of all live blocks, its own and those of the parsers   *)
(* for external entities, and refuses growth that is out of proportion to  *)
(* the input.                                                              *)
(*                                                                         *)
(* The heap is a range of addresses and a block owns an interval of it.    *)
(* A call that returns NULL without an effect is a stuttering step.        *)
(***************************************************************************)
EXTENDS Integers, FiniteSets

CONSTANTS Header,         \* sizeof(size_t) + EXPAT_MALLOC_PADDING
          Struct,         \* sizeof(struct XML_ParserStruct)
          SizeMax,        \* SIZE_MAX
          CountMax,       \* (XmlBigCount)-1
          MemSize,        \* bytes of memory there are
          Thresholds,     \* values of activationThresholdBytes
          Factors,        \* values of maximumAmplificationFactor
          MaxDirect       \* bound on countBytesDirect

(* XmlBigCount is no wider than size_t, as on 64-bit machines. *)
ASSUME AllocAssumption ==
    /\ Header \in Nat \ {0} /\ Struct \in Nat
    /\ SizeMax \in Nat /\ CountMax \in Nat /\ CountMax <= SizeMax
    /\ MemSize \in Nat /\ MemSize <= CountMax
    /\ Thresholds \subseteq Nat /\ Factors \subseteq Nat \ {0}
    /\ MaxDirect \in Nat

VARIABLES blocks,                   \* the live blocks
          created,                  \* the root parser has been created
          bytesAllocated,
          countBytesDirect,         \* m_accounting.countBytesDirect
          activationThresholdBytes,
          maximumAmplificationFactor,
          limit                     \* history: the most that was ever allowed

vars == <<blocks, created, bytesAllocated, countBytesDirect,
          activationThresholdBytes, maximumAmplificationFactor, limit>>

Memory == 0..(MemSize - 1)
Sizes == 0..SizeMax

(* root marks the block that holds the root parser itself. *)
Block(base, size, root) == [base |-> base, size |-> size, root |-> root]

(* The addresses of a block whose recorded size is size. *)
Cells(base, size) == base..(base + Header + size - 1)
Owned(S) == UNION {Cells(b.base, b.size) : b \in S}

(* malloc_fcn and realloc_fcn: fresh memory, disjoint from what is in use. *)
Fresh(base, size, S) ==
    Cells(base, size) \subseteq Memory /\ Cells(base, size) \cap Owned(S) = {}

(* Arithmetic on XmlBigCount. *)
Plus(a, b) == (a + b) % (CountMax + 1)
Minus(a, b) == (a - b) % (CountMax + 1)

Greater(a, b) == IF a >= b THEN a ELSE b
LimitOf(threshold, factor, direct) == Greater(threshold - 1, factor * direct)

-----------------------------------------------------------------------------
(* Mutant: the increase alone is held against the input. *)
TolerableIncreaseOnly(increase) ==
    /\ CountMax - bytesAllocated >= increase
    /\ \/ increase < activationThresholdBytes
       \/ increase <= maximumAmplificationFactor * countBytesDirect

(* expat_heap_increase_tolerable.  Dividing by a count of zero gives       *)
(* infinity, which exceeds every factor.                                   *)
Tolerable(increase) ==
    /\ CountMax - bytesAllocated >= increase
    /\ \/ bytesAllocated + increase < activationThresholdBytes
       \/ bytesAllocated + increase <= maximumAmplificationFactor * countBytesDirect

settings == <<countBytesDirect, activationThresholdBytes,
              maximumAmplificationFactor, limit>>

(* The root parser allocates its struct before there is anything to ask. *)
RootCreate(base) ==
    /\ ~created
    /\ Fresh(base, Struct, blocks)
    /\ created' = TRUE
    /\ blocks' = blocks \cup {Block(base, Struct, TRUE)}
    /\ bytesAllocated' = Plus(bytesAllocated, Header + Struct)
    /\ UNCHANGED settings

(* A parser for an external entity is counted by the root. *)
ParserCreate(base) ==
    /\ blocks # {}
    /\ Tolerable(Header + Struct)
    /\ Fresh(base, Struct, blocks)
    /\ blocks' = blocks \cup {Block(base, Struct, FALSE)}
    /\ bytesAllocated' = Plus(bytesAllocated, Header + Struct)
    /\ UNCHANGED <<settings, created>>

(* Mutant: the header is not counted. *)
MallocWithoutHeader(size, base) ==
    /\ blocks # {}
    /\ SizeMax - size >= Header
    /\ CountMax - bytesAllocated >= Header + size
    /\ Tolerable(Header + size)
    /\ Fresh(base, size, blocks)
    /\ blocks' = blocks \cup {Block(base, size, FALSE)}
    /\ bytesAllocated' = Plus(bytesAllocated, size)
    /\ UNCHANGED <<settings, created>>

Malloc(size, base) ==
    /\ blocks # {}
    /\ SizeMax - size >= Header
    /\ CountMax - bytesAllocated >= Header + size
    /\ Tolerable(Header + size)
    /\ Fresh(base, size, blocks)
    /\ blocks' = blocks \cup {Block(base, size, FALSE)}
    /\ bytesAllocated' = Plus(bytesAllocated, Header + size)
    /\ UNCHANGED <<settings, created>>

(* XML_ParserFree frees everything else before the root parser. *)
Free(b) ==
    /\ b.root => blocks = {b}
    /\ blocks' = blocks \ {b}
    /\ bytesAllocated' = Minus(bytesAllocated, Header + b.size)
    /\ UNCHANGED <<settings, created>>

(* Of a block that is not NULL, to a size that is not 0: the other cases   *)
(* are calls of expat_malloc and expat_free.                               *)
Realloc(b, size, base) ==
    /\ size > 0 /\ ~b.root
    /\ size > b.size => Tolerable(size - b.size)
    /\ Fresh(base, size, blocks \ {b})
    /\ blocks' = (blocks \ {b}) \cup {Block(base, size, FALSE)}
    /\ bytesAllocated' = IF size > b.size THEN Plus(bytesAllocated, size - b.size)
                                          ELSE Minus(bytesAllocated, b.size - size)
    /\ UNCHANGED <<settings, created>>

-----------------------------------------------------------------------------
(* The root parser's settings, its input, and XML_ParserReset, which       *)
(* starts the count of the input again and keeps what is allocated.        *)
Set(direct, threshold, factor) ==
    /\ blocks # {}
    /\ countBytesDirect' = direct
    /\ activationThresholdBytes' = threshold
    /\ maximumAmplificationFactor' = factor
    /\ limit' = Greater(limit, LimitOf(threshold, factor, direct))
    /\ UNCHANGED <<blocks, created, bytesAllocated>>

SetActivationThreshold(t) == Set(countBytesDirect, t, maximumAmplificationFactor)
SetMaximumAmplification(f) == Set(countBytesDirect, activationThresholdBytes, f)
ParserReset == Set(0, activationThresholdBytes, maximumAmplificationFactor)
CountDirect(n) ==
    /\ countBytesDirect + n <= MaxDirect
    /\ Set(countBytesDirect + n, activationThresholdBytes, maximumAmplificationFactor)

Init ==
    /\ blocks = {}
    /\ created = FALSE
    /\ bytesAllocated = 0
    /\ countBytesDirect = 0
    /\ activationThresholdBytes \in Thresholds
    /\ maximumAmplificationFactor \in Factors
    /\ limit = Greater(Header + Struct, activationThresholdBytes - 1)

Next ==
    \/ \E base \in Memory : RootCreate(base) \/ ParserCreate(base)
    \/ \E size \in Sizes, base \in Memory : Malloc(size, base)
    \/ \E b \in blocks : Free(b)
    \/ \E b \in blocks, size \in Sizes, base \in Memory : Realloc(b, size, base)
    \/ \E t \in Thresholds : SetActivationThreshold(t)
    \/ \E f \in Factors : SetMaximumAmplification(f)
    \/ \E n \in 1..MaxDirect : CountDirect(n)
    \/ ParserReset

Spec == Init /\ [][Next]_vars

-----------------------------------------------------------------------------
TypeOK ==
    /\ blocks \subseteq [base : Memory, size : Sizes, root : BOOLEAN]
    /\ created \in BOOLEAN
    /\ bytesAllocated \in 0..CountMax
    /\ countBytesDirect \in 0..MaxDirect
    /\ activationThresholdBytes \in Thresholds
    /\ maximumAmplificationFactor \in Factors

(* The count is exact: after any sequence of allocations, resizes in place *)
(* or elsewhere and releases it is the number of bytes in live blocks, so  *)
(* it is zero again when everything has been freed.                        *)
CountIsExact == bytesAllocated = Cardinality(Owned(blocks))

(* The assertions of the code hold whenever they are reached: that the     *)
(* count covers the block being freed; in expat_realloc that the new size  *)
(* plus the header does not overflow a size_t, which it does not check,    *)
(* and that the count neither wraps upwards nor downwards; and in          *)
(* parserCreate that a struct that could be allocated can be counted.      *)
AssertionsHold ==
    /\ \A b \in blocks :
          /\ bytesAllocated >= Header + b.size
          /\ \A size \in Sizes :
                (size > b.size => Tolerable(size - b.size)) =>
                   /\ SizeMax - Header >= size
                   /\ IF size > b.size THEN CountMax - bytesAllocated >= size - b.size
                                       ELSE bytesAllocated >= b.size - size
    /\ \A base \in Memory :
          Fresh(base, Struct, blocks) => SizeMax - bytesAllocated >= Header + Struct

(* Whatever is allocated and resized, the bytes in use never exceed what   *)
(* the largest threshold, or factor times input, that was ever in force    *)
(* allows (or the root parser's own struct).                               *)
GrowthIsBounded == bytesAllocated <= limit

(* The tracker knows what is in use: expat_malloc, expat_realloc and       *)
(* expat_free keep the count exact, and their assertions hold.             *)
TrackingIsExact == CountIsExact /\ AssertionsHold
=============================================================================
