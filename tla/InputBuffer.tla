---------------------------- MODULE InputBuffer ----------------------------
(***************************************************************************)
(* The parse buffer of xmlparse.c: the window of the input that the parser *)
(* keeps between two calls of the application.                             *)
(*                                                                         *)
(* Pointers into m_buffer are offsets from m_buffer.  bufferLim = 0 stands *)
(* for m_buffer = m_bufferPtr = m_bufferEnd = m_bufferLim = NULL, the only *)
(* state in which one of them is NULL; EXPAT_SAFE_PTR_DIFF is then 0, as   *)
(* the difference of the offsets is.                                       *)
(*                                                                         *)
(* A byte of the input is named by its position in the input, so mem[i] is *)
(* the number of the input byte stored at m_buffer[i], or Junk.            *)
(***************************************************************************)
EXTENDS Integers

CONSTANTS ContextBytes,     \* XML_CONTEXT_BYTES
          InitBufferSize,   \* INIT_BUFFER_SIZE
          IntBits,          \* value bits of int: INT_MAX = 2^IntBits - 1
          IndexMax,         \* XML_INDEX_MAX, the largest XML_Index
          MaxRequest        \* bound on the lengths the application asks for

IntMax == 2^IntBits - 1

ASSUME BufferAssumption ==
    /\ ContextBytes \in Nat
    /\ InitBufferSize \in Nat \ {0}
    /\ IntBits \in Nat
    /\ IntMax \in Nat
    /\ IndexMax \in Nat
    /\ MaxRequest \in 0..IntMax

VARIABLES mem,                    \* the bytes of m_buffer
          bufferPtr,              \* first byte not yet consumed
          bufferEnd,              \* end of the data
          bufferLim,              \* end of the allocation
          parseEndByteIndex,      \* number of input bytes handed to the parser
          lastBufferRequestSize,  \* length of the last buffer request
          granted                 \* room the application may write to

bufferVars == <<mem, bufferPtr, bufferEnd, bufferLim, parseEndByteIndex,
                lastBufferRequestSize, granted>>

Junk == -1

Lesser(a, b) == IF a <= b THEN a ELSE b

(* The input position of the byte at offset p. *)
StreamIndex(p) == parseEndByteIndex - (bufferEnd - p)

BufferInit ==
    /\ mem = [i \in 0..-1 |-> Junk]
    /\ bufferPtr = 0
    /\ bufferEnd = 0
    /\ bufferLim = 0
    /\ parseEndByteIndex = 0
    /\ lastBufferRequestSize = 0
    /\ granted = 0

-----------------------------------------------------------------------------
(* XML_GetBuffer *)

(* The request does not fit behind the data (or there is no buffer yet). *)
NeedsRoom(len) == len > bufferLim - bufferEnd \/ bufferLim = 0

(* Bytes already consumed that are kept in front of m_bufferPtr for        *)
(* XML_GetInputContext.                                                    *)
Keep == Lesser(bufferPtr, ContextBytes)

NeededSize(len) == len + (bufferEnd - bufferPtr) + Keep

(* The two overflow checks on int: len plus the unparsed bytes wraps, or   *)
(* adding the context to that does.                                        *)
SizeOverflows(len) == NeededSize(len) > IntMax

FitsAfterSlide(len) == bufferLim > 0 /\ NeededSize(len) <= bufferLim

(* The sizes the doubling loop can stop at before the product wraps.       *)
DoubledSizes ==
    LET base == IF bufferLim = 0 THEN InitBufferSize ELSE bufferLim
    IN  {n \in 1..IntMax : \E k \in 1..IntBits : n = base * 2^k}

GrownSize(len, n) ==
    /\ n \in DoubledSizes
    /\ n >= NeededSize(len)
    /\ \A m \in DoubledSizes : m >= NeededSize(len) => n <= m

(* Mutant: the move starts at m_bufferPtr, the pointers allow for context. *)
SlideWithoutContext(len) ==
    /\ mem' = [i \in 0..(bufferLim - 1) |->
                 IF i < bufferEnd - bufferPtr THEN mem[i + bufferPtr] ELSE mem[i]]
    /\ bufferPtr' = Keep
    /\ bufferEnd' = bufferEnd - (bufferPtr - Keep)
    /\ UNCHANGED bufferLim

(* memmove of the data and its context to the front of the buffer.  When   *)
(* nothing but context precedes m_bufferPtr the code moves nothing, which  *)
(* is the case offset = 0.                                                 *)
Slide(len) ==
    LET offset == bufferPtr - Keep
    IN  /\ mem' = [i \in 0..(bufferLim - 1) |->
                     IF i < bufferEnd - offset THEN mem[i + offset] ELSE mem[i]]
        /\ bufferPtr' = bufferPtr - offset
        /\ bufferEnd' = bufferEnd - offset
        /\ UNCHANGED bufferLim

(* setParserBuffer: the data and its context are copied to a new block.    *)
SetParserBuffer(n) ==
    LET offset == bufferPtr - Keep
    IN  /\ mem' = [i \in 0..(n - 1) |->
                     IF i < bufferEnd - offset THEN mem[i + offset] ELSE Junk]
        /\ bufferPtr' = Keep
        /\ bufferEnd' = bufferEnd - offset
        /\ bufferLim' = n

(* A request that is granted in place, by sliding, or with a new block.    *)
GetBufferInPlace(len) ==
    /\ ~NeedsRoom(len)
    /\ lastBufferRequestSize' = len
    /\ granted' = len
    /\ UNCHANGED <<mem, bufferPtr, bufferEnd, bufferLim, parseEndByteIndex>>

GetBufferMoves(len) ==
    /\ NeedsRoom(len)
    /\ ~SizeOverflows(len)
    /\ \/ FitsAfterSlide(len) /\ Slide(len)
       \/ /\ ~FitsAfterSlide(len)
          /\ \E n \in DoubledSizes : GrownSize(len, n) /\ SetParserBuffer(n)
    /\ lastBufferRequestSize' = len
    /\ granted' = len
    /\ UNCHANGED parseEndByteIndex

(* A request that fails: an overflow, a doubling that wraps, or no memory  *)
(* for the new block.  The request size is remembered all the same.        *)
GetBufferFails(len) ==
    /\ NeedsRoom(len)
    /\ SizeOverflows(len) \/ ~FitsAfterSlide(len)
    /\ lastBufferRequestSize' = len
    /\ granted' = 0
    /\ UNCHANGED <<mem, bufferPtr, bufferEnd, bufferLim, parseEndByteIndex>>

(* XML_ParseBuffer: the bytes the application (or the memcpy of XML_Parse) *)
(* wrote behind the data become data.                                      *)
IndexOverflows(len) == len > IndexMax - parseEndByteIndex

AppendInput(len) ==
    /\ mem' = [i \in 0..(bufferLim - 1) |->
                 IF bufferEnd <= i /\ i < bufferEnd + len
                 THEN StreamIndex(i) ELSE mem[i]]
    /\ bufferEnd' = bufferEnd + len
    /\ parseEndByteIndex' = parseEndByteIndex + len
    /\ granted' = granted - len
    /\ UNCHANGED <<bufferPtr, bufferLim, lastBufferRequestSize>>

(* A processor has set *endPtr, which is &m_bufferPtr, to p. *)
Consume(p) ==
    /\ bufferPtr' = p
    /\ UNCHANGED <<mem, bufferEnd, bufferLim, parseEndByteIndex,
                   lastBufferRequestSize, granted>>

(* parserInit as XML_ParserReset calls it: the block is kept, its data not. *)
BufferReset ==
    /\ bufferPtr' = 0
    /\ bufferEnd' = 0
    /\ parseEndByteIndex' = 0
    /\ lastBufferRequestSize' = 0
    /\ granted' = 0
    /\ UNCHANGED <<mem, bufferLim>>

BufferNext ==
    \/ \E len \in 0..MaxRequest :
          GetBufferInPlace(len) \/ GetBufferMoves(len) \/ GetBufferFails(len)
    \/ \E len \in 0..granted : ~IndexOverflows(len) /\ AppendInput(len)
    \/ \E p \in bufferPtr..bufferEnd : Consume(p)
    \/ BufferReset

BufferSpec == BufferInit /\ [][BufferNext]_bufferVars

-----------------------------------------------------------------------------
(* Offsets are ordered and the block is no larger than an int can say;     *)
(* what the application was told it may write lies inside the block.       *)
BufferTypeOK ==
    /\ bufferLim \in 0..IntMax
    /\ bufferEnd \in 0..bufferLim
    /\ bufferPtr \in 0..bufferEnd
    /\ mem \in [0..(bufferLim - 1) -> Int]
    /\ parseEndByteIndex \in 0..IndexMax
    /\ lastBufferRequestSize \in 0..MaxRequest
    /\ granted \in 0..(bufferLim - bufferEnd)

(* XML_GetBuffer may slide the data or copy it to a new block any number   *)
(* of times, between reads of any length: the buffer still holds a         *)
(* contiguous run of the input that ends with the last byte received.  No  *)
(* byte is lost, repeated or replaced.                                     *)
WindowIsInput ==
    /\ bufferEnd <= parseEndByteIndex
    /\ \A i \in 0..(bufferEnd - 1) : mem[i] = StreamIndex(i)

(* XML_GetInputContext can always show the last XML_CONTEXT_BYTES bytes    *)
(* before the next byte to parse, or all of them if there were fewer: no   *)
(* move of the buffer drops context that is still wanted.                  *)
ContextIsKept == bufferPtr >= Lesser(ContextBytes, StreamIndex(bufferPtr))

(* Whatever sequence of requests and reads it has seen, the buffer is a    *)
(* block whose offsets are in order, with the input that is to be parsed   *)
(* and the context in front of it: slides and copies in XML_GetBuffer move *)
(* both together.                                                          *)
BufferIsInput == BufferTypeOK /\ WindowIsInput /\ ContextIsKept
=============================================================================
