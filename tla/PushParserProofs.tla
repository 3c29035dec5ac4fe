------------------------- MODULE PushParserProofs -------------------------
(***************************************************************************)
(* The parse buffer always holds a contiguous run of the input, for every  *)
(* context size, initial size, int width and request length; and the       *)
(* parser uses its buffer only through the operations of InputBuffer, for  *)
(* every set of documents and every application: handlers included.  The   *)
(* invariant ties the locals of the call in progress to the buffer.        *)
(***************************************************************************)
EXTENDS PushParser, TLAPS

BufferInv == BufferTypeOK /\ WindowIsInput /\ ContextIsKept

(* A granted in-place request changes no data. *)
LEMMA InPlaceLemma ==
    ASSUME BufferInv, NEW len \in 0..MaxRequest, GetBufferInPlace(len)
    PROVE  BufferInv'
BY BufferAssumption
DEF BufferInv, BufferTypeOK, WindowIsInput, ContextIsKept, GetBufferInPlace,
    NeedsRoom, StreamIndex, Lesser

(* Sliding the data to the front keeps the window and its context. *)
LEMMA SlideLemma ==
    ASSUME BufferInv, NEW len \in 0..MaxRequest, GetBufferMoves(len),
           FitsAfterSlide(len), Slide(len)
    PROVE  BufferInv'
<1> DEFINE offset == bufferPtr - Keep
<1>1. offset \in 0..bufferPtr /\ Keep \in 0..ContextBytes
  BY BufferAssumption DEF BufferInv, BufferTypeOK, Keep, Lesser
<1>2. BufferTypeOK'
  BY <1>1, BufferAssumption
  DEF BufferInv, BufferTypeOK, GetBufferMoves, FitsAfterSlide, NeededSize, Slide
<1>3. WindowIsInput'
  BY <1>1, <1>2
  DEF BufferInv, BufferTypeOK, WindowIsInput, GetBufferMoves, Slide, StreamIndex
<1>4. ContextIsKept'
  BY <1>1, <1>2, BufferAssumption
  DEF BufferInv, BufferTypeOK, ContextIsKept, GetBufferMoves, Slide,
      StreamIndex, Lesser, Keep
<1> QED BY <1>2, <1>3, <1>4 DEF BufferInv

(* So does copying them to a larger block. *)
LEMMA GrowLemma ==
    ASSUME BufferInv, NEW len \in 0..MaxRequest, GetBufferMoves(len),
           NEW n \in DoubledSizes, GrownSize(len, n), SetParserBuffer(n)
    PROVE  BufferInv'
<1> DEFINE offset == bufferPtr - Keep
<1>1. offset \in 0..bufferPtr /\ Keep \in 0..ContextBytes
  BY BufferAssumption DEF BufferInv, BufferTypeOK, Keep, Lesser
<1>2. n \in 1..IntMax /\ n >= NeededSize(len)
  BY DEF DoubledSizes, GrownSize
<1>3. BufferTypeOK'
  BY <1>1, <1>2, BufferAssumption
  DEF BufferInv, BufferTypeOK, GetBufferMoves, NeededSize, SetParserBuffer, Junk
<1>4. WindowIsInput'
  BY <1>1, <1>2, <1>3
  DEF BufferInv, BufferTypeOK, WindowIsInput, GetBufferMoves, SetParserBuffer,
      StreamIndex
<1>5. ContextIsKept'
  BY <1>1, <1>2, <1>3, BufferAssumption
  DEF BufferInv, BufferTypeOK, ContextIsKept, GetBufferMoves, SetParserBuffer,
      StreamIndex, Lesser, Keep
<1> QED BY <1>3, <1>4, <1>5 DEF BufferInv

LEMMA AppendLemma ==
    ASSUME BufferInv, NEW len \in 0..granted, ~IndexOverflows(len), AppendInput(len)
    PROVE  BufferInv'
<1>1. BufferTypeOK'
  BY BufferAssumption
  DEF BufferInv, BufferTypeOK, IndexOverflows, AppendInput, StreamIndex
<1>2. WindowIsInput'
  BY <1>1 DEF BufferInv, BufferTypeOK, WindowIsInput, AppendInput, StreamIndex
<1>3. ContextIsKept'
  BY <1>1, BufferAssumption
  DEF BufferInv, BufferTypeOK, ContextIsKept, AppendInput, StreamIndex, Lesser
<1> QED BY <1>1, <1>2, <1>3 DEF BufferInv

LEMMA ConsumeLemma ==
    ASSUME BufferInv, NEW p \in bufferPtr..bufferEnd, Consume(p)
    PROVE  BufferInv'
BY BufferAssumption
DEF BufferInv, BufferTypeOK, WindowIsInput, ContextIsKept, Consume,
    StreamIndex, Lesser

(* Every operation on the buffer keeps the window, whatever the order they *)
(* come in.                                                                *)
LEMMA BufferStep == BufferInv /\ [BufferNext]_bufferVars => BufferInv'
<1> SUFFICES ASSUME BufferInv, [BufferNext]_bufferVars PROVE BufferInv'
  OBVIOUS
<1>1. ASSUME NEW len \in 0..MaxRequest, GetBufferInPlace(len) PROVE BufferInv'
  BY <1>1, InPlaceLemma
<1>2. ASSUME NEW len \in 0..MaxRequest, GetBufferMoves(len) PROVE BufferInv'
  <2>1. CASE FitsAfterSlide(len) /\ Slide(len)
    BY <1>2, <2>1, SlideLemma
  <2>2. CASE \E n \in DoubledSizes : GrownSize(len, n) /\ SetParserBuffer(n)
    BY <1>2, <2>2, GrowLemma
  <2> QED BY <1>2, <2>1, <2>2 DEF GetBufferMoves
<1>3. ASSUME NEW len \in 0..MaxRequest, GetBufferFails(len) PROVE BufferInv'
  BY <1>3, BufferAssumption
  DEF BufferInv, BufferTypeOK, WindowIsInput, ContextIsKept, GetBufferFails,
      StreamIndex, Lesser
<1>4. ASSUME NEW len \in 0..granted, ~IndexOverflows(len), AppendInput(len)
      PROVE  BufferInv'
  BY <1>4, AppendLemma
<1>5. ASSUME NEW p \in bufferPtr..bufferEnd, Consume(p) PROVE BufferInv'
  BY <1>5, ConsumeLemma
<1>6. CASE BufferReset
  BY <1>6, BufferAssumption
  DEF BufferInv, BufferTypeOK, WindowIsInput, ContextIsKept, BufferReset,
      StreamIndex, Lesser
<1>7. CASE UNCHANGED bufferVars
  BY <1>7
  DEF BufferInv, BufferTypeOK, WindowIsInput, ContextIsKept, StreamIndex,
      Lesser, bufferVars
<1> QED BY <1>1, <1>2, <1>3, <1>4, <1>5, <1>6, <1>7 DEF BufferNext

LEMMA BufferStart == BufferInit => BufferInv
BY BufferAssumption
DEF BufferInit, BufferInv, BufferTypeOK, WindowIsInput, ContextIsKept,
    StreamIndex, Lesser

(* XML_GetBuffer, XML_ParseBuffer, the processors and XML_ParserReset, in  *)
(* any order and with any lengths, keep the offsets ordered inside the     *)
(* block, the data a contiguous run of the input, and the context that     *)
(* XML_GetInputContext shows.                                              *)
THEOREM BufferSafety == BufferSpec => []BufferIsInput
<1>1. BufferSpec => []BufferInv
  BY BufferStart, BufferStep, PTL DEF BufferSpec
<1>2. BufferInv => BufferIsInput
  BY DEF BufferInv, BufferIsInput
<1> QED BY <1>1, <1>2, PTL

-----------------------------------------------------------------------------
(* The parser above the buffer.                                            *)

Frames == [start : Int, s : Int, calls : Int, len : Int, isFinal : BOOLEAN]

(* What a parse call in progress knows of the buffer: the piece XML_Parse  *)
(* copied fits the room it was granted; the cursor of doContent, unless it *)
(* is in an entity, lies in the data, which ends at m_parseEndPtr; nothing *)
(* was consumed when errorProcessor runs; and m_parseEndPtr is still the   *)
(* end of the data while the parser is suspended.                          *)
CallInv ==
    /\ pc \in {"app", "copied", "process", "handler"}
    /\ frame \in Frames
    /\ doc \in Docs
    /\ (pc \in {"copied", "process"}) => parsing = "PARSING"
    /\ pc = "copied" => frame.len \in 0..granted
    /\ (pc \in {"process", "handler"}) =>
          /\ parseEndPtr = bufferEnd
          /\ processor = "content" => frame.s \in bufferPtr..bufferEnd
    /\ pc = "process" => (processor = "error" => frame.start = bufferPtr)
    /\ parsing = "SUSPENDED" => parseEndPtr = bufferEnd

(* What a token may be. *)
LEMMA TokenType ==
    ASSUME doc \in Docs, NEW i \in 1..Len(doc)
    PROVE  /\ doc[i].len \in Nat \ {0}
           /\ doc[i].calls \in Nat
BY DocsAssumption DEF IsToken

(* The locals at the start of callProcessor, and behind XML_Parse's copy. *)
LEMMA ProcessFrameLemma ==
    ASSUME NEW p \in Int
    PROVE  /\ ProcessFrame(p) \in Frames
           /\ ProcessFrame(p).s = p /\ ProcessFrame(p).start = p
BY DEF ProcessFrame, Frame, Frames

LEMMA CopyFrameLemma ==
    ASSUME NEW len \in Int, NEW isFinal \in BOOLEAN
    PROVE  CopyFrame(len, isFinal) \in Frames /\ CopyFrame(len, isFinal).len = len
BY DEF CopyFrame, Frame, Frames

LEMMA NoFrameLemma == NoFrame \in Frames
BY DEF NoFrame, Frame, Frames

LEMMA RefuseLemma ==
    ASSUME CallInv, NEW error, Refuse(error)
    PROVE  (UNCHANGED bufferVars) /\ CallInv'
BY DEF CallInv, Refuse, bufferVars, callVars, statusVars, textVars

LEMMA ReturnErrorLemma ==
    ASSUME CallInv, NEW error, ReturnError(error), doc' = doc
    PROVE  (UNCHANGED bufferVars) /\ CallInv'
BY DEF CallInv, ReturnError, bufferVars, statusVars, NoFrame, Frame, Frames

LEMMA ReturnNoneLemma ==
    ASSUME CallInv, BufferTypeOK, NEW ptr \in bufferPtr..bufferEnd,
           ReturnNone(ptr), doc' = doc
    PROVE  BufferNext /\ CallInv'
<1>1. BufferNext BY DEF ReturnNone, BufferNext
<1>2. CallInv'
  BY DEF CallInv, ReturnNone, Consume, NoFrame, Frame, Frames
<1> QED BY <1>1, <1>2

(* XML_ParseBuffer behind its switch, for a length that was granted. *)
LEMMA ParseBufferBodyLemma ==
    ASSUME CallInv, BufferTypeOK, NEW len \in 0..granted, NEW isFinal \in BOOLEAN,
           ParseBufferBody(len, isFinal), pc \in {"app", "copied"}
    PROVE  [BufferNext]_bufferVars /\ CallInv'
<1>1. CASE IndexOverflows(len)
  <2>1. /\ UNCHANGED bufferVars
        /\ pc' = "app" /\ frame' = NoFrame /\ doc' = doc /\ parsing' = "PARSING"
    BY <1>1 DEF ParseBufferBody, textVars
  <2>2. CallInv' BY <2>1 DEF CallInv, NoFrame, Frame, Frames
  <2> QED BY <2>1, <2>2
<1>2. CASE ~IndexOverflows(len)
  <2>1. BufferNext BY <1>2 DEF ParseBufferBody, BufferNext
  <2>2. bufferPtr \in 0..bufferEnd /\ bufferEnd \in Int
    BY BufferAssumption DEF BufferTypeOK
  <2>3. /\ parsing' = "PARSING" /\ doc' = doc
        /\ bufferPtr' = bufferPtr /\ bufferEnd' = bufferEnd + len
        /\ parseEndPtr' = bufferEnd'
        /\ \/ pc' = "app" /\ frame' = NoFrame
           \/ /\ pc' = "process"
              /\ frame' = ProcessFrame(bufferPtr)
    BY <1>2 DEF ParseBufferBody, AppendInput, textVars
  <2>4. /\ frame' \in Frames
        /\ pc' = "process" => frame'.s = bufferPtr /\ frame'.start = bufferPtr
    BY <2>2, <2>3, ProcessFrameLemma, NoFrameLemma
  <2>5. CallInv'
    BY <2>2, <2>3, <2>4, BufferAssumption DEF CallInv, BufferTypeOK
  <2> QED BY <2>1, <2>5
<1> QED BY <1>1, <1>2

LEMMA ParseBufferLemma ==
    ASSUME CallInv, BufferTypeOK, NEW len \in 0..MaxRequest,
           NEW isFinal \in BOOLEAN, ParseBuffer(len, isFinal)
    PROVE  [BufferNext]_bufferVars /\ CallInv'
<1>1. CASE \E error : Refuse(error)
  BY <1>1, RefuseLemma
<1>2. CASE MayParse /\ len <= granted /\ ParseBufferBody(len, isFinal)
  <2>1. pc \in {"app", "copied"} /\ len \in 0..granted
    BY <1>2, BufferAssumption
    DEF ParseBuffer, AppRuns, MayParse, insideHandler, BufferTypeOK
  <2> QED BY <1>2, <2>1, ParseBufferBodyLemma
<1> QED
  BY <1>1, <1>2
  DEF ParseBuffer, RefuseInsideHandler, RefuseStopped, RefuseStart

LEMMA GetBufferLemma ==
    ASSUME CallInv, BufferTypeOK, NEW len \in 0..MaxRequest, GetBuffer(len)
    PROVE  [BufferNext]_bufferVars /\ CallInv'
<1>1. CASE \E error : Refuse(error)
  BY <1>1, RefuseLemma
<1>2. CASE /\ MayParse
           /\ UNCHANGED <<textVars, statusVars, deferralVars, callVars,
                          processor, parseEndPtr>>
           /\ \/ GetBufferInPlace(len)
              \/ GetBufferMoves(len)
              \/ GetBufferFails(len)
  <2>1. BufferNext BY <1>2 DEF BufferNext
  <2>2. pc = "app"
    BY <1>2 DEF GetBuffer, AppRuns, MayParse, insideHandler
  <2>3. CallInv'
    BY <1>2, <2>2 DEF CallInv, MayParse, textVars, statusVars, callVars
  <2> QED BY <2>1, <2>3
<1> QED BY <1>1, <1>2 DEF GetBuffer, RefuseInsideHandler, RefuseStopped

LEMMA ParseLemma ==
    ASSUME CallInv, BufferTypeOK, NEW len \in 0..MaxRequest,
           NEW isFinal \in BOOLEAN, Parse(len, isFinal)
    PROVE  [BufferNext]_bufferVars /\ CallInv'
<1>1. CASE \E error : Refuse(error)
  BY <1>1, RefuseLemma
<1> DEFINE Common == /\ MayParse
                     /\ parsing' = "PARSING"
                     /\ UNCHANGED <<textVars, deferralVars, finalBuffer,
                                    processor, parseEndPtr>>
<1>2. CASE /\ Common
           /\ GetBufferInPlace(len) \/ GetBufferMoves(len)
           /\ pc' = "copied"
           /\ frame' = CopyFrame(len, isFinal)
  <2>1. BufferNext BY <1>2 DEF BufferNext
  <2>2. frame' \in Frames /\ frame'.len = len /\ granted' = len
    BY <1>2, CopyFrameLemma, BufferAssumption DEF GetBufferInPlace, GetBufferMoves
  <2>3. CallInv'
    BY <1>2, <2>2, BufferAssumption DEF CallInv, textVars
  <2> QED BY <2>1, <2>3
<1>3. CASE Common /\ GetBufferFails(len) /\ UNCHANGED callVars
  <2>1. BufferNext BY <1>3 DEF BufferNext
  <2>2. CallInv'
    BY <1>3
    DEF CallInv, textVars, callVars, GetBufferFails, Parse, AppRuns, MayParse,
        insideHandler
  <2> QED BY <2>1, <2>2
<1> QED
  BY <1>1, <1>2, <1>3
  DEF Parse, RefuseInsideHandler, RefuseStopped, RefuseStart

(* The calls that leave the buffer alone, and the reset. *)
LEMMA StopParserLemma ==
    ASSUME CallInv, NEW resumable \in BOOLEAN, StopParser(resumable)
    PROVE  (UNCHANGED bufferVars) /\ CallInv'
<1>1. CASE \E error : Refuse(error)
  BY <1>1, RefuseLemma
<1>2. CASE /\ \/ parsing = "SUSPENDED" /\ ~resumable
              \/ parsing = "PARSING" /\ insideHandler
           /\ UNCHANGED <<bufferVars, textVars, callVars, processor, parseEndPtr>>
           /\ parsing' = IF resumable THEN "SUSPENDED" ELSE "FINISHED"
  BY <1>2
  DEF CallInv, insideHandler, textVars, callVars, bufferVars
<1> QED BY <1>1, <1>2 DEF StopParser

LEMMA ResumeParserLemma ==
    ASSUME CallInv, BufferTypeOK, ResumeParser
    PROVE  (UNCHANGED bufferVars) /\ CallInv'
<1>1. CASE \E error : Refuse(error)
  BY <1>1, RefuseLemma
<1>2. CASE ~insideHandler /\ parsing = "SUSPENDED" /\ ~(\E error : Refuse(error))
  <2>1. bufferPtr \in 0..bufferEnd /\ bufferEnd \in Int
    BY BufferAssumption DEF BufferTypeOK
  <2>2. /\ parsing' = "PARSING" /\ parseEndPtr' = parseEndPtr /\ doc' = doc
        /\ UNCHANGED bufferVars
        /\ \/ pc' = "app" /\ frame' = frame
           \/ /\ pc' = "process"
              /\ frame' = ProcessFrame(bufferPtr)
    BY <1>2
    DEF ResumeParser, AppRuns, RefuseInsideHandler, insideHandler, textVars, callVars
  <2>3. frame' \in Frames
    <3>1. frame \in Frames BY DEF CallInv
    <3> QED BY <3>1, <2>1, <2>2, ProcessFrameLemma
  <2>4. pc' = "process" => frame'.s = bufferPtr /\ frame'.start = bufferPtr
    BY <2>1, <2>2, ProcessFrameLemma
  <2> QED BY <1>2, <2>1, <2>2, <2>3, <2>4 DEF CallInv, bufferVars
<1> QED BY <1>1, <1>2 DEF ResumeParser, RefuseInsideHandler

LEMMA ParserResetLemma ==
    ASSUME CallInv, ParserReset
    PROVE  [BufferNext]_bufferVars /\ CallInv'
<1>1. CASE \E error : Refuse(error)
  BY <1>1, RefuseLemma
<1>2. CASE ~insideHandler /\ BufferReset /\ parsing' = "INITIALIZED"
           /\ UNCHANGED <<callVars, doc>>
  <2>1. BufferNext BY <1>2 DEF BufferNext
  <2>2. CallInv'
    BY <1>2 DEF ParserReset, CallInv, insideHandler, callVars
  <2> QED BY <2>1, <2>2
<1> QED BY <1>1, <1>2 DEF ParserReset, RefuseInsideHandler

LEMMA PositionLemma ==
    ASSUME CallInv, GetCurrentLineNumber
    PROVE  (UNCHANGED bufferVars) /\ CallInv'
BY DEF CallInv, GetCurrentLineNumber, bufferVars, textVars, statusVars, callVars

LEMMA SetReparseDeferralLemma ==
    ASSUME CallInv, NEW enabled \in BOOLEAN, SetReparseDeferralEnabled(enabled)
    PROVE  (UNCHANGED bufferVars) /\ CallInv'
BY DEF CallInv, SetReparseDeferralEnabled, bufferVars, textVars, statusVars, callVars

LEMMA AppCallsLemma ==
    ASSUME CallInv, BufferTypeOK, AppCalls
    PROVE  [BufferNext]_bufferVars /\ CallInv'
<1>1. ASSUME NEW len \in 0..MaxRequest, NEW isFinal \in BOOLEAN,
             Parse(len, isFinal) \/ ParseBuffer(len, isFinal)
      PROVE  [BufferNext]_bufferVars /\ CallInv'
  BY <1>1, ParseLemma, ParseBufferLemma
<1>2. ASSUME NEW len \in 0..MaxRequest, GetBuffer(len)
      PROVE  [BufferNext]_bufferVars /\ CallInv'
  BY <1>2, GetBufferLemma
<1>3. ASSUME NEW resumable \in BOOLEAN, StopParser(resumable)
      PROVE  [BufferNext]_bufferVars /\ CallInv'
  BY <1>3, StopParserLemma
<1>4. CASE ParseInvalid BY <1>4, RefuseLemma DEF ParseInvalid
<1>5. CASE ResumeParser BY <1>5, ResumeParserLemma
<1>6. CASE ParserReset BY <1>6, ParserResetLemma
<1>7. ASSUME NEW enabled \in BOOLEAN, SetReparseDeferralEnabled(enabled)
      PROVE  [BufferNext]_bufferVars /\ CallInv'
  BY <1>7, SetReparseDeferralLemma
<1>8. CASE GetCurrentLineNumber BY <1>8, PositionLemma
<1> QED
  BY <1>1, <1>2, <1>3, <1>4, <1>5, <1>6, <1>7, <1>8 DEF AppCalls

(* The processors. *)
LEMMA ParseCopiedLemma ==
    ASSUME CallInv, BufferTypeOK, ParseCopied
    PROVE  [BufferNext]_bufferVars /\ CallInv'
<1>1. pc = "copied" /\ frame.len \in 0..granted /\ frame.isFinal \in BOOLEAN
  BY DEF CallInv, ParseCopied, Frames
<1> QED BY <1>1, ParseBufferBodyLemma DEF ParseCopied

LEMMA ContentReturnsLemma ==
    ASSUME CallInv, BufferTypeOK, ContentNone \/ ContentPartial \/ ContentInvalid
    PROVE  [BufferNext]_bufferVars /\ CallInv'
<1>1. frame.s \in bufferPtr..bufferEnd /\ doc' = doc
  BY DEF CallInv, ContentNone, ContentPartial, ContentInvalid, ContentRuns, textVars
<1>2. ReturnNone(frame.s) \/ \E error : ReturnError(error)
  BY DEF ContentNone, ContentPartial, ContentInvalid
<1> QED BY <1>1, <1>2, ReturnNoneLemma, ReturnErrorLemma

LEMMA ContentCallbackLemma ==
    ASSUME CallInv, BufferTypeOK, ContentCallback
    PROVE  (UNCHANGED bufferVars) /\ CallInv'
<1>1. PICK i \in 1..Len(doc) : frame' = [frame EXCEPT !.calls = doc[i].calls - 1]
  BY DEF ContentCallback
<1>2. doc[i].calls \in Nat BY TokenType DEF CallInv
<1>3. frame' \in Frames /\ frame'.s = frame.s
  BY <1>1, <1>2 DEF CallInv, Frames
<1> QED
  BY <1>3
  DEF CallInv, ContentCallback, ContentRuns, Call, bufferVars, statusVars

LEMMA ContentEntityRefLemma ==
    ASSUME CallInv, BufferTypeOK, ContentEntityRef
    PROVE  [BufferNext]_bufferVars /\ CallInv'
<1>1. PICK i \in 1..Len(doc) :
         CompleteToken(i, frame.s) /\ Consume(frame.s + doc[i].len)
  BY DEF ContentEntityRef
<1>2. doc[i].len \in Nat \ {0} BY TokenType DEF CallInv
<1>3. frame.s + doc[i].len \in bufferPtr..bufferEnd
  BY <1>1, <1>2, BufferAssumption, SMTT(30)
  DEF ContentEntityRef, ContentRuns, CompleteToken, CallInv, BufferTypeOK
<1>4. BufferNext BY <1>1, <1>3 DEF BufferNext
<1>5. CallInv'
  BY <1>1 DEF CallInv, ContentEntityRef, ContentRuns, Consume, callVars, statusVars
<1> QED BY <1>4, <1>5

LEMMA EntityLemma ==
    ASSUME CallInv, BufferTypeOK, EntityCallback \/ EntityTextEnd \/ EntityClose
    PROVE  (UNCHANGED bufferVars) /\ CallInv'
<1>1. CASE EntityCallback
  BY <1>1 DEF CallInv, EntityCallback, EntityRuns, Call, bufferVars, statusVars
<1>2. CASE EntityTextEnd
  <2>1. CASE \E error : ReturnError(error)
    BY <1>2, <2>1, ReturnErrorLemma DEF EntityTextEnd
  <2>2. CASE UNCHANGED <<bufferVars, statusVars, callVars, processor, parseEndPtr>>
    BY <1>2, <2>2
    DEF CallInv, EntityTextEnd, bufferVars, statusVars, callVars
  <2> QED BY <1>2, <2>1, <2>2 DEF EntityTextEnd
<1>3. CASE EntityClose
  <2>1. bufferPtr \in 0..bufferEnd /\ bufferEnd \in Int
    BY BufferAssumption DEF BufferTypeOK
  <2>2. frame' = [frame EXCEPT !.s = bufferPtr] BY <1>3 DEF EntityClose
  <2>3. frame' \in Frames /\ frame'.s = bufferPtr
    BY <2>1, <2>2 DEF CallInv, Frames
  <2> QED
    BY <1>3, <2>1, <2>3
    DEF CallInv, EntityClose, EntityRuns, bufferVars, statusVars
<1> QED BY <1>1, <1>2, <1>3

LEMMA ErrorProcessorLemma ==
    ASSUME CallInv, BufferTypeOK, ErrorProcessor
    PROVE  [BufferNext]_bufferVars /\ CallInv'
<1>1. frame.start \in bufferPtr..bufferEnd /\ doc' = doc
  BY BufferAssumption DEF ErrorProcessor, CallInv, BufferTypeOK, textVars
<1>2. ReturnNone(frame.start) \/ \E error : ReturnError(error)
  BY DEF ErrorProcessor
<1> QED BY <1>1, <1>2, ReturnNoneLemma, ReturnErrorLemma

LEMMA ProcessesLemma ==
    ASSUME CallInv, BufferTypeOK, Processes
    PROVE  [BufferNext]_bufferVars /\ CallInv'
BY ParseCopiedLemma, ContentReturnsLemma, ContentCallbackLemma,
   ContentEntityRefLemma, EntityLemma, ErrorProcessorLemma
DEF Processes

(* A handler returns. *)
LEMMA HandlerReturnsInTokenLemma ==
    ASSUME CallInv, BufferTypeOK, HandlerReturnsInToken
    PROVE  (UNCHANGED bufferVars) /\ CallInv'
<1>1. frame' = [frame EXCEPT !.calls = @ - 1] BY DEF HandlerReturnsInToken
<1>2. frame' \in Frames /\ frame'.s = frame.s
  BY <1>1 DEF CallInv, Frames
<1>3. /\ pc = "handler" /\ pc' = "handler"
      /\ UNCHANGED <<bufferVars, statusVars, doc, processor, parseEndPtr>>
  BY DEF HandlerReturnsInToken, Call, insideHandler
<1> QED BY <1>2, <1>3 DEF CallInv, bufferVars, statusVars

LEMMA HandlerReturnsLemma ==
    ASSUME CallInv, BufferTypeOK, HandlerReturns
    PROVE  [BufferNext]_bufferVars /\ CallInv'
<1>1. PICK i \in 1..Len(doc) :
         CompleteToken(i, frame.s) /\ AfterToken(frame.s + doc[i].len)
  BY DEF HandlerReturns
<1> DEFINE next == frame.s + doc[i].len
<1>2. doc[i].len \in Nat \ {0} BY TokenType DEF CallInv
<1>3. next \in bufferPtr..bufferEnd /\ next \in Int
  <2>1. frame.s \in bufferPtr..bufferEnd /\ parseEndPtr = bufferEnd
    BY Zenon DEF HandlerReturns, insideHandler, CallInv
  <2>2. next <= bufferEnd BY <1>1, <2>1, Zenon DEF CompleteToken
  <2>3. bufferPtr \in Int /\ bufferEnd \in Int
    BY BufferAssumption DEF BufferTypeOK
  <2> QED BY <1>2, <2>1, <2>2, <2>3
<1>4. doc' = doc /\ pc = "handler" /\ processor = "content"
  BY DEF HandlerReturns, textVars, insideHandler
<1>5. CASE ReturnNone(next)
  BY <1>3, <1>4, <1>5, ReturnNoneLemma
<1>6. CASE \E error : ReturnError(error)
  BY <1>4, <1>6, ReturnErrorLemma
<1>7. CASE parsing = "PARSING" /\ ContinueAt(next)
  <2>1. frame' = [frame EXCEPT !.s = next] BY <1>7 DEF ContinueAt
  <2>2. frame' \in Frames /\ frame'.s = next
    BY <1>3, <2>1 DEF CallInv, Frames
  <2>3. /\ pc' = "process" /\ parsing' = "PARSING"
        /\ UNCHANGED <<bufferVars, processor, parseEndPtr>>
    BY <1>7 DEF ContinueAt, statusVars
  <2> QED BY <1>3, <1>4, <2>2, <2>3 DEF CallInv, bufferVars
<1> QED BY <1>1, <1>5, <1>6, <1>7 DEF AfterToken

LEMMA HandlerReturnsInEntityLemma ==
    ASSUME CallInv, BufferTypeOK, HandlerReturnsInEntity
    PROVE  [BufferNext]_bufferVars /\ CallInv'
<1>1. doc' = doc /\ pc = "handler" /\ processor = "entity"
  BY DEF HandlerReturnsInEntity, insideHandler
<1>2. bufferPtr \in bufferPtr..bufferEnd
  BY BufferAssumption DEF BufferTypeOK
<1>3. CASE ReturnNone(bufferPtr)
  BY <1>1, <1>2, <1>3, ReturnNoneLemma
<1>4. CASE \E error : ReturnError(error)
  BY <1>1, <1>4, ReturnErrorLemma
<1>5. CASE /\ parsing = "PARSING" /\ pc' = "process"
           /\ UNCHANGED <<bufferVars, statusVars, processor, parseEndPtr, frame>>
  BY <1>1, <1>5 DEF CallInv, bufferVars, statusVars
<1> QED BY <1>3, <1>4, <1>5 DEF HandlerReturnsInEntity

(* Every step of the parser is a step of the buffer or leaves it alone. *)
LEMMA NextLemma == BufferTypeOK /\ CallInv /\ [Next]_vars
                     => [BufferNext]_bufferVars /\ CallInv'
<1> SUFFICES ASSUME BufferTypeOK, CallInv, [Next]_vars
             PROVE  [BufferNext]_bufferVars /\ CallInv'
  OBVIOUS
<1>1. CASE AppCalls BY <1>1, AppCallsLemma
<1>2. CASE Processes BY <1>2, ProcessesLemma
<1>3. CASE Returns
  BY <1>3, HandlerReturnsInTokenLemma, HandlerReturnsLemma,
     HandlerReturnsInEntityLemma
  DEF Returns
<1>4. CASE UNCHANGED vars
  BY <1>4 DEF CallInv, vars, bufferVars
<1> QED BY <1>1, <1>2, <1>3, <1>4 DEF Next

LEMMA InitLemma == Init => BufferInit /\ CallInv
BY NoFrameLemma DEF Init, CallInv

(* The parser with its buffer, whatever the application calls and when.    *)
LEMMA ParserInv == Spec => [](BufferInv /\ CallInv)
<1>1. Init => BufferInv /\ CallInv BY InitLemma, BufferStart
<1>2. BufferInv /\ CallInv /\ [Next]_vars => (BufferInv /\ CallInv)'
  BY NextLemma, BufferStep DEF BufferInv
<1> QED BY <1>1, <1>2, PTL DEF Spec

(* XML_Parse, XML_ParseBuffer, XML_GetBuffer, the processors and the reset *)
(* change the buffer only as InputBuffer says: the parser implements it.   *)
THEOREM ParserImplementsBuffer == Spec => ImplementsBuffer
<1>1. Init => BufferInit BY InitLemma
<1>2. BufferInv /\ CallInv /\ [Next]_vars => [BufferNext]_bufferVars
  BY NextLemma DEF BufferInv
<1> QED BY <1>1, <1>2, ParserInv, PTL DEF Spec, ImplementsBuffer, BufferSpec

(* So the window property holds inside the parser, for every document and  *)
(* every sequence of calls, those made by handlers included.               *)
THEOREM ParserBufferSafety == Spec => []BufferIsInput
<1>1. BufferInv => BufferIsInput BY DEF BufferInv, BufferIsInput
<1> QED BY <1>1, ParserInv, PTL

(* XML_ResumeParser finds the whole input it was suspended on. *)
THEOREM SuspendedInput == Spec => []SuspendedKeepsInput
<1>1. CallInv => SuspendedKeepsInput BY DEF CallInv, SuspendedKeepsInput
<1> QED BY <1>1, ParserInv, PTL

(* No call, from a handler or otherwise, moves or extends the buffer while *)
(* doContent holds pointers into it.                                       *)
THEOREM BufferPinned == Spec => BufferIsPinned
<1> DEFINE Pinned == UNCHANGED <<mem, bufferEnd, bufferLim, parseEndByteIndex>>
<1>1. ASSUME pc \in {"process", "handler"}, Next PROVE Pinned
  <2> USE <1>1 DEF bufferVars, insideHandler
  <2>1. ASSUME NEW error, Refuse(error) PROVE Pinned
    BY <2>1 DEF Refuse
  <2>2. ASSUME NEW error, ReturnError(error) PROVE Pinned
    BY <2>2 DEF ReturnError
  <2>3. ASSUME NEW ptr, ReturnNone(ptr) PROVE Pinned
    BY <2>3 DEF ReturnNone, Consume
  <2>4. CASE AppCalls
    BY <2>1, <2>4
    DEF AppCalls, AppRuns, Parse, ParseBuffer, GetBuffer, StopParser,
        ParseInvalid, ResumeParser, ParserReset, SetReparseDeferralEnabled,
        GetCurrentLineNumber, RefuseInsideHandler, RefuseStopped, RefuseStart,
        MayParse
  <2>5. CASE Processes
    BY <2>2, <2>3, <2>5
    DEF Processes, ParseCopied, ContentNone, ContentPartial, ContentInvalid,
        ContentCallback, ContentEntityRef, EntityCallback, EntityTextEnd,
        EntityClose, ErrorProcessor, Consume
  <2>6. CASE Returns
    BY <2>2, <2>3, <2>6
    DEF Returns, HandlerReturnsInToken, HandlerReturns, AfterToken, ContinueAt,
        HandlerReturnsInEntity
  <2> QED BY <2>4, <2>5, <2>6 DEF Next
<1>2. UNCHANGED vars => Pinned BY DEF vars, bufferVars
<1>3. [Next]_vars => [(pc \in {"process", "handler"}) => Pinned]_vars
  BY <1>1, <1>2
<1> QED BY <1>3, PTL DEF Spec, BufferIsPinned
=============================================================================
