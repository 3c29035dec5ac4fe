----------------------------- MODULE PushParser -----------------------------
(***************************************************************************)
(* The push interface of xmlparse.c: XML_Parse, XML_GetBuffer,             *)
(* XML_ParseBuffer, XML_StopParser, XML_ResumeParser, XML_ParserReset and  *)
(* callProcessor, with handlers that call back into the parser.            *)
(*                                                                         *)
(* The application hands the document over in pieces of any length and     *)
(* its handlers may suspend or abort the parse.  The document is a         *)
(* sequence of tokens; which callbacks a token causes, and whether it is   *)
(* well formed, is part of the document.  A token is found by the input    *)
(* bytes that are really in the buffer at the cursor.                      *)
(***************************************************************************)
EXTENDS InputBuffer, Sequences

CONSTANTS Docs,                 \* the documents the application may parse
          MaxResets,            \* bound on calls of XML_ParserReset, per document
          ContinueAfterError    \* the documents where the application goes on
                                \* after an error

Null == -1                      \* a NULL pointer into the buffer

(* kind "data": one callback; "empty": an empty element, whose start and   *)
(* end callbacks share the token; "bad": not well formed; "ref": a         *)
(* reference to an internal entity with calls callbacks in its text, the   *)
(* last of them for a trailing ']' if trailing, the text itself not well   *)
(* formed if async.  first counts the callbacks of earlier tokens.         *)
IsToken(t) ==
    /\ t.kind \in {"data", "empty", "bad", "ref"}
    /\ t.start \in Nat /\ t.len \in Nat \ {0}
    /\ t.first \in Nat /\ t.calls \in Nat
    /\ t.kind = "data" => t.calls = 1
    /\ t.kind = "empty" => t.calls = 2
    /\ t.trailing \in BOOLEAN /\ t.async \in BOOLEAN

ASSUME DocsAssumption ==
    /\ MaxResets \in [Docs -> Nat]
    /\ ContinueAfterError \subseteq Docs
    /\ \A d \in Docs :
          /\ Len(d) > 0
          /\ \A i \in 1..Len(d) : IsToken(d[i])
          /\ d[1].start = 0 /\ d[1].first = 0
          /\ \A i \in 1..(Len(d) - 1) :
                /\ d[i + 1].start = d[i].start + d[i].len
                /\ d[i + 1].first = d[i].first + d[i].calls

VARIABLES doc,                          \* the document being parsed
          parsing, finalBuffer,         \* m_parsingStatus
          errorCode, processor,         \* m_errorCode, m_processor
          entity,                       \* the open internal entity
          parseEndPtr, eventPtr,        \* m_parseEndPtr, m_eventPtr
          positionPtr, position,        \* m_positionPtr, bytes in m_position
          partialTokenBytesBefore,
          reparseDeferralEnabled,
          pc,                           \* who runs
          frame,                        \* locals of the call in progress
          status,                       \* what the last parse call returned
          log,                          \* history: callbacks made
          resets                        \* number of XML_ParserReset so far

textVars     == <<doc, entity, log, resets>>
statusVars   == <<parsing, finalBuffer>>
resultVars   == <<errorCode, status>>
callVars     == <<pc, frame>>
eventVars    == <<eventPtr, positionPtr, position>>
positionVars == <<positionPtr, position>>
deferralVars == <<partialTokenBytesBefore, reparseDeferralEnabled>>
vars == <<bufferVars, doc, parsing, finalBuffer, errorCode, processor, entity,
          parseEndPtr, eventPtr, positionPtr, position,
          partialTokenBytesBefore, reparseDeferralEnabled, pc, frame, status,
          log, resets>>

DocLength == doc[Len(doc)].start + doc[Len(doc)].len
Callbacks == doc[Len(doc)].first + doc[Len(doc)].calls

NoEntity == [token |-> 0, left |-> 0, hasMore |-> FALSE]

(* The locals of XML_Parse behind its copy, and of callProcessor and the   *)
(* processor it calls at p.                                                *)
Frame(p, len, isFinal) ==
    [start |-> p, s |-> p, calls |-> 0, len |-> len, isFinal |-> isFinal]
NoFrame == Frame(0, 0, FALSE)
CopyFrame(len, isFinal) == Frame(0, len, isFinal)
ProcessFrame(p) == Frame(p, 0, FALSE)

insideHandler == pc = "handler"      \* m_handlerCallDepth > 0

Init ==
    /\ BufferInit
    /\ doc \in Docs
    /\ parsing = "INITIALIZED"
    /\ finalBuffer \in BOOLEAN          \* not set by parserInit
    /\ errorCode = "NONE"
    /\ processor = "content"
    /\ entity = NoEntity
    /\ parseEndPtr = Null
    /\ eventPtr = Null
    /\ positionPtr = Null
    /\ position = 0
    /\ partialTokenBytesBefore = 0
    /\ reparseDeferralEnabled = TRUE
    /\ pc = "app"
    /\ frame = NoFrame
    /\ status = "OK"
    /\ log = <<>>
    /\ resets = 0

-----------------------------------------------------------------------------
(* Mutant: the last piece may be deferred too. *)
DeferredThoughFinal(start, end, isFinal) ==
    reparseDeferralEnabled /\ end - start < 2 * partialTokenBytesBefore

(* The heuristic of callProcessor: do not parse again before the data has  *)
(* doubled, unless the next request would not fit.                         *)
Deferred(start, end, isFinal) ==
    LET available == (bufferPtr - Lesser(bufferPtr, ContextBytes))
                       + (bufferLim - end)
    IN  /\ reparseDeferralEnabled
        /\ ~isFinal
        /\ end - start < 2 * partialTokenBytesBefore
        /\ lastBufferRequestSize <= available

(* Mutant: m_positionPtr is not moved along. *)
PositionCountedTwice(p) ==
    /\ position' = position + (IF positionPtr < p THEN p - positionPtr ELSE 0)
    /\ UNCHANGED positionPtr

(* XmlUpdatePosition from m_positionPtr to p, and m_positionPtr = p.       *)
PositionUpTo(p) ==
    /\ position' = position + (IF positionPtr < p THEN p - positionPtr ELSE 0)
    /\ positionPtr' = p

(* Mutant: m_processor is left as it was. *)
ReturnErrorRetries(error) ==
    /\ errorCode' = error
    /\ status' = "ERROR"
    /\ pc' = "app"
    /\ frame' = NoFrame
    /\ UNCHANGED <<bufferVars, positionVars, statusVars, deferralVars,
                   parseEndPtr, processor>>

(* callProcessor has returned error with *endPtr = ptr; the rest of        *)
(* XML_ParseBuffer and of XML_ResumeParser, which are the same.            *)
ReturnError(error) ==
    /\ errorCode' = error
    /\ processor' = "error"
    /\ status' = "ERROR"
    /\ pc' = "app"
    /\ frame' = NoFrame
    /\ UNCHANGED <<bufferVars, positionVars, statusVars, deferralVars,
                   parseEndPtr>>

ReturnNone(ptr) ==
    /\ errorCode' = "NONE"
    /\ Consume(ptr)
    /\ partialTokenBytesBefore' =
         IF ptr = frame.start THEN parseEndPtr - frame.start ELSE 0
    /\ pc' = "app"
    /\ frame' = NoFrame
    /\ status' = IF parsing = "SUSPENDED" THEN "SUSPENDED" ELSE "OK"
    /\ IF parsing = "PARSING" /\ finalBuffer
       THEN parsing' = "FINISHED" /\ UNCHANGED positionVars
       ELSE UNCHANGED parsing /\ PositionUpTo(ptr)
    /\ UNCHANGED <<finalBuffer, reparseDeferralEnabled, parseEndPtr>>

-----------------------------------------------------------------------------
(* Calls of the application.  They are made between parse calls (pc is     *)
(* "app") or by a handler (pc is "handler").                               *)

AppRuns == pc \in {"app", "handler"} /\ (processor = "error" => doc \in ContinueAfterError)

Refuse(error) ==
    /\ errorCode' = error
    /\ status' = "ERROR"
    /\ UNCHANGED <<bufferVars, textVars, eventVars, statusVars, deferralVars,
                   callVars, processor, parseEndPtr>>

(* isCalledFromInsideHandler: refused without touching the parser. *)
RefuseInsideHandler == insideHandler /\ Refuse(errorCode)

(* The cases of the switch that XML_Parse, XML_ParseBuffer and             *)
(* XML_GetBuffer refuse.                                                   *)
RefuseStopped == ~insideHandler /\ parsing \in {"SUSPENDED", "FINISHED"} /\ Refuse(parsing)

(* startParsing: the implicit namespace context needs memory. *)
RefuseStart == ~insideHandler /\ parsing = "INITIALIZED" /\ Refuse("NO_MEMORY")

(* Mutant: a handler may ask for buffer space. *)
MayParseInsideHandler == parsing \in {"INITIALIZED", "PARSING"}

MayParse == ~insideHandler /\ parsing \in {"INITIALIZED", "PARSING"}

(* XML_ParseBuffer after its switch. *)
ParseBufferBody(len, isFinal) ==
    /\ parsing' = "PARSING"
    /\ UNCHANGED <<textVars, reparseDeferralEnabled>>
    /\ \/ /\ IndexOverflows(len)
          /\ errorCode' = "NO_MEMORY"
          /\ eventPtr' = Null
          /\ processor' = "error"
          /\ status' = "ERROR"
          /\ pc' = "app"
          /\ frame' = NoFrame
          /\ UNCHANGED <<bufferVars, positionVars, finalBuffer, parseEndPtr,
                         partialTokenBytesBefore>>
       \/ /\ ~IndexOverflows(len)
          /\ AppendInput(len)
          /\ positionPtr' = bufferPtr
          /\ parseEndPtr' = bufferEnd + len
          /\ finalBuffer' = isFinal
          /\ UNCHANGED <<processor, eventPtr, position,
                         partialTokenBytesBefore>>
          /\ IF Deferred(bufferPtr, bufferEnd + len, isFinal)
             THEN /\ errorCode' = "NONE"
                  /\ status' = "OK"
                  /\ pc' = "app"
                  /\ frame' = NoFrame
             ELSE /\ pc' = "process"
                  /\ frame' = ProcessFrame(bufferPtr)
                  /\ UNCHANGED resultVars

ParseBuffer(len, isFinal) ==
    /\ AppRuns
    /\ \/ RefuseInsideHandler
       \/ RefuseStopped
       \/ ~insideHandler /\ parsing = "INITIALIZED" /\ bufferLim = 0 /\ Refuse("NO_BUFFER")
       \/ bufferLim > 0 /\ RefuseStart
       \/ /\ MayParse
          /\ bufferLim > 0
          /\ len <= granted                  \* the caller's side of the contract
          /\ parseEndByteIndex + len <= DocLength
          /\ ParseBufferBody(len, isFinal)

(* What XML_GetBuffer does to the pointers when it moves the buffer. *)
ForgetEvents == eventPtr' = Null /\ positionPtr' = Null /\ UNCHANGED position

GetBuffer(len) ==
    /\ AppRuns
    /\ \/ RefuseInsideHandler
       \/ RefuseStopped
       \/ /\ MayParse
          /\ UNCHANGED <<textVars, statusVars, deferralVars, callVars,
                         processor, parseEndPtr>>
          /\ \/ /\ GetBufferInPlace(len)
                /\ UNCHANGED <<eventVars, resultVars>>
             \/ /\ GetBufferMoves(len)
                /\ ForgetEvents
                /\ UNCHANGED resultVars
             \/ /\ GetBufferFails(len)
                /\ errorCode' = "NO_MEMORY"
                /\ status' = "ERROR"
                /\ UNCHANGED eventVars

(* XML_Parse: its switch and XML_GetBuffer here; the memcpy and            *)
(* XML_ParseBuffer in ParseCopied, with nothing in between.                *)
Parse(len, isFinal) ==
    /\ AppRuns
    /\ \/ RefuseInsideHandler
       \/ RefuseStopped
       \/ RefuseStart
       \/ /\ MayParse
          /\ parseEndByteIndex + len <= DocLength
          /\ parsing' = "PARSING"
          /\ UNCHANGED <<textVars, deferralVars, finalBuffer, processor,
                         parseEndPtr>>
          /\ \/ /\ GetBufferInPlace(len) \/ GetBufferMoves(len)
                /\ IF NeedsRoom(len) THEN ForgetEvents
                                     ELSE UNCHANGED eventVars
                /\ pc' = "copied"
                /\ frame' = CopyFrame(len, isFinal)
                /\ UNCHANGED resultVars
             \/ /\ GetBufferFails(len)
                /\ errorCode' = "NO_MEMORY"
                /\ status' = "ERROR"
                /\ UNCHANGED <<eventVars, callVars>>

(* Mutant: one byte more than was copied. *)
ParseCopiedOffByOne == pc = "copied" /\ ParseBufferBody(frame.len + 1, frame.isFinal)

ParseCopied == pc = "copied" /\ ParseBufferBody(frame.len, frame.isFinal)

(* XML_Parse with a negative length: recorded before the handler check. *)
ParseInvalid == AppRuns /\ Refuse("INVALID_ARGUMENT")

(* XML_StopParser.  The documented contract: from within a handler, or to  *)
(* abort a suspended parser; never between two parse calls.                *)
StopParser(resumable) ==
    /\ AppRuns
    /\ \/ /\ parsing = "INITIALIZED"
          /\ Refuse("NOT_STARTED")
       \/ /\ parsing = "FINISHED" \/ (parsing = "SUSPENDED" /\ resumable)
          /\ Refuse(parsing)
       \/ /\ \/ parsing = "SUSPENDED" /\ ~resumable
             \/ parsing = "PARSING" /\ insideHandler
          /\ parsing' = IF resumable THEN "SUSPENDED" ELSE "FINISHED"
          /\ UNCHANGED <<bufferVars, textVars, eventVars, deferralVars,
                         callVars, resultVars, finalBuffer, processor, parseEndPtr>>

ResumeParser ==
    /\ AppRuns
    /\ \/ RefuseInsideHandler
       \/ ~insideHandler /\ parsing # "SUSPENDED" /\ Refuse("NOT_SUSPENDED")
       \/ /\ ~insideHandler /\ parsing = "SUSPENDED"
          /\ parsing' = "PARSING"
          /\ IF Deferred(bufferPtr, parseEndPtr, finalBuffer)
             THEN /\ errorCode' = "NONE"
                  /\ status' = "OK"
                  /\ PositionUpTo(bufferPtr)
                  /\ UNCHANGED callVars
             ELSE /\ pc' = "process"
                  /\ frame' = ProcessFrame(bufferPtr)
                  /\ UNCHANGED <<positionVars, resultVars>>
          /\ UNCHANGED <<bufferVars, textVars, deferralVars, finalBuffer,
                         processor, parseEndPtr, eventPtr>>

ParserReset ==
    /\ pc \in {"app", "handler"}
    /\ resets < MaxResets[doc]
    /\ \/ RefuseInsideHandler
       \/ /\ ~insideHandler
          /\ BufferReset
          /\ parsing' = "INITIALIZED"
          /\ errorCode' = "NONE"
          /\ processor' = "content"
          /\ entity' = NoEntity
          /\ parseEndPtr' = Null
          /\ eventPtr' = Null
          /\ positionPtr' = Null
          /\ position' = 0
          /\ partialTokenBytesBefore' = 0
          /\ reparseDeferralEnabled' = TRUE
          /\ status' = "OK"
          /\ log' = <<>>
          /\ resets' = resets + 1
          /\ UNCHANGED <<callVars, doc, finalBuffer>>

SetReparseDeferralEnabled(enabled) ==
    /\ AppRuns
    /\ reparseDeferralEnabled' = enabled
    /\ UNCHANGED <<bufferVars, textVars, eventVars, statusVars, callVars,
                   resultVars, processor, parseEndPtr, partialTokenBytesBefore>>

(* XML_GetCurrentLineNumber and XML_GetCurrentColumnNumber.  The bound     *)
(* only matters after an error, where each parse call followed by one of   *)
(* these counts the bytes up to the event again.                           *)
GetCurrentLineNumber ==
    /\ pc \in {"app", "handler"}
    /\ position <= IndexMax
    /\ eventPtr # Null /\ eventPtr >= positionPtr
    /\ PositionUpTo(eventPtr)
    /\ UNCHANGED <<bufferVars, textVars, statusVars, deferralVars, callVars,
                   resultVars, processor, parseEndPtr, eventPtr>>

-----------------------------------------------------------------------------
(* The processors, one token at a time. *)

TokensAt(s) == {i \in 1..Len(doc) : doc[i].start = mem[s]}

(* The bytes in the buffer at s are the beginning of token i. *)
Shows(i, s) ==
    \A j \in 0..(doc[i].len - 1) :
        s + j < parseEndPtr => mem[s + j] = doc[i].start + j

Call(n) == log' = Append(log, n) /\ pc' = "handler"

ContentRuns == pc = "process" /\ processor = "content"

(* No token, or an incomplete one, at the end of the data. *)
ContentNone ==
    /\ ContentRuns
    /\ frame.s = parseEndPtr
    /\ eventPtr' = frame.s
    /\ IF finalBuffer /\ parseEndByteIndex < DocLength
       THEN ReturnError("NO_ELEMENTS")
       ELSE ReturnNone(frame.s) /\ UNCHANGED processor
    /\ UNCHANGED textVars

ContentPartial ==
    /\ ContentRuns
    /\ frame.s < parseEndPtr
    /\ \E i \in TokensAt(frame.s) :
          Shows(i, frame.s) /\ frame.s + doc[i].len > parseEndPtr
    /\ eventPtr' = frame.s
    /\ IF finalBuffer
       THEN ReturnError("UNCLOSED_TOKEN")
       ELSE ReturnNone(frame.s) /\ UNCHANGED processor
    /\ UNCHANGED textVars

ContentInvalid ==
    /\ ContentRuns
    /\ frame.s < parseEndPtr
    /\ \A i \in TokensAt(frame.s) :
          Shows(i, frame.s) =>
            doc[i].kind = "bad" /\ frame.s + doc[i].len <= parseEndPtr
    /\ eventPtr' = frame.s
    /\ ReturnError("INVALID_TOKEN")
    /\ UNCHANGED textVars

CompleteToken(i, s) ==
    i \in TokensAt(s) /\ Shows(i, s) /\ s + doc[i].len <= parseEndPtr

ContentCallback ==
    /\ ContentRuns
    /\ frame.s < parseEndPtr
    /\ \E i \in 1..Len(doc) :
          /\ CompleteToken(i, frame.s)
          /\ doc[i].kind \in {"data", "empty"}
          /\ Call(doc[i].first + 1)
          /\ frame' = [frame EXCEPT !.calls = doc[i].calls - 1]
    /\ eventPtr' = frame.s
    /\ UNCHANGED <<bufferVars, positionVars, statusVars, deferralVars,
                   resultVars, doc, processor, entity, parseEndPtr, resets>>

(* processEntity: the reference is consumed, and callProcessor goes round  *)
(* its loop with internalEntityProcessor.                                  *)
ContentEntityRef ==
    /\ ContentRuns
    /\ frame.s < parseEndPtr
    /\ \E i \in 1..Len(doc) :
          /\ CompleteToken(i, frame.s)
          /\ doc[i].kind = "ref"
          /\ entity' = [token |-> i, left |-> doc[i].calls, hasMore |-> TRUE]
          /\ Consume(frame.s + doc[i].len)
    /\ processor' = "entity"
    /\ eventPtr' = frame.s
    /\ UNCHANGED <<positionVars, statusVars, deferralVars, callVars,
                   resultVars, doc, parseEndPtr, log, resets>>

EntityRuns == pc = "process" /\ processor = "entity"

EntityCallback ==
    /\ EntityRuns
    /\ entity.hasMore /\ entity.left > 0
    /\ LET t == doc[entity.token] IN Call(t.first + t.calls - entity.left + 1)
    /\ UNCHANGED <<bufferVars, eventVars, statusVars, deferralVars,
                   resultVars, doc, processor, entity, parseEndPtr, frame, resets>>

(* internalEntityProcessor has reached the end of the text. *)
EntityTextEnd ==
    /\ EntityRuns
    /\ entity.hasMore /\ entity.left = 0
    /\ entity' = [entity EXCEPT !.hasMore = FALSE]
    /\ IF doc[entity.token].async
       THEN ReturnError("ASYNC_ENTITY")
       ELSE UNCHANGED <<bufferVars, positionVars, statusVars, deferralVars,
                        callVars, resultVars, processor, parseEndPtr>>
    /\ UNCHANGED <<doc, eventPtr, log, resets>>

EntityClose ==
    /\ EntityRuns
    /\ ~entity.hasMore
    /\ entity' = NoEntity
    /\ processor' = "content"
    /\ frame' = [frame EXCEPT !.s = bufferPtr]
    /\ UNCHANGED <<bufferVars, eventVars, statusVars, deferralVars,
                   resultVars, doc, parseEndPtr, pc, log, resets>>

(* errorProcessor returns m_errorCode, which may have become NONE. *)
ErrorProcessor ==
    /\ pc = "process" /\ processor = "error"
    /\ IF errorCode # "NONE" THEN ReturnError(errorCode)
                             ELSE ReturnNone(frame.start) /\ UNCHANGED processor
    /\ UNCHANGED <<textVars, eventPtr>>

-----------------------------------------------------------------------------
(* A handler returns to doContent. *)

(* The end callback of an empty element follows its start callback. *)
HandlerReturnsInToken ==
    /\ insideHandler /\ processor = "content" /\ frame.calls > 0
    /\ \E i \in 1..Len(doc) :
          /\ CompleteToken(i, frame.s)
          /\ Call(doc[i].first + doc[i].calls - frame.calls + 1)
          /\ eventPtr' = frame.s + doc[i].len
    /\ frame' = [frame EXCEPT !.calls = @ - 1]
    /\ UNCHANGED <<bufferVars, positionVars, statusVars, deferralVars,
                   resultVars, doc, processor, entity, parseEndPtr, resets>>

(* doContent goes on with the next token. *)
ContinueAt(next) ==
    /\ frame' = [frame EXCEPT !.s = next]
    /\ pc' = "process"
    /\ UNCHANGED <<bufferVars, positionVars, statusVars, deferralVars,
                   resultVars, processor, parseEndPtr>>

(* Mutants: the token is parsed again on resuming; a suspension is         *)
(* overlooked.                                                             *)
AfterTokenRepeats(next) ==
    /\ eventPtr' = next
    /\ \/ parsing = "SUSPENDED" /\ ReturnNone(frame.s) /\ UNCHANGED processor
       \/ parsing = "FINISHED" /\ ReturnError("ABORTED")
       \/ parsing = "PARSING" /\ ContinueAt(next)
AfterTokenNoSuspend(next) ==
    /\ eventPtr' = next
    /\ \/ parsing = "FINISHED" /\ ReturnError("ABORTED")
       \/ parsing # "FINISHED" /\ ContinueAt(next)

(* The switch on m_parsingStatus.parsing behind every token. *)
AfterToken(next) ==
    /\ eventPtr' = next
    /\ \/ parsing = "SUSPENDED" /\ ReturnNone(next) /\ UNCHANGED processor
       \/ parsing = "FINISHED" /\ ReturnError("ABORTED")
       \/ parsing = "PARSING" /\ ContinueAt(next)

HandlerReturns ==
    /\ insideHandler /\ processor = "content" /\ frame.calls = 0
    /\ \E i \in 1..Len(doc) :
          CompleteToken(i, frame.s) /\ AfterToken(frame.s + doc[i].len)
    /\ UNCHANGED textVars

(* In the text of an entity the callback for a trailing ']' is not         *)
(* followed by the switch; at the end of the text the entity is done even  *)
(* when the parser was just suspended.                                     *)
HandlerReturnsInEntity ==
    /\ insideHandler /\ processor = "entity"
    /\ LET t == doc[entity.token]
           left == entity.left - 1
           checked == left > 0 \/ ~t.trailing
       IN  \/ /\ parsing = "FINISHED" /\ checked
              /\ ReturnError("ABORTED")
              /\ UNCHANGED entity
           \/ /\ parsing = "PARSING"
              /\ entity' = [entity EXCEPT !.left = left]
              /\ pc' = "process"
              /\ UNCHANGED <<bufferVars, positionVars, statusVars,
                             deferralVars, resultVars, processor, parseEndPtr, frame>>
           \/ /\ parsing = "SUSPENDED" \/ (parsing = "FINISHED" /\ ~checked)
              /\ entity' = [entity EXCEPT !.left = left, !.hasMore = left > 0]
              /\ IF left = 0 /\ t.async
                 THEN ReturnError("ASYNC_ENTITY")
                 ELSE ReturnNone(bufferPtr) /\ UNCHANGED processor
    /\ UNCHANGED <<doc, eventPtr, log, resets>>

AppCalls ==
    \/ \E len \in 0..MaxRequest, isFinal \in BOOLEAN :
          Parse(len, isFinal) \/ ParseBuffer(len, isFinal)
    \/ \E len \in 0..MaxRequest : GetBuffer(len)
    \/ \E resumable \in BOOLEAN : StopParser(resumable)
    \/ ParseInvalid
    \/ ResumeParser
    \/ ParserReset
    \/ \E enabled \in BOOLEAN : SetReparseDeferralEnabled(enabled)
    \/ GetCurrentLineNumber

Processes ==
    \/ ParseCopied
    \/ ContentNone \/ ContentPartial \/ ContentInvalid \/ ContentCallback
    \/ ContentEntityRef
    \/ EntityCallback \/ EntityTextEnd \/ EntityClose
    \/ ErrorProcessor

Returns == HandlerReturnsInToken \/ HandlerReturns \/ HandlerReturnsInEntity

Next == AppCalls \/ Processes \/ Returns

Spec == Init /\ [][Next]_vars

-----------------------------------------------------------------------------
(* However the document is cut into pieces, wherever a handler suspends    *)
(* the parse and however the buffer was moved in between, the callbacks    *)
(* come in document order, none missing and none twice.                    *)
CallbacksInOrder == log = [i \in 1..Len(log) |-> i]

(* And a parse call that returns XML_STATUS_OK for the final piece has     *)
(* made every callback of the document: nothing is left deferred.  Calls   *)
(* made after an error are left out: that they may return XML_STATUS_OK is *)
(* the subject of ErrorStays.                                              *)
CallbacksAreDocument ==
    /\ CallbacksInOrder
    /\ (pc = "app" /\ parsing = "FINISHED" /\ status = "OK" /\ processor # "error")
         => Len(log) = Callbacks

(* XML_GetCurrentByteIndex is computed from m_parseEndPtr and m_eventPtr;  *)
(* at a callback outside entities it is the position of the token being    *)
(* reported (of its end, for the end callback of an empty element).        *)
ByteIndex == parseEndByteIndex - (parseEndPtr - eventPtr)

EventIsToken ==
    (insideHandler /\ processor = "content") =>
        \E i \in 1..Len(doc) :
            /\ log[Len(log)] \in (doc[i].first + 1)..(doc[i].first + doc[i].calls)
            /\ ByteIndex = doc[i].start
                  + IF log[Len(log)] > doc[i].first + 1 THEN doc[i].len ELSE 0

(* Lines and columns are counted once per byte: what m_position has        *)
(* counted ends exactly at m_positionPtr, or at m_bufferPtr when the       *)
(* buffer has moved since, whenever the application asks and wherever the  *)
(* parse is cut or suspended.  The byte index is that of the token.        *)
PositionsAreExact ==
    /\ EventIsToken
    /\ processor # "error" =>
         position = StreamIndex(IF positionPtr = Null THEN bufferPtr ELSE positionPtr)

(* While a suspended parser waits, everything that was received is still   *)
(* there for XML_ResumeParser, which parses up to m_parseEndPtr.           *)
SuspendedKeepsInput ==
    (pc = "app" /\ parsing = "SUSPENDED") => parseEndPtr = bufferEnd

(* The processors hold pointers into the buffer across callbacks: while a  *)
(* parse call is in progress nothing moves, frees or extends the buffer.   *)
BufferIsPinned ==
    [][(pc \in {"process", "handler"})
         => UNCHANGED <<mem, bufferEnd, bufferLim, parseEndByteIndex>>]_vars

(* XML_StopParser in a handler ends the parse call: the call returns       *)
(* XML_STATUS_ERROR with XML_ERROR_ABORTED, or XML_STATUS_SUSPENDED unless *)
(* an error was found on the way out.                                      *)
AbortIsReported ==
    [][(insideHandler /\ parsing = "FINISHED" /\ pc' = "app")
         => status' = "ERROR" /\ errorCode' = "ABORTED"]_vars
SuspendIsReported ==
    [][(insideHandler /\ parsing = "SUSPENDED" /\ pc' # "handler")
         => pc' = "app" /\ (status' = "SUSPENDED" \/ processor' = "error")]_vars

(* A stop from a handler ends the parse call and is what it reports        *)
(* (XML_StopParser, whether resumable or not).                             *)
StopsAreReported == AbortIsReported /\ SuspendIsReported

(* Every parse call returns: callProcessor's loop over m_reenter ends.     *)
EveryCallReturns == pc # "app" ~> pc = "app"

(* An XML_STATUS_OK return leaves no internal entity half processed.       *)
OkLeavesNoEntityOpen ==
    (pc = "app" /\ parsing = "PARSING" /\ status = "OK") => processor # "entity"

(* Once a parse call has failed, the parse calls after it fail.            *)
ErrorStays == (pc = "app" /\ processor = "error") => status = "ERROR"

(* What a processor may find wrong with the document, or an abort. *)
DocumentErrors == {"NO_ELEMENTS", "UNCLOSED_TOKEN", "INVALID_TOKEN",
                   "ASYNC_ENTITY", "ABORTED"}

(* After an error nothing more of the document is reported and no byte is  *)
(* consumed until XML_ParserReset, whatever the application goes on to     *)
(* call and whatever m_errorCode has become: m_processor stays             *)
(* errorProcessor.                                                         *)
ErrorSilences ==
    [][((processor = "error" \/ errorCode \in DocumentErrors) /\ resets' = resets)
         => /\ processor' = "error"
            /\ log' = log
            /\ StreamIndex(bufferPtr)' = StreamIndex(bufferPtr)]_vars

(* The parser's operations on the buffer are those of InputBuffer, so what *)
(* holds of the buffer alone holds of it inside the parser.                *)
ImplementsBuffer == BufferSpec

-----------------------------------------------------------------------------
(* The processors and the handlers run to their end, as a single-threaded  *)
(* program's calls do.                                                     *)
FairSpec == Spec /\ WF_vars(Processes) /\ WF_vars(Returns)

(* An application that keeps feeding the document, ends it, and resumes    *)
(* the parser when a handler has suspended it.                             *)
Feed   == pc = "app" /\ \E len \in 1..MaxRequest : Parse(len, FALSE) /\ pc' = "copied"
Finish == pc = "app" /\ parseEndByteIndex = DocLength
            /\ Parse(0, TRUE) /\ pc' = "copied"
Resume == pc = "app" /\ parsing = "SUSPENDED" /\ ResumeParser
FeedSpec == FairSpec /\ SF_vars(Feed) /\ SF_vars(Finish) /\ SF_vars(Resume)

(* It gets to the end of the document, or to an error, whatever the        *)
(* lengths, the deferrals and the suspensions on the way; and each of its  *)
(* calls returns, also those after an error.                               *)
ParseCompletes == EveryCallReturns /\ <>(parsing = "FINISHED" \/ processor = "error")
=============================================================================
