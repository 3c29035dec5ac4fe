--------------------------- MODULE DocumentProofs ---------------------------
(***************************************************************************)
(* What the application sees of a document, for every set of documents,    *)
(* every way to cut one into pieces and every application: the callbacks   *)
(* come in document order, positions are exact, a stop is reported and an  *)
(* error is final.                                                         *)
(***************************************************************************)
EXTENDS PushParserProofs, NaturalsInduction, WellFoundedInduction

-----------------------------------------------------------------------------
(* A non-empty set of naturals has a least member: induction on data, from *)
(* the well-foundedness of < on Nat.                                       *)

LEMMA MinimalIn ==
    ASSUME NEW R, IsWellFoundedOn(R, Nat), NEW S \in SUBSET Nat, S # {}
    PROVE  \E m \in S : \A k \in S : ~(<<k, m>> \in R)
BY WFMin, Zenon

LEMMA LeastIn ==
    ASSUME NEW R, IsWellFoundedOn(R, Nat), \A k, m \in Nat : k < m => <<k, m>> \in R,
           NEW S \in SUBSET Nat, S # {}
    PROVE  \E m \in S : \A k \in S : ~(k < m)
<1>1. \E m \in S : \A k \in S : ~(<<k, m>> \in R) BY MinimalIn, Zenon
<1>2. S \subseteq Nat OBVIOUS
<1>3. ASSUME NEW m \in S, NEW k \in S, ~(<<k, m>> \in R) PROVE ~(k < m)
  BY <1>2, <1>3, Zenon
<1> QED BY <1>1, <1>3, Zenon

LEMMA LeastNatural ==
    ASSUME NEW S \in SUBSET Nat, S # {}
    PROVE  \E m \in S : \A k \in S : m <= k
<1>1. \A k, m \in Nat : k < m => <<k, m>> \in OpToRel(<, Nat) BY Zenon DEF OpToRel
<1>2. \E m \in S : \A k \in S : ~(k < m)
  BY <1>1, NatLessThanWellFounded, LeastIn, Zenon
<1> QED BY <1>2

-----------------------------------------------------------------------------
(* The tokens of a document lie one behind the other. *)

LEMMA TokenTypes ==
    ASSUME NEW d \in Docs, NEW i \in 1..Len(d)
    PROVE  /\ d[i].start \in Nat /\ d[i].len \in Nat \ {0}
           /\ d[i].first \in Nat /\ d[i].calls \in Nat
           /\ d[i].kind = "data" => d[i].calls = 1
           /\ d[i].kind = "empty" => d[i].calls = 2
BY DocsAssumption DEF IsToken

LEMMA DocLen ==
    ASSUME NEW d \in Docs
    PROVE  Len(d) \in Nat \ {0}
BY DocsAssumption

LEMMA TokensAreOrdered ==
    ASSUME NEW d \in Docs, NEW i \in 1..Len(d), NEW j \in 1..Len(d), i < j
    PROVE  d[i].start + d[i].len <= d[j].start
<1> DEFINE Late == {k \in 1..Len(d) : i < k /\ ~(d[i].start + d[i].len <= d[k].start)}
<1>1. SUFFICES ASSUME Late # {} PROVE FALSE
  OBVIOUS
<1>2. Len(d) \in Nat BY DocLen
<1>3. Late \in SUBSET Nat BY <1>2
<1>4. PICK m \in Late : \A k \in Late : m <= k
  <2> HIDE DEF Late
  <2> QED BY <1>1, <1>3, LeastNatural
<1>5. m \in 1..Len(d) /\ i < m /\ ~(d[i].start + d[i].len <= d[m].start)
  OBVIOUS
<1> DEFINE p == m - 1
<1>6. p \in 1..(Len(d) - 1) /\ p \in 1..Len(d) /\ p < m /\ p + 1 = m
  BY <1>2, <1>5
<1>7. d[m].start = d[p].start + d[p].len
  BY <1>6, DocsAssumption
<1>8. /\ d[i].start \in Nat /\ d[i].len \in Nat
      /\ d[p].start \in Nat /\ d[p].len \in Nat
  BY <1>6, TokenTypes, Zenon
<1>9. CASE p = i
  <2>1. d[m].start = d[i].start + d[i].len BY <1>7, <1>9
  <2> HIDE DEF p, Late
  <2> QED BY <1>5, <1>8, <2>1
<1>10. CASE p # i
  <2>1. i < p /\ p \notin Late BY <1>4, <1>5, <1>6, <1>10
  <2>2. d[i].start + d[i].len <= d[p].start BY <1>6, <2>1
  <2> HIDE DEF p, Late
  <2>3. d[i].start + d[i].len <= d[m].start BY <1>7, <1>8, <2>2, SMTT(30)
  <2> QED BY <1>5, <2>3
<1> QED BY <1>9, <1>10

(* No two tokens begin at one place, and all of them end in the document.  *)
LEMMA TokensAreApart ==
    ASSUME NEW d \in Docs, NEW i \in 1..Len(d), NEW j \in 1..Len(d),
           d[i].start = d[j].start
    PROVE  i = j
<1>1. /\ d[i].start \in Nat /\ d[i].len \in Nat \ {0}
      /\ d[j].start \in Nat /\ d[j].len \in Nat \ {0}
  BY TokenTypes
<1>2. ~(i < j)
  <2> SUFFICES ASSUME i < j PROVE FALSE OBVIOUS
  <2>1. d[i].start + d[i].len <= d[j].start BY TokensAreOrdered
  <2> QED BY <1>1, <2>1
<1>3. ~(j < i)
  <2> SUFFICES ASSUME j < i PROVE FALSE OBVIOUS
  <2>1. d[j].start + d[j].len <= d[i].start BY TokensAreOrdered
  <2> QED BY <1>1, <2>1
<1> QED BY <1>2, <1>3, DocLen

LEMMA TokensEnd ==
    ASSUME doc \in Docs, NEW i \in 1..Len(doc)
    PROVE  doc[i].start < DocLength
<1> DEFINE n == Len(doc)
<1>1. n \in 1..n /\ n \in Nat BY DocLen
<1>2. /\ doc[i].start \in Nat /\ doc[i].len \in Nat \ {0}
      /\ doc[n].start \in Nat /\ doc[n].len \in Nat \ {0}
  BY <1>1, TokenTypes
<1>3. CASE i = n BY <1>2, <1>3 DEF DocLength
<1>4. CASE i < n
  <2>1. doc[i].start + doc[i].len <= doc[n].start BY <1>1, <1>4, TokensAreOrdered
  <2> QED BY <1>2, <2>1 DEF DocLength
<1> QED BY <1>1, <1>3, <1>4

LEMMA DocNumbers ==
    ASSUME doc \in Docs
    PROVE  DocLength \in Nat \ {0} /\ Callbacks \in Nat
<1>1. Len(doc) \in 1..Len(doc) BY DocLen
<1> QED BY <1>1, TokenTypes DEF DocLength, Callbacks

(* pos is where the token behind the first n callbacks begins, or the end  *)
(* of the document when all of them were made.                             *)
At(pos, n) ==
    \/ \E i \in 1..Len(doc) : doc[i].start = pos /\ doc[i].first = n
    \/ pos = DocLength /\ n = Callbacks

LEMMA AtStart == ASSUME doc \in Docs PROVE At(0, 0)
<1>1. 1 \in 1..Len(doc) BY DocLen
<1>2. doc[1].start = 0 /\ doc[1].first = 0 BY DocsAssumption
<1> QED BY <1>1, <1>2 DEF At

LEMMA AtToken ==
    ASSUME doc \in Docs, NEW n, NEW i \in 1..Len(doc), At(doc[i].start, n)
    PROVE  n = doc[i].first
<1>1. doc[i].start # DocLength
  <2>1. doc[i].start < DocLength BY TokensEnd
  <2> QED BY <2>1, DocNumbers, TokenTypes
<1>2. PICK j \in 1..Len(doc) : doc[j].start = doc[i].start /\ doc[j].first = n
  BY <1>1 DEF At
<1>3. i = j BY <1>2, TokensAreApart
<1> QED BY <1>2, <1>3

LEMMA AtNextToken ==
    ASSUME doc \in Docs, NEW i \in 1..Len(doc)
    PROVE  At(doc[i].start + doc[i].len, doc[i].first + doc[i].calls)
<1>1. CASE i = Len(doc) BY <1>1 DEF At, DocLength, Callbacks
<1>2. CASE i # Len(doc)
  <2>1. i \in 1..(Len(doc) - 1) /\ i + 1 \in 1..Len(doc) BY <1>2, DocLen
  <2>2. /\ doc[i + 1].start = doc[i].start + doc[i].len
        /\ doc[i + 1].first = doc[i].first + doc[i].calls
    BY <2>1, DocsAssumption, Zenon
  <2> QED BY <2>1, <2>2 DEF At
<1> QED BY <1>1, <1>2

LEMMA AtEnd ==
    ASSUME doc \in Docs, NEW n, At(DocLength, n)
    PROVE  n = Callbacks
<1>1. \A i \in 1..Len(doc) : doc[i].start # DocLength
  <2> TAKE i \in 1..Len(doc)
  <2>1. doc[i].start < DocLength BY TokensEnd
  <2> QED BY <2>1, DocNumbers, TokenTypes
<1> QED BY <1>1 DEF At

-----------------------------------------------------------------------------
(* Where the parser stands in the document, and which callbacks it has     *)
(* made.                                                                   *)

(* Token i is being reported: frame.calls of its callbacks are to come.    *)
Reporting(i) ==
    /\ CompleteToken(i, frame.s)
    /\ doc[i].kind \in {"data", "empty"}
    /\ StreamIndex(frame.s) = doc[i].start
    /\ frame.calls \in 0..(doc[i].calls - 1)
    /\ Len(log) = doc[i].first + doc[i].calls - frame.calls
    /\ eventPtr = frame.s + IF frame.calls = doc[i].calls - 1 THEN 0 ELSE doc[i].len

ContentInv ==
    processor = "content" =>
        /\ (pc \in {"app", "copied"}) => At(StreamIndex(bufferPtr), Len(log))
        /\ pc = "process" => At(StreamIndex(frame.s), Len(log))
        /\ pc = "handler" => \E i \in 1..Len(doc) : Reporting(i)

(* The reference to the open entity is consumed; left of its callbacks are *)
(* to come, one of them being made while a handler runs.                   *)
EntityRecord == [token : Nat, left : Int, hasMore : BOOLEAN]

EntityInv ==
    processor = "entity" =>
        /\ entity \in EntityRecord
        /\ entity.token \in 1..Len(doc)
        /\ entity.left \in 0..doc[entity.token].calls
        /\ StreamIndex(bufferPtr) = doc[entity.token].start + doc[entity.token].len
        /\ pc = "handler" => entity.left > 0
        /\ ~entity.hasMore => entity.left = 0
        /\ Len(log) = doc[entity.token].first + doc[entity.token].calls - entity.left
                        + IF pc = "handler" THEN 1 ELSE 0

LogInv ==
    /\ log \in Seq(Nat)
    /\ \A i \in 1..Len(log) : log[i] = i
    /\ processor \in {"content", "entity", "error"}
    /\ parseEndByteIndex <= DocLength
    /\ pc = "copied" => parseEndByteIndex + frame.len <= DocLength
    /\ ContentInv
    /\ EntityInv

LEMMA Numbers ==
    ASSUME BufferInv, CallInv
    PROVE  /\ bufferPtr \in Nat /\ bufferEnd \in Nat /\ bufferPtr <= bufferEnd
           /\ parseEndByteIndex \in Nat /\ bufferEnd <= parseEndByteIndex
           /\ frame.s \in Int /\ frame.calls \in Int /\ frame.len \in Int
           /\ frame.start \in Int
BY BufferAssumption DEF BufferInv, BufferTypeOK, WindowIsInput, CallInv, Frames

(* Nothing of the buffer that the calls of the application change is seen. *)
LEMMA IndexKept ==
    ASSUME BufferInv, NEW len \in Nat,
           \/ GetBufferInPlace(len) \/ GetBufferMoves(len) \/ GetBufferFails(len)
           \/ AppendInput(len)
    PROVE  StreamIndex(bufferPtr)' = StreamIndex(bufferPtr)
<1>1. /\ bufferPtr \in Nat /\ bufferEnd \in Nat /\ parseEndByteIndex \in Nat
      /\ Keep \in Nat /\ len \in Nat
  BY BufferAssumption DEF BufferInv, BufferTypeOK, Keep, Lesser
<1>2. CASE GetBufferInPlace(len) \/ GetBufferFails(len)
  BY <1>2 DEF GetBufferInPlace, GetBufferFails, StreamIndex
<1>3. CASE AppendInput(len)
  BY <1>1, <1>3 DEF AppendInput, StreamIndex
<1>4. CASE GetBufferMoves(len)
  <2>1. CASE Slide(len)
    BY <1>1, <1>4, <2>1 DEF Slide, GetBufferMoves, StreamIndex
  <2>2. ASSUME NEW n, SetParserBuffer(n) PROVE StreamIndex(bufferPtr)' = StreamIndex(bufferPtr)
    BY <1>1, <1>4, <2>2 DEF SetParserBuffer, GetBufferMoves, StreamIndex
  <2> QED BY <1>4, <2>1, <2>2 DEF GetBufferMoves
<1> QED BY <1>2, <1>3, <1>4

(* A step that makes no callback, moves no cursor and leaves the buffer    *)
(* alone while doContent looks at it.                                      *)
LEMMA QuietStep ==
    ASSUME LogInv, UNCHANGED <<doc, log, entity, processor, pc, frame, parseEndByteIndex>>,
           StreamIndex(bufferPtr)' = StreamIndex(bufferPtr),
           (pc \in {"process", "handler"})
              => UNCHANGED <<mem, bufferEnd, parseEndPtr, eventPtr>>
    PROVE  LogInv'
<1>1. ContentInv'
  <2>1. \A n : At(StreamIndex(bufferPtr), n)' <=> At(StreamIndex(bufferPtr), n)
    BY DEF At, DocLength, Callbacks
  <2>2. (pc \in {"process", "handler"}) => StreamIndex(frame.s)' = StreamIndex(frame.s)
    BY DEF StreamIndex
  <2>3. pc = "process" => (At(StreamIndex(frame.s), Len(log))' <=> At(StreamIndex(frame.s), Len(log)))
    BY <2>2 DEF At, DocLength, Callbacks
  <2>4. ASSUME pc = "handler", NEW i PROVE Reporting(i)' <=> Reporting(i)
    BY <2>2, <2>4 DEF Reporting, CompleteToken, TokensAt, Shows
  <2> QED BY <2>1, <2>3, <2>4 DEF LogInv, ContentInv
<1>2. EntityInv' BY DEF LogInv, EntityInv
<1> QED BY <1>1, <1>2 DEF LogInv, DocLength

LEMMA QuietRefuse ==
    ASSUME LogInv, NEW error, Refuse(error)
    PROVE  LogInv'
BY QuietStep DEF Refuse, textVars, callVars, bufferVars, eventVars, StreamIndex

(* To "error", where nothing but the callbacks made so far is known.       *)
LEMMA ErrorStep ==
    ASSUME LogInv, UNCHANGED <<doc, log, parseEndByteIndex>>,
           processor' = "error", pc' = "app"
    PROVE  LogInv'
BY DEF LogInv, ContentInv, EntityInv, DocLength

LEMMA LogParseBufferBody ==
    ASSUME BufferInv, CallInv, LogInv, NEW len \in Nat, NEW isFinal \in BOOLEAN,
           ParseBufferBody(len, isFinal), pc \in {"app", "copied"},
           parseEndByteIndex + len <= DocLength
    PROVE  LogInv'
<1>1. CASE IndexOverflows(len)
  BY <1>1, ErrorStep DEF ParseBufferBody, textVars, bufferVars
<1>2. CASE ~IndexOverflows(len)
  <2>1. /\ UNCHANGED <<doc, log, entity, processor>>
        /\ AppendInput(len)
        /\ \/ pc' = "app"
           \/ pc' = "process" /\ frame' = ProcessFrame(bufferPtr)
    BY <1>2 DEF ParseBufferBody, textVars
  <2>2. StreamIndex(bufferPtr)' = StreamIndex(bufferPtr) BY <2>1, IndexKept
  <2>3. parseEndByteIndex' <= DocLength' BY <2>1 DEF AppendInput, DocLength
  <2>4. ContentInv'
    <3>1. pc' = "process" => frame'.s = bufferPtr'
      BY <2>1, Numbers, ProcessFrameLemma DEF AppendInput
    <3>2. processor = "content" => At(StreamIndex(bufferPtr), Len(log))'
      BY <2>1, <2>2 DEF LogInv, ContentInv, At, DocLength, Callbacks
    <3>3. pc' = "process" => StreamIndex(frame.s)' = StreamIndex(bufferPtr)'
      BY <3>1 DEF StreamIndex
    <3>4. (processor = "content" /\ pc' = "process") => At(StreamIndex(frame.s), Len(log))'
      BY <3>2, <3>3 DEF At
    <3> QED BY <2>1, <3>2, <3>4 DEF ContentInv
  <2>5. EntityInv' BY <2>1, <2>2 DEF LogInv, EntityInv
  <2> QED BY <2>1, <2>3, <2>4, <2>5 DEF LogInv
<1> QED BY <1>1, <1>2

LEMMA LogParseBuffer ==
    ASSUME BufferInv, CallInv, LogInv, NEW len \in 0..MaxRequest, NEW isFinal \in BOOLEAN,
           ParseBuffer(len, isFinal)
    PROVE  LogInv'
<1>1. CASE \E error : Refuse(error) BY <1>1, QuietRefuse
<1>2. CASE MayParse /\ parseEndByteIndex + len <= DocLength /\ ParseBufferBody(len, isFinal)
  <2>1. pc \in {"app", "copied"}
    BY <1>2 DEF ParseBuffer, AppRuns, MayParse, insideHandler
  <2> QED BY <1>2, <2>1, BufferAssumption, LogParseBufferBody
<1> QED BY <1>1, <1>2 DEF ParseBuffer, RefuseInsideHandler, RefuseStopped, RefuseStart

LEMMA LogGetBuffer ==
    ASSUME BufferInv, CallInv, LogInv, NEW len \in 0..MaxRequest, GetBuffer(len)
    PROVE  LogInv'
<1>1. CASE \E error : Refuse(error) BY <1>1, QuietRefuse
<1>2. CASE /\ MayParse
           /\ UNCHANGED <<textVars, callVars, processor>>
           /\ GetBufferInPlace(len) \/ GetBufferMoves(len) \/ GetBufferFails(len)
  <2>1. pc = "app" BY <1>2 DEF GetBuffer, AppRuns, MayParse, insideHandler
  <2>2. parseEndByteIndex' = parseEndByteIndex
    BY <1>2 DEF GetBufferInPlace, GetBufferMoves, GetBufferFails
  <2> QED BY <1>2, <2>1, <2>2, BufferAssumption, IndexKept, QuietStep DEF textVars, callVars
<1> QED BY <1>1, <1>2 DEF GetBuffer, RefuseInsideHandler, RefuseStopped

LEMMA LogParse ==
    ASSUME BufferInv, CallInv, LogInv, NEW len \in 0..MaxRequest, NEW isFinal \in BOOLEAN,
           Parse(len, isFinal)
    PROVE  LogInv'
<1>1. CASE \E error : Refuse(error) BY <1>1, QuietRefuse
<1> DEFINE Common == MayParse /\ UNCHANGED <<textVars, processor>>
<1>2. CASE Common /\ GetBufferFails(len) /\ UNCHANGED callVars
  <2>1. pc = "app" BY <1>2 DEF Parse, AppRuns, MayParse, insideHandler
  <2>2. parseEndByteIndex' = parseEndByteIndex BY <1>2 DEF GetBufferFails
  <2> QED BY <1>2, <2>1, <2>2, BufferAssumption, IndexKept, QuietStep DEF textVars, callVars
<1>3. CASE /\ Common
           /\ GetBufferInPlace(len) \/ GetBufferMoves(len)
           /\ parseEndByteIndex + len <= DocLength
           /\ pc' = "copied" /\ frame' = CopyFrame(len, isFinal)
  <2>1. pc = "app" BY <1>3 DEF Parse, AppRuns, MayParse, insideHandler
  <2>2. parseEndByteIndex' = parseEndByteIndex
    BY <1>3 DEF GetBufferInPlace, GetBufferMoves
  <2>3. StreamIndex(bufferPtr)' = StreamIndex(bufferPtr) BY <1>3, BufferAssumption, IndexKept
  <2>4. frame'.len = len BY <1>3, CopyFrameLemma, BufferAssumption
  <2>5. UNCHANGED <<doc, log, entity, processor>> BY <1>3 DEF textVars
  <2>6. ContentInv'
    BY <1>3, <2>1, <2>3, <2>5 DEF LogInv, ContentInv, At, DocLength, Callbacks
  <2>7. EntityInv' BY <1>3, <2>1, <2>3, <2>5 DEF LogInv, EntityInv
  <2> QED BY <1>3, <2>2, <2>4, <2>5, <2>6, <2>7 DEF LogInv, DocLength
<1> QED BY <1>1, <1>2, <1>3 DEF Parse, RefuseInsideHandler, RefuseStopped, RefuseStart

LEMMA LogStopParser ==
    ASSUME LogInv, NEW resumable \in BOOLEAN, StopParser(resumable)
    PROVE  LogInv'
<1>1. CASE \E error : Refuse(error) BY <1>1, QuietRefuse
<1>2. CASE UNCHANGED <<bufferVars, textVars, eventVars, callVars, processor, parseEndPtr>>
  BY <1>2, QuietStep DEF textVars, callVars, bufferVars, eventVars, StreamIndex
<1> QED BY <1>1, <1>2 DEF StopParser

LEMMA LogResumeParser ==
    ASSUME BufferInv, CallInv, LogInv, ResumeParser
    PROVE  LogInv'
<1>1. CASE \E error : Refuse(error) BY <1>1, QuietRefuse
<1>2. CASE ~(\E error : Refuse(error))
  <2>1. /\ pc = "app"
        /\ UNCHANGED <<bufferVars, doc, log, entity, processor, parseEndPtr, eventPtr>>
        /\ \/ UNCHANGED callVars
           \/ pc' = "process" /\ frame' = ProcessFrame(bufferPtr)
    BY <1>2 DEF ResumeParser, AppRuns, RefuseInsideHandler, insideHandler, textVars
  <2>2. CASE UNCHANGED callVars
    BY <2>1, <2>2, QuietStep DEF callVars, bufferVars, StreamIndex
  <2>3. CASE pc' = "process" /\ frame' = ProcessFrame(bufferPtr)
    <3>1. frame'.s = bufferPtr BY <2>3, Numbers, ProcessFrameLemma
    <3>2. StreamIndex(frame.s)' = StreamIndex(bufferPtr)
          /\ StreamIndex(bufferPtr)' = StreamIndex(bufferPtr)
      BY <2>1, <3>1 DEF bufferVars, StreamIndex
    <3>3. ContentInv'
      BY <2>1, <2>3, <3>2 DEF LogInv, ContentInv, At, DocLength, Callbacks
    <3>4. EntityInv' BY <2>1, <2>3, <3>2, Zenon DEF LogInv, EntityInv
    <3> QED BY <2>1, <2>3, <3>3, <3>4 DEF LogInv, bufferVars, DocLength
  <2> QED BY <2>1, <2>2, <2>3
<1> QED BY <1>1, <1>2

LEMMA LogParserReset ==
    ASSUME BufferInv, CallInv, LogInv, ParserReset
    PROVE  LogInv'
<1>1. CASE \E error : Refuse(error) BY <1>1, QuietRefuse
<1>2. CASE ~insideHandler /\ ~(\E error : Refuse(error))
  <2>1. /\ BufferReset /\ pc = "app" /\ pc' = "app" /\ doc' = doc
        /\ processor' = "content" /\ log' = <<>>
    BY <1>2 DEF ParserReset, RefuseInsideHandler, insideHandler, callVars
  <2>2. StreamIndex(bufferPtr)' = 0 /\ parseEndByteIndex' = 0
    BY <2>1 DEF BufferReset, StreamIndex
  <2>3. doc \in Docs BY DEF CallInv
  <2>4. At(StreamIndex(bufferPtr), Len(log))'
    <3>1. At(0, 0) BY <2>3, AtStart
    <3> QED BY <2>1, <2>2, <3>1 DEF At, DocLength, Callbacks
  <2>5. ContentInv' /\ EntityInv' BY <2>1, <2>4 DEF ContentInv, EntityInv
  <2>6. parseEndByteIndex' <= DocLength' BY <2>1, <2>2, <2>3, DocNumbers DEF DocLength
  <2> QED BY <2>1, <2>5, <2>6 DEF LogInv
<1> QED BY <1>1, <1>2 DEF ParserReset, RefuseInsideHandler

LEMMA LogAppCalls ==
    ASSUME BufferInv, CallInv, LogInv, AppCalls
    PROVE  LogInv'
<1>1. ASSUME NEW len \in 0..MaxRequest, NEW isFinal \in BOOLEAN,
             Parse(len, isFinal) \/ ParseBuffer(len, isFinal)
      PROVE  LogInv'
  BY <1>1, LogParse, LogParseBuffer
<1>2. ASSUME NEW len \in 0..MaxRequest, GetBuffer(len) PROVE LogInv'
  BY <1>2, LogGetBuffer
<1>3. ASSUME NEW resumable \in BOOLEAN, StopParser(resumable) PROVE LogInv'
  BY <1>3, LogStopParser
<1>4. CASE ParseInvalid BY <1>4, QuietRefuse DEF ParseInvalid
<1>5. CASE ResumeParser BY <1>5, LogResumeParser
<1>6. CASE ParserReset BY <1>6, LogParserReset
<1>7. ASSUME NEW enabled \in BOOLEAN, SetReparseDeferralEnabled(enabled) PROVE LogInv'
  BY <1>7, QuietStep
  DEF SetReparseDeferralEnabled, textVars, callVars, bufferVars, eventVars, StreamIndex
<1>8. CASE GetCurrentLineNumber
  BY <1>8, QuietStep DEF GetCurrentLineNumber, textVars, callVars, bufferVars, StreamIndex
<1> QED BY <1>1, <1>2, <1>3, <1>4, <1>5, <1>6, <1>7, <1>8 DEF AppCalls

(* What the bytes at the cursor are: the input at its position. *)
LEMMA TokenAtCursor ==
    ASSUME BufferInv, CallInv, pc \in {"process", "handler"}, processor = "content",
           NEW i \in 1..Len(doc), CompleteToken(i, frame.s)
    PROVE  /\ frame.s < parseEndPtr
           /\ doc[i].start = StreamIndex(frame.s)
           /\ frame.s + doc[i].len \in bufferPtr..bufferEnd
           /\ StreamIndex(frame.s + doc[i].len) = doc[i].start + doc[i].len
<1>1. /\ parseEndPtr = bufferEnd /\ doc \in Docs
      /\ frame.s \in bufferPtr..bufferEnd
  BY DEF CallInv
<1>2. doc[i].start \in Nat /\ doc[i].len \in Nat \ {0} BY <1>1, TokenTypes
<1>3. frame.s + doc[i].len <= bufferEnd /\ mem[frame.s] = doc[i].start
  BY <1>1 DEF CompleteToken, TokensAt
<1>4. frame.s \in 0..(bufferEnd - 1) /\ frame.s < bufferEnd
  BY <1>1, <1>2, <1>3, Numbers, SMTT(30)
<1>5. mem[frame.s] = StreamIndex(frame.s)
  BY <1>4 DEF BufferInv, WindowIsInput
<1>6. StreamIndex(frame.s + doc[i].len) = StreamIndex(frame.s) + doc[i].len
  BY <1>2, Numbers, SMTT(30) DEF StreamIndex
<1>7. frame.s + doc[i].len \in bufferPtr..bufferEnd
  BY <1>1, <1>2, <1>3, Numbers
<1> QED BY <1>1, <1>3, <1>4, <1>5, <1>6, <1>7

LEMMA LogReturnError ==
    ASSUME LogInv, NEW error, ReturnError(error), UNCHANGED <<doc, log>>
    PROVE  LogInv'
BY ErrorStep DEF ReturnError, bufferVars

(* A return from the processors, at a boundary of the document. *)
LEMMA LogReturnContent ==
    ASSUME BufferInv, CallInv, LogInv, NEW ptr \in Int, ReturnNone(ptr), UNCHANGED <<doc, log>>,
           processor = "content", processor' = "content", At(StreamIndex(ptr), Len(log))
    PROVE  LogInv'
<1>1. /\ pc' = "app" /\ bufferPtr' = ptr
      /\ UNCHANGED <<bufferEnd, parseEndByteIndex>>
  BY DEF ReturnNone, Consume
<1>2. StreamIndex(bufferPtr)' = StreamIndex(ptr) BY <1>1 DEF StreamIndex
<1>3. At(StreamIndex(bufferPtr), Len(log))' BY <1>2 DEF At, DocLength, Callbacks
<1> QED BY <1>1, <1>3, Zenon DEF LogInv, ContentInv, EntityInv, DocLength

LEMMA LogParseCopied ==
    ASSUME BufferInv, CallInv, LogInv, ParseCopied
    PROVE  LogInv'
<1>1. /\ pc = "copied" /\ frame.len \in Nat /\ frame.isFinal \in BOOLEAN
      /\ parseEndByteIndex + frame.len <= DocLength
  BY BufferAssumption DEF CallInv, ParseCopied, Frames, LogInv, BufferInv, BufferTypeOK
<1> QED BY <1>1, LogParseBufferBody DEF ParseCopied

LEMMA LogContentReturns ==
    ASSUME BufferInv, CallInv, LogInv, ContentNone \/ ContentPartial \/ ContentInvalid
    PROVE  LogInv'
<1>1. /\ pc = "process" /\ processor = "content" /\ UNCHANGED <<doc, log>>
      /\ At(StreamIndex(frame.s), Len(log))
  BY Zenon DEF ContentNone, ContentPartial, ContentInvalid, ContentRuns, textVars, LogInv, ContentInv
<1>2. \/ ReturnNone(frame.s) /\ processor' = processor
      \/ \E error : ReturnError(error)
  BY Zenon DEF ContentNone, ContentPartial, ContentInvalid
<1> QED BY <1>1, <1>2, Numbers, LogReturnContent, LogReturnError

LEMMA LogContentCallback ==
    ASSUME BufferInv, CallInv, LogInv, ContentCallback
    PROVE  LogInv'
<1>1. PICK i \in 1..Len(doc) :
         /\ CompleteToken(i, frame.s)
         /\ doc[i].kind \in {"data", "empty"}
         /\ Call(doc[i].first + 1)
         /\ frame' = [frame EXCEPT !.calls = doc[i].calls - 1]
  BY DEF ContentCallback
<1>2. /\ pc = "process" /\ processor = "content" /\ eventPtr' = frame.s
      /\ UNCHANGED <<bufferVars, doc, processor, parseEndPtr>>
  BY DEF ContentCallback, ContentRuns
<1>3. doc \in Docs /\ frame \in Frames BY DEF CallInv
<1>4. doc[i].first \in Nat /\ doc[i].calls \in 1..2 /\ doc[i].len \in Nat \ {0}
  BY <1>1, <1>3, TokenTypes
<1>5. doc[i].start = StreamIndex(frame.s) BY <1>1, <1>2, TokenAtCursor
<1>6. Len(log) = doc[i].first
  <2>1. At(doc[i].start, Len(log)) BY <1>2, <1>5 DEF LogInv, ContentInv
  <2> QED BY <1>3, <2>1, AtToken, Zenon
<1>7. frame'.s = frame.s /\ frame'.calls = doc[i].calls - 1
  BY <1>1, <1>3 DEF Frames
<1>8. log' = Append(log, doc[i].first + 1) /\ pc' = "handler" BY <1>1 DEF Call
<1>9. /\ log' \in Seq(Nat) /\ Len(log') = Len(log) + 1
      /\ \A k \in 1..Len(log') : log'[k] = k
  BY <1>4, <1>6, <1>8 DEF LogInv
<1>10. Reporting(i)'
  <2>1. CompleteToken(i, frame.s)'
    BY <1>1, <1>2, <1>7 DEF CompleteToken, TokensAt, Shows, bufferVars
  <2>2. StreamIndex(frame.s)' = doc[i].start
    BY <1>2, <1>5, <1>7 DEF StreamIndex, bufferVars
  <2>3. frame'.calls \in 0..(doc[i].calls - 1) BY <1>4, <1>7
  <2>4. Len(log') = doc[i].first + doc[i].calls - frame'.calls
    BY <1>4, <1>6, <1>7, <1>9
  <2>5. eventPtr' = frame'.s + 0 BY <1>2, <1>7, Numbers
  <2> QED BY <1>1, <1>2, <1>7, <2>1, <2>2, <2>3, <2>4, <2>5 DEF Reporting
<1> QED BY <1>2, <1>8, <1>9, <1>10, Zenon DEF LogInv, ContentInv, EntityInv, DocLength, bufferVars

LEMMA LogContentEntityRef ==
    ASSUME BufferInv, CallInv, LogInv, ContentEntityRef
    PROVE  LogInv'
<1>1. PICK i \in 1..Len(doc) :
         /\ CompleteToken(i, frame.s)
         /\ entity' = [token |-> i, left |-> doc[i].calls, hasMore |-> TRUE]
         /\ Consume(frame.s + doc[i].len)
  BY Zenon DEF ContentEntityRef
<1>2. /\ pc = "process" /\ pc' = "process" /\ processor = "content" /\ processor' = "entity"
      /\ UNCHANGED <<doc, log, frame>>
  BY DEF ContentEntityRef, ContentRuns, callVars
<1>3. doc \in Docs BY DEF CallInv
<1>4. doc[i].first \in Nat /\ doc[i].calls \in Nat /\ doc[i].len \in Nat
  BY <1>3, TokenTypes
<1>5. /\ doc[i].start = StreamIndex(frame.s)
      /\ StreamIndex(frame.s + doc[i].len) = doc[i].start + doc[i].len
  BY <1>1, <1>2, TokenAtCursor, Zenon
<1>6. Len(log) = doc[i].first
  <2>1. At(doc[i].start, Len(log)) BY <1>2, <1>5, Zenon DEF LogInv, ContentInv
  <2> QED BY <1>3, <2>1, AtToken, Zenon
<1>7. StreamIndex(bufferPtr)' = doc[i].start + doc[i].len
  BY <1>1, <1>5 DEF Consume, StreamIndex
<1>8. EntityInv' BY <1>1, <1>2, <1>4, <1>6, <1>7, SMTT(30) DEF EntityInv, EntityRecord
<1> QED BY <1>1, <1>2, <1>8, Zenon DEF LogInv, ContentInv, DocLength, Consume

LEMMA LogEntityCallback ==
    ASSUME BufferInv, CallInv, LogInv, EntityCallback
    PROVE  LogInv'
<1> DEFINE t == doc[entity.token]
<1>1. /\ pc = "process" /\ processor = "entity" /\ entity.left > 0
      /\ log' = Append(log, t.first + t.calls - entity.left + 1) /\ pc' = "handler"
      /\ UNCHANGED <<bufferVars, doc, processor, entity>>
  BY DEF EntityCallback, EntityRuns, Call
<1>2. /\ entity.token \in 1..Len(doc) /\ entity.left \in 0..t.calls
      /\ Len(log) = t.first + t.calls - entity.left + 0
  BY <1>1, Zenon DEF LogInv, EntityInv
<1>3. t.first \in Nat /\ t.calls \in Nat BY <1>2, TokenTypes DEF CallInv
<1>4. log' = Append(log, Len(log) + 1)
  BY <1>1, <1>2, <1>3, SMTT(30)
<1>5. /\ log' \in Seq(Nat) /\ Len(log') = Len(log) + 1
      /\ \A k \in 1..Len(log') : log'[k] = k
  BY <1>4 DEF LogInv
<1>6. StreamIndex(bufferPtr)' = StreamIndex(bufferPtr) BY <1>1 DEF bufferVars, StreamIndex
<1>7. Len(log') = t.first + t.calls - entity.left + 1
  BY <1>2, <1>3, <1>5, SMTT(30)
<1>8. EntityInv' BY <1>1, <1>6, <1>7, Zenon DEF LogInv, EntityInv
<1> QED BY <1>1, <1>5, <1>8, Zenon DEF LogInv, ContentInv, DocLength, bufferVars

LEMMA LogEntityTextEnd ==
    ASSUME BufferInv, CallInv, LogInv, EntityTextEnd
    PROVE  LogInv'
<1>1. CASE \E error : ReturnError(error)
  BY <1>1, LogReturnError DEF EntityTextEnd
<1>2. CASE UNCHANGED <<bufferVars, callVars, processor, parseEndPtr>>
  <2>1. /\ processor = "entity" /\ entity' = [entity EXCEPT !.hasMore = FALSE]
        /\ UNCHANGED <<doc, log>> /\ entity.left = 0
    BY DEF EntityTextEnd, EntityRuns
  <2>2. StreamIndex(bufferPtr)' = StreamIndex(bufferPtr) BY <1>2 DEF bufferVars, StreamIndex
  <2>3. entity'.token = entity.token /\ entity'.left = entity.left /\ entity'.hasMore = FALSE
    BY <2>1 DEF LogInv, EntityInv, EntityRecord
  <2>4. entity' \in EntityRecord BY <2>1, Zenon DEF LogInv, EntityInv, EntityRecord
  <2>5. EntityInv' BY <1>2, <2>1, <2>2, <2>3, <2>4 DEF LogInv, EntityInv, callVars
  <2> QED BY <1>2, <2>1, <2>5 DEF LogInv, ContentInv, DocLength, bufferVars, callVars
<1> QED BY <1>1, <1>2 DEF EntityTextEnd

LEMMA LogEntityClose ==
    ASSUME BufferInv, CallInv, LogInv, EntityClose
    PROVE  LogInv'
<1> DEFINE t == doc[entity.token]
<1>1. /\ pc = "process" /\ pc' = "process" /\ processor = "entity" /\ processor' = "content"
      /\ ~entity.hasMore /\ frame' = [frame EXCEPT !.s = bufferPtr]
      /\ UNCHANGED <<bufferVars, doc, log>>
  BY DEF EntityClose, EntityRuns
<1>2. /\ entity.token \in 1..Len(doc) /\ entity.left = 0
      /\ StreamIndex(bufferPtr) = t.start + t.len
      /\ Len(log) = t.first + t.calls - entity.left + 0
  BY <1>1 DEF LogInv, EntityInv
<1>3. doc \in Docs /\ frame \in Frames BY DEF CallInv
<1>4. t.first \in Nat /\ t.calls \in Nat BY <1>2, <1>3, TokenTypes
<1>5. At(StreamIndex(bufferPtr), Len(log))
  <2>1. Len(log) = t.first + t.calls BY <1>2, <1>4
  <2> QED BY <1>2, <1>3, <2>1, AtNextToken, Zenon
<1>6. frame'.s = bufferPtr BY <1>1, <1>3 DEF Frames
<1>7. StreamIndex(frame.s)' = StreamIndex(bufferPtr) BY <1>1, <1>6 DEF bufferVars, StreamIndex
<1>8. At(StreamIndex(frame.s), Len(log))'
  BY <1>1, <1>5, <1>7 DEF At, DocLength, Callbacks
<1> QED BY <1>1, <1>8 DEF LogInv, ContentInv, EntityInv, DocLength, bufferVars

LEMMA LogErrorProcessor ==
    ASSUME BufferInv, CallInv, LogInv, ErrorProcessor
    PROVE  LogInv'
<1>1. CASE \E error : ReturnError(error)
  BY <1>1, LogReturnError DEF ErrorProcessor, textVars
<1>2. CASE ReturnNone(frame.start) /\ processor' = processor
  <2>1. /\ UNCHANGED <<doc, log, parseEndByteIndex>>
        /\ processor' = "error" /\ pc' = "app"
    BY <1>2 DEF ErrorProcessor, textVars, ReturnNone, Consume
  <2> QED BY <2>1, ErrorStep DEF ErrorProcessor, textVars
<1> QED BY <1>1, <1>2 DEF ErrorProcessor

LEMMA LogProcesses ==
    ASSUME BufferInv, CallInv, LogInv, Processes
    PROVE  LogInv'
BY LogParseCopied, LogContentReturns, LogContentCallback, LogContentEntityRef,
   LogEntityCallback, LogEntityTextEnd, LogEntityClose, LogErrorProcessor
DEF Processes

LEMMA OneLess ==
    ASSUME NEW a \in Int, NEW b \in Int, NEW c \in Int
    PROVE  a + b - c + 1 = a + b - (c - 1)
OBVIOUS

LEMMA LogHandlerReturnsInToken ==
    ASSUME BufferInv, CallInv, LogInv, HandlerReturnsInToken
    PROVE  LogInv'
<1>1. PICK i \in 1..Len(doc) :
         /\ CompleteToken(i, frame.s)
         /\ Call(doc[i].first + doc[i].calls - frame.calls + 1)
         /\ eventPtr' = frame.s + doc[i].len
  BY DEF HandlerReturnsInToken
<1>2. /\ pc = "handler" /\ processor = "content" /\ frame.calls > 0
      /\ frame' = [frame EXCEPT !.calls = @ - 1]
      /\ UNCHANGED <<bufferVars, doc, processor, parseEndPtr>>
  BY DEF HandlerReturnsInToken, insideHandler
<1>3. doc \in Docs /\ frame \in Frames BY DEF CallInv
<1>4. PICK j \in 1..Len(doc) : Reporting(j) BY <1>2 DEF LogInv, ContentInv
<1>5. i = j
  <2>1. doc[i].start = StreamIndex(frame.s) BY <1>1, <1>2, TokenAtCursor
  <2>2. doc[j].start = StreamIndex(frame.s) BY <1>4 DEF Reporting
  <2> QED BY <1>3, <2>1, <2>2, TokensAreApart
<1>6. doc[i].first \in Nat /\ doc[i].calls \in Nat /\ doc[i].len \in Nat \ {0}
  BY <1>3, TokenTypes
<1>7. frame'.s = frame.s /\ frame'.calls = frame.calls - 1 /\ frame.calls \in Int
  BY <1>2, <1>3 DEF Frames
<1>8. /\ doc[i].kind \in {"data", "empty"}
      /\ StreamIndex(frame.s) = doc[i].start
      /\ frame.calls \in 0..(doc[i].calls - 1)
      /\ Len(log) = doc[i].first + doc[i].calls - frame.calls
  BY <1>4, <1>5, Zenon DEF Reporting
<1>9. log' = Append(log, Len(log) + 1) /\ pc' = "handler"
  BY <1>1, <1>8, Zenon DEF Call
<1>10. /\ log' \in Seq(Nat)
       /\ \A k \in 1..Len(log') : log'[k] = k
  BY <1>9 DEF LogInv
<1>11. Len(log') = Len(log) + 1 BY <1>9 DEF LogInv
<1>12. Reporting(i)'
  <2>1. CompleteToken(i, frame.s)'
    BY <1>1, <1>2, <1>7 DEF CompleteToken, TokensAt, Shows, bufferVars
  <2>2. StreamIndex(frame.s)' = doc[i].start
    BY <1>2, <1>8, <1>7 DEF StreamIndex, bufferVars
  <2>3. frame'.calls \in 0..(doc[i].calls - 1) /\ frame'.calls # doc[i].calls - 1
    BY <1>2, <1>6, <1>7, <1>8, SMTT(30)
  <2>4. Len(log') = doc[i].first + doc[i].calls - frame'.calls
    <3>1. doc[i].first + doc[i].calls - frame.calls + 1
            = doc[i].first + doc[i].calls - (frame.calls - 1)
      BY <1>6, <1>7, OneLess
    <3> QED BY <1>7, <1>8, <1>11, <3>1, Zenon
  <2>5. eventPtr' = frame'.s + doc[i].len BY <1>1, <1>7
  <2> QED BY <1>2, <1>8, <2>1, <2>2, <2>3, <2>4, <2>5 DEF Reporting
<1> QED BY <1>2, <1>9, <1>10, <1>12 DEF LogInv, ContentInv, EntityInv, DocLength, bufferVars

LEMMA LogHandlerReturns ==
    ASSUME BufferInv, CallInv, LogInv, HandlerReturns
    PROVE  LogInv'
<1>1. PICK i \in 1..Len(doc) :
         CompleteToken(i, frame.s) /\ AfterToken(frame.s + doc[i].len)
  BY DEF HandlerReturns
<1> DEFINE next == frame.s + doc[i].len
<1>2. /\ pc = "handler" /\ processor = "content" /\ frame.calls = 0
      /\ UNCHANGED <<doc, log, entity>>
  BY DEF HandlerReturns, insideHandler, textVars
<1>3. doc \in Docs /\ frame \in Frames BY DEF CallInv
<1>4. PICK j \in 1..Len(doc) : Reporting(j) BY <1>2 DEF LogInv, ContentInv
<1>5. /\ doc[i].start = StreamIndex(frame.s)
      /\ StreamIndex(next) = doc[i].start + doc[i].len
  BY <1>1, <1>2, TokenAtCursor
<1>6. i = j
  <2>1. doc[j].start = StreamIndex(frame.s) BY <1>4 DEF Reporting
  <2> QED BY <1>3, <1>5, <2>1, TokensAreApart
<1>7. doc[i].first \in Nat /\ doc[i].calls \in Nat /\ doc[i].len \in Nat \ {0}
  BY <1>3, TokenTypes
<1>8. Len(log) = doc[i].first + doc[i].calls
  <2>1. Len(log) = doc[i].first + doc[i].calls - frame.calls BY <1>4, <1>6 DEF Reporting
  <2> QED BY <1>2, <1>7, <2>1
<1>9. At(StreamIndex(next), Len(log)) BY <1>3, <1>5, <1>8, AtNextToken
<1>10. next \in Int BY <1>7, Numbers
<1>11. CASE ReturnNone(next) /\ processor' = processor
  BY <1>2, <1>9, <1>10, <1>11, LogReturnContent
<1>12. CASE \E error : ReturnError(error)
  BY <1>2, <1>12, LogReturnError
<1>13. CASE ContinueAt(next)
  <2>1. /\ frame' = [frame EXCEPT !.s = next] /\ pc' = "process"
        /\ UNCHANGED <<bufferVars, processor>>
    BY <1>13 DEF ContinueAt
  <2>2. frame'.s = next BY <1>3, <2>1 DEF Frames
  <2>3. StreamIndex(frame.s)' = StreamIndex(next) BY <2>1, <2>2 DEF StreamIndex, bufferVars
  <2>4. At(StreamIndex(frame.s), Len(log))' BY <1>2, <1>9, <2>3, Zenon DEF At, DocLength, Callbacks
  <2> QED BY <1>2, <2>1, <2>4 DEF LogInv, ContentInv, EntityInv, DocLength, bufferVars
<1> QED BY <1>1, <1>11, <1>12, <1>13 DEF AfterToken

LEMMA LogHandlerReturnsInEntity ==
    ASSUME BufferInv, CallInv, LogInv, HandlerReturnsInEntity
    PROVE  LogInv'
<1> DEFINE t == doc[entity.token]
           left == entity.left - 1
<1>1. pc = "handler" /\ processor = "entity" /\ UNCHANGED <<doc, log>>
  BY DEF HandlerReturnsInEntity, insideHandler
<1>2. /\ entity \in EntityRecord /\ entity.token \in 1..Len(doc)
      /\ entity.left \in 0..t.calls /\ entity.left > 0
      /\ StreamIndex(bufferPtr) = t.start + t.len
      /\ Len(log) = t.first + t.calls - entity.left + 1
  BY <1>1, Zenon DEF LogInv, EntityInv
<1>3. t.first \in Nat /\ t.calls \in Nat BY <1>2, TokenTypes, Zenon DEF CallInv
<1>4. CASE \E error : ReturnError(error)
  BY <1>1, <1>4, LogReturnError
<1>5. CASE /\ \/ /\ entity' = [entity EXCEPT !.left = left]
                 /\ pc' = "process" /\ UNCHANGED bufferVars
              \/ /\ entity' = [entity EXCEPT !.left = left, !.hasMore = left > 0]
                 /\ ReturnNone(bufferPtr)
           /\ processor' = processor
  <2>1. /\ pc' \in {"process", "app"}
        /\ UNCHANGED <<bufferPtr, bufferEnd, parseEndByteIndex>>
    BY <1>5 DEF ReturnNone, Consume, bufferVars
  <2>2. left \in Int /\ (left > 0) \in BOOLEAN BY <1>2 DEF EntityRecord
  <2>3. /\ entity' \in EntityRecord /\ entity'.token = entity.token
        /\ entity'.left = left
    <3>1. CASE entity' = [entity EXCEPT !.left = left]
      BY <1>2, <2>2, <3>1 DEF EntityRecord
    <3>2. CASE entity' = [entity EXCEPT !.left = left, !.hasMore = left > 0]
      BY <1>2, <2>2, <3>2, Zenon DEF EntityRecord
    <3> QED BY <1>5, <3>1, <3>2
  <2>4. entity'.left \in 0..t.calls
    <3>1. left \in 0..t.calls BY <1>2, <1>3
    <3> QED BY <2>3, <3>1
  <2>5. Len(log) = t.first + t.calls - entity'.left
    <3>1. entity.left \in Int BY <1>2 DEF EntityRecord
    <3>2. t.first + t.calls - entity.left + 1 = t.first + t.calls - left
      BY <1>3, <3>1, OneLess
    <3> QED BY <1>2, <2>3, <3>2, Zenon
  <2>6. ~entity'.hasMore => entity'.left = 0
    <3>1. CASE entity' = [entity EXCEPT !.left = left]
      <4>1. entity.hasMore BY <1>1, <1>2, SMTT(30) DEF LogInv, EntityInv
      <4>2. entity'.hasMore = entity.hasMore BY <1>2, <3>1 DEF EntityRecord
      <4> QED BY <4>1, <4>2
    <3>2. CASE entity' = [entity EXCEPT !.left = left, !.hasMore = left > 0]
      <4>1. entity'.hasMore = (left > 0) BY <1>2, <3>2 DEF EntityRecord
      <4>2. left > 0 \/ left = 0 BY <1>2, <1>3
      <4> QED BY <2>3, <4>1, <4>2, Zenon
    <3> QED BY <1>5, <3>1, <3>2
  <2>7. StreamIndex(bufferPtr)' = StreamIndex(bufferPtr) BY <2>1 DEF StreamIndex
  <2>8. EntityInv'
    BY <1>1, <1>2, <1>3, <1>5, <2>1, <2>3, <2>4, <2>5, <2>6, <2>7, SMTT(30) DEF EntityInv
  <2> QED BY <1>1, <1>5, <2>1, <2>8 DEF LogInv, ContentInv, DocLength
<1> QED BY <1>4, <1>5 DEF HandlerReturnsInEntity

LEMMA LogStep == BufferInv /\ CallInv /\ LogInv /\ [Next]_vars => LogInv'
<1> SUFFICES ASSUME BufferInv, CallInv, LogInv, [Next]_vars PROVE LogInv'
  OBVIOUS
<1>1. CASE AppCalls BY <1>1, LogAppCalls
<1>2. CASE Processes BY <1>2, LogProcesses
<1>3. CASE Returns
  BY <1>3, LogHandlerReturnsInToken, LogHandlerReturns, LogHandlerReturnsInEntity DEF Returns
<1>4. CASE UNCHANGED vars
  BY <1>4, QuietStep DEF vars, bufferVars, StreamIndex
<1> QED BY <1>1, <1>2, <1>3, <1>4 DEF Next

LEMMA LogStart == Init => LogInv
<1> SUFFICES ASSUME Init PROVE LogInv OBVIOUS
<1>1. doc \in Docs /\ log = <<>> /\ processor = "content" /\ pc = "app" BY DEF Init
<1>2. StreamIndex(bufferPtr) = 0 /\ parseEndByteIndex = 0
  BY DEF Init, BufferInit, StreamIndex
<1>3. At(StreamIndex(bufferPtr), Len(log)) BY <1>1, <1>2, AtStart
<1> QED BY <1>1, <1>2, <1>3, DocNumbers, SMTT(30) DEF LogInv, ContentInv, EntityInv

LEMMA DocumentInv == Spec => [](BufferInv /\ CallInv /\ LogInv)
BY ParserInv, LogStart, LogStep, PTL DEF Spec

(* Whatever the documents are and whatever the application calls, from its *)
(* handlers or after an error, callbacks come in document order, none      *)
(* twice and none left out.                                                *)
THEOREM InDocumentOrder == Spec => []CallbacksInOrder
<1>1. LogInv => CallbacksInOrder BY DEF LogInv, CallbacksInOrder
<1> QED BY <1>1, DocumentInv, PTL

-----------------------------------------------------------------------------
(* A final call that returns XML_STATUS_OK has reported the document.  An  *)
(* abort from the last callback of an entity that ends in ']' breaks this, *)
(* and a run of its own shows it.                                          *)

NoTrailing == \A d \in Docs : \A i \in 1..Len(d) : ~d[i].trailing

EndInv ==
    /\ (pc = "app" /\ parsing = "SUSPENDED") => status # "OK"
    /\ (pc = "app" /\ parsing = "FINISHED" /\ status = "OK" /\ processor # "error")
         => Len(log) = Callbacks

LEMMA EndRefuse ==
    ASSUME EndInv, NEW error, Refuse(error)
    PROVE  EndInv'
BY DEF EndInv, Refuse, callVars

LEMMA EndReturnError ==
    ASSUME NEW error, ReturnError(error)
    PROVE  EndInv'
BY DEF EndInv, ReturnError

LEMMA EndAppCalls ==
    ASSUME CallInv, EndInv, AppCalls
    PROVE  EndInv'
<1> USE DEF RefuseInsideHandler, RefuseStopped, RefuseStart
<1>1. ASSUME NEW error, Refuse(error) PROVE EndInv' BY <1>1, EndRefuse
<1>2. ASSUME NEW len, NEW isFinal, Parse(len, isFinal) PROVE EndInv'
  BY <1>1, <1>2
  DEF Parse, AppRuns, MayParse, insideHandler, EndInv, callVars
<1>3. ASSUME NEW len, NEW isFinal, ParseBuffer(len, isFinal) PROVE EndInv'
  BY <1>1, <1>3, Zenon
  DEF ParseBuffer, ParseBufferBody, AppRuns, MayParse, insideHandler, EndInv
<1>4. ASSUME NEW len, GetBuffer(len) PROVE EndInv'
  BY <1>1, <1>4
  DEF GetBuffer, AppRuns, MayParse, insideHandler, EndInv, callVars, statusVars
<1>5. ASSUME NEW resumable \in BOOLEAN, StopParser(resumable) PROVE EndInv'
  BY <1>1, <1>5
  DEF StopParser, AppRuns, insideHandler, EndInv, callVars, resultVars, textVars
<1>6. CASE ParseInvalid BY <1>1, <1>6 DEF ParseInvalid
<1>7. CASE ResumeParser
  BY <1>1, <1>7 DEF ResumeParser, AppRuns, insideHandler, EndInv, callVars
<1>8. CASE ParserReset
  BY <1>1, <1>8 DEF ParserReset, insideHandler, EndInv, callVars
<1>9. ASSUME NEW enabled, SetReparseDeferralEnabled(enabled) PROVE EndInv'
  BY <1>9
  DEF SetReparseDeferralEnabled, EndInv, callVars, resultVars, textVars, statusVars, Callbacks
<1>10. CASE GetCurrentLineNumber
  BY <1>10, Zenon
  DEF GetCurrentLineNumber, EndInv, callVars, resultVars, textVars, statusVars, Callbacks
<1> QED BY <1>2, <1>3, <1>4, <1>5, <1>6, <1>7, <1>8, <1>9, <1>10 DEF AppCalls

LEMMA EndContentNone ==
    ASSUME BufferInv, CallInv, LogInv, EndInv, ContentNone
    PROVE  EndInv'
<1>1. CASE \E error : ReturnError(error) BY <1>1, EndReturnError
<1>2. CASE ReturnNone(frame.s) /\ ~(finalBuffer /\ parseEndByteIndex < DocLength)
           /\ processor' = processor
  <2>1. /\ pc = "process" /\ parsing = "PARSING" /\ processor = "content"
        /\ frame.s = bufferEnd /\ doc \in Docs /\ UNCHANGED <<doc, log>>
    BY DEF ContentNone, ContentRuns, CallInv, textVars
  <2>2. CASE ~finalBuffer
    BY <1>2, <2>1, <2>2 DEF ReturnNone, EndInv
  <2>3. CASE finalBuffer
    <3>1. StreamIndex(frame.s) = parseEndByteIndex
      BY <2>1, Numbers DEF StreamIndex
    <3>2. parseEndByteIndex = DocLength
      BY <1>2, <2>1, <2>3, Numbers, DocNumbers DEF LogInv
    <3>3. Len(log) = Callbacks
      BY <2>1, <3>1, <3>2, AtEnd DEF LogInv, ContentInv
    <3>4. Len(log)' = Callbacks' BY <2>1, <3>3 DEF Callbacks
    <3> QED BY <1>2, <2>1, <2>3, <3>4 DEF ReturnNone, EndInv
  <2> QED BY <2>2, <2>3
<1> QED BY <1>1, <1>2 DEF ContentNone

LEMMA EndProcesses ==
    ASSUME BufferInv, CallInv, LogInv, EndInv, Processes
    PROVE  EndInv'
<1>1. ASSUME NEW error, ReturnError(error) PROVE EndInv' BY <1>1, EndReturnError
<1>2. CASE ParseCopied
  BY <1>2 DEF ParseCopied, ParseBufferBody, EndInv
<1>3. CASE ContentNone BY <1>3, EndContentNone
<1>4. CASE ContentPartial
  BY <1>1, <1>4, Zenon DEF ContentPartial, ContentRuns, ReturnNone, CallInv, EndInv
<1>5. CASE ContentInvalid BY <1>1, <1>5 DEF ContentInvalid
<1>6. CASE ContentCallback \/ EntityCallback
  BY <1>6 DEF ContentCallback, EntityCallback, ContentRuns, EntityRuns, Call, EndInv
<1>7. CASE ContentEntityRef
  BY <1>7, Zenon DEF ContentEntityRef, ContentRuns, EndInv, callVars
<1>8. CASE EntityTextEnd
  BY <1>1, <1>8 DEF EntityTextEnd, EntityRuns, EndInv, callVars
<1>9. CASE EntityClose
  <2>1. pc' = "process" BY <1>9 DEF EntityClose, EntityRuns
  <2> QED BY <2>1 DEF EndInv
<1>10. CASE ErrorProcessor BY <1>1, <1>10 DEF ErrorProcessor, ReturnNone, EndInv
<1> QED
  BY <1>2, <1>3, <1>4, <1>5, <1>6, <1>7, <1>8, <1>9, <1>10 DEF Processes

LEMMA EndReturns ==
    ASSUME NoTrailing, CallInv, LogInv, EndInv, Returns
    PROVE  EndInv'
<1>1. ASSUME NEW error, ReturnError(error) PROVE EndInv' BY <1>1, EndReturnError
<1>2. CASE HandlerReturnsInToken
  BY <1>2 DEF HandlerReturnsInToken, Call, EndInv
<1>3. CASE HandlerReturns
  BY <1>1, <1>3
  DEF HandlerReturns, AfterToken, ContinueAt, ReturnNone, EndInv
<1>4. CASE HandlerReturnsInEntity
  <2>1. ~doc[entity.token].trailing
    BY <1>4 DEF HandlerReturnsInEntity, NoTrailing, CallInv, LogInv, EntityInv
  <2> QED
    BY <1>1, <1>4, <2>1 DEF HandlerReturnsInEntity, ReturnNone, EndInv
<1> QED BY <1>2, <1>3, <1>4 DEF Returns

(* However the document is cut, suspended and deferred, the callbacks are  *)
(* in order, and when a parse call returns XML_STATUS_OK for the final     *)
(* piece, no error having come before, they are all of the document's.     *)
THEOREM WholeDocument ==
    ASSUME NoTrailing
    PROVE  Spec => []CallbacksAreDocument
<1>1. Init => EndInv BY DEF Init, EndInv
<1>2. BufferInv /\ CallInv /\ LogInv /\ EndInv /\ [Next]_vars => EndInv'
  <2> SUFFICES ASSUME BufferInv, CallInv, LogInv, EndInv, [Next]_vars PROVE EndInv'
    OBVIOUS
  <2>1. CASE UNCHANGED vars BY <2>1, Zenon DEF vars, EndInv, Callbacks
  <2> QED BY <2>1, EndAppCalls, EndProcesses, EndReturns DEF Next
<1>3. LogInv /\ EndInv => CallbacksAreDocument
  BY DEF LogInv, EndInv, CallbacksInOrder, CallbacksAreDocument
<1> QED BY <1>1, <1>2, <1>3, DocumentInv, PTL DEF Spec

-----------------------------------------------------------------------------
(* Lines, columns and byte indexes.  m_positionPtr, when it is not NULL,   *)
(* is never behind the place the next count goes up to: m_bufferPtr        *)
(* between parse calls, the token doContent is at, the event a handler     *)
(* asks about.  Only then does counting from it up to there count every    *)
(* byte once.  After an error nothing of this is kept, and the code does   *)
(* not rely on it.                                                         *)

PlaceInv ==
    /\ positionPtr \in Nat \cup {Null} /\ eventPtr \in Nat \cup {Null} /\ position \in Nat
    /\ positionPtr = Null => eventPtr = Null
    /\ position = StreamIndex(IF positionPtr = Null THEN bufferPtr ELSE positionPtr)
    /\ (pc \in {"app", "copied"} /\ parsing # "FINISHED") =>
          positionPtr \in {Null, bufferPtr} /\ eventPtr <= bufferPtr
    /\ (pc \in {"process", "handler"} \/ parsing = "SUSPENDED") => positionPtr # Null
    /\ (pc = "process" /\ processor = "content") => positionPtr <= frame.s
    /\ (pc = "handler" /\ processor = "content") => positionPtr <= eventPtr
    /\ (pc \in {"process", "handler"} /\ processor = "entity") =>
          positionPtr <= bufferPtr /\ eventPtr <= bufferPtr

PosInv == processor # "error" => PlaceInv

LEMMA PosKept ==
    ASSUME PosInv, UNCHANGED <<processor, eventVars, parsing, pc, frame>>,
           UNCHANGED <<bufferPtr, bufferEnd, parseEndByteIndex>>
    PROVE  PosInv'
BY DEF PosInv, PlaceInv, eventVars, StreamIndex

LEMMA PosRefuse ==
    ASSUME PosInv, NEW error, Refuse(error)
    PROVE  PosInv'
BY PosKept DEF Refuse, callVars, bufferVars, statusVars

LEMMA CountedUpTo ==
    ASSUME BufferInv, CallInv, PlaceInv, NEW p \in Nat, PositionUpTo(p),
           positionPtr # Null, positionPtr <= p,
           UNCHANGED <<bufferEnd, parseEndByteIndex>>
    PROVE  position' \in Nat /\ positionPtr' = p /\ position' = StreamIndex(p)'
<1>1. /\ positionPtr \in Nat /\ position \in Nat /\ position = StreamIndex(positionPtr)
  BY DEF PlaceInv
<1>2. position' = position + (p - positionPtr)
  BY <1>1 DEF PositionUpTo
<1> QED BY <1>1, <1>2, Numbers DEF StreamIndex, PositionUpTo

LEMMA PosReturnNone ==
    ASSUME BufferInv, CallInv, PlaceInv, NEW ptr \in Nat, ReturnNone(ptr),
           pc \in {"process", "handler"}, positionPtr <= ptr,
           eventPtr' \in Nat, eventPtr' <= ptr
    PROVE  PosInv'
<1>1. /\ pc' = "app" /\ bufferPtr' = ptr /\ UNCHANGED <<bufferEnd, parseEndByteIndex>>
      /\ positionPtr # Null /\ positionPtr \in Nat
  BY Zenon DEF ReturnNone, Consume, PlaceInv
<1>2. CASE parsing' = "FINISHED" /\ UNCHANGED positionVars
  BY <1>1, <1>2 DEF PosInv, PlaceInv, positionVars, StreamIndex, Null
<1>3. CASE PositionUpTo(ptr)
  <2>1. position' \in Nat /\ positionPtr' = ptr /\ position' = StreamIndex(ptr)'
    BY <1>1, <1>3, CountedUpTo
  <2>2. ptr # Null BY DEF Null
  <2> QED BY <1>1, <2>1, <2>2, Zenon DEF PosInv, PlaceInv, StreamIndex
<1> QED BY <1>2, <1>3 DEF ReturnNone

LEMMA PosError ==
    ASSUME NEW error, ReturnError(error)
    PROVE  PosInv'
BY DEF ReturnError, PosInv

LEMMA PosParseBufferBody ==
    ASSUME BufferInv, CallInv, PosInv, NEW len \in Nat, NEW isFinal \in BOOLEAN,
           ParseBufferBody(len, isFinal), pc \in {"app", "copied"}, parsing # "FINISHED"
    PROVE  PosInv'
<1>1. CASE IndexOverflows(len) BY <1>1 DEF ParseBufferBody, PosInv
<1>2. CASE ~IndexOverflows(len) /\ processor # "error"
  <2>1. /\ AppendInput(len) /\ positionPtr' = bufferPtr
        /\ UNCHANGED <<processor, eventPtr, position>> /\ parsing' = "PARSING"
        /\ \/ pc' = "app"
           \/ pc' = "process" /\ frame' = ProcessFrame(bufferPtr)
    BY <1>2 DEF ParseBufferBody
  <2>2. bufferPtr' = bufferPtr BY <2>1 DEF AppendInput
  <2>3. StreamIndex(bufferPtr)' = StreamIndex(bufferPtr) BY <2>1, IndexKept
  <2>4. pc' = "process" => frame'.s = bufferPtr BY <2>1, Numbers, ProcessFrameLemma
  <2>5. PlaceInv /\ position = StreamIndex(bufferPtr)
    BY <1>2, Zenon DEF PosInv, PlaceInv
  <2>6. bufferPtr \in Nat /\ bufferPtr # Null BY Numbers DEF Null
  <2>7. position' = StreamIndex(positionPtr)'
    BY <2>1, <2>2, <2>3, <2>5 DEF StreamIndex
  <2> QED BY <2>1, <2>2, <2>4, <2>5, <2>6, <2>7, SMTT(30) DEF PosInv, PlaceInv
<1>3. CASE ~IndexOverflows(len) /\ processor = "error"
  BY <1>3 DEF ParseBufferBody, PosInv
<1> QED BY <1>1, <1>2, <1>3

(* XML_GetBuffer leaves the pointers alone or, with the buffer, the events. *)
LEMMA PosRoom ==
    ASSUME BufferInv, CallInv, PosInv, NEW len \in Nat, pc = "app", pc' \in {"app", "copied"},
           parsing \in {"INITIALIZED", "PARSING"}, parsing' # "SUSPENDED",
           processor' = processor,
           \/ (GetBufferInPlace(len) \/ GetBufferFails(len)) /\ UNCHANGED eventVars
           \/ GetBufferMoves(len) /\ ForgetEvents
    PROVE  PosInv'
<1> SUFFICES ASSUME processor # "error" PROVE PlaceInv' BY DEF PosInv
<1>1. PlaceInv /\ position = StreamIndex(bufferPtr) BY Zenon DEF PosInv, PlaceInv
<1>2. StreamIndex(bufferPtr)' = StreamIndex(bufferPtr) BY IndexKept
<1>3. CASE (GetBufferInPlace(len) \/ GetBufferFails(len)) /\ UNCHANGED eventVars
  <2>1. UNCHANGED <<bufferPtr, bufferEnd, parseEndByteIndex>>
    BY <1>3 DEF GetBufferInPlace, GetBufferFails
  <2> QED BY <1>1, <1>3, <2>1, Zenon DEF PlaceInv, eventVars, StreamIndex
<1>4. CASE GetBufferMoves(len) /\ ForgetEvents
  <2>1. bufferPtr' \in Nat
    <3>1. /\ bufferPtr \in Nat /\ Keep \in Nat
      BY BufferAssumption DEF BufferInv, BufferTypeOK, Keep, Lesser
    <3>2. bufferPtr' = Keep \/ bufferPtr' = bufferPtr - (bufferPtr - Keep)
      BY <1>4, Zenon DEF GetBufferMoves, Slide, SetParserBuffer
    <3> QED BY <3>1, <3>2
  <2>2. positionPtr' = Null /\ eventPtr' = Null /\ position' = position
    BY <1>4 DEF ForgetEvents
  <2>3. position' = StreamIndex(bufferPtr)' BY <1>1, <1>2, <2>2
  <2>4. eventPtr' <= bufferPtr' BY <2>1, <2>2 DEF Null
  <2> QED BY <1>1, <2>2, <2>3, <2>4, Zenon DEF PlaceInv, ForgetEvents
<1> QED BY <1>3, <1>4

LEMMA PosAppCalls ==
    ASSUME BufferInv, CallInv, PosInv, AppCalls
    PROVE  PosInv'
<1> USE DEF RefuseInsideHandler, RefuseStopped, RefuseStart
<1>1. ASSUME NEW error, Refuse(error) PROVE PosInv' BY <1>1, PosRefuse
<1>2. ASSUME NEW len \in 0..MaxRequest, NEW isFinal \in BOOLEAN, Parse(len, isFinal)
      PROVE  PosInv'
  <2>1. len \in Nat BY BufferAssumption
  <2>2. CASE ~(\E error : Refuse(error))
    <3>1. /\ pc = "app" /\ pc' \in {"app", "copied"} /\ processor' = processor
          /\ parsing \in {"INITIALIZED", "PARSING"} /\ parsing' # "SUSPENDED"
          /\ \/ (GetBufferInPlace(len) \/ GetBufferFails(len)) /\ UNCHANGED eventVars
             \/ GetBufferMoves(len) /\ ForgetEvents
      BY <1>2, <2>2, Zenon
      DEF Parse, AppRuns, MayParse, insideHandler, callVars, GetBufferInPlace, GetBufferMoves
    <3> QED BY <2>1, <3>1, PosRoom
  <2> QED BY <1>1, <2>2
<1>3. ASSUME NEW len \in 0..MaxRequest, NEW isFinal \in BOOLEAN, ParseBuffer(len, isFinal)
      PROVE  PosInv'
  <2>1. len \in Nat BY BufferAssumption
  <2>2. CASE ~(\E error : Refuse(error))
    <3>1. ParseBufferBody(len, isFinal) /\ pc = "app" /\ parsing # "FINISHED"
      BY <1>3, <2>2 DEF ParseBuffer, AppRuns, MayParse, insideHandler
    <3> QED BY <2>1, <3>1, PosParseBufferBody
  <2> QED BY <1>1, <2>2
<1>4. ASSUME NEW len \in 0..MaxRequest, GetBuffer(len) PROVE PosInv'
  <2>1. len \in Nat BY BufferAssumption
  <2>2. CASE ~(\E error : Refuse(error))
    <3>1. /\ pc = "app" /\ pc' = "app" /\ processor' = processor
          /\ parsing \in {"INITIALIZED", "PARSING"} /\ parsing' # "SUSPENDED"
          /\ \/ (GetBufferInPlace(len) \/ GetBufferFails(len)) /\ UNCHANGED eventVars
             \/ GetBufferMoves(len) /\ ForgetEvents
      BY <1>4, <2>2
      DEF GetBuffer, AppRuns, MayParse, insideHandler, callVars, statusVars
    <3> QED BY <2>1, <3>1, PosRoom
  <2> QED BY <1>1, <2>2
<1>5. ASSUME NEW resumable \in BOOLEAN, StopParser(resumable) PROVE PosInv'
  <2>1. CASE ~(\E error : Refuse(error))
    <3>1. /\ UNCHANGED <<bufferPtr, bufferEnd, parseEndByteIndex, eventVars, pc, frame, processor>>
          /\ \/ parsing = "SUSPENDED" /\ parsing' = "FINISHED"
             \/ pc = "handler"
      BY <1>5, <2>1 DEF StopParser, insideHandler, bufferVars, callVars
    <3> QED BY <3>1 DEF PosInv, PlaceInv, eventVars, StreamIndex
  <2> QED BY <1>1, <2>1
<1>6. CASE ParseInvalid BY <1>1, <1>6 DEF ParseInvalid
<1>7. CASE ResumeParser
  <2>1. CASE ~(\E error : Refuse(error)) /\ processor # "error"
    <3>1. /\ pc = "app" /\ parsing = "SUSPENDED" /\ parsing' = "PARSING"
          /\ UNCHANGED <<bufferPtr, bufferEnd, parseEndByteIndex, processor, eventPtr>>
          /\ \/ PositionUpTo(bufferPtr) /\ pc' = pc
             \/ UNCHANGED positionVars /\ pc' = "process" /\ frame' = ProcessFrame(bufferPtr)
      BY <1>7, <2>1 DEF ResumeParser, AppRuns, insideHandler, bufferVars, callVars
    <3>2. /\ PlaceInv /\ positionPtr = bufferPtr /\ eventPtr <= bufferPtr
      BY <2>1, <3>1, Zenon DEF PosInv, PlaceInv
    <3>3. bufferPtr \in Nat /\ bufferPtr # Null BY Numbers DEF Null
    <3>4. CASE PositionUpTo(bufferPtr) /\ pc' = pc
      <4>1. position' \in Nat /\ positionPtr' = bufferPtr /\ position' = StreamIndex(bufferPtr)'
        BY <3>1, <3>2, <3>3, <3>4, CountedUpTo DEF StreamIndex
      <4> QED BY <3>1, <3>2, <3>3, <3>4, <4>1, Zenon DEF PosInv, PlaceInv
    <3>5. CASE UNCHANGED positionVars /\ pc' = "process" /\ frame' = ProcessFrame(bufferPtr)
      <4>1. frame'.s = bufferPtr BY <3>3, <3>5, ProcessFrameLemma
      <4> QED BY <3>1, <3>2, <3>3, <3>5, <4>1, SMTT(30) DEF PosInv, PlaceInv, positionVars, StreamIndex
    <3> QED BY <3>1, <3>4, <3>5
  <2>2. CASE ~(\E error : Refuse(error)) /\ processor = "error"
    BY <1>7, <2>2 DEF ResumeParser, PosInv
  <2> QED BY <1>1, <2>1, <2>2
<1>8. CASE ParserReset
  <2>1. CASE ~(\E error : Refuse(error))
    <3>1. /\ BufferReset /\ parsing' = "INITIALIZED" /\ pc' = "app"
          /\ eventPtr' = Null /\ positionPtr' = Null /\ position' = 0
      BY <1>8, <2>1 DEF ParserReset, insideHandler, callVars
    <3>2. StreamIndex(bufferPtr)' = 0 /\ bufferPtr' = 0
      BY <3>1 DEF BufferReset, StreamIndex
    <3> QED BY <3>1, <3>2 DEF PosInv, PlaceInv, Null
  <2> QED BY <1>1, <2>1
<1>9. ASSUME NEW enabled \in BOOLEAN, SetReparseDeferralEnabled(enabled) PROVE PosInv'
  BY <1>9, PosKept DEF SetReparseDeferralEnabled, bufferVars, callVars, statusVars
<1>10. CASE GetCurrentLineNumber
  <2> SUFFICES ASSUME processor # "error" PROVE PlaceInv'
    BY <1>10 DEF PosInv, GetCurrentLineNumber
  <2>1. /\ UNCHANGED <<bufferPtr, bufferEnd, parseEndByteIndex, parsing, pc, frame>>
        /\ UNCHANGED <<processor, eventPtr>>
        /\ pc \in {"app", "handler"} /\ eventPtr # Null /\ eventPtr >= positionPtr
        /\ PositionUpTo(eventPtr)
    BY <1>10 DEF GetCurrentLineNumber, bufferVars, callVars, statusVars
  <2>2. PlaceInv BY DEF PosInv
  <2>3. eventPtr \in Nat /\ positionPtr \in Nat /\ positionPtr # Null
    BY <2>1, <2>2 DEF PlaceInv
  <2>4. position' \in Nat /\ positionPtr' = eventPtr /\ position' = StreamIndex(eventPtr)'
    BY <2>1, <2>2, <2>3, CountedUpTo DEF StreamIndex
  <2>5. (pc = "app" /\ parsing # "FINISHED") => eventPtr = bufferPtr
    BY <2>1, <2>2, <2>3, Numbers DEF PlaceInv
  <2> QED BY <2>1, <2>2, <2>3, <2>4, <2>5, SMTT(30) DEF PlaceInv
<1> QED BY <1>2, <1>3, <1>4, <1>5, <1>6, <1>7, <1>8, <1>9, <1>10 DEF AppCalls

LEMMA PosProcesses ==
    ASSUME BufferInv, CallInv, LogInv, PosInv, Processes
    PROVE  PosInv'
<1>1. ASSUME NEW error, ReturnError(error) PROVE PosInv' BY <1>1, PosError
<1>2. CASE ParseCopied
  <2>1. /\ pc = "copied" /\ frame.len \in Nat /\ frame.isFinal \in BOOLEAN
        /\ parsing = "PARSING"
    BY <1>2, BufferAssumption, SMTT(30) DEF CallInv, ParseCopied, Frames, BufferInv, BufferTypeOK
  <2> QED BY <1>2, <2>1, PosParseBufferBody DEF ParseCopied
<1>3. CASE ContentNone \/ ContentPartial \/ ContentInvalid
  <2>1. /\ pc = "process" /\ processor = "content" /\ eventPtr' = frame.s
        /\ ReturnNone(frame.s) \/ \E error : ReturnError(error)
    BY <1>3, Zenon DEF ContentNone, ContentPartial, ContentInvalid, ContentRuns
  <2>2. frame.s \in Nat /\ PlaceInv /\ positionPtr <= frame.s
    BY <2>1, Numbers, SMTT(30) DEF CallInv, PosInv, PlaceInv
  <2> QED BY <1>1, <2>1, <2>2, PosReturnNone
<1>4. CASE ContentCallback
  <2>1. /\ pc = "process" /\ pc' = "handler" /\ processor = "content" /\ eventPtr' = frame.s
        /\ UNCHANGED <<bufferPtr, bufferEnd, parseEndByteIndex, positionVars, processor, parsing>>
    BY <1>4 DEF ContentCallback, ContentRuns, Call, bufferVars, statusVars
  <2>2. frame.s \in Nat /\ PlaceInv /\ positionPtr <= frame.s
    BY <2>1, Numbers, SMTT(30) DEF CallInv, PosInv, PlaceInv
  <2> QED BY <2>1, <2>2, Zenon DEF PosInv, PlaceInv, positionVars, StreamIndex
<1>5. CASE ContentEntityRef
  <2>1. PICK i \in 1..Len(doc) : CompleteToken(i, frame.s) /\ Consume(frame.s + doc[i].len)
    BY <1>5, Zenon DEF ContentEntityRef
  <2>2. /\ pc = "process" /\ pc' = "process" /\ processor = "content" /\ processor' = "entity"
        /\ eventPtr' = frame.s
        /\ UNCHANGED <<positionVars, parsing>>
    BY <1>5, Zenon DEF ContentEntityRef, ContentRuns, callVars, statusVars
  <2>3. frame.s \in Nat /\ PlaceInv /\ positionPtr <= frame.s /\ positionPtr \in Nat
    BY <2>2, Numbers, SMTT(30) DEF CallInv, PosInv, PlaceInv
  <2>4. doc[i].len \in Nat BY TokenTypes, Zenon DEF CallInv
  <2>5. /\ bufferPtr' = frame.s + doc[i].len /\ UNCHANGED <<bufferEnd, parseEndByteIndex>>
    BY <2>1 DEF Consume
  <2>6. frame.s <= bufferPtr' /\ positionPtr <= bufferPtr' BY <2>3, <2>4, <2>5
  <2> QED BY <2>2, <2>3, <2>5, <2>6, Zenon DEF PosInv, PlaceInv, positionVars, StreamIndex
<1>6. CASE EntityCallback
  BY <1>6, Zenon
  DEF EntityCallback, EntityRuns, Call, bufferVars, eventVars, statusVars, PosInv, PlaceInv,
      StreamIndex
<1>7. CASE EntityTextEnd
  <2>1. CASE ~(\E error : ReturnError(error))
    BY <1>7, <2>1, PosKept
    DEF EntityTextEnd, bufferVars, positionVars, eventVars, statusVars, callVars
  <2> QED BY <1>1, <2>1
<1>8. CASE EntityClose
  <2>1. /\ pc = "process" /\ processor = "entity" /\ processor' = "content"
        /\ frame' = [frame EXCEPT !.s = bufferPtr]
        /\ UNCHANGED <<bufferPtr, bufferEnd, parseEndByteIndex, eventVars, parsing, pc>>
    BY <1>8 DEF EntityClose, EntityRuns, bufferVars, statusVars
  <2>2. frame'.s = bufferPtr BY <2>1 DEF CallInv, Frames
  <2> QED BY <2>1, <2>2 DEF PosInv, PlaceInv, eventVars, StreamIndex
<1>9. CASE ErrorProcessor
  BY <1>9 DEF ErrorProcessor, ReturnError, PosInv
<1> QED BY <1>2, <1>3, <1>4, <1>5, <1>6, <1>7, <1>8, <1>9 DEF Processes

LEMMA PosReturns ==
    ASSUME BufferInv, CallInv, LogInv, PosInv, Returns
    PROVE  PosInv'
<1>1. ASSUME NEW error, ReturnError(error) PROVE PosInv' BY <1>1, PosError
<1>2. ASSUME pc = "handler", processor = "content", NEW i \in 1..Len(doc),
             CompleteToken(i, frame.s)
      PROVE  /\ PlaceInv /\ positionPtr \in Nat /\ frame.s + doc[i].len \in Nat
             /\ positionPtr <= frame.s + doc[i].len
  <2>1. PICK j \in 1..Len(doc) : Reporting(j) BY <1>2 DEF LogInv, ContentInv
  <2>2. i = j
    <3>1. doc[i].start = StreamIndex(frame.s) BY <1>2, TokenAtCursor
    <3>2. doc[j].start = StreamIndex(frame.s) BY <2>1, Zenon DEF Reporting
    <3> QED BY <3>1, <3>2, TokensAreApart DEF CallInv
  <2>3. doc[i].len \in Nat BY TokenTypes, Zenon DEF CallInv
  <2>4. frame.s \in Nat BY <1>2, Numbers, SMTT(30) DEF CallInv
  <2>5. eventPtr = frame.s + 0 \/ eventPtr = frame.s + doc[i].len
    BY <2>1, <2>2, Zenon DEF Reporting
  <2>6. PlaceInv /\ positionPtr <= eventPtr /\ positionPtr \in Nat
    BY <1>2, Zenon DEF PosInv, PlaceInv
  <2> QED BY <2>3, <2>4, <2>5, <2>6
<1>3. CASE HandlerReturnsInToken
  <2>1. PICK i \in 1..Len(doc) :
           CompleteToken(i, frame.s) /\ eventPtr' = frame.s + doc[i].len
    BY <1>3 DEF HandlerReturnsInToken
  <2>2. /\ pc = "handler" /\ pc' = "handler" /\ processor = "content"
        /\ UNCHANGED <<bufferPtr, bufferEnd, parseEndByteIndex, positionVars, parsing, processor>>
    BY <1>3 DEF HandlerReturnsInToken, insideHandler, Call, bufferVars, statusVars
  <2>3. /\ PlaceInv /\ eventPtr' \in Nat /\ positionPtr <= eventPtr'
    BY <1>2, <2>1, <2>2, Zenon
  <2> QED BY <2>2, <2>3, Zenon DEF PosInv, PlaceInv, positionVars, StreamIndex
<1>4. CASE HandlerReturns
  <2>1. PICK i \in 1..Len(doc) :
           CompleteToken(i, frame.s) /\ AfterToken(frame.s + doc[i].len)
    BY <1>4 DEF HandlerReturns
  <2> DEFINE next == frame.s + doc[i].len
  <2>2. pc = "handler" /\ processor = "content" /\ eventPtr' = next
    BY <1>4, <2>1, Zenon DEF HandlerReturns, insideHandler, AfterToken
  <2>3. PlaceInv /\ positionPtr \in Nat /\ next \in Nat /\ positionPtr <= next
    BY <1>2, <2>1, <2>2, Zenon
  <2>4. CASE ReturnNone(next) BY <2>2, <2>3, <2>4, PosReturnNone
  <2>5. CASE ContinueAt(next)
    <3>1. /\ frame' = [frame EXCEPT !.s = next] /\ pc' = "process"
          /\ UNCHANGED <<bufferPtr, bufferEnd, parseEndByteIndex, positionVars, parsing, processor>>
      BY <2>5 DEF ContinueAt, bufferVars, statusVars
    <3>2. frame'.s = next BY <3>1 DEF CallInv, Frames
    <3> QED BY <2>2, <2>3, <3>1, <3>2 DEF PosInv, PlaceInv, positionVars, StreamIndex
  <2> QED BY <1>1, <2>1, <2>4, <2>5, Zenon DEF AfterToken
<1>5. CASE HandlerReturnsInEntity
  <2>1. pc = "handler" /\ processor = "entity" /\ eventPtr' = eventPtr
    BY <1>5 DEF HandlerReturnsInEntity, insideHandler
  <2>2. /\ PlaceInv /\ positionPtr <= bufferPtr /\ eventPtr <= bufferPtr
    BY <2>1, Zenon DEF PosInv, PlaceInv
  <2>3. bufferPtr \in Nat BY Numbers
  <2>4. CASE ReturnNone(bufferPtr) /\ processor' = processor
    <3>1. /\ pc' = "app" /\ UNCHANGED <<bufferPtr, bufferEnd, parseEndByteIndex>>
          /\ positionPtr # Null /\ positionPtr \in Nat
      BY <2>1, <2>2, <2>4, Zenon DEF ReturnNone, Consume, PlaceInv
    <3>2. CASE PositionUpTo(bufferPtr)
      <4>1. position' \in Nat /\ positionPtr' = bufferPtr /\ position' = StreamIndex(bufferPtr)'
        BY <2>2, <2>3, <3>1, <3>2, CountedUpTo DEF StreamIndex
      <4>2. bufferPtr # Null BY <2>3 DEF Null
      <4> QED BY <2>1, <2>2, <2>3, <3>1, <4>1, <4>2, Zenon DEF PosInv, PlaceInv
    <3>3. CASE parsing' = "FINISHED" /\ UNCHANGED positionVars
      BY <2>1, <2>2, <3>1, <3>3, Zenon DEF PosInv, PlaceInv, positionVars, StreamIndex
    <3> QED BY <2>4, <3>2, <3>3 DEF ReturnNone
  <2>5. CASE /\ pc' = "process"
             /\ UNCHANGED <<bufferVars, positionVars, statusVars, processor, frame>>
    BY <2>1, <2>2, <2>5, Zenon
    DEF PosInv, PlaceInv, bufferVars, positionVars, statusVars, StreamIndex
  <2> QED BY <1>1, <1>5, <2>4, <2>5 DEF HandlerReturnsInEntity
<1> QED BY <1>3, <1>4, <1>5 DEF Returns

LEMMA PosStep == BufferInv /\ CallInv /\ LogInv /\ PosInv /\ [Next]_vars => PosInv'
<1> SUFFICES ASSUME BufferInv, CallInv, LogInv, PosInv, [Next]_vars PROVE PosInv'
  OBVIOUS
<1>1. CASE UNCHANGED vars BY <1>1, PosKept, Zenon DEF vars, bufferVars, eventVars
<1> QED BY <1>1, PosAppCalls, PosProcesses, PosReturns DEF Next

LEMMA PosStart == Init => PosInv
BY DEF Init, BufferInit, StreamIndex, PosInv, PlaceInv, Null

(* At a callback outside entities the event is the token being reported.   *)
LEMMA EventLemma ==
    ASSUME BufferInv, CallInv, LogInv
    PROVE  EventIsToken
<1> SUFFICES ASSUME insideHandler, processor = "content" PROVE EventIsToken
  BY Zenon DEF EventIsToken
<1>1. pc = "handler" /\ parseEndPtr = bufferEnd /\ doc \in Docs
  BY DEF insideHandler, CallInv
<1>2. PICK i \in 1..Len(doc) : Reporting(i) BY <1>1 DEF LogInv, ContentInv
<1>3. /\ doc[i].start \in Nat /\ doc[i].len \in Nat \ {0}
      /\ doc[i].first \in Nat /\ doc[i].calls \in Nat
  BY <1>1, TokenTypes, Zenon
<1>4. doc[i].kind = "data" => doc[i].calls = 1 BY <1>1, TokenTypes
<1>5. /\ frame.calls \in 0..(doc[i].calls - 1)
      /\ Len(log) = doc[i].first + doc[i].calls - frame.calls
      /\ StreamIndex(frame.s) = doc[i].start
      /\ eventPtr = frame.s + IF frame.calls = doc[i].calls - 1 THEN 0 ELSE doc[i].len
  BY <1>2, Zenon DEF Reporting
<1>6. Len(log) \in (doc[i].first + 1)..(doc[i].first + doc[i].calls) BY <1>3, <1>5, SMTT(30)
<1>7. log[Len(log)] = Len(log)
  BY <1>3, <1>6, SMTT(30) DEF LogInv
<1>8. Len(log) > doc[i].first + 1 <=> frame.calls # doc[i].calls - 1
  BY <1>3, <1>5, SMTT(30)
<1>9. ByteIndex = StreamIndex(eventPtr) BY <1>1 DEF ByteIndex, StreamIndex
<1>10. CASE frame.calls = doc[i].calls - 1
  <2>1. eventPtr = frame.s BY <1>5, <1>10, Numbers, SMTT(30)
  <2>2. ByteIndex = doc[i].start + 0
    <3>1. ByteIndex = doc[i].start BY <1>5, <1>9, <2>1, Zenon
    <3> QED BY <1>3, <3>1
  <2> QED BY <1>6, <1>7, <1>8, <1>10, <2>2, Zenon DEF EventIsToken
<1>11. CASE frame.calls # doc[i].calls - 1
  <2>1. StreamIndex(eventPtr) = StreamIndex(frame.s) + doc[i].len
    <3>1. eventPtr = frame.s + doc[i].len BY <1>5, <1>11, Zenon
    <3>2. frame.s \in Int /\ bufferEnd \in Int /\ parseEndByteIndex \in Int BY Numbers
    <3>3. doc[i].len \in Int BY <1>3
    <3> QED BY <3>1, <3>2, <3>3 DEF StreamIndex
  <2> QED BY <1>3, <1>5, <1>6, <1>7, <1>8, <1>9, <1>11, <2>1, Zenon DEF EventIsToken
<1> QED BY <1>10, <1>11, Zenon

(* Whenever the application asks, and wherever the parse was cut or        *)
(* suspended, XML_GetCurrentLineNumber and XML_GetCurrentColumnNumber have *)
(* counted every byte once, and XML_GetCurrentByteIndex is the token's.    *)
THEOREM ExactPositions == Spec => []PositionsAreExact
<1>1. PosInv => (processor # "error" =>
                   position = StreamIndex(IF positionPtr = Null THEN bufferPtr ELSE positionPtr))
  BY DEF PosInv, PlaceInv
<1>2. BufferInv /\ CallInv /\ LogInv /\ PosInv => PositionsAreExact
  BY <1>1, EventLemma DEF PositionsAreExact
<1> QED BY <1>2, PosStart, PosStep, DocumentInv, PTL DEF Spec

-----------------------------------------------------------------------------
(* Stops and errors. *)

(* XML_StopParser in a handler ends the parse call, which reports the      *)
(* suspension unless an error was found on the way out.                    *)
THEOREM SuspensionReported == Spec => SuspendIsReported
<1> DEFINE Ends == pc' = "app" /\ (status' = "SUSPENDED" \/ processor' = "error")
<1>1. ASSUME CallInv, LogInv, pc = "handler", parsing = "SUSPENDED", pc' # "handler", Next
      PROVE  Ends
  <2> USE <1>1
  <2>1. ASSUME NEW error, ReturnError(error) PROVE Ends BY <2>1 DEF ReturnError
  <2>2. ASSUME NEW ptr, ReturnNone(ptr) PROVE Ends BY <2>2 DEF ReturnNone
  <2>3. ~AppCalls
    BY Zenon DEF AppCalls, AppRuns, Parse, ParseBuffer, GetBuffer, StopParser, ParseInvalid,
           ResumeParser, ParserReset, SetReparseDeferralEnabled, GetCurrentLineNumber,
           RefuseInsideHandler, RefuseStopped, RefuseStart, MayParse, Refuse, insideHandler,
           callVars
  <2>4. ~Processes
    BY DEF Processes, ParseCopied, ContentNone, ContentPartial, ContentInvalid,
           ContentCallback, ContentEntityRef, EntityCallback, EntityTextEnd, EntityClose,
           ErrorProcessor, ContentRuns, EntityRuns
  <2>5. CASE Returns
    BY <2>1, <2>2, <2>5
    DEF Returns, HandlerReturnsInToken, Call, HandlerReturns, AfterToken,
        HandlerReturnsInEntity
  <2> QED BY <2>3, <2>4, <2>5 DEF Next
<1>2. CallInv /\ LogInv /\ [Next]_vars
        => [(insideHandler /\ parsing = "SUSPENDED" /\ pc' # "handler") => Ends]_vars
  BY <1>1 DEF insideHandler
<1> QED BY <1>2, DocumentInv, PTL DEF Spec, SuspendIsReported

(* And it reports an abort as XML_ERROR_ABORTED, when no entity's text     *)
(* ends in ']'.                                                            *)
THEOREM StopsReported ==
    ASSUME NoTrailing
    PROVE  Spec => StopsAreReported
<1> DEFINE Aborted == status' = "ERROR" /\ errorCode' = "ABORTED"
<1>1. ASSUME CallInv, LogInv, pc = "handler", parsing = "FINISHED", pc' = "app", Next
      PROVE  Aborted
  <2> USE <1>1
  <2>1. ReturnError("ABORTED") => Aborted BY DEF ReturnError
  <2>2. ~AppCalls
    BY Zenon DEF AppCalls, AppRuns, Parse, ParseBuffer, GetBuffer, StopParser, ParseInvalid,
           ResumeParser, ParserReset, SetReparseDeferralEnabled, GetCurrentLineNumber,
           RefuseInsideHandler, RefuseStopped, RefuseStart, MayParse, Refuse, insideHandler,
           callVars
  <2>3. ~Processes
    BY DEF Processes, ParseCopied, ContentNone, ContentPartial, ContentInvalid,
           ContentCallback, ContentEntityRef, EntityCallback, EntityTextEnd, EntityClose,
           ErrorProcessor, ContentRuns, EntityRuns
  <2>4. CASE HandlerReturnsInToken BY <2>4 DEF HandlerReturnsInToken, Call
  <2>5. CASE HandlerReturns BY <2>1, <2>5, Zenon DEF HandlerReturns, AfterToken
  <2>6. CASE HandlerReturnsInEntity
    <3>1. ~doc[entity.token].trailing
      BY <2>6 DEF HandlerReturnsInEntity, NoTrailing, CallInv, LogInv, EntityInv
    <3> QED BY <2>1, <2>6, <3>1 DEF HandlerReturnsInEntity
  <2> QED BY <2>2, <2>3, <2>4, <2>5, <2>6 DEF Next, Returns
<1>2. CallInv /\ LogInv /\ [Next]_vars
        => [(insideHandler /\ parsing = "FINISHED" /\ pc' = "app") => Aborted]_vars
  BY <1>1 DEF insideHandler
<1>3. Spec => AbortIsReported BY <1>2, DocumentInv, PTL DEF Spec, AbortIsReported
<1> QED BY <1>3, SuspensionReported DEF StopsAreReported

(* A fault of the document is what errorProcessor goes on to return. *)
SilenceInv ==
    /\ errorCode \in DocumentErrors => processor = "error"
    /\ resets \in Nat

LEMMA SilenceStart == Init => SilenceInv
BY DEF Init, SilenceInv, DocumentErrors

(* What a step does to the error: it is kept, replaced by the refusal of   *)
(* a call, or found by a processor, which then is errorProcessor.          *)
LEMMA SilenceStep ==
    ASSUME CallInv, SilenceInv, [Next]_vars
    PROVE  SilenceInv'
<1> USE DEF SilenceInv, DocumentErrors
<1>1. ASSUME NEW error, error \notin DocumentErrors \/ error = errorCode, Refuse(error)
      PROVE  SilenceInv'
  BY <1>1 DEF Refuse, textVars
<1>2. ASSUME NEW error, ReturnError(error), resets' = resets PROVE SilenceInv'
  BY <1>2 DEF ReturnError
<1>3. ASSUME NEW ptr, ReturnNone(ptr), resets' = resets PROVE SilenceInv'
  BY <1>3 DEF ReturnNone
<1>4. ASSUME NEW len, NEW isFinal, ParseBufferBody(len, isFinal) PROVE SilenceInv'
  BY <1>4 DEF ParseBufferBody, textVars, resultVars
<1>5. CASE AppCalls
  <2> USE <1>1 DEF RefuseInsideHandler, RefuseStopped, RefuseStart
  <2>1. ASSUME NEW len, NEW isFinal, Parse(len, isFinal) PROVE SilenceInv'
    BY <2>1, Zenon DEF Parse, textVars, resultVars
  <2>2. ASSUME NEW len, NEW isFinal, ParseBuffer(len, isFinal) PROVE SilenceInv'
    BY <1>4, <2>2 DEF ParseBuffer
  <2>3. ASSUME NEW len, GetBuffer(len) PROVE SilenceInv'
    BY <2>3 DEF GetBuffer, textVars, resultVars
  <2>4. ASSUME NEW resumable, StopParser(resumable) PROVE SilenceInv'
    BY <2>4 DEF StopParser, textVars, resultVars
  <2>5. CASE ParseInvalid BY <2>5 DEF ParseInvalid
  <2>6. CASE ResumeParser BY <2>6 DEF ResumeParser, textVars, resultVars
  <2>7. CASE ParserReset BY <2>7 DEF ParserReset
  <2>8. ASSUME NEW enabled, SetReparseDeferralEnabled(enabled) PROVE SilenceInv'
    BY <2>8 DEF SetReparseDeferralEnabled, textVars, resultVars
  <2>9. CASE GetCurrentLineNumber
    BY <2>9 DEF GetCurrentLineNumber, textVars, resultVars
  <2> QED
    BY <1>5, <2>1, <2>2, <2>3, <2>4, <2>5, <2>6, <2>7, <2>8, <2>9, Zenon DEF AppCalls
<1>6. CASE Processes
  BY <1>2, <1>3, <1>4, <1>6
  DEF Processes, ParseCopied, ContentNone, ContentPartial, ContentInvalid,
      ContentCallback, ContentEntityRef, EntityCallback, EntityTextEnd, EntityClose,
      ErrorProcessor, ContentRuns, EntityRuns, textVars, resultVars
<1>7. CASE Returns
  BY <1>2, <1>3, <1>7
  DEF Returns, HandlerReturnsInToken, HandlerReturns, AfterToken, ContinueAt,
      HandlerReturnsInEntity, textVars, resultVars
<1>8. CASE UNCHANGED vars BY <1>8 DEF vars
<1> QED BY <1>5, <1>6, <1>7, <1>8 DEF Next

LEMMA SilentStep ==
    ASSUME BufferInv, CallInv, LogInv, processor = "error", resets \in Nat,
           resets' = resets, Next
    PROVE  /\ processor' = "error" /\ log' = log
           /\ StreamIndex(bufferPtr)' = StreamIndex(bufferPtr)
<1> DEFINE Silent == /\ processor' = "error" /\ log' = log
                     /\ StreamIndex(bufferPtr)' = StreamIndex(bufferPtr)
<1>1. ASSUME NEW error, Refuse(error) PROVE Silent
  BY <1>1 DEF Refuse, textVars, bufferVars, StreamIndex
<1>2. ASSUME UNCHANGED <<bufferVars, log, processor>> PROVE Silent
  BY <1>2 DEF bufferVars, StreamIndex
<1>3. ASSUME NEW len \in Nat, NEW isFinal, ParseBufferBody(len, isFinal) PROVE Silent
  <2>1. processor' = "error" /\ log' = log BY <1>3 DEF ParseBufferBody, textVars
  <2>2. UNCHANGED bufferVars \/ AppendInput(len) BY <1>3 DEF ParseBufferBody
  <2> QED BY <1>2, <2>1, <2>2, IndexKept
<1>4. CASE AppCalls
  <2> USE <1>1 DEF RefuseInsideHandler, RefuseStopped, RefuseStart
  <2>1. ASSUME NEW len \in 0..MaxRequest, NEW isFinal, Parse(len, isFinal) PROVE Silent
    <3>1. CASE ~(\E error : Refuse(error))
      <4>1. /\ processor' = "error" /\ log' = log /\ len \in Nat
            /\ GetBufferInPlace(len) \/ GetBufferMoves(len) \/ GetBufferFails(len)
        BY <2>1, <3>1, BufferAssumption, SMTT(30) DEF Parse, textVars
      <4> QED BY <4>1, IndexKept
    <3> QED BY <3>1
  <2>2. ASSUME NEW len \in 0..MaxRequest, NEW isFinal, ParseBuffer(len, isFinal) PROVE Silent
    BY <1>3, <2>2, BufferAssumption DEF ParseBuffer
  <2>3. ASSUME NEW len \in 0..MaxRequest, GetBuffer(len) PROVE Silent
    <3>1. CASE ~(\E error : Refuse(error))
      <4>1. /\ processor' = "error" /\ log' = log /\ len \in Nat
            /\ GetBufferInPlace(len) \/ GetBufferMoves(len) \/ GetBufferFails(len)
        BY <2>3, <3>1, BufferAssumption DEF GetBuffer, textVars
      <4> QED BY <4>1, IndexKept
    <3> QED BY <3>1
  <2>4. ASSUME NEW resumable, StopParser(resumable) PROVE Silent
    BY <1>2, <2>4 DEF StopParser, textVars
  <2>5. CASE ParseInvalid BY <2>5 DEF ParseInvalid
  <2>6. CASE ResumeParser BY <1>2, <2>6, Zenon DEF ResumeParser, textVars
  <2>7. CASE ParserReset
    <3>1. resets' # resets + 1 OBVIOUS
    <3> QED BY <2>7, <3>1 DEF ParserReset
  <2>8. ASSUME NEW enabled, SetReparseDeferralEnabled(enabled) PROVE Silent
    BY <1>2, <2>8 DEF SetReparseDeferralEnabled, textVars
  <2>9. CASE GetCurrentLineNumber BY <1>2, <2>9 DEF GetCurrentLineNumber, textVars
  <2> QED
    BY <1>4, <2>1, <2>2, <2>3, <2>4, <2>5, <2>6, <2>7, <2>8, <2>9, Zenon DEF AppCalls
<1>5. CASE ParseCopied
  <2>1. frame.len \in Nat
    BY <1>5, BufferAssumption, SMTT(30) DEF ParseCopied, CallInv, BufferInv, BufferTypeOK
  <2> QED BY <1>3, <1>5, <2>1 DEF ParseCopied
<1>6. CASE ErrorProcessor
  <2>1. pc = "process" /\ log' = log /\ frame.start = bufferPtr
    BY <1>6 DEF ErrorProcessor, textVars, CallInv
  <2>2. /\ processor' = "error"
        /\ UNCHANGED <<bufferPtr, bufferEnd, parseEndByteIndex>>
    BY <1>6, <2>1, Zenon DEF ErrorProcessor, ReturnError, ReturnNone, Consume, bufferVars
  <2> QED BY <2>1, <2>2 DEF StreamIndex
<1>7. ~Returns /\ (Processes => ParseCopied \/ ErrorProcessor)
  BY DEF Returns, HandlerReturnsInToken, HandlerReturns, HandlerReturnsInEntity,
         Processes, ContentNone, ContentPartial, ContentInvalid, ContentCallback,
         ContentEntityRef, EntityCallback, EntityTextEnd, EntityClose, ContentRuns, EntityRuns
<1> QED BY <1>4, <1>5, <1>6, <1>7 DEF Next

(* After an error no byte is consumed and nothing reported before a reset, *)
(* whatever is called and whatever the later calls make of m_errorCode.    *)
THEOREM ErrorIsFinal == Spec => ErrorSilences
<1> DEFINE Silent == /\ processor' = "error" /\ log' = log
                     /\ StreamIndex(bufferPtr)' = StreamIndex(bufferPtr)
           Failed == processor = "error" \/ errorCode \in DocumentErrors
<1>1. BufferInv /\ CallInv /\ LogInv /\ SilenceInv /\ [Next]_vars
        => [(Failed /\ resets' = resets) => Silent]_vars
  BY SilentStep DEF SilenceInv
<1>2. CallInv /\ SilenceInv /\ [Next]_vars => SilenceInv' BY SilenceStep
<1> QED BY <1>1, <1>2, SilenceStart, DocumentInv, PTL DEF Spec, ErrorSilences
=============================================================================
