--------------------------- MODULE EntityExpansion ---------------------------
(***************************************************************************)
(* Expansion of internal general entities: processEntity,                  *)
(* internalEntityProcessor and doContent in content, storeAttributeValue   *)
(* and appendAttributeValue in attribute values, driven by the loop of     *)
(* callProcessor, with the accounting of expanded bytes.                   *)
(*                                                                         *)
(* The code expands without recursion: entities being expanded are on two  *)
(* lists, and how far each has got is kept in the entity itself.           *)
(*                                                                         *)
(* A text is a sequence of tokens: data, references, tags.  The kinds of   *)
(* entity: "internal"; "inPE", internal but declared in a parameter        *)
(* entity; "external"; "binary" (unparsed); "undeclared".                  *)
(***************************************************************************)
EXTENDS Integers, Sequences, FiniteSets

CONSTANTS Entities,      \* the general entities a text may refer to
          Kind,          \* what the DTD says of each
          Text,          \* the replacement text of each
          Docs,          \* the documents: a root element with its content
          Factor,        \* maximumAmplificationFactor
          Threshold,     \* activationThresholdBytes
          CountMax,      \* the largest XmlBigCount
          MaxResets      \* bound on calls of XML_ParserReset

Shortest == 22           \* lenOfShortestInclude

IsList(list) == list \in Seq({list[i] : i \in DOMAIN list})
IsPiece(t) == t.k = "data" \/ (t.k = "ref" /\ t.e \in Entities)
IsValue(value) == IsList(value) /\ \A i \in 1..Len(value) : IsPiece(value[i])
IsTok(t) == \/ IsPiece(t) \/ t.k = "end"
            \/ t.k \in {"start", "empty"} /\ IsValue(t.a)
IsText(text) == IsList(text) /\ \A i \in 1..Len(text) : IsTok(text[i])

ASSUME ExpansionAssumption ==
    /\ \A e \in Entities :
          /\ Kind[e] \in {"internal", "inPE", "external", "binary", "undeclared"}
          /\ IsText(Text[e])
    /\ \A d \in Docs : IsText(d) /\ d[1].k = "start" /\ d[Len(d)].k = "end"
    /\ Factor \in Nat \ {0} /\ Threshold \in Nat /\ CountMax \in Nat
    /\ MaxResets \in Nat

VARIABLES doc,
          checkEntityDecl,          \* ! hasParamEntityRefs || standalone
          expandInternal,           \* m_defaultExpandInternalEntities
          cursor,                   \* m_bufferPtr: the next token of doc
          openEntities,             \* the entities with open set
          hasMore, processed,       \* the fields of each ENTITY
          openInternalEntities,     \* head first: [entity, startTagLevel]
          openAttributeEntities,    \* head first: the entities
          freeEntities, allocated,  \* OPEN_INTERNAL_ENTITYs free and in all
          tagLevel,
          pc,                       \* the function that runs
          s,                        \* its cursor
          att,                      \* storeAttributeValue's arguments and value
          error,
          countBytesDirect, countBytesIndirect,
          currentDepth,
          out,                      \* history: what was reported
          resets

docVars     == <<doc, checkEntityDecl, expandInternal, resets>>
entityVars  == <<openEntities, hasMore, processed>>
listVars    == <<openInternalEntities, openAttributeEntities, freeEntities,
                 allocated, currentDepth>>
countVars   == <<countBytesDirect, countBytesIndirect>>
vars == <<doc, checkEntityDecl, expandInternal, cursor, openEntities, hasMore,
          processed, openInternalEntities, openAttributeEntities, freeEntities,
          allocated, tagLevel, pc, s, att, error, countBytesDirect,
          countBytesIndirect, currentDepth, out, resets>>

NoAtt == [text |-> <<>>, next |-> 1, value |-> <<>>, account |-> "none", s |-> 1]

Init ==
    /\ doc \in Docs
    /\ checkEntityDecl \in BOOLEAN
    /\ expandInternal \in BOOLEAN
    /\ cursor = 1
    /\ openEntities = {}
    /\ hasMore = [e \in Entities |-> FALSE]
    /\ processed = [e \in Entities |-> 1]
    /\ openInternalEntities = <<>>
    /\ openAttributeEntities = <<>>
    /\ freeEntities = 0
    /\ allocated = 0
    /\ tagLevel = 0
    /\ pc = "processor"
    /\ s = 1
    /\ att = NoAtt
    /\ error = "NONE"
    /\ countBytesDirect = 0
    /\ countBytesIndirect = 0
    /\ currentDepth = 0
    /\ out = <<>>
    /\ resets = 0

InEntity == openInternalEntities # <<>>
InAttributeEntity == openAttributeEntities # <<>>
Opened == openInternalEntities[1]
ContentText == IF InEntity THEN Text[Opened.entity] ELSE doc
ValueText == IF InAttributeEntity THEN Text[openAttributeEntities[1]] ELSE att.text

Failing(code) == error' = code /\ pc' = "failed"

Fail(code) ==
    /\ Failing(code)
    /\ UNCHANGED <<docVars, entityVars, listVars, cursor, tagLevel, s, att, out>>

-----------------------------------------------------------------------------
(* accountingDiffTolerated *)

Bytes(t) == IF t.k \in {"start", "empty"} THEN 2 + Len(t.a) ELSE 1

(* Mutant: the threshold is compared with the direct bytes alone. *)
ToleratedDirect(direct, indirect) ==
    \/ direct < Threshold
    \/ IF direct > 0 THEN direct + indirect <= Factor * direct
                     ELSE Shortest + indirect <= Factor * Shortest

Tolerated(direct, indirect) ==
    \/ direct + indirect < Threshold
    \/ IF direct > 0 THEN direct + indirect <= Factor * direct
                     ELSE Shortest + indirect <= Factor * Shortest

Counted(account, t) ==
    /\ countBytesDirect' = countBytesDirect
                             + IF account = "direct" THEN Bytes(t) ELSE 0
    /\ countBytesIndirect' = countBytesIndirect
                             + IF account = "expansion" THEN Bytes(t) ELSE 0

CountOverflows(account, t) ==
    \/ account = "direct" /\ countBytesDirect > CountMax - Bytes(t)
    \/ account = "expansion" /\ countBytesIndirect > CountMax - Bytes(t)

Account(account, t) ==
    /\ ~CountOverflows(account, t)
    /\ Counted(account, t)
    /\ account # "none" => Tolerated(countBytesDirect', countBytesIndirect')

Breach(account, t) ==
    /\ account # "none"
    /\ \/ CountOverflows(account, t) /\ UNCHANGED countVars
       \/ /\ ~CountOverflows(account, t)
          /\ Counted(account, t)
          /\ ~Tolerated(countBytesDirect', countBytesIndirect')
    /\ Fail("AMPLIFICATION_LIMIT_BREACH")

-----------------------------------------------------------------------------
(* Entities: opening, leaving and closing them. *)

(* The checks of a reference in document order; "NONE" when it may be      *)
(* expanded, reported or skipped.                                          *)
RefError(e) ==
    CASE checkEntityDecl /\ Kind[e] = "undeclared" -> "UNDEFINED_ENTITY"
      [] checkEntityDecl /\ Kind[e] = "inPE" -> "ENTITY_DECLARED_IN_PE"
      [] Kind[e] = "undeclared" -> "NONE"
      [] e \in openEntities -> "RECURSIVE_ENTITY_REF"
      [] Kind[e] = "binary" -> "BINARY_ENTITY_REF"
      [] OTHER -> "NONE"

HasText(e) == Kind[e] \in {"internal", "inPE"}

(* processEntity takes an OPEN_INTERNAL_ENTITY; the caller links it in. *)
TakeOpenEntity ==
    /\ freeEntities' = IF freeEntities > 0 THEN freeEntities - 1 ELSE 0
    /\ allocated' = IF freeEntities > 0 THEN allocated ELSE allocated + 1
    /\ currentDepth' = currentDepth + 1

CloseEntity(e) ==
    /\ openEntities' = openEntities \ {e}
    /\ freeEntities' = freeEntities + 1
    /\ currentDepth' = currentDepth - 1
    /\ UNCHANGED <<hasMore, processed, allocated>>

(* Mutant: processed is not stored. *)
ProgressForgotten(e, next, more, done) ==
    /\ hasMore' = [more EXCEPT ![e] = next <= Len(Text[e])]
    /\ processed' = done

(* The text of e has been read up to next. *)
Progress(e, next, more, done) ==
    IF next <= Len(Text[e])
    THEN hasMore' = more /\ processed' = [done EXCEPT ![e] = next]
    ELSE hasMore' = [more EXCEPT ![e] = FALSE] /\ processed' = done

MoreIn(e) == [hasMore EXCEPT ![e] = TRUE]
FromStart(e) == [processed EXCEPT ![e] = 1]

-----------------------------------------------------------------------------
(* callProcessor calls contentProcessor or internalEntityProcessor. *)

ProcessorRuns ==
    /\ pc = "processor"
    /\ InEntity => hasMore[Opened.entity]
    /\ s' = IF InEntity THEN processed[Opened.entity] ELSE cursor
    /\ pc' = "doContent"
    /\ UNCHANGED <<docVars, entityVars, listVars, countVars, cursor, tagLevel,
                   att, error, out>>

ProcessorCloses ==
    /\ pc = "processor"
    /\ InEntity /\ ~hasMore[Opened.entity]
    /\ CloseEntity(Opened.entity)
    /\ openInternalEntities' = Tail(openInternalEntities)
    /\ UNCHANGED <<docVars, countVars, openAttributeEntities, cursor, tagLevel,
                   pc, s, att, error, out>>

(* doContent returns without an error, and its caller. *)
ContentReturns(next, more, done, suspended) ==
    LET then == IF suspended THEN "suspended" ELSE "processor"
    IN  IF ~InEntity
        THEN /\ cursor' = next /\ hasMore' = more /\ processed' = done
             /\ pc' = then /\ UNCHANGED error
        ELSE /\ Progress(Opened.entity, next, more, done)
             /\ UNCHANGED cursor
             /\ IF next > Len(ContentText) /\ Opened.startTagLevel # tagLevel'
                THEN Failing("ASYNC_ENTITY")
                ELSE pc' = then /\ UNCHANGED error

(* Behind a token: its handlers may have suspended or aborted the parser. *)
AfterToken(next) ==
    /\ s' = next
    /\ UNCHANGED openEntities
    /\ \/ pc' = "doContent" /\ UNCHANGED <<cursor, hasMore, processed, error>>
       \/ ContentReturns(next, hasMore, processed, TRUE)
       \/ Failing("ABORTED") /\ UNCHANGED <<cursor, hasMore, processed>>

-----------------------------------------------------------------------------
(* doContent *)

ContentAccount == IF InEntity THEN "expansion" ELSE "direct"
ContentToken == ContentText[s]
DoContent(kinds) == pc = "doContent" /\ s <= Len(ContentText) /\ ContentToken.k \in kinds
Accounted == Account(ContentAccount, ContentToken)

DoContentBreach ==
    /\ pc = "doContent" /\ s <= Len(ContentText)
    /\ Breach(ContentAccount, ContentToken)

DoContentData ==
    /\ DoContent({"data"})
    /\ Accounted
    /\ out' = Append(out, ContentToken)
    /\ UNCHANGED <<docVars, listVars, tagLevel, att>>
    /\ AfterToken(s + 1)

DoContentRefError ==
    /\ DoContent({"ref"})
    /\ Accounted
    /\ RefError(ContentToken.e) # "NONE"
    /\ Fail(RefError(ContentToken.e))

(* A reference that is reported and not expanded. *)
DoContentReport ==
    /\ DoContent({"ref"})
    /\ Accounted
    /\ LET e == ContentToken.e
       IN  /\ RefError(e) = "NONE"
           /\ ~HasText(e) \/ ~expandInternal
           /\ \/ /\ out' = Append(out, [k |-> IF Kind[e] = "external" THEN "external"
                                                ELSE "skipped", e |-> e])
                 /\ UNCHANGED <<docVars, listVars, tagLevel, att>>
                 /\ AfterToken(s + 1)
              \/ /\ Kind[e] = "external"
                 /\ Fail("EXTERNAL_ENTITY_HANDLING")

DoContentExpand ==
    /\ DoContent({"ref"})
    /\ Accounted
    /\ LET e == ContentToken.e
       IN  /\ RefError(e) = "NONE" /\ HasText(e) /\ expandInternal
           /\ \/ /\ TakeOpenEntity
                 /\ openEntities' = openEntities \cup {e}
                 /\ openInternalEntities' =
                      <<[entity |-> e, startTagLevel |-> tagLevel]>> \o openInternalEntities
                 /\ s' = s + 1
                 /\ UNCHANGED <<docVars, openAttributeEntities, tagLevel, att, out>>
                 /\ ContentReturns(s + 1, MoreIn(e), FromStart(e), FALSE)
              \/ freeEntities = 0 /\ Fail("NO_MEMORY")

StartElement(value) ==
    /\ out' = out \o <<[k |-> "start", a |-> value]>>
                 \o (IF ContentToken.k = "empty" THEN <<[k |-> "end"]>> ELSE <<>>)
    /\ att' = NoAtt
    /\ AfterToken(s + 1)

Normalized(text) == \A i \in 1..Len(text) : text[i].k = "data"

(* Mutant: the account of the token is handed on for an empty element too. *)
ValueAccountDirect(kind) == ContentAccount

(* storeAtts is told not to count the value again only for an empty        *)
(* element.                                                                *)
ValueAccount(kind) == IF kind = "empty" THEN "none" ELSE ContentAccount

DoContentStart ==
    /\ DoContent({"start", "empty"})
    /\ Accounted
    /\ tagLevel' = tagLevel + IF ContentToken.k = "start" THEN 1 ELSE 0
    /\ IF Normalized(ContentToken.a)
       THEN StartElement(ContentToken.a)
       ELSE /\ att' = [NoAtt EXCEPT !.text = ContentToken.a,
                                    !.account = ValueAccount(ContentToken.k)]
            /\ pc' = "storeAttributeValue"
            /\ UNCHANGED <<entityVars, cursor, s, error, out>>
    /\ UNCHANGED <<docVars, listVars>>

DoContentEnd ==
    /\ DoContent({"end"})
    /\ Accounted
    /\ IF tagLevel = (IF InEntity THEN Opened.startTagLevel ELSE 0)
       THEN Fail("ASYNC_ENTITY")
       ELSE /\ tagLevel' = tagLevel - 1
            /\ out' = Append(out, [k |-> "end"])
            /\ UNCHANGED <<docVars, listVars, att>>
            /\ IF tagLevel' > 0
               THEN AfterToken(s + 1)
               ELSE /\ (pc' = "done" /\ UNCHANGED error) \/ Failing("ABORTED")
                    /\ UNCHANGED <<entityVars, cursor, s>>

DoContentNone ==
    /\ pc = "doContent" /\ s > Len(ContentText)
    /\ UNCHANGED countVars
    /\ \/ ~InEntity /\ Fail("NO_ELEMENTS")
       \/ InEntity /\ tagLevel # Opened.startTagLevel /\ Fail("ASYNC_ENTITY")
       \/ /\ InEntity /\ tagLevel = Opened.startTagLevel
          /\ UNCHANGED <<docVars, openEntities, listVars, tagLevel, s, att, out>>
          /\ ContentReturns(s, hasMore, processed, FALSE)

-----------------------------------------------------------------------------
(* storeAttributeValue *)

(* Its loop ends when no entity is open and the value has been read. *)
Stored(entities, next) ==
    IF entities = <<>> /\ next > Len(att.text) THEN "stored"
                                               ELSE "storeAttributeValue"

StoreAppends ==
    /\ pc = "storeAttributeValue"
    /\ InAttributeEntity => hasMore[openAttributeEntities[1]]
    /\ att' = [att EXCEPT !.s = IF InAttributeEntity
                                THEN processed[openAttributeEntities[1]]
                                ELSE att.next]
    /\ pc' = "appendAttributeValue"
    /\ UNCHANGED <<docVars, entityVars, listVars, countVars, cursor, tagLevel,
                   s, error, out>>

StoreCloses ==
    /\ pc = "storeAttributeValue"
    /\ InAttributeEntity /\ ~hasMore[openAttributeEntities[1]]
    /\ CloseEntity(openAttributeEntities[1])
    /\ openAttributeEntities' = Tail(openAttributeEntities)
    /\ pc' = Stored(openAttributeEntities', att.next)
    /\ UNCHANGED <<docVars, countVars, openInternalEntities, cursor, tagLevel,
                   s, att, error, out>>

(* appendAttributeValue returns without an error, and its caller. *)
AppendReturns(next, more, done) ==
    IF InAttributeEntity
    THEN /\ Progress(openAttributeEntities[1], next, more, done)
         /\ pc' = "storeAttributeValue"
         /\ UNCHANGED att
    ELSE /\ hasMore' = more /\ processed' = done
         /\ att' = [att EXCEPT !.next = next]
         /\ pc' = Stored(openAttributeEntities', next)

ValueToken == ValueText[att.s]
AppendsAt(kinds) == pc = "appendAttributeValue" /\ att.s <= Len(ValueText)
                      /\ ValueToken.k \in kinds
ValueTokenAccount == IF InAttributeEntity THEN "expansion" ELSE att.account
ValueAccounted == Account(ValueTokenAccount, ValueToken)

AppendBreach == AppendsAt({"data", "ref"}) /\ Breach(ValueTokenAccount, ValueToken)

(* Markup is not allowed in a value. *)
AppendInvalid ==
    AppendsAt({"start", "empty", "end"}) /\ Fail("INVALID_TOKEN") /\ UNCHANGED countVars

AppendData ==
    /\ AppendsAt({"data"})
    /\ ValueAccounted
    /\ att' = [att EXCEPT !.s = @ + 1, !.value = Append(@, ValueToken)]
    /\ UNCHANGED <<docVars, entityVars, listVars, cursor, tagLevel, pc, s, error, out>>

(* A reference that may be skipped is dropped without a callback. *)
AppendSkips ==
    /\ AppendsAt({"ref"})
    /\ ValueAccounted
    /\ Kind[ValueToken.e] = "undeclared" /\ ~checkEntityDecl
    /\ att' = [att EXCEPT !.s = @ + 1]
    /\ UNCHANGED <<docVars, entityVars, listVars, cursor, tagLevel, pc, s, error, out>>

AppendRefError ==
    /\ AppendsAt({"ref"})
    /\ ValueAccounted
    /\ LET e == ValueToken.e
       IN  \/ RefError(e) # "NONE" /\ Fail(RefError(e))
          \/ /\ RefError(e) = "NONE" /\ Kind[e] = "external"
             /\ Fail("ATTRIBUTE_EXTERNAL_ENTITY_REF")

AppendExpand ==
    /\ AppendsAt({"ref"})
    /\ ValueAccounted
    /\ LET e == ValueToken.e
       IN  /\ RefError(e) = "NONE" /\ HasText(e)
           /\ \/ /\ TakeOpenEntity
                 /\ openEntities' = openEntities \cup {e}
                 /\ openAttributeEntities' = <<e>> \o openAttributeEntities
                 /\ AppendReturns(att.s + 1, MoreIn(e), FromStart(e))
                 /\ UNCHANGED <<docVars, openInternalEntities, cursor, tagLevel,
                                s, error, out>>
              \/ freeEntities = 0 /\ Fail("NO_MEMORY")

AppendNone ==
    /\ pc = "appendAttributeValue" /\ att.s > Len(ValueText)
    /\ UNCHANGED <<docVars, openEntities, listVars, countVars, cursor, tagLevel,
                   s, error, out>>
    /\ AppendReturns(att.s, hasMore, processed)

(* The start tag goes on with its value. *)
StoreReturns ==
    /\ pc = "stored"
    /\ UNCHANGED <<docVars, listVars, countVars, tagLevel>>
    /\ StartElement(att.value)

-----------------------------------------------------------------------------
ResumeParser ==
    /\ pc = "suspended"
    /\ pc' = "processor"
    /\ UNCHANGED <<docVars, entityVars, listVars, countVars, cursor, tagLevel, s,
                   att, error, out>>

(* Mutant: the open entities are dropped, not moved to the free list. *)
MoveEntityListsDrops == UNCHANGED freeEntities

MoveEntityLists ==
    freeEntities' = freeEntities + Len(openInternalEntities)
                                 + Len(openAttributeEntities)

(* XML_ParserReset: moveEntityList for both lists, parserInit, dtdReset. *)
ParserReset ==
    /\ pc \in {"suspended", "done", "failed"}
    /\ resets < MaxResets
    /\ MoveEntityLists
    /\ openInternalEntities' = <<>>
    /\ openAttributeEntities' = <<>>
    /\ openEntities' = {}
    /\ hasMore' = [e \in Entities |-> FALSE]
    /\ processed' = [e \in Entities |-> 1]
    /\ expandInternal' = TRUE
    /\ cursor' = 1 /\ tagLevel' = 0 /\ pc' = "processor" /\ s' = 1
    /\ att' = NoAtt /\ error' = "NONE" /\ out' = <<>>
    /\ countBytesDirect' = 0 /\ countBytesIndirect' = 0 /\ currentDepth' = 0
    /\ resets' = resets + 1
    /\ UNCHANGED <<doc, checkEntityDecl, allocated>>

Expands ==
    \/ ProcessorRuns \/ ProcessorCloses
    \/ DoContentBreach \/ DoContentData \/ DoContentRefError \/ DoContentReport
    \/ DoContentExpand \/ DoContentStart \/ DoContentEnd \/ DoContentNone
    \/ StoreAppends \/ StoreCloses \/ StoreReturns
    \/ AppendBreach \/ AppendInvalid \/ AppendData \/ AppendSkips
    \/ AppendRefError \/ AppendExpand \/ AppendNone

Next == Expands \/ ResumeParser \/ ParserReset

Spec == Init /\ [][Next]_vars

-----------------------------------------------------------------------------
(* An entity is marked open exactly while it is on one of the lists, and   *)
(* it is there once; the depth reported by the tracking is the length of   *)
(* the lists, and no OPEN_INTERNAL_ENTITY is lost, through errors and      *)
(* resets too.                                                             *)
OpenIsTracked ==
    LET internal == openInternalEntities
        attribute == openAttributeEntities
    IN  /\ openEntities = {internal[i].entity : i \in 1..Len(internal)}
                             \cup {attribute[i] : i \in 1..Len(attribute)}
        /\ \A i, j \in 1..Len(internal) :
              internal[i].entity = internal[j].entity => i = j
        /\ \A i, j \in 1..Len(attribute) : attribute[i] = attribute[j] => i = j
        /\ \A i \in 1..Len(internal), j \in 1..Len(attribute) :
              internal[i].entity # attribute[j]
        /\ currentDepth = Len(internal) + Len(attribute)
        /\ allocated = freeEntities + currentDepth

(* What the handlers are given: a piece for each callback and for each     *)
(* part of an attribute value.                                             *)
PiecesAt(items, i) == {i} \X (0..IF items[i].k = "start" THEN Len(items[i].a) ELSE 0)
Size(items) == Cardinality(UNION {PiecesAt(items, i) : i \in 1..Len(items)})

(* Until the protection strikes, what the handlers were given is below the *)
(* activation threshold or within the factor of the document itself.       *)
AmplificationIsBounded ==
    error = "NONE" => \/ Size(out) < Threshold
                      \/ Size(out) <= Factor * countBytesDirect

(* The parser runs by itself; a suspended parser is resumed. *)
FairSpec == Spec /\ WF_vars(Expands) /\ WF_vars(ResumeParser)
=============================================================================
