----------------------------- MODULE EntityValue -----------------------------
(***************************************************************************)
(* Entity declarations of a DTD and the values they store: the roles       *)
(* XML_ROLE_*_ENTITY_NAME and XML_ROLE_ENTITY_VALUE of doProlog,           *)
(* callStoreEntityValue, storeEntityValue, processEntity for values, and   *)
(* the processors that read an external parameter entity inside a value.   *)
(*                                                                         *)
(* A reference to an external parameter entity calls the application back, *)
(* which runs another parser on the entity's text: the parsers form a      *)
(* stack and share one DTD, hence one entityValuePool, one set of ENTITYs  *)
(* and the flags keepProcessing and paramEntityRead.                       *)
(*                                                                         *)
(* A text is a sequence of tokens: data, a parameter entity reference, a   *)
(* reference written with a character reference for its '%' ("escaped"),   *)
(* or an invalid token.                                                    *)
(***************************************************************************)
EXTENDS Integers, Sequences, FiniteSets, Functions

CONSTANTS Names,         \* the parameter entities
          Files,         \* the text of each external one
          Handlers,      \* what an application may do with each reference
          DTDs           \* sequences of declarations [name, kind, value]

NoName == "none"

IsToken(t) ==
    /\ t.k \in {"data", "ref", "escaped", "bad"}
    /\ t.k \in {"ref", "escaped"} => t.e \in Names
IsValueText(tokens) ==
    tokens \in Seq(Range(tokens)) /\ \A i \in 1..Len(tokens) : IsToken(tokens[i])

ASSUME ValueAssumption ==
    /\ NoName \notin Names
    /\ \A e \in Names : IsValueText(Files[e])
    /\ Handlers \subseteq [Names -> {"none", "parse", "skip", "fail"}]
    /\ \A d \in DTDs : \A i \in 1..Len(d) :
          /\ d[i].name \in Names /\ d[i].kind \in {"internal", "external"}
          /\ IsValueText(d[i].value)

VARIABLES decls, at,              \* the declarations, and the next one
          standalone,
          refAllowed,             \* the outer parser's m_isParamEntity, or
                                  \* enc != m_encoding
          handler,                \* what the application does with each entity
          kind, text,             \* the ENTITYs: systemId or textPtr
          open, valueHasMore, valueProcessed,
          pool,                   \* the string at the end of entityValuePool
          keepProcessing, paramEntityRead,
          valueDepth,           \* of the root parser's entity tracking
          valueParsers,           \* the stack of parsers, the running one first
          valuePc, valueError

dtdVars    == <<decls, at, standalone, refAllowed, handler, kind, text>>
valueEntityVars == <<open, valueHasMore, valueProcessed, valueDepth>>
flagVars   == <<keepProcessing, paramEntityRead>>
valueVars == <<decls, at, standalone, refAllowed, handler, kind, text, open, valueHasMore,
          valueProcessed, pool, keepProcessing, paramEntityRead, valueDepth,
          valueParsers, valuePc, valueError>>

(* One parser at work on a value.                                          *)
(*   input       the text given to it                                      *)
(*   next        where callStoreEntityValue goes on in it                  *)
(*   values      m_openValueEntities, head first                           *)
(*   s           the cursor of storeEntityValue                            *)
(*   declEntity  m_declEntity                                              *)
Parser(input, declEntity) ==
    [input |-> input, next |-> 1, values |-> <<>>, s |-> 1,
     declEntity |-> declEntity]

P == valueParsers[1]
OnlyParser == Len(valueParsers) = 1
InValueEntity == P.values # <<>>

(* The text storeEntityValue reads, and the token it is at. *)
Reading == IF InValueEntity THEN text[P.values[1]] ELSE P.input
Token == Reading[P.s]

ValueFailing(code) == valueError' = code /\ valuePc' = "error"

ValueFails(code) ==
    /\ ValueFailing(code)
    /\ UNCHANGED <<dtdVars, valueEntityVars, flagVars, pool, valueParsers>>

ValueInit ==
    /\ decls \in DTDs
    /\ at = 1
    /\ standalone \in BOOLEAN
    /\ refAllowed \in BOOLEAN
    /\ handler \in Handlers
    /\ kind = [e \in Names |-> "undeclared"]
    /\ text = [e \in Names |-> <<>>]
    /\ open = {}
    /\ valueHasMore = [e \in Names |-> FALSE]
    /\ valueProcessed = [e \in Names |-> 1]
    /\ pool = <<>>
    /\ keepProcessing = TRUE
    /\ paramEntityRead = FALSE
    /\ valueDepth = 0
    /\ valueParsers = <<>>
    /\ valuePc = "prolog"
    /\ valueError = "NONE"

-----------------------------------------------------------------------------
(* doProlog *)

Declaring == valuePc = "prolog" /\ at <= Len(decls)
NewName == IF kind[decls[at].name] = "undeclared" THEN decls[at].name ELSE NoName

(* After a parameter entity that was not read, declarations are ignored. *)
DeclareIgnored ==
    /\ Declaring /\ ~keepProcessing
    /\ at' = at + 1
    /\ UNCHANGED <<decls, standalone, refAllowed, handler, kind, text, valueEntityVars,
                   flagVars, pool, valueParsers, valuePc, valueError>>

(* The first declaration of a name binds. *)
DeclareExternal ==
    /\ Declaring /\ keepProcessing
    /\ decls[at].kind = "external"
    /\ kind' = [e \in Names |-> IF e = NewName THEN "external" ELSE kind[e]]
    /\ at' = at + 1
    /\ UNCHANGED <<decls, standalone, refAllowed, handler, text, valueEntityVars,
                   flagVars, pool, valueParsers, valuePc, valueError>>

DeclareInternal ==
    /\ Declaring /\ keepProcessing
    /\ decls[at].kind = "internal"
    /\ kind' = [e \in Names |-> IF e = NewName THEN "internal" ELSE kind[e]]
    /\ valueParsers' = <<Parser(decls[at].value, NewName)>>
    /\ valuePc' = "call"
    /\ UNCHANGED <<decls, at, standalone, refAllowed, handler, text, valueEntityVars,
                   flagVars, pool, valueError>>

(* The text of the entity that was declared: the string in the pool, which *)
(* is finished, or discarded when the declaration was not the first.       *)
StoredText == [e \in Names |-> IF e = P.declEntity THEN pool ELSE text[e]]

(* callStoreEntityValue has returned.  The value is stored, and reported   *)
(* to the entityDeclHandler, before its result is looked at.               *)
ValueStored ==
    /\ valuePc \in {"value", "error"} /\ OnlyParser
    /\ text' = StoredText
    /\ pool' = <<>>
    /\ valueParsers' = <<>>
    /\ IF valuePc = "value" THEN at' = at + 1 /\ valuePc' = "prolog"
                       ELSE UNCHANGED at /\ valuePc' = "failed"
    /\ UNCHANGED <<decls, standalone, refAllowed, handler, kind, valueEntityVars,
                   flagVars, valueError>>

-----------------------------------------------------------------------------
(* callStoreEntityValue *)

CallStores ==
    /\ valuePc = "call"
    /\ InValueEntity => valueHasMore[P.values[1]]
    /\ valueParsers' = <<[P EXCEPT !.s = IF InValueEntity THEN valueProcessed[P.values[1]]
                                                     ELSE P.next]>>
    /\ valuePc' = "store"
    /\ UNCHANGED <<dtdVars, valueEntityVars, flagVars, pool, valueError>>

(* Mutant: the entity is dropped from the list and left open. *)
CallClosesKeepsOpen ==
    /\ valuePc = "call"
    /\ InValueEntity /\ ~valueHasMore[P.values[1]]
    /\ valueDepth' = valueDepth - 1
    /\ valueParsers' = <<[P EXCEPT !.values = Tail(@)]>>
    /\ valuePc' = IF Len(P.values) = 1 /\ P.next > Len(P.input) THEN "value" ELSE "call"
    /\ UNCHANGED <<dtdVars, open, valueHasMore, valueProcessed, flagVars, pool, valueError>>

CallCloses ==
    /\ valuePc = "call"
    /\ InValueEntity /\ ~valueHasMore[P.values[1]]
    /\ open' = open \ {P.values[1]}
    /\ valueDepth' = valueDepth - 1
    /\ valueParsers' = <<[P EXCEPT !.values = Tail(@)]>>
    /\ valuePc' = IF Len(P.values) = 1 /\ P.next > Len(P.input) THEN "value" ELSE "call"
    /\ UNCHANGED <<dtdVars, valueHasMore, valueProcessed, flagVars, pool, valueError>>

(* Mutants: an entity is finished once a reference in it was opened; an    *)
(* entity is never finished.                                               *)
ProgressEndsAtRef(next, opened) ==
    LET stopped(e) == OnlyParser /\ InValueEntity /\ e = P.values[1]
    IN  /\ valueHasMore' = [e \in Names |-> e = opened \/ (valueHasMore[e] /\ ~stopped(e))]
        /\ valueProcessed' = [e \in Names |-> IF e = opened THEN 1 ELSE valueProcessed[e]]
ValueProgressWithoutEnd(next, opened) ==
    LET stopped(e) == OnlyParser /\ InValueEntity /\ e = P.values[1]
    IN  /\ valueHasMore' = [e \in Names |-> e = opened \/ valueHasMore[e]]
        /\ valueProcessed' = [e \in Names |-> CASE e = opened -> 1
                                            [] stopped(e) -> next
                                            [] OTHER -> valueProcessed[e]]

(* storeEntityValue has stopped at next in the text of the first entity    *)
(* on the list, having opened another one.                                 *)
ValueProgress(next, opened) ==
    LET stopped(e) == OnlyParser /\ InValueEntity /\ e = P.values[1]
    IN  /\ valueHasMore' = [e \in Names |->
              \/ e = opened
              \/ valueHasMore[e] /\ ~(stopped(e) /\ next > Len(Reading))]
        /\ valueProcessed' = [e \in Names |->
              CASE e = opened -> 1
                [] stopped(e) /\ next <= Len(Reading) -> next
                [] OTHER -> valueProcessed[e]]

(* storeEntityValue returns without an error.  To callStoreEntityValue, or *)
(* straight to XML_Parse in a parser for an external entity, which passes  *)
(* no nextPtr: whatever is left of the text is dropped.                    *)
StoreValueReturns(next, opened) ==
    LET values == IF opened = NoName THEN P.values ELSE <<opened>> \o P.values
        own == OnlyParser /\ ~InValueEntity
    IN  /\ open' = open \cup ({opened} \ {NoName})
        /\ valueDepth' = valueDepth + (IF opened = NoName THEN 0 ELSE 1)
        /\ ValueProgress(next, opened)
        /\ valueParsers' = <<[P EXCEPT !.values = values,
                                  !.next = IF own THEN next ELSE @]>>
                        \o Tail(valueParsers)
        /\ valuePc' = CASE ~OnlyParser -> "returned"
                   [] own /\ values = <<>> /\ next > Len(P.input) -> "value"
                   [] OTHER -> "call"
        /\ UNCHANGED <<dtdVars, pool, valueError>>

-----------------------------------------------------------------------------
(* storeEntityValue, one token at a time. *)

StoreNone ==
    /\ valuePc = "store"
    /\ P.s > Len(Reading)
    /\ StoreValueReturns(P.s, NoName)
    /\ UNCHANGED flagVars

Storing(k) == valuePc = "store" /\ P.s <= Len(Reading) /\ Token.k = k

Advance(rest) == valueParsers' = <<[rest[1] EXCEPT !.s = @ + 1]>> \o Tail(rest)

StoreData ==
    /\ Storing("data")
    /\ pool' = Append(pool, Token)
    /\ Advance(valueParsers)
    /\ UNCHANGED <<dtdVars, valueEntityVars, flagVars, valuePc, valueError>>

(* A character reference is stored as the character: a '%' becomes the     *)
(* start of a reference when the value is used in another value.           *)
StoreEscaped ==
    /\ Storing("escaped")
    /\ pool' = Append(pool, [k |-> "ref", e |-> Token.e])
    /\ Advance(valueParsers)
    /\ UNCHANGED <<dtdVars, valueEntityVars, flagVars, valuePc, valueError>>

StoreInvalid == Storing("bad") /\ ValueFails("INVALID_TOKEN")

(* No memory for the pool, a name or an OPEN_INTERNAL_ENTITY; or, for text *)
(* that is accounted here, the amplification limit.                        *)
StoreExhausted ==
    /\ valuePc = "store"
    /\ \/ P.s <= Len(Reading) /\ ValueFails("NO_MEMORY")
       \/ (~OnlyParser \/ InValueEntity) /\ ValueFails("AMPLIFICATION_LIMIT_BREACH")

RefAllowed == refAllowed \/ ~OnlyParser \/ InValueEntity

IsRecursive(e) == e \in open \/ e = P.declEntity

StoreRefError ==
    /\ Storing("ref")
    /\ \/ ~RefAllowed /\ ValueFails("PARAM_ENTITY_REF")
       \/ RefAllowed /\ IsRecursive(Token.e) /\ ValueFails("RECURSIVE_ENTITY_REF")

Referring(k) ==
    Storing("ref") /\ RefAllowed /\ kind[Token.e] = k /\ ~IsRecursive(Token.e)

StoreUndeclared ==
    /\ Referring("undeclared")
    /\ StoreValueReturns(P.s + 1, NoName)
    /\ keepProcessing' = standalone
    /\ UNCHANGED paramEntityRead

(* processEntity *)
StoreInternal ==
    /\ Referring("internal")
    /\ StoreValueReturns(P.s + 1, Token.e)
    /\ UNCHANGED flagVars

(* Mutant: paramEntityRead keeps the answer of an earlier reference. *)
StoreExternalStale ==
    /\ Referring("external") /\ handler[Token.e] # "none"
    /\ open' = open \cup {Token.e}
    /\ valueDepth' = valueDepth + 1
    /\ valuePc' = "handler"
    /\ UNCHANGED <<dtdVars, valueHasMore, valueProcessed, flagVars, pool, valueParsers, valueError>>

StoreExternal ==
    /\ Referring("external") /\ handler[Token.e] # "none"
    /\ paramEntityRead' = FALSE
    /\ open' = open \cup {Token.e}
    /\ valueDepth' = valueDepth + 1
    /\ valuePc' = "handler"
    /\ UNCHANGED <<dtdVars, valueHasMore, valueProcessed, keepProcessing, pool, valueParsers, valueError>>

StoreNoHandler ==
    /\ Referring("external") /\ handler[Token.e] = "none"
    /\ keepProcessing' = standalone
    /\ Advance(valueParsers)
    /\ UNCHANGED <<dtdVars, valueEntityVars, paramEntityRead, pool, valuePc, valueError>>

-----------------------------------------------------------------------------
(* The externalEntityRefHandler, called by the parser at a token that      *)
(* refers to an external entity.                                           *)

(* XML_ExternalEntityParserCreate, and XML_Parse with the whole text: the  *)
(* new parser has no m_declEntity.  The processors look for the end of the *)
(* text and for tokens that may not occur in it before any of it is        *)
(* stored.                                                                 *)
HandlerParses ==
    /\ valuePc = "handler" /\ handler[Token.e] = "parse"
    /\ paramEntityRead' = TRUE
    /\ valueParsers' = <<Parser(Files[Token.e], NoName)>> \o valueParsers
    /\ IF \E i \in 1..Len(Files[Token.e]) : Files[Token.e][i].k = "bad"
       THEN ValueFailing("SYNTAX")
       ELSE valuePc' = "store" /\ UNCHANGED valueError
    /\ UNCHANGED <<dtdVars, valueEntityVars, keepProcessing, pool>>

Close(e) ==
    /\ open' = open \ {e}
    /\ valueDepth' = valueDepth - 1

(* What the parser at the head of rest was reading when it called the      *)
(* handler.                                                                *)
RefOf(p) == (IF p.values = <<>> THEN p.input ELSE text[p.values[1]])[p.s].e

(* The handler has returned to the parser at the head of rest. *)
HandlerReturns(rest) ==
    /\ Close(RefOf(rest[1]))
    /\ Advance(rest)
    /\ keepProcessing' = IF paramEntityRead THEN keepProcessing ELSE standalone
    /\ valuePc' = "store"
    /\ UNCHANGED <<dtdVars, valueHasMore, valueProcessed, paramEntityRead, pool, valueError>>

HandlerFails(rest) ==
    /\ Close(RefOf(rest[1]))
    /\ valueParsers' = rest
    /\ ValueFailing("EXTERNAL_ENTITY_HANDLING")
    /\ UNCHANGED <<dtdVars, valueHasMore, valueProcessed, flagVars, pool>>

HandlerSkips == valuePc = "handler" /\ handler[Token.e] = "skip" /\ HandlerReturns(valueParsers)
HandlerRefuses == valuePc = "handler" /\ handler[Token.e] = "fail" /\ HandlerFails(valueParsers)

(* The handler's parser is done and freed, its list of open values with    *)
(* it; the handler returns the parser's status.                            *)
ParserDone   == valuePc = "returned" /\ HandlerReturns(Tail(valueParsers))
ParserFailed == valuePc = "error" /\ ~OnlyParser /\ HandlerFails(Tail(valueParsers))

ValueNext ==
    \/ DeclareIgnored \/ DeclareExternal \/ DeclareInternal \/ ValueStored
    \/ CallStores \/ CallCloses
    \/ StoreNone \/ StoreData \/ StoreEscaped \/ StoreInvalid \/ StoreExhausted
    \/ StoreRefError \/ StoreUndeclared \/ StoreInternal
    \/ StoreExternal \/ StoreNoHandler
    \/ HandlerParses \/ HandlerSkips \/ HandlerRefuses
    \/ ParserDone \/ ParserFailed

ValueSpec == ValueInit /\ [][ValueNext]_valueVars

-----------------------------------------------------------------------------
(* The functions run to their end and the handlers return. *)
ValueFairSpec == ValueSpec /\ WF_valueVars(ValueNext)

(* The references in a text.                                               *)
Refs(input) == {t.e : t \in {u \in Range(input) : u.k = "ref"}}

(* An entity is marked open while it is on the list of one parser or read  *)
(* by the next parser of the stack, and never otherwise: no declaration    *)
(* leaves a mark behind that a later one would take for recursion.         *)
BeingRead == {RefOf(valueParsers[i]) : i \in 2..Len(valueParsers)}
               \cup (IF valuePc = "handler" THEN {RefOf(P)} ELSE {})
OnLists == UNION {Range(valueParsers[i].values) : i \in 1..Len(valueParsers)}
MarksAreExact ==
    /\ valueDepth = Cardinality(open)
    /\ valuePc \notin {"error", "failed"} => open = OnLists \cup BeingRead
    /\ valuePc = "prolog" => open = {}

(* No text that another parser reads refers to an entity that is declared  *)
(* with a value: such a parser opens the entity and is freed with it open. *)
FilesReferToFiles ==
    \A d \in DTDs : \A i, j \in 1..Len(d) :
      d[i].kind = "external" /\ d[j].kind = "internal"
        => d[j].name \notin Refs(Files[d[i].name])
=============================================================================
