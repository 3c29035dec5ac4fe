------------------------------- MODULE Prolog -------------------------------
(***************************************************************************)
(* doProlog: what the role of each token (PrologRole) does to the DTD, to  *)
(* the declaration being read and to the handlers.  One parser reads the   *)
(* document entity or an external subset, a token at a time; internal      *)
(* parameter entities are read by the same loop, on a stack of open ones.  *)
(* Content models are the component Scaffold.                              *)
(*                                                                         *)
(* Names are atoms, strings are sequences of characters or, for a string   *)
(* the parser puts together, of its pieces.  A literal holds no reference: *)
(* storing values is the subject of EntityValue.  An external parameter    *)
(* entity is read inside its handler by a parser of its own, and of what   *)
(* that one does only paramEntityRead and keepProcessing are modelled.     *)
(***************************************************************************)
EXTENDS PrologRole, Normalize

CONSTANTS NameLen, InitGroup, InitScaffold, IntLimit,   \* of Scaffold
          Scenarios,   \* what is read: see ScenarioFields
          MaxOpen,     \* parameter entities open at a time
          MaxSections  \* INCLUDE sections open at a time

\* A scenario is the tokens a document is written in, the handlers that are
\* installed, those the application adds and removes while parsing, whether
\* an external subset is read, and if so whether for a standalone document,
\* and how many declarations of how many tokens there are.
ScenarioFields == {"tokens", "handlers", "toggled", "subset", "alone", "maxDecls", "maxLen"}

VARIABLES
    st,                                                     \* m_prologState
    groupSize, groupConnector, elementDecl,                 \* of Scaffold
    in_eldecl, scaffold, scaffCount, scaffSize,
    scaffIndex, scaffIndexSize, scaffLevel, contentStringLen, model,
    decl,                \* the parser's m_decl... and m_doctype... fields
    dtd,                 \* the DTD but for its scaffold
    tempPool,            \* the unfinished string of m_tempPool
    openPE,              \* m_openInternalEntities, innermost first
    handlers,
    paramEntityParsing,
    calls,               \* the calls made for the last token
    status,              \* "parsing", or what doProlog has returned
    scenario,
    seen,                \* history: the tokens of the last declaration
    decls,               \* history: declarations begun
    declared,            \* history: attribute declarations in force
    doctypeCalls         \* history: doctype handlers called

Idle(s) == s.handler \notin {"element1", "element2", "element3", "element4",
                             "element5", "element6", "element7"}
Scaff == INSTANCE Scaffold
         WITH IntMax <- IntLimit,
              phase <- IF status \notin {"parsing", "ABORTED", "content", "complete"}
                       THEN "failed"
                       ELSE IF st.handler = "element1" THEN "name"
                       ELSE IF Idle(st) THEN "idle" ELSE "groups",
              level <- st.level
\* NameLen is the length of any name a document is written in.
NameKinds == {"NAME", "PREFIXED_NAME", "NAME_QUESTION", "NAME_ASTERISK", "NAME_PLUS"}
ASSUME PrologAssumption ==
    /\ Scaff!ScaffoldAssumption /\ MaxOpen \in Nat /\ MaxSections \in Nat
    /\ \A sc \in Scenarios : \A tok \in sc.tokens :
         tok.kind \in NameKinds => tok.word \in DOMAIN NameLen

scaffoldVars == <<groupSize, groupConnector, in_eldecl, scaffold, scaffCount, scaffSize,
                  scaffIndex, scaffIndexSize, scaffLevel, contentStringLen, model>>
historyVars == <<seen, decls, declared, doctypeCalls>>
prologVars == <<st, scaffoldVars, elementDecl, decl, dtd, tempPool, openPE, handlers,
                paramEntityParsing, calls, status, scenario, historyVars>>

Null == "NULL"                \* a null pointer to a name
NullText == <<"NULL">>        \* a null pointer to a string
ExternalSubset == <<TRUE, "#">>
NoDecl == <<FALSE, Null>>     \* m_declEntity is NULL

\* An entity's key says whether it is a parameter entity.
NewEntity(internal) ==
    [text |-> NullText, systemId |-> NullText, publicId |-> NullText,
     notation |-> Null, is_internal |-> internal]

\* lookup with a size: the entity is made when the table has none.
LookedUp(entities, e, new) ==
    IF e \in DOMAIN entities THEN entities
    ELSE [x \in DOMAIN entities \cup {e} |-> IF x = e THEN new ELSE entities[x]]

PrologInit ==
    /\ scenario \in Scenarios
    /\ handlers = scenario.handlers /\ elementDecl = ("element" \in handlers)
    /\ st = IF scenario.subset THEN XmlPrologStateInitExternalEntity ELSE XmlPrologStateInit
    /\ groupSize = 0 /\ groupConnector = <<>> /\ in_eldecl = FALSE
    /\ scaffold = <<>> /\ scaffCount = 0 /\ scaffSize = 0
    /\ scaffIndex = <<>> /\ scaffIndexSize = 0 /\ scaffLevel = 0
    /\ contentStringLen = 0 /\ model = <<>>
    /\ decl = [element |-> Null, attribute |-> Null, isCdata |-> FALSE, isId |-> FALSE,
               type |-> NullText, entity |-> NoDecl,
               notationName |-> NullText, notationPublicId |-> NullText,
               doctypeName |-> NullText, doctypeSysid |-> NullText, doctypePubid |-> NullText,
               useForeignDTD |-> ~scenario.subset /\ "foreignDTD" \in handlers]
    /\ paramEntityParsing \in IF scenario.subset THEN {"ALWAYS"}
                              ELSE {"NEVER", "UNLESS_STANDALONE", "ALWAYS"}
    /\ dtd = [entities |-> IF scenario.subset
                            THEN [e \in {ExternalSubset} |-> NewEntity(FALSE)] ELSE <<>>,
              defaultAtts |-> <<>>, idAtt |-> <<>>, keepProcessing |-> TRUE,
              hasParamEntityRefs |-> scenario.subset,
              standalone |-> scenario.subset /\ scenario.alone]
    /\ tempPool = <<>> /\ openPE = <<>> /\ calls = <<>> /\ status = "parsing"
    /\ seen = <<>> /\ decls = 0 /\ declared = <<>> /\ doctypeCalls = <<>>

-----------------------------------------------------------------------------
Installed(h) == h \in handlers
KeepProcessing == dtd.keepProcessing
Call(h, args) == IF Installed(h) THEN << <<h, args>> >> ELSE <<>>

\* Ways out of the switch.  Leave is its end, with handleDefault as given; a
\* handler that was called may have stopped the parser.  ReturnCode is an error.
Leave(made, handleDefault) ==
    LET all == made \o (IF handleDefault THEN Call("default", <<>>) ELSE <<>>) IN
    /\ calls' = all
    /\ status' \in {"parsing"} \cup (IF all # <<>> THEN {"ABORTED"} ELSE {})
ReturnCode(code, made) == calls' = made /\ status' = code

\* Most roles change one of these and leave the rest alone.
SameScaffold == UNCHANGED scaffoldVars
SameDtd == UNCHANGED <<dtd, declared>>
SameEntities == UNCHANGED <<openPE, paramEntityParsing>>
OnlyCalls == SameScaffold /\ SameDtd /\ SameEntities /\ UNCHANGED <<decl, tempPool>>

-----------------------------------------------------------------------------
(* XML and text declarations, and the DOCTYPE declaration.                 *)

\* processXmlDecl, where it is not about encodings
XmlDecl(role, tok) ==
    /\ role \in {"XML_DECL", "TEXT_DECL"}
    /\ LET alone == role = "XML_DECL" /\ tok.word = "yes" IN
       /\ dtd' = [dtd EXCEPT !.standalone = @ \/ alone]
       /\ paramEntityParsing' = IF alone /\ paramEntityParsing = "UNLESS_STANDALONE"
                                THEN "NEVER" ELSE paramEntityParsing
    /\ Leave(Call("xmlDecl", tok.word), ~Installed("xmlDecl"))
    /\ UNCHANGED <<decl, tempPool, openPE, declared>> /\ SameScaffold

DoctypeName(role, tok) ==
    /\ role = "DOCTYPE_NAME"
    /\ IF Installed("startDoctype")
       THEN /\ decl' = [decl EXCEPT !.doctypeName = Append(tempPool, tok.word),
                                    !.doctypePubid = NullText, !.doctypeSysid = NullText]
            /\ tempPool' = <<>>
       ELSE decl' = [decl EXCEPT !.doctypeSysid = NullText] /\ UNCHANGED tempPool
    /\ Leave(<<>>, ~Installed("startDoctype"))
    /\ SameDtd /\ SameScaffold /\ SameEntities

StartDoctype(hasSubset) ==
    Call("startDoctype", <<decl.doctypeName, decl.doctypeSysid, decl.doctypePubid, hasSubset>>)

DoctypeInternalSubset(role) ==
    /\ role = "DOCTYPE_INTERNAL_SUBSET"
    /\ IF Installed("startDoctype")
       THEN decl' = [decl EXCEPT !.doctypeName = NullText] /\ tempPool' = <<>>
       ELSE UNCHANGED <<decl, tempPool>>
    /\ Leave(StartDoctype(TRUE), ~Installed("startDoctype"))
    /\ SameDtd /\ SameScaffold /\ SameEntities

\* XmlIsPublicId, on the one character that the model has against it
XmlIsPublicId(text) == \A i \in 1 .. Len(text) : text[i] # "BAD"

\* XML_ROLE_DOCTYPE_PUBLIC_ID falls through to XML_ROLE_ENTITY_PUBLIC_ID.
PublicId(role, tok) ==
    /\ role \in {"DOCTYPE_PUBLIC_ID", "ENTITY_PUBLIC_ID"}
    /\ LET doctype == role = "DOCTYPE_PUBLIC_ID"
           e == IF doctype THEN ExternalSubset ELSE decl.entity
           known == IF doctype THEN LookedUp(dtd.entities, e, NewEntity(FALSE))
                    ELSE dtd.entities
           valid == XmlIsPublicId(tok.text)
           stored == valid /\ KeepProcessing /\ e # NoDecl
           told == doctype /\ Installed("startDoctype")
           id == normalizePublicId(tok.text)
       IN /\ decl' = [decl EXCEPT
                        !.entity = e, !.useForeignDTD = @ /\ ~doctype,
                        !.doctypePubid = IF told /\ valid THEN normalizePublicId(tempPool \o tok.text)
                                         ELSE @]
          /\ tempPool' = IF told /\ valid THEN <<>> ELSE tempPool
          /\ dtd' = [dtd EXCEPT
                       !.hasParamEntityRefs = @ \/ doctype,
                       !.entities = IF stored THEN [known EXCEPT ![e].publicId = id] ELSE known]
          /\ IF valid
             THEN Leave(<<>>, ~(told \/ (~doctype /\ stored /\ Installed("entity"))))
             ELSE ReturnCode("PUBLICID", <<>>)
    /\ UNCHANGED declared /\ SameScaffold /\ SameEntities

\* XML_ROLE_DOCTYPE_SYSTEM_ID
DoctypeSystemId(role, tok) ==
    /\ role = "DOCTYPE_SYSTEM_ID"
    /\ LET asks == ~dtd.standalone /\ paramEntityParsing = "NEVER" /\ Installed("notStandalone")
           told == Installed("startDoctype")
           e == IF decl.entity = NoDecl THEN ExternalSubset ELSE decl.entity
           known == IF decl.entity = NoDecl
                    THEN [LookedUp(dtd.entities, e, NewEntity(FALSE)) EXCEPT ![e].publicId = NullText]
                    ELSE dtd.entities
           named == [decl EXCEPT !.useForeignDTD = FALSE,
                                 !.doctypeSysid = IF told THEN tempPool \o tok.text
                                                  ELSE <<"#">>]
       IN /\ tempPool' = IF told THEN <<>> ELSE tempPool
          /\ \/ /\ decl' = [named EXCEPT !.entity = e]
                /\ dtd' = [dtd EXCEPT !.hasParamEntityRefs = TRUE,
                                      !.entities = IF KeepProcessing THEN [known EXCEPT ![e].systemId = tok.text]
                                                   ELSE known]
                /\ Leave(IF asks THEN Call("notStandalone", <<>>) ELSE <<>>, ~told)
             \/ /\ asks
                /\ decl' = named
                /\ dtd' = [dtd EXCEPT !.hasParamEntityRefs = TRUE]
                /\ ReturnCode("NOT_STANDALONE", Call("notStandalone", <<>>))
    /\ UNCHANGED declared /\ SameScaffold /\ SameEntities

\* What an external entity handler may do, and the question after it.
Answers == {"fails", "unread", "read"}
             \cup (IF ~dtd.standalone /\ Installed("notStandalone") THEN {"refused"} ELSE {})
AnswerCalls(answer, e) ==
    Call("externalEntityRef", <<e.systemId, e.publicId>>)
      \o (IF answer \in {"read", "refused"} /\ ~dtd.standalone
          THEN Call("notStandalone", <<>>) ELSE <<>>)
AnswerError(answer) ==
    IF answer = "fails" THEN "EXTERNAL_ENTITY_HANDLING" ELSE "NOT_STANDALONE"

\* The end of the DTD: XML_ROLE_DOCTYPE_CLOSE, and XML_ROLE_INSTANCE_START
\* as the last chance to read a foreign DTD.
EndOfDtd(role) ==
    LET close == role = "DOCTYPE_CLOSE"
        hasSysid == close /\ decl.doctypeSysid # NullText
        begun == IF close /\ decl.doctypeName # NullText THEN StartDoctype(FALSE) ELSE <<>>
        subset == hasSysid \/ decl.useForeignDTD
        asks == subset /\ paramEntityParsing # "NEVER" /\ Installed("externalEntityRef")
        known == IF asks THEN LookedUp(dtd.entities, ExternalSubset, NewEntity(FALSE))
                 ELSE dtd.entities
    IN /\ role \in {"DOCTYPE_CLOSE", "INSTANCE_START"}
       /\ ~(close /\ openPE # <<>>)
       /\ tempPool' = IF begun # <<>> THEN <<>> ELSE tempPool
       /\ \E answer \in IF asks THEN Answers ELSE {"none"} :
            LET made == begun \o (IF asks THEN AnswerCalls(answer, known[ExternalSubset]) ELSE <<>>)
                ended == IF close THEN Call("endDoctype", <<>>) ELSE <<>>
                ok == answer \in {"none", "read", "unread"}
            IN /\ dtd' = [dtd EXCEPT
                            !.entities = known,
                            !.hasParamEntityRefs =
                               @ \/ (subset /\ ~(answer = "unread" /\ ~hasSysid))]
               /\ decl' = [decl EXCEPT !.useForeignDTD = @ /\ ~(close /\ ok)]
               /\ \/ ok /\ close /\ Leave(made \o ended, begun \o ended = <<>>)
                  \/ ok /\ ~close /\ ReturnCode("content", made)
                  \/ ~ok /\ ReturnCode(AnswerError(answer), made)
       /\ UNCHANGED declared /\ SameScaffold /\ SameEntities

\* A doctype must not be closed from within an expanded parameter entity.
DoctypeCloseInEntity(role) ==
    /\ role = "DOCTYPE_CLOSE" /\ openPE # <<>>
    /\ ReturnCode("BAD_TOKEN", <<>>) /\ OnlyCalls

-----------------------------------------------------------------------------
(* References to parameter entities.                                       *)

\* The entity must have been declared, and not inside another entity.  The
\* code's second test, of hasParamEntityRefs, comes behind its assignment.
MustBeDeclared == st.documentEntity /\ dtd.standalone /\ openPE = <<>>

\* A reference that is not followed may have held declarations.
NotFollowed == [dtd EXCEPT !.hasParamEntityRefs = TRUE, !.keepProcessing = dtd.standalone]

ParamEntityRef(role, tok) ==
    LET e == <<TRUE, tok.word>>
        between == role = "PARAM_ENTITY_REF"
        known == e \in DOMAIN dtd.entities
        opened == \E i \in 1 .. Len(openPE) : openPE[i].entity = e
        follow == paramEntityParsing # "NEVER"
        Refuse(code) == /\ ReturnCode(code, <<>>) /\ UNCHANGED openPE
                        /\ dtd' = [dtd EXCEPT !.hasParamEntityRefs = TRUE]
        Skip(made, handleDefault) ==
            dtd' = NotFollowed /\ Leave(made, handleDefault) /\ UNCHANGED openPE
        refused == MustBeDeclared /\ (known => ~dtd.entities[e].is_internal)
        question == IF dtd.standalone THEN <<>> ELSE Call("notStandalone", <<>>)
        skipped == IF between THEN Call("skippedEntity", tok.word) ELSE <<>>
    IN /\ role \in {"PARAM_ENTITY_REF", "INNER_PARAM_ENTITY_REF"}
       /\ \/ ~follow /\ Skip(question, TRUE)
          \/ /\ ~follow /\ question # <<>>
             /\ ReturnCode("NOT_STANDALONE", question) /\ dtd' = NotFollowed /\ UNCHANGED openPE
          \/ follow /\ refused /\ Refuse(IF known THEN "ENTITY_DECLARED_IN_PE" ELSE "UNDEFINED_ENTITY")
          \/ follow /\ ~refused /\ ~known /\ Skip(skipped, skipped = <<>>)
          \/ follow /\ ~refused /\ known /\ opened /\ Refuse("RECURSIVE_ENTITY_REF")
          \/ /\ follow /\ ~refused /\ known /\ ~opened
             /\ dtd.entities[e].text # NullText
             /\ Len(openPE) < MaxOpen
             /\ openPE' = <<[entity |-> e, betweenDecl |-> between,
                             sections |-> st.includeLevel]>> \o openPE
             /\ dtd' = [dtd EXCEPT !.hasParamEntityRefs = TRUE]
             /\ Leave(<<>>, FALSE)
          \/ /\ follow /\ ~refused /\ known /\ ~opened
             /\ dtd.entities[e].text = NullText
             /\ IF Installed("externalEntityRef")
                THEN \E answer \in Answers :
                       LET made == AnswerCalls(answer, dtd.entities[e]) IN
                       \/ answer = "unread" /\ Skip(made, FALSE)
                       \/ /\ answer = "read" /\ Leave(made, FALSE) /\ UNCHANGED openPE
                          /\ \E keep \in {KeepProcessing, KeepProcessing /\ dtd.standalone} :
                               dtd' = [dtd EXCEPT !.hasParamEntityRefs = TRUE,
                                                  !.keepProcessing = keep]
                       \/ /\ answer \in {"fails", "refused"} /\ UNCHANGED openPE
                          /\ ReturnCode(AnswerError(answer), made)
                          /\ dtd' = [dtd EXCEPT !.hasParamEntityRefs = TRUE]
                ELSE Skip(<<>>, TRUE)
       /\ UNCHANGED <<decl, tempPool, paramEntityParsing, declared>> /\ SameScaffold

-----------------------------------------------------------------------------
(* ATTLIST.                                                                *)

AttlistQuiet == KeepProcessing /\ Installed("attlist")

AttlistName(role, tok) ==
    /\ \/ role = "ATTLIST_ELEMENT_NAME" /\ decl' = [decl EXCEPT !.element = tok.word]
       \/ /\ role = "ATTRIBUTE_NAME"
          /\ decl' = [decl EXCEPT !.attribute = tok.word, !.isCdata = FALSE,
                                  !.isId = FALSE, !.type = NullText]
    /\ Leave(<<>>, ~AttlistQuiet)
    /\ UNCHANGED tempPool /\ SameDtd /\ SameScaffold /\ SameEntities

\* The role of a type that is a keyword ends in the keyword.
TypeRoles ==
    { "ATTRIBUTE_TYPE_CDATA", "ATTRIBUTE_TYPE_ID", "ATTRIBUTE_TYPE_IDREF",
      "ATTRIBUTE_TYPE_IDREFS", "ATTRIBUTE_TYPE_ENTITY", "ATTRIBUTE_TYPE_ENTITIES",
      "ATTRIBUTE_TYPE_NMTOKEN", "ATTRIBUTE_TYPE_NMTOKENS" }
AttributeType(role, tok) ==
    /\ role \in TypeRoles
    /\ decl' = [decl EXCEPT !.type = <<tok.word>>,
                            !.isCdata = @ \/ role = "ATTRIBUTE_TYPE_CDATA",
                            !.isId = @ \/ role = "ATTRIBUTE_TYPE_ID"]
    /\ Leave(<<>>, ~AttlistQuiet)
    /\ UNCHANGED tempPool /\ SameDtd /\ SameScaffold /\ SameEntities

\* An enumerated type is put together in m_tempPool.
AttributeEnumValue(role, tok) ==
    LET prefix == IF decl.type # NullText THEN "|"
                  ELSE IF role = "ATTRIBUTE_NOTATION_VALUE" THEN "NOTATION(" ELSE "("
    IN /\ role \in {"ATTRIBUTE_ENUM_VALUE", "ATTRIBUTE_NOTATION_VALUE"}
       /\ IF AttlistQuiet
          THEN /\ tempPool' = tempPool \o <<prefix, tok.word>>
               /\ decl' = [decl EXCEPT !.type = tempPool']
          ELSE UNCHANGED <<tempPool, decl>>
       /\ Leave(<<>>, ~AttlistQuiet)
       /\ SameDtd /\ SameScaffold /\ SameEntities

\* defineAttribute; value is NullText for #IMPLIED and #REQUIRED.  The names
\* of defaultAtts are those of defaultAttsNames.
defineAttributeTwice(isId, value) ==
    LET el == decl.element
        own == IF el \in DOMAIN dtd.defaultAtts THEN dtd.defaultAtts[el] ELSE <<>>
        added == Append(own, [id |-> decl.attribute, value |-> value, isCdata |-> decl.isCdata])
    IN [dtd EXCEPT !.defaultAtts = [x \in DOMAIN @ \cup {el} |-> IF x = el THEN added ELSE @[x]]]
defineAttribute(isId, value) ==
    LET el == decl.element
        own == IF el \in DOMAIN dtd.defaultAtts THEN dtd.defaultAtts[el] ELSE <<>>
        checked == value # NullText \/ isId
        present == \E i \in 1 .. Len(own) : own[i].id = decl.attribute
        added == Append(own, [id |-> decl.attribute, value |-> value, isCdata |-> decl.isCdata])
    IN IF checked /\ present THEN dtd
       ELSE [dtd EXCEPT
               !.defaultAtts = [x \in DOMAIN @ \cup {el} |-> IF x = el THEN added ELSE @[x]],
               !.idAtt = IF isId /\ el \notin DOMAIN @
                         THEN [x \in DOMAIN @ \cup {el} |->
                                 IF x = el THEN decl.attribute ELSE @[x]]
                         ELSE @]

IsEnumerated(type) == type[1] \in {"(", "NOTATION("}

\* The declaration of one attribute is complete: #IMPLIED, #REQUIRED, or a
\* default value, with or without #FIXED.
AttributeValue(role, tok) ==
    LET valued == role \in {"DEFAULT_ATTRIBUTE_VALUE", "FIXED_ATTRIBUTE_VALUE"}
        value == IF valued THEN tok.text ELSE NullText
        told == AttlistQuiet /\ decl.type # NullText
        type == IF told /\ IsEnumerated(decl.type) THEN Append(tempPool, ")") ELSE decl.type
    IN /\ role \in {"IMPLIED_ATTRIBUTE_VALUE", "REQUIRED_ATTRIBUTE_VALUE",
                    "DEFAULT_ATTRIBUTE_VALUE", "FIXED_ATTRIBUTE_VALUE"}
       /\ IF KeepProcessing
          THEN /\ dtd' = defineAttribute(decl.isId /\ ~valued, value)
               /\ declared' = Append(declared,
                                     [element |-> decl.element, id |-> decl.attribute,
                                      value |-> value, isCdata |-> decl.isCdata])
          ELSE SameDtd
       /\ decl' = [decl EXCEPT !.type = type]
       /\ tempPool' = IF told \/ ~valued THEN <<>> ELSE tempPool
       /\ Leave(IF told
                THEN Call("attlist", <<decl.element, decl.attribute, type, value,
                                       role \in {"REQUIRED_ATTRIBUTE_VALUE", "FIXED_ATTRIBUTE_VALUE"}>>)
                ELSE <<>>, ~told)
       /\ SameScaffold /\ SameEntities

-----------------------------------------------------------------------------
(* ENTITY and NOTATION.                                                    *)

Predefined == {"lt", "gt", "amp", "quot", "apos"}     \* XmlPredefinedEntityName

EntityNameAlways(role, tok) ==
    LET param == role = "PARAM_ENTITY_NAME"
        e == <<param, tok.word>>
        new == (param \/ tok.word \notin Predefined) /\ e \notin DOMAIN dtd.entities
    IN /\ role \in {"GENERAL_ENTITY_NAME", "PARAM_ENTITY_NAME"}
       /\ decl' = [decl EXCEPT !.entity = IF new THEN e ELSE NoDecl]
       /\ dtd' = IF new THEN [dtd EXCEPT !.entities = LookedUp(@, e, NewEntity(FALSE))] ELSE dtd
       /\ Leave(<<>>, TRUE)
       /\ UNCHANGED <<tempPool, declared>> /\ SameScaffold /\ SameEntities
\* XML_ROLE_GENERAL_ENTITY_NAME and XML_ROLE_PARAM_ENTITY_NAME
EntityName(role, tok) ==
    LET param == role = "PARAM_ENTITY_NAME"
        e == <<param, tok.word>>
        new == KeepProcessing /\ (param \/ tok.word \notin Predefined) /\ e \notin DOMAIN dtd.entities
    IN /\ role \in {"GENERAL_ENTITY_NAME", "PARAM_ENTITY_NAME"}
       /\ decl' = [decl EXCEPT !.entity = IF new THEN e ELSE NoDecl]
       /\ dtd' = IF new
                 THEN [dtd EXCEPT !.entities =
                         LookedUp(@, e, NewEntity(st.documentEntity /\ openPE = <<>>))]
                 ELSE dtd
       /\ Leave(<<>>, ~(new /\ Installed("entity")))
       /\ UNCHANGED <<tempPool, declared>> /\ SameScaffold /\ SameEntities

Declaring == KeepProcessing /\ decl.entity # NoDecl
DeclEntity == dtd.entities[decl.entity]
EntityCall(text, systemId, publicId, notation) ==
    Call("entity", <<decl.entity, text, systemId, publicId, notation>>)

EntityValue(role, tok) ==
    /\ role = "ENTITY_VALUE"
    /\ LET told == IF Declaring THEN EntityCall(tok.text, NullText, NullText, Null) ELSE <<>> IN
       /\ dtd' = IF Declaring THEN [dtd EXCEPT !.entities[decl.entity].text = tok.text] ELSE dtd
       /\ \/ Leave(told, told = <<>>)
          \/ KeepProcessing /\ ReturnCode("VALUE", told)          \* callStoreEntityValue has failed
    /\ UNCHANGED <<decl, tempPool, declared>> /\ SameScaffold /\ SameEntities

EntitySystemId(role, tok) ==
    /\ role = "ENTITY_SYSTEM_ID"
    /\ dtd' = IF Declaring THEN [dtd EXCEPT !.entities[decl.entity].systemId = tok.text] ELSE dtd
    /\ Leave(<<>>, ~(Declaring /\ Installed("entity")))
    /\ UNCHANGED <<decl, tempPool, declared>> /\ SameScaffold /\ SameEntities

EntityComplete(role) ==
    /\ role = "ENTITY_COMPLETE"
    /\ LET told == IF Declaring
                   THEN EntityCall(NullText, DeclEntity.systemId, DeclEntity.publicId, Null)
                   ELSE <<>>
       IN Leave(told, told = <<>>)
    /\ OnlyCalls

EntityNotationName(role, tok) ==
    /\ role = "ENTITY_NOTATION_NAME"
    /\ dtd' = IF Declaring THEN [dtd EXCEPT !.entities[decl.entity].notation = tok.word] ELSE dtd
    /\ LET told == IF ~Declaring THEN <<>>
                   ELSE IF Installed("unparsedEntity")
                   THEN Call("unparsedEntity", <<decl.entity, NullText, DeclEntity.systemId,
                                                 DeclEntity.publicId, tok.word>>)
                   ELSE EntityCall(NullText, DeclEntity.systemId, DeclEntity.publicId, tok.word)
       IN Leave(told, told = <<>>)
    /\ UNCHANGED <<decl, tempPool, declared>> /\ SameScaffold /\ SameEntities

NotationNameKeepsId(role, tok) ==
    /\ role = "NOTATION_NAME"
    /\ decl' = [decl EXCEPT !.notationName = IF Installed("notation")
                                             THEN Append(tempPool, tok.word) ELSE NullText]
    /\ tempPool' = IF Installed("notation") THEN <<>> ELSE tempPool
    /\ Leave(<<>>, ~Installed("notation"))
    /\ SameDtd /\ SameScaffold /\ SameEntities
\* Strings for the handlers are stored in m_tempPool, behind whatever
\* unfinished string it holds.
NotationName(role, tok) ==
    /\ role = "NOTATION_NAME"
    /\ decl' = [decl EXCEPT !.notationPublicId = NullText,
                            !.notationName = IF Installed("notation")
                                             THEN Append(tempPool, tok.word) ELSE NullText]
    /\ tempPool' = IF Installed("notation") THEN <<>> ELSE tempPool
    /\ Leave(<<>>, ~Installed("notation"))
    /\ SameDtd /\ SameScaffold /\ SameEntities

NotationPublicId(role, tok) ==
    LET told == decl.notationName # NullText IN
    /\ role = "NOTATION_PUBLIC_ID"
    /\ IF XmlIsPublicId(tok.text)
       THEN /\ decl' = IF told
                       THEN [decl EXCEPT !.notationPublicId = normalizePublicId(tempPool \o tok.text)]
                       ELSE decl
            /\ tempPool' = IF told THEN <<>> ELSE tempPool
            /\ Leave(<<>>, ~told)
       ELSE ReturnCode("PUBLICID", <<>>) /\ UNCHANGED <<decl, tempPool>>
    /\ SameDtd /\ SameScaffold /\ SameEntities

\* XML_ROLE_NOTATION_SYSTEM_ID and XML_ROLE_NOTATION_NO_SYSTEM_ID
NotationEnd(role, tok) ==
    LET has == role = "NOTATION_SYSTEM_ID"
        told == IF (IF has THEN decl.notationName ELSE decl.notationPublicId) # NullText
                THEN Call("notation", <<decl.notationName,
                                        IF has THEN tempPool \o tok.text ELSE NullText,
                                        decl.notationPublicId>>)
                ELSE <<>>
    IN /\ role \in {"NOTATION_SYSTEM_ID", "NOTATION_NO_SYSTEM_ID"}
       /\ tempPool' = <<>>
       /\ Leave(told, told = <<>>)
       /\ UNCHANGED decl /\ SameDtd /\ SameScaffold /\ SameEntities

-----------------------------------------------------------------------------
(* ELEMENT: the roles of Scaffold.                                         *)

Quant(role) ==
    IF role \in {"CONTENT_ELEMENT_OPT", "GROUP_CLOSE_OPT"} THEN "?"
    ELSE IF role \in {"CONTENT_ELEMENT_REP", "GROUP_CLOSE_REP"} THEN "*"
    ELSE IF role \in {"CONTENT_ELEMENT_PLUS", "GROUP_CLOSE_PLUS"} THEN "+" ELSE ""
NameRoles == {"CONTENT_ELEMENT", "CONTENT_ELEMENT_OPT", "CONTENT_ELEMENT_REP", "CONTENT_ELEMENT_PLUS"}
CloseRoles == {"GROUP_CLOSE", "GROUP_CLOSE_OPT", "GROUP_CLOSE_REP", "GROUP_CLOSE_PLUS"}
ModelQuiet == in_eldecl /\ elementDecl

\* What a role of the model does; to is the state behind the token.
ModelRole(role, tok, to) ==
    \/ /\ role = "GROUP_OPEN" /\ Scaff!GroupOpen(to.level)
       /\ Leave(<<>>, ~ModelQuiet)
    \/ /\ role = "GROUP_SEQUENCE" /\ Scaff!GroupSequence(to.level)
       /\ Leave(<<>>, ~ModelQuiet)
    \/ /\ role = "GROUP_CHOICE" /\ Scaff!GroupChoice(to.level)
       /\ Leave(<<>>, ~(Scaff!BecomesChoice(to.level) /\ elementDecl))
    \/ /\ role = "CONTENT_PCDATA" /\ Scaff!ContentPcdata
       /\ Leave(<<>>, ~ModelQuiet)
    \/ /\ role \in NameRoles /\ Scaff!ContentElement(tok.word, Quant(role))
       /\ Leave(<<>>, ~ModelQuiet)
    \/ /\ role \in CloseRoles /\ Scaff!GroupClose(Quant(role))
       /\ Leave(IF ModelQuiet /\ scaffLevel = 1 THEN Call("element", decl.element) ELSE <<>>,
                ~ModelQuiet)
    \/ /\ role \in {"CONTENT_ANY", "CONTENT_EMPTY"}
       /\ Scaff!ContentAnyOrEmpty(IF role = "CONTENT_ANY" THEN "ANY" ELSE "EMPTY")
       /\ Leave(IF ModelQuiet THEN Call("element", decl.element) ELSE <<>>, ~ModelQuiet)

ElementModel(role, tok, to) ==
    /\ ModelRole(role, tok, to)
    /\ UNCHANGED <<decl, tempPool>> /\ SameDtd /\ SameEntities

ElementNameAppends(role, tok) ==
    /\ role = "ELEMENT_NAME"
    /\ in_eldecl' = elementDecl /\ scaffLevel' = 0
    /\ decl' = IF elementDecl THEN [decl EXCEPT !.element = tok.word] ELSE decl
    /\ Leave(<<>>, ~elementDecl)
    /\ UNCHANGED <<tempPool, groupSize, groupConnector, scaffold, scaffCount, scaffSize,
                   scaffIndex, scaffIndexSize, contentStringLen, model>> /\ SameDtd /\ SameEntities
ElementName(role, tok) ==
    /\ role = "ELEMENT_NAME"
    /\ Scaff!ElementName
    /\ decl' = IF elementDecl THEN [decl EXCEPT !.element = tok.word] ELSE decl
    /\ Leave(<<>>, ~elementDecl)
    /\ UNCHANGED tempPool /\ SameDtd /\ SameEntities

\* A connector that does not fit the group is a syntax error; a part or a
\* name for which there is no number left is out of memory.
ConnectorRefused(role, to) ==
    \/ role = "GROUP_SEQUENCE" /\ ~Scaff!SequenceAllowed(to.level)
    \/ role = "GROUP_CHOICE" /\ ~Scaff!ChoiceAllowed(to.level)
ModelRefused(role, tok, to) ==
    /\ \/ /\ ConnectorRefused(role, to)
          /\ ReturnCode("SYNTAX", <<>>)
          /\ SameScaffold
       \/ /\ \/ role \in NameRoles /\ Scaff!NameRefused(tok.word) /\ SameScaffold
             \/ role = "GROUP_OPEN" /\ in_eldecl /\ Scaff!PartRefused
                /\ Scaff!OpenConnector(to.level)
                /\ UNCHANGED <<in_eldecl, scaffold, scaffCount, scaffSize, scaffIndex,
                               scaffIndexSize, scaffLevel, contentStringLen, model>>
          /\ ReturnCode("NO_MEMORY", <<>>)
    /\ UNCHANGED <<decl, tempPool>> /\ SameDtd /\ SameEntities

-----------------------------------------------------------------------------
(* Everything else, and the loop.                                          *)

\* reportProcessingInstruction and reportComment
Report(role, tok) ==
    LET h == IF role = "PI" THEN "pi" ELSE "comment"
        args == IF role = "PI" THEN <<Append(tempPool, tok.word), normalizeLines(tok.text)>>
                ELSE <<normalizeLines(tempPool \o tok.text)>>
    IN
    /\ role \in {"PI", "COMMENT"}
    /\ IF Installed(h)
       THEN Leave(Call(h, args), FALSE) /\ tempPool' = <<>>
       ELSE Leave(Call("default", <<>>), FALSE) /\ UNCHANGED tempPool
    /\ UNCHANGED decl /\ SameDtd /\ SameScaffold /\ SameEntities

\* XML_ROLE_IGNORE_SECT, with the section doIgnoreSection passes over; it may
\* take several calls, through ignoreSectionProcessor, and may be malformed.
IgnoreSect(role) ==
    /\ role = "IGNORE_SECT"
    /\ \/ Leave(Call("default", <<>>) \o Call("default", <<>>), FALSE)
       \/ ReturnCode("BAD_TOKEN", Call("default", <<>>))
    /\ OnlyCalls

\* The roles ..._NONE, which only decide about the default handler
Quiet(role) ==
    CASE role = "DOCTYPE_NONE"  -> Installed("startDoctype")
      [] role = "ENTITY_NONE"   -> KeepProcessing /\ Installed("entity")
      [] role = "NOTATION_NONE" -> Installed("notation")
      [] role = "ATTLIST_NONE"  -> AttlistQuiet
      [] role = "ELEMENT_NONE"  -> elementDecl
      [] OTHER                  -> FALSE
NoneRole(role, tok) ==
    /\ role \in {"NONE", "DOCTYPE_NONE", "ENTITY_NONE", "NOTATION_NONE",
                 "ATTLIST_NONE", "ELEMENT_NONE"}
    /\ Leave(<<>>, ~(Quiet(role) \/ tok.kind = "BOM"))
    /\ OnlyCalls

RoleError(role, tok) ==
    /\ role = "ERROR"
    /\ ReturnCode(IF tok.kind = "PARAM_ENTITY_REF" THEN "PARAM_ENTITY_REF"
              ELSE IF tok.kind = "XML_DECL" THEN "MISPLACED_XML_PI" ELSE "SYNTAX", <<>>)
    /\ OnlyCalls

\* What the histories make of a token.
Remember(tok, role) ==
    /\ seen' = IF status' = "SYNTAX" \/ role = "ERROR"
                  \/ tok.kind \in {"PROLOG_S", "PARAM_ENTITY_REF", "PI", "COMMENT", "BOM"}
               THEN seen
               ELSE IF tok.kind \in {"DECL_OPEN", "COND_SECT_OPEN", "COND_SECT_CLOSE", "XML_DECL",
                                     "CLOSE_BRACKET", "INSTANCE_START"}
               THEN <<tok>> ELSE Append(seen, tok)
    /\ decls' = IF tok.kind = "DECL_OPEN" /\ role # "ERROR" THEN decls + 1 ELSE decls
    /\ doctypeCalls' = doctypeCalls
                         \o SelectSeq(calls', LAMBDA c : c[1] \in {"startDoctype", "endDoctype"})
    /\ Len(seen') <= scenario.maxLen /\ decls' <= scenario.maxDecls

\* One turn of the loop on a token.
Token(tok) ==
    /\ status = "parsing"
    /\ \E r \in {XmlTokenRole(st, tok)} :
       LET role == r.role IN
       /\ r.state.includeLevel <= MaxSections
       /\ \/ XmlDecl(role, tok) \/ DoctypeName(role, tok) \/ DoctypeInternalSubset(role)
          \/ PublicId(role, tok) \/ DoctypeSystemId(role, tok)
          \/ EndOfDtd(role) \/ DoctypeCloseInEntity(role)
          \/ ParamEntityRef(role, tok)
          \/ AttlistName(role, tok) \/ AttributeType(role, tok)
          \/ AttributeEnumValue(role, tok) \/ AttributeValue(role, tok)
          \/ EntityName(role, tok) \/ EntityValue(role, tok) \/ EntitySystemId(role, tok)
          \/ EntityComplete(role) \/ EntityNotationName(role, tok)
          \/ NotationName(role, tok) \/ NotationPublicId(role, tok) \/ NotationEnd(role, tok)
          \/ ElementName(role, tok) \/ ElementModel(role, tok, r.state)
          \/ ModelRefused(role, tok, r.state)
          \/ Report(role, tok) \/ IgnoreSect(role) \/ NoneRole(role, tok) \/ RoleError(role, tok)
       /\ st' = r.state
       /\ Remember(tok, role)
       /\ UNCHANGED <<elementDecl, handlers, scenario>>

EndOfEntityUnasked ==
    /\ status = "parsing"
    /\ calls' = <<>>
    /\ status' = IF openPE = <<>> THEN "complete" ELSE "parsing"
    /\ openPE' = IF openPE # <<>> THEN Tail(openPE) ELSE openPE
    /\ UNCHANGED <<st, scaffoldVars, elementDecl, decl, dtd, tempPool, handlers,
                   paramEntityParsing, scenario, historyVars>>
\* The end of what is read, XML_TOK_NONE.  An internal entity referred to
\* inside a declaration may end anywhere; one between declarations, and an
\* external one, is asked of the grammar; the document has no end here.
EndOfEntity ==
    LET inner == openPE # <<>> /\ ~openPE[1].betweenDecl
        asked == ~inner /\ (openPE # <<>> \/ ~st.documentEntity)
    IN /\ status = "parsing"
       /\ calls' = <<>>
       /\ \E r \in {IF asked THEN XmlTokenRole(st, Tok("NONE", "")) ELSE [state |-> st, role |-> "NONE"]} :
            /\ st' = r.state
            /\ status' = IF r.role = "ERROR" THEN "INCOMPLETE_PE"
                         ELSE IF ~inner /\ ~asked THEN "NO_ELEMENTS"
                         ELSE IF openPE = <<>> THEN "complete" ELSE "parsing"
            /\ openPE' = IF openPE # <<>> /\ r.role # "ERROR" THEN Tail(openPE) ELSE openPE
       /\ UNCHANGED <<scaffoldVars, elementDecl, decl, dtd, tempPool, handlers,
                      paramEntityParsing, scenario, historyVars>>

\* A malformed token, or one cut short by the end of the input: INVALID_TOKEN,
\* UNCLOSED_TOKEN or PARTIAL_CHAR
BadToken ==
    /\ status = "parsing"
    /\ status' = "BAD_TOKEN"
    /\ calls' = <<>>
    /\ UNCHANGED <<st, scaffoldVars, elementDecl, decl, dtd, tempPool, openPE, handlers,
                   paramEntityParsing, scenario, historyVars>>

\* The application adds or removes a handler: XML_SetElementDeclHandler ...
SetHandler(h) ==
    /\ status = "parsing" /\ h \in scenario.toggled
    /\ handlers' = (handlers \ {h}) \cup ({h} \ handlers)
    /\ elementDecl' = ("element" \in handlers')
    /\ calls' = <<>>
    /\ UNCHANGED <<st, scaffoldVars, decl, dtd, tempPool, openPE, paramEntityParsing,
                   status, scenario, historyVars>>

PrologNext ==
    \/ \E tok \in scenario.tokens : Token(tok)
    \/ EndOfEntity \/ BadToken
    \/ \E h \in scenario.toggled : SetHandler(h)

PrologSpec == PrologInit /\ [][PrologNext]_prologVars
-----------------------------------------------------------------------------
\* doProlog on a content model is the component Scaffold, so that no index of
\* the connectors or of the scaffold leaves its array (ScaffoldProofs).
ContentModelsAreScaffold == Scaff!ScaffoldSpec

\* The first declaration of an attribute binds: the entry storeAtts finds
\* first in the list, for the type it normalises by and the default it
\* supplies, is the one of the first declaration processed, and where that one
\* has no default no later entry has.
FirstDeclarationBinds ==
    \A i \in 1 .. Len(declared) :
      LET d == declared[i]
          list == dtd.defaultAtts[d.element]
      IN (\A j \in 1 .. i - 1 : declared[j].element # d.element \/ declared[j].id # d.id) =>
           \E k \in 1 .. Len(list) :
             /\ list[k].id = d.id /\ list[k].value = d.value /\ list[k].isCdata = d.isCdata
             /\ \A j \in 1 .. k - 1 : list[j].id # d.id
             /\ d.value = NullText =>
                  \A j \in 1 .. Len(list) : list[j].id = d.id => list[j].value = NullText

\* Once a reference was not followed in a document that is not standalone,
\* no declaration changes the DTD any more: what an unread entity may have
\* declared first must not be replaced by what comes later.
UnreadStopsDtd ==
    [][ ~KeepProcessing => /\ ~dtd'.keepProcessing
                 /\ dtd'.defaultAtts = dtd.defaultAtts /\ dtd'.idAtt = dtd.idAtt
                 /\ \A e \in DOMAIN dtd'.entities \ {ExternalSubset} :
                      e \in DOMAIN dtd.entities /\ dtd'.entities[e] = dtd.entities[e] ]_prologVars
=============================================================================
