----------------------------- MODULE PrologRole -----------------------------
(***************************************************************************)
(* The grammar of the prolog, xmlrole.c.  doProlog gives every token of    *)
(* the prolog to the handler of the current PROLOG_STATE, which answers    *)
(* the token's role and names the next handler.  A handler is a switch     *)
(* over tokens, so each is here the set of its rows                        *)
(*                                                                         *)
(*     <<token, word, next handler, role>>                                 *)
(*                                                                         *)
(* where "word" is the keyword the code compares the token's name with     *)
(* (AnyWord where it compares nothing).  A token no row matches goes to        *)
(* common(), the error.                                                    *)
(***************************************************************************)
EXTENDS Integers, Sequences

AnyWord == "any word"

\* A token as the handlers see it: its kind, the name or keyword it spells,
\* and the characters between the quotes of a literal.
Tok(kind, word) == [kind |-> kind, word |-> word, text |-> <<>>]
Literal(text) == [kind |-> "LITERAL", word |-> "", text |-> text]

\* White space keeps the handler.
Space(handler, role) == <<"PROLOG_S", AnyWord, handler, role>>

\* setTopLevel: declarations end in the subset they began in.
setTopLevel(state) == IF state.documentEntity THEN "internalSubset" ELSE "externalSubset1"

-----------------------------------------------------------------------------
(* The prolog and the DOCTYPE declaration.                                 *)

prolog0 ==
    { Space("prolog1", "NONE"),
      <<"XML_DECL", AnyWord, "prolog1", "XML_DECL">>,
      <<"PI", AnyWord, "prolog1", "PI">>,
      <<"COMMENT", AnyWord, "prolog1", "COMMENT">>,
      <<"BOM", AnyWord, "prolog0", "NONE">>,
      <<"DECL_OPEN", "DOCTYPE", "doctype0", "DOCTYPE_NONE">>,
      <<"INSTANCE_START", AnyWord, "error", "INSTANCE_START">> }

prolog1 ==
    { Space("prolog1", "NONE"),
      <<"PI", AnyWord, "prolog1", "PI">>,
      <<"COMMENT", AnyWord, "prolog1", "COMMENT">>,
      <<"BOM", AnyWord, "prolog1", "NONE">>,
      <<"DECL_OPEN", "DOCTYPE", "doctype0", "DOCTYPE_NONE">>,
      <<"INSTANCE_START", AnyWord, "error", "INSTANCE_START">> }

prolog2 ==
    { Space("prolog2", "NONE"),
      <<"PI", AnyWord, "prolog2", "PI">>,
      <<"COMMENT", AnyWord, "prolog2", "COMMENT">>,
      <<"INSTANCE_START", AnyWord, "error", "INSTANCE_START">> }

doctype0 ==
    { Space("doctype0", "DOCTYPE_NONE"),
      <<"NAME", AnyWord, "doctype1", "DOCTYPE_NAME">>,
      <<"PREFIXED_NAME", AnyWord, "doctype1", "DOCTYPE_NAME">> }

doctype1 ==
    { Space("doctype1", "DOCTYPE_NONE"),
      <<"OPEN_BRACKET", AnyWord, "internalSubset", "DOCTYPE_INTERNAL_SUBSET">>,
      <<"DECL_CLOSE", AnyWord, "prolog2", "DOCTYPE_CLOSE">>,
      <<"NAME", "SYSTEM", "doctype3", "DOCTYPE_NONE">>,
      <<"NAME", "PUBLIC", "doctype2", "DOCTYPE_NONE">> }

doctype2 ==
    { Space("doctype2", "DOCTYPE_NONE"),
      <<"LITERAL", AnyWord, "doctype3", "DOCTYPE_PUBLIC_ID">> }

doctype3 ==
    { Space("doctype3", "DOCTYPE_NONE"),
      <<"LITERAL", AnyWord, "doctype4", "DOCTYPE_SYSTEM_ID">> }

doctype4 ==
    { Space("doctype4", "DOCTYPE_NONE"),
      <<"OPEN_BRACKET", AnyWord, "internalSubset", "DOCTYPE_INTERNAL_SUBSET">>,
      <<"DECL_CLOSE", AnyWord, "prolog2", "DOCTYPE_CLOSE">> }

doctype5 ==
    { Space("doctype5", "DOCTYPE_NONE"),
      <<"DECL_CLOSE", AnyWord, "prolog2", "DOCTYPE_CLOSE">> }

-----------------------------------------------------------------------------
(* The subsets.  A row's next handler "same" keeps the handler, since the  *)
(* rows of the internal subset are also used by the external one.          *)

internalSubset ==
    { Space("same", "NONE"),
      <<"DECL_OPEN", "ENTITY", "entity0", "ENTITY_NONE">>,
      <<"DECL_OPEN", "ATTLIST", "attlist0", "ATTLIST_NONE">>,
      <<"DECL_OPEN", "ELEMENT", "element0", "ELEMENT_NONE">>,
      <<"DECL_OPEN", "NOTATION", "notation0", "NOTATION_NONE">>,
      <<"PI", AnyWord, "same", "PI">>,
      <<"COMMENT", AnyWord, "same", "COMMENT">>,
      <<"PARAM_ENTITY_REF", AnyWord, "same", "PARAM_ENTITY_REF">>,
      <<"CLOSE_BRACKET", AnyWord, "doctype5", "DOCTYPE_NONE">>,
      <<"NONE", AnyWord, "same", "NONE">> }

\* The rows whose handler looks at includeLevel are chosen by state.
externalSubset1(state) ==
    { <<"COND_SECT_OPEN", AnyWord, "condSect0", "NONE">> }
    \cup (IF state.includeLevel = 0 THEN {}
          ELSE {<<"COND_SECT_CLOSE", AnyWord, "closeSection", "NONE">>})
    \cup { row \in internalSubset :
             /\ row[1] # "CLOSE_BRACKET"
             /\ row[1] = "NONE" => state.includeLevel = 0 }

externalSubset0(state) ==
    externalSubset1(state) \cup {<<"XML_DECL", AnyWord, "externalSubset1", "TEXT_DECL">>}

condSect0 ==
    { Space("condSect0", "NONE"),
      <<"NAME", "INCLUDE", "condSect1", "NONE">>,
      <<"NAME", "IGNORE", "condSect2", "NONE">> }

condSect1 ==
    { Space("condSect1", "NONE"),
      <<"OPEN_BRACKET", AnyWord, "openSection", "NONE">> }

condSect2 ==
    { Space("condSect2", "NONE"),
      <<"OPEN_BRACKET", AnyWord, "externalSubset1", "IGNORE_SECT">> }

-----------------------------------------------------------------------------
(* ENTITY: entity2 to entity6 are general entities, entity7 to entity10    *)
(* parameter entities.  "endEntity" and its like are declClose, with the   *)
(* role_none that the handler leaves for it.                               *)

entity0 ==
    { Space("entity0", "ENTITY_NONE"),
      <<"PERCENT", AnyWord, "entity1", "ENTITY_NONE">>,
      <<"NAME", AnyWord, "entity2", "GENERAL_ENTITY_NAME">> }

entity1 ==
    { Space("entity1", "ENTITY_NONE"),
      <<"NAME", AnyWord, "entity7", "PARAM_ENTITY_NAME">> }

entity2 ==
    { Space("entity2", "ENTITY_NONE"),
      <<"NAME", "SYSTEM", "entity4", "ENTITY_NONE">>,
      <<"NAME", "PUBLIC", "entity3", "ENTITY_NONE">>,
      <<"LITERAL", AnyWord, "endEntity", "ENTITY_VALUE">> }

entity3 ==
    { Space("entity3", "ENTITY_NONE"),
      <<"LITERAL", AnyWord, "entity4", "ENTITY_PUBLIC_ID">> }

entity4 ==
    { Space("entity4", "ENTITY_NONE"),
      <<"LITERAL", AnyWord, "entity5", "ENTITY_SYSTEM_ID">> }

entity5 ==
    { Space("entity5", "ENTITY_NONE"),
      <<"DECL_CLOSE", AnyWord, "topLevel", "ENTITY_COMPLETE">>,
      <<"NAME", "NDATA", "entity6", "ENTITY_NONE">> }

entity6 ==
    { Space("entity6", "ENTITY_NONE"),
      <<"NAME", AnyWord, "endEntity", "ENTITY_NOTATION_NAME">> }

entity7 ==
    { Space("entity7", "ENTITY_NONE"),
      <<"NAME", "SYSTEM", "entity9", "ENTITY_NONE">>,
      <<"NAME", "PUBLIC", "entity8", "ENTITY_NONE">>,
      <<"LITERAL", AnyWord, "endEntity", "ENTITY_VALUE">> }

entity8 ==
    { Space("entity8", "ENTITY_NONE"),
      <<"LITERAL", AnyWord, "entity9", "ENTITY_PUBLIC_ID">> }

entity9 ==
    { Space("entity9", "ENTITY_NONE"),
      <<"LITERAL", AnyWord, "entity10", "ENTITY_SYSTEM_ID">> }

entity10 ==
    { Space("entity10", "ENTITY_NONE"),
      <<"DECL_CLOSE", AnyWord, "topLevel", "ENTITY_COMPLETE">> }

-----------------------------------------------------------------------------
(* NOTATION and ATTLIST.                                                   *)

notation0 ==
    { Space("notation0", "NOTATION_NONE"),
      <<"NAME", AnyWord, "notation1", "NOTATION_NAME">> }

notation1 ==
    { Space("notation1", "NOTATION_NONE"),
      <<"NAME", "SYSTEM", "notation3", "NOTATION_NONE">>,
      <<"NAME", "PUBLIC", "notation2", "NOTATION_NONE">> }

notation2 ==
    { Space("notation2", "NOTATION_NONE"),
      <<"LITERAL", AnyWord, "notation4", "NOTATION_PUBLIC_ID">> }

notation3 ==
    { Space("notation3", "NOTATION_NONE"),
      <<"LITERAL", AnyWord, "endNotation", "NOTATION_SYSTEM_ID">> }

notation4 ==
    { Space("notation4", "NOTATION_NONE"),
      <<"LITERAL", AnyWord, "endNotation", "NOTATION_SYSTEM_ID">>,
      <<"DECL_CLOSE", AnyWord, "topLevel", "NOTATION_NO_SYSTEM_ID">> }

attlist0 ==
    { Space("attlist0", "ATTLIST_NONE"),
      <<"NAME", AnyWord, "attlist1", "ATTLIST_ELEMENT_NAME">>,
      <<"PREFIXED_NAME", AnyWord, "attlist1", "ATTLIST_ELEMENT_NAME">> }

attlist1 ==
    { Space("attlist1", "ATTLIST_NONE"),
      <<"DECL_CLOSE", AnyWord, "topLevel", "ATTLIST_NONE">>,
      <<"NAME", AnyWord, "attlist2", "ATTRIBUTE_NAME">>,
      <<"PREFIXED_NAME", AnyWord, "attlist2", "ATTRIBUTE_NAME">> }

attlist2 ==
    { Space("attlist2", "ATTLIST_NONE"),
      <<"NAME", "CDATA", "attlist8", "ATTRIBUTE_TYPE_CDATA">>,
      <<"NAME", "ID", "attlist8", "ATTRIBUTE_TYPE_ID">>,
      <<"NAME", "IDREF", "attlist8", "ATTRIBUTE_TYPE_IDREF">>,
      <<"NAME", "IDREFS", "attlist8", "ATTRIBUTE_TYPE_IDREFS">>,
      <<"NAME", "ENTITY", "attlist8", "ATTRIBUTE_TYPE_ENTITY">>,
      <<"NAME", "ENTITIES", "attlist8", "ATTRIBUTE_TYPE_ENTITIES">>,
      <<"NAME", "NMTOKEN", "attlist8", "ATTRIBUTE_TYPE_NMTOKEN">>,
      <<"NAME", "NMTOKENS", "attlist8", "ATTRIBUTE_TYPE_NMTOKENS">>,
      <<"NAME", "NOTATION", "attlist5", "ATTLIST_NONE">>,
      <<"OPEN_PAREN", AnyWord, "attlist3", "ATTLIST_NONE">> }

attlist3 ==
    { Space("attlist3", "ATTLIST_NONE"),
      <<"NMTOKEN", AnyWord, "attlist4", "ATTRIBUTE_ENUM_VALUE">>,
      <<"NAME", AnyWord, "attlist4", "ATTRIBUTE_ENUM_VALUE">>,
      <<"PREFIXED_NAME", AnyWord, "attlist4", "ATTRIBUTE_ENUM_VALUE">> }

attlist4 ==
    { Space("attlist4", "ATTLIST_NONE"),
      <<"CLOSE_PAREN", AnyWord, "attlist8", "ATTLIST_NONE">>,
      <<"OR", AnyWord, "attlist3", "ATTLIST_NONE">> }

attlist5 ==
    { Space("attlist5", "ATTLIST_NONE"),
      <<"OPEN_PAREN", AnyWord, "attlist6", "ATTLIST_NONE">> }

attlist6 ==
    { Space("attlist6", "ATTLIST_NONE"),
      <<"NAME", AnyWord, "attlist7", "ATTRIBUTE_NOTATION_VALUE">> }

attlist7 ==
    { Space("attlist7", "ATTLIST_NONE"),
      <<"CLOSE_PAREN", AnyWord, "attlist8", "ATTLIST_NONE">>,
      <<"OR", AnyWord, "attlist6", "ATTLIST_NONE">> }

attlist8 ==
    { Space("attlist8", "ATTLIST_NONE"),
      <<"POUND_NAME", "IMPLIED", "attlist1", "IMPLIED_ATTRIBUTE_VALUE">>,
      <<"POUND_NAME", "REQUIRED", "attlist1", "REQUIRED_ATTRIBUTE_VALUE">>,
      <<"POUND_NAME", "FIXED", "attlist9", "ATTLIST_NONE">>,
      <<"LITERAL", AnyWord, "attlist1", "DEFAULT_ATTRIBUTE_VALUE">> }

attlist9 ==
    { Space("attlist9", "ATTLIST_NONE"),
      <<"LITERAL", AnyWord, "attlist1", "FIXED_ATTRIBUTE_VALUE">> }

-----------------------------------------------------------------------------
(* ELEMENT.  "openGroup" and "closeGroup" are element6 and element7 with   *)
(* the change of level made in Step below.                                 *)

element0 ==
    { Space("element0", "ELEMENT_NONE"),
      <<"NAME", AnyWord, "element1", "ELEMENT_NAME">>,
      <<"PREFIXED_NAME", AnyWord, "element1", "ELEMENT_NAME">> }

element1 ==
    { Space("element1", "ELEMENT_NONE"),
      <<"NAME", "EMPTY", "endElement", "CONTENT_EMPTY">>,
      <<"NAME", "ANY", "endElement", "CONTENT_ANY">>,
      <<"OPEN_PAREN", AnyWord, "firstGroup", "GROUP_OPEN">> }

\* The names of a content model, the same rows in element2 and element6.
ModelNames ==
    { <<"NAME", AnyWord, "element7", "CONTENT_ELEMENT">>,
      <<"PREFIXED_NAME", AnyWord, "element7", "CONTENT_ELEMENT">>,
      <<"NAME_QUESTION", AnyWord, "element7", "CONTENT_ELEMENT_OPT">>,
      <<"NAME_ASTERISK", AnyWord, "element7", "CONTENT_ELEMENT_REP">>,
      <<"NAME_PLUS", AnyWord, "element7", "CONTENT_ELEMENT_PLUS">> }

element2 ==
    ModelNames \cup
    { Space("element2", "ELEMENT_NONE"),
      <<"POUND_NAME", "PCDATA", "element3", "CONTENT_PCDATA">>,
      <<"OPEN_PAREN", AnyWord, "secondGroup", "GROUP_OPEN">> }

element3 ==
    { Space("element3", "ELEMENT_NONE"),
      <<"CLOSE_PAREN", AnyWord, "endElement", "GROUP_CLOSE">>,
      <<"CLOSE_PAREN_ASTERISK", AnyWord, "endElement", "GROUP_CLOSE_REP">>,
      <<"OR", AnyWord, "element4", "ELEMENT_NONE">> }

element4 ==
    { Space("element4", "ELEMENT_NONE"),
      <<"NAME", AnyWord, "element5", "CONTENT_ELEMENT">>,
      <<"PREFIXED_NAME", AnyWord, "element5", "CONTENT_ELEMENT">> }

element5AnyClose ==
    { Space("element5", "ELEMENT_NONE"),
      <<"CLOSE_PAREN", AnyWord, "endElement", "GROUP_CLOSE">>,
      <<"CLOSE_PAREN_ASTERISK", AnyWord, "endElement", "GROUP_CLOSE_REP">>,
      <<"OR", AnyWord, "element4", "ELEMENT_NONE">> }
element5 ==
    { Space("element5", "ELEMENT_NONE"),
      <<"CLOSE_PAREN_ASTERISK", AnyWord, "endElement", "GROUP_CLOSE_REP">>,
      <<"OR", AnyWord, "element4", "ELEMENT_NONE">> }

element6 ==
    ModelNames \cup
    { Space("element6", "ELEMENT_NONE"),
      <<"OPEN_PAREN", AnyWord, "openGroup", "GROUP_OPEN">> }

element7 ==
    { Space("element7", "ELEMENT_NONE"),
      <<"CLOSE_PAREN", AnyWord, "closeGroup", "GROUP_CLOSE">>,
      <<"CLOSE_PAREN_ASTERISK", AnyWord, "closeGroup", "GROUP_CLOSE_REP">>,
      <<"CLOSE_PAREN_QUESTION", AnyWord, "closeGroup", "GROUP_CLOSE_OPT">>,
      <<"CLOSE_PAREN_PLUS", AnyWord, "closeGroup", "GROUP_CLOSE_PLUS">>,
      <<"COMMA", AnyWord, "element6", "GROUP_SEQUENCE">>,
      <<"OR", AnyWord, "element6", "GROUP_CHOICE">> }

\* The end of a declaration: the role is the role_none left by the handler.
declClose(state) ==
    { Space("declClose", state.role_none),
      <<"DECL_CLOSE", AnyWord, "topLevel", state.role_none>> }

-----------------------------------------------------------------------------
\* The rows of the current handler.
Rows(state) ==
    LET h == state.handler IN
    IF h = "externalSubset0" THEN externalSubset0(state)
    ELSE IF h = "externalSubset1" THEN externalSubset1(state)
    ELSE IF h = "declClose" THEN declClose(state)
    ELSE [prolog0 |-> prolog0, prolog1 |-> prolog1, prolog2 |-> prolog2,
          doctype0 |-> doctype0, doctype1 |-> doctype1, doctype2 |-> doctype2,
          doctype3 |-> doctype3, doctype4 |-> doctype4, doctype5 |-> doctype5,
          internalSubset |-> internalSubset,
          entity0 |-> entity0, entity1 |-> entity1, entity2 |-> entity2,
          entity3 |-> entity3, entity4 |-> entity4, entity5 |-> entity5,
          entity6 |-> entity6, entity7 |-> entity7, entity8 |-> entity8,
          entity9 |-> entity9, entity10 |-> entity10,
          notation0 |-> notation0, notation1 |-> notation1, notation2 |-> notation2,
          notation3 |-> notation3, notation4 |-> notation4,
          attlist0 |-> attlist0, attlist1 |-> attlist1, attlist2 |-> attlist2,
          attlist3 |-> attlist3, attlist4 |-> attlist4, attlist5 |-> attlist5,
          attlist6 |-> attlist6, attlist7 |-> attlist7, attlist8 |-> attlist8,
          attlist9 |-> attlist9,
          element0 |-> element0, element1 |-> element1, element2 |-> element2,
          element3 |-> element3, element4 |-> element4, element5 |-> element5,
          element6 |-> element6, element7 |-> element7,
          condSect0 |-> condSect0, condSect1 |-> condSect1, condSect2 |-> condSect2][h]

\* What a row does to the PROLOG_STATE besides naming the next handler.
Step(state, to) ==
    LET Close(none) == [state EXCEPT !.handler = "declClose", !.role_none = none]
        Group(h, l) == [state EXCEPT !.handler = h, !.level = l]
        l == state.level
    IN CASE to = "same"         -> IF state.handler = "externalSubset0"
                                   THEN [state EXCEPT !.handler = "externalSubset1"] ELSE state
         [] to = "topLevel"     -> [state EXCEPT !.handler = setTopLevel(state)]
         [] to = "endEntity"    -> Close("ENTITY_NONE")
         [] to = "endNotation"  -> Close("NOTATION_NONE")
         [] to = "endElement"   -> Close("ELEMENT_NONE")
         [] to = "firstGroup"   -> Group("element2", 1)
         [] to = "secondGroup"  -> Group("element6", 2)
         [] to = "openGroup"    -> Group("element6", l + 1)
         [] to = "closeGroup"   -> IF l = 1 THEN [Close("ELEMENT_NONE") EXCEPT !.level = 0]
                                   ELSE Group("element7", l - 1)
         [] to = "openSection"  -> [state EXCEPT !.handler = "externalSubset1",
                                                 !.includeLevel = @ + 1]
         [] to = "closeSection" -> [state EXCEPT !.handler = "externalSubset1",
                                                 !.includeLevel = @ - 1]
         [] OTHER               -> [state EXCEPT !.handler = to]

\* common(): outside the document entity a parameter entity may be referred
\* to anywhere; every other token without a row is an error.
common(state, tok) ==
    IF ~state.documentEntity /\ tok.kind = "PARAM_ENTITY_REF"
    THEN [state |-> state, role |-> "INNER_PARAM_ENTITY_REF"]
    ELSE [state |-> [state EXCEPT !.handler = "error"], role |-> "ERROR"]

\* error(), the handler once a prolog has ended or failed.
error(state) == [state |-> state, role |-> "NONE"]

\* XmlTokenRole: the role of a token and the state behind it.
Takes(state, row) == [state |-> Step(state, row[3]), role |-> row[4]]
FirstOf(state, tok, rows) ==
    IF rows = {} THEN common(state, tok) ELSE Takes(state, CHOOSE row \in rows : TRUE)
XmlTokenRole(state, tok) ==
    IF state.handler = "error" THEN error(state)
    ELSE FirstOf(state, tok, { row \in Rows(state) : row[1] = tok.kind /\ row[2] \in {AnyWord, tok.word} })

\* The two initial states; level is only read behind an assignment to it.
XmlPrologStateInit ==
    [handler |-> "prolog0", documentEntity |-> TRUE, includeLevel |-> 0,
     level |-> 0, role_none |-> "NONE"]

XmlPrologStateInitExternalEntity ==
    [handler |-> "externalSubset0", documentEntity |-> FALSE, includeLevel |-> 0,
     level |-> 0, role_none |-> "NONE"]
=============================================================================
