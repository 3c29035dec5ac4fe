------------------------------ MODULE MCProlog ------------------------------
(***************************************************************************)
(* Prolog on small documents: one scenario for each kind of declaration    *)
(* and for the ways parameter entities and sections enter a subset.        *)
(***************************************************************************)
EXTENDS PrologProperties

N(word) == Tok("NAME", word)
Decl(word) == Tok("DECL_OPEN", word)
Close == Tok("DECL_CLOSE", "")
Ref(word) == Tok("PARAM_ENTITY_REF", word)
T(kind) == Tok(kind, "")
Text(kind) == [kind |-> kind, word |-> "p",
               text |-> <<"CR", "CR", "LF", "x", "LF", "CR", "LF", "LF", "CR">>]

Scene(tokens, hs, toggled, subset, maxDecls, maxLen) ==
    [tokens |-> tokens, handlers |-> hs, toggled |-> toggled, subset |-> subset,
     alone |-> FALSE, maxDecls |-> maxDecls, maxLen |-> maxLen]

\* One element declaration, long enough for a group in a group.
ElementScene ==
    Scene({Decl("ELEMENT"), N("a"), Tok("NAME_QUESTION", "b"), T("OPEN_PAREN"), T("CLOSE_PAREN"),
           T("CLOSE_PAREN_ASTERISK"), T("OR"), T("COMMA"), Tok("POUND_NAME", "PCDATA"), Close},
          {"element"}, {}, TRUE, 1, 9)
\* Two, in a scaffold that is used again, while the handler comes and goes.
HandlerScene ==
    Scene({Decl("ELEMENT"), N("ANY"), T("OPEN_PAREN"), T("CLOSE_PAREN"), T("OR"), Close},
          {"element"}, {"element"}, TRUE, 2, 8)
\* Every quantifier.
QuantScene ==
    Scene({Decl("ELEMENT"), N("EMPTY"), T("OPEN_PAREN"), T("CLOSE_PAREN_PLUS"), T("COMMA"),
           T("CLOSE_PAREN_QUESTION"), Tok("NAME_ASTERISK", "b"), Tok("NAME_PLUS", "b"),
           Tok("PREFIXED_NAME", "b"), T("PROLOG_S"), Close},
          {"default"}, {}, TRUE, 1, 7)
\* The types of attributes.
TypeScene ==
    Scene({Decl("ATTLIST"), N("a"), N("CDATA"), N("NOTATION"), T("OPEN_PAREN"), T("CLOSE_PAREN"),
           T("OR"), Tok("POUND_NAME", "REQUIRED"), Tok("POUND_NAME", "FIXED"), Literal(<<"v">>),
           Close},
          {"attlist"}, {}, TRUE, 1, 9)
\* Attributes declared again.
AgainScene ==
    Scene({Decl("ATTLIST"), N("CDATA"), N("ID"), Tok("POUND_NAME", "IMPLIED"), Literal(<<"v">>), Close},
          {"attlist", "default"}, {}, TRUE, 1, 12)

Ident == Literal(<<"SP", "x", "LF", "SP", "y", "SP">>)
\* The DOCTYPE declaration, with and without handlers, and a foreign DTD.
DoctypeTokens ==
    {Tok("XML_DECL", "yes"), Tok("XML_DECL", "no"), Decl("DOCTYPE"), N("SYSTEM"), N("PUBLIC"), Ident,
     Literal(<<"BAD">>), T("OPEN_BRACKET"), T("CLOSE_BRACKET"), Close, T("INSTANCE_START"), T("BOM"),
     Text("COMMENT")}
DoctypeScene ==
    Scene(DoctypeTokens, {"startDoctype", "endDoctype", "externalEntityRef", "notStandalone",
                          "foreignDTD", "xmlDecl", "comment"}, {}, FALSE, 2, 6)
SilentScene ==
    Scene(DoctypeTokens, {"default", "externalEntityRef", "foreignDTD"}, {}, FALSE, 1, 6)
\* Entities and notations.
EntityTokens ==
    {Decl("ENTITY"), T("PERCENT"), N("SYSTEM"), N("PUBLIC"), N("NDATA"), Ident, Close}
EntityScene == Scene(EntityTokens, {"entity", "default"}, {}, TRUE, 2, 8)
UnparsedScene == Scene(EntityTokens \cup {N("lt")}, {"entity", "unparsedEntity"}, {}, TRUE, 1, 8)
NotationScene ==
    Scene({Decl("NOTATION"), N("SYSTEM"), N("PUBLIC"), Ident, Literal(<<"BAD">>), Close,
           Text("PI"), Ref("p")}, {"notation", "pi", "skippedEntity"}, {}, TRUE, 2, 6)
\* Parameter entities in the internal subset.
EntityRefScene ==
    Scene({Tok("XML_DECL", "yes"), Decl("DOCTYPE"), Decl("ENTITY"), T("PERCENT"), N("p"), N("SYSTEM"),
           Literal(<<"v">>), T("OPEN_BRACKET"), T("CLOSE_BRACKET"), Close, Ref("p"), Ref("SYSTEM")},
          {"externalEntityRef", "skippedEntity", "notStandalone"}, {}, FALSE, 3, 6)
\* Sections, and parameter entities in them and in declarations.
SectionScene ==
    Scene({T("COND_SECT_OPEN"), T("COND_SECT_CLOSE"), N("INCLUDE"), N("IGNORE"), T("OPEN_BRACKET"),
           Decl("ENTITY"), T("PERCENT"), Literal(<<"v">>), Close, Ref("INCLUDE"), Ref("IGNORE")},
          {"default"}, {}, TRUE, 2, 5)
\* An attribute type left unfinished.
LeftoverScene ==
    Scene({Decl("ATTLIST"), N("CDATA"), T("OPEN_PAREN"), T("CLOSE_PAREN"), Literal(<<"v">>),
           Ref("p"), Text("PI"), Close}, {"attlist", "pi"}, {}, TRUE, 1, 8)
MCScenarios == {ElementScene, HandlerScene, QuantScene, TypeScene, AgainScene, DoctypeScene,
                SilentScene, EntityScene, UnparsedScene, NotationScene, EntityRefScene,
                SectionScene, LeftoverScene}
SectionScenario == {SectionScene}
MCWords == UNION {{tok.word : tok \in sc.tokens} : sc \in MCScenarios}
MCNameLen == [w \in MCWords |-> IF w = "b" THEN 4 ELSE 1]
=============================================================================
