-------------------------- MODULE PrologReference ---------------------------
(***************************************************************************)
(* What the prolog is checked against: the productions of XML 1.0 for the  *)
(* declarations, and what a declaration says, read off its tokens.         *)
(* Nothing here is translated from the code.  White space and references   *)
(* to parameter entities are left out of the token sequences.              *)
(*                                                                         *)
(* A production is an operator from a set of places in the sequence s to   *)
(* the places behind what it derives from them; More stands for a          *)
(* derivation that reads to the end of s and wants more tokens.            *)
(***************************************************************************)
EXTENDS PrologRole, SequencesExt

More == 0
Reads(s, I, Fits(_)) ==
    { IF i = More \/ i > Len(s) THEN More ELSE i + 1 :
        i \in { i \in I : (i # More /\ i <= Len(s)) => Fits(s[i]) } }
Kind(s, I, kinds) == Reads(s, I, LAMBDA t : t.kind \in kinds)
Word(s, I, kind, words) == Reads(s, I, LAMBDA t : t.kind = kind /\ t.word \in words)
Key(s, I, word) == Word(s, I, "NAME", {word})
Open(s, I, word) == Word(s, I, "DECL_OPEN", {word})
Name(s, I) == Kind(s, I, {"NAME", "PREFIXED_NAME"})
NCName(s, I) == Kind(s, I, {"NAME"})
Lit(s, I) == Kind(s, I, {"LITERAL"})
End(s, I) == Kind(s, I, {"DECL_CLOSE"})
Parens(s, I) == Kind(s, I, {"OPEN_PAREN"})

\* One of the kinds, then any number of times an OR and another.
RECURSIVE Choice(_, _, _)
Choice(s, I, kinds) ==
    LET J == Kind(s, I, kinds)
        K == Kind(s, J \ {More}, {"OR"})
    IN IF K = {} THEN J ELSE J \cup (K \cap {More}) \cup Choice(s, K \ {More}, kinds)

\* [45] to [51]: elementdecl with choice, seq, cp and Mixed
RECURSIVE Group(_, _), Particles(_, _, _)
Group(s, I) ==
    LET J == Parens(s, I) IN
    IF J \subseteq {More} THEN J
    ELSE Kind(s, Particles(s, J, "COMMA") \cup Particles(s, J, "OR"),
              {"CLOSE_PAREN", "CLOSE_PAREN_QUESTION", "CLOSE_PAREN_ASTERISK", "CLOSE_PAREN_PLUS"})
Particles(s, I, sep) ==
    LET J == Kind(s, I, {"NAME", "PREFIXED_NAME", "NAME_QUESTION", "NAME_ASTERISK", "NAME_PLUS"})
               \cup Group(s, I)
        K == Kind(s, J \ {More}, {sep})
    IN IF K \subseteq {More} THEN J \cup K ELSE J \cup Particles(s, K, sep)
Mixed(s, I) ==
    LET J == Word(s, Parens(s, I), "POUND_NAME", {"PCDATA"})
        K == Choice(s, Kind(s, J, {"OR"}), {"NAME", "PREFIXED_NAME"})
    IN Kind(s, J, {"CLOSE_PAREN", "CLOSE_PAREN_ASTERISK"}) \cup Kind(s, K, {"CLOSE_PAREN_ASTERISK"})
ElementDecl(s, I) ==
    LET J == Name(s, Open(s, I, "ELEMENT"))
    IN End(s, Word(s, J, "NAME", {"EMPTY", "ANY"}) \cup Mixed(s, J) \cup Group(s, J))

\* [52] to [60]: AttlistDecl
Types == {"CDATA", "ID", "IDREF", "IDREFS", "ENTITY", "ENTITIES", "NMTOKEN", "NMTOKENS"}
AttType(s, I) ==
    LET notation == Choice(s, Parens(s, Key(s, I, "NOTATION")), {"NAME"})
        enumeration == Choice(s, Parens(s, I), {"NAME", "PREFIXED_NAME", "NMTOKEN"})
    IN Word(s, I, "NAME", Types) \cup Kind(s, notation \cup enumeration, {"CLOSE_PAREN"})
DefaultDecl(s, I) ==
    Word(s, I, "POUND_NAME", {"REQUIRED", "IMPLIED"})
      \cup Lit(s, I \cup Word(s, I, "POUND_NAME", {"FIXED"}))
RECURSIVE AttDefs(_, _, _)
AttDefs(s, I, J) ==
    IF J \subseteq {More} THEN I \cup J
    ELSE I \cup J \cup AttDefs(s, J, DefaultDecl(s, AttType(s, Name(s, J))))
AttlistDecl(s, I) == End(s, AttDefs(s, {}, Name(s, Open(s, I, "ATTLIST"))))

\* [70] to [76] and [82], [83]: EntityDecl and NotationDecl
PublicID(s, I) == Lit(s, Key(s, I, "PUBLIC"))
ExternalID(s, I) == Lit(s, Key(s, I, "SYSTEM") \cup PublicID(s, I))
EntityDecl(s, I) ==
    LET open == Open(s, I, "ENTITY")
        general == NCName(s, open)
        param == NCName(s, Kind(s, open, {"PERCENT"}))
        id == ExternalID(s, general)
    IN End(s, Lit(s, general \cup param) \cup id \cup NCName(s, Key(s, id, "NDATA"))
                \cup ExternalID(s, param))
NotationDecl(s, I) ==
    LET name == NCName(s, Open(s, I, "NOTATION"))
    IN End(s, ExternalID(s, name) \cup PublicID(s, name))

\* [28]: doctypedecl up to its subset, and what ends it; [61] to [63]
Doctype(s, I) ==
    LET name == Name(s, Open(s, I, "DOCTYPE"))
    IN Kind(s, name \cup ExternalID(s, name), {"OPEN_BRACKET", "DECL_CLOSE"})
Others(s, I) ==
    Kind(s, I, {"COND_SECT_CLOSE", "XML_DECL", "INSTANCE_START"})
      \cup End(s, Kind(s, I, {"CLOSE_BRACKET"}))
      \cup Kind(s, Word(s, Kind(s, I, {"COND_SECT_OPEN"}), "NAME", {"INCLUDE", "IGNORE"}),
                {"OPEN_BRACKET"})

Derived(s) ==
    ElementDecl(s, {1}) \cup AttlistDecl(s, {1}) \cup EntityDecl(s, {1})
      \cup NotationDecl(s, {1}) \cup Doctype(s, {1}) \cup Others(s, {1})

\* s is a declaration, or nothing; s is the beginning of one
Complete(s) == s = <<>> \/ Len(s) + 1 \in Derived(s)
Begun(s) == s = <<>> \/ Derived(s) \cap {More, Len(s) + 1} # {}
=============================================================================
