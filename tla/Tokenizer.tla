------------------------------ MODULE Tokenizer ------------------------------
(***************************************************************************)
(* The scanners of xmltok_impl.c: pure functions from the bytes available  *)
(* to a token and its end.  A scanner is a table from points of its        *)
(* control flow to the cases of the switch there, tried in order; a        *)
(* character that no case names is invalid there.  scan runs a table.      *)
(*                                                                         *)
(* A byte is named by its type in the encoding's table (BT_ without its    *)
(* prefix) except letters the code compares with, and TAB, which has the   *)
(* type S.  The bytes behind a LEADn say whether the character is a name   *)
(* start character, a name character or another one: TRAIL_S, TRAIL_N,     *)
(* TRAIL_O; so do NONASCII_S, _N, _O for the units of UTF-16, whose second *)
(* byte is SECOND.  A colon is a COLON if namespaces are processed, else   *)
(* an NMSTRT.                                                              *)
(***************************************************************************)
EXTENDS Integers, Sequences, SequencesExt, TLC

Letters == {"x", "m", "l", "X", "M", "L", "T"}
HexLetters == {"A", "C", "D"}
NMSTRT == {"NMSTRT"} \cup Letters
HEX == {"HEX"} \cup HexLetters
S == {"S", "TAB"}
Space == S \cup {"CR", "LF"}
NONASCII == {"NONASCII_S", "NONASCII_N", "NONASCII_O"}
Lead == {"CUT", "BAD", "LEAD_S", "LEAD_N", "LEAD_O"}
NameStart == NMSTRT \cup HEX \cup {"NONASCII_S", "LEAD_S"}
NameChar == NameStart \cup {"NONASCII_N", "LEAD_N", "DIGIT", "NAME", "MINUS"}
Illegal == {"NONXML", "MALFORM", "TRAIL", "BAD"}
AnyChar == NameChar \cup Space \cup NONASCII \cup Lead \cup Illegal \cup
    {"OTHER", "COLON", "PERCNT", "LPAR", "RPAR", "AST", "PLUS", "COMMA", "VERBAR", "LT", "GT",
     "AMP", "LSQB", "RSQB", "QUOT", "APOS", "EQUALS", "QUEST", "EXCL", "SOL", "SEMI", "NUM"}
Legal == AnyChar \ (Illegal \cup {"CUT"})

LeadLen == [LEAD2 |-> 2, LEAD3 |-> 3, LEAD4 |-> 4]
Trails == {"TRAIL_S", "TRAIL_N", "TRAIL_O"}
-----------------------------------------------------------------------------
(* The text is [bytes, w, from]: w is MINBPC, from the start of the token. *)

HAS_CHAR(t, p) == Len(t.bytes) + 1 - p >= t.w

LeadClass(t, p, n) ==
    IF Len(t.bytes) + 1 - p < n THEN "CUT"
    ELSE IF t.w = 1 /\ \E i \in 1 .. n - 1 : t.bytes[p + i] \notin Trails THEN "BAD"
    ELSE IF t.w = 2 \/ n = 4 \/ t.bytes[p + n - 1] = "TRAIL_O" THEN "LEAD_O"
    ELSE IF t.bytes[p + n - 1] = "TRAIL_S" THEN "LEAD_S" ELSE "LEAD_N"

\* The character at p: its class and its length in bytes.
CharAt(t, p) ==
    LET b == t.bytes[p]
    IN IF ~HAS_CHAR(t, p) THEN [class |-> "END", len |-> 0]
       ELSE IF b \in DOMAIN LeadLen THEN [class |-> LeadClass(t, p, LeadLen[b]), len |-> LeadLen[b]]
       ELSE [class |-> IF b \in Trails THEN "TRAIL" ELSE b, len |-> t.w]
-----------------------------------------------------------------------------
(* What a case does.  Go: take the character and continue; Stay: continue  *)
(* at it; Back: continue at the character before it.  Token, TokenAt,      *)
(* TokenBefore: a token that ends behind it, in front of it, in front of   *)
(* the character before it.                                                *)

Do(what, to) == [what |-> what, to |-> to]
Go(c) == Do("go", c)
Stay(c) == Do("stay", c)
Back(c) == Do("back", c)
Token(k) == Do("token", k)
TokenAt(k) == Do("tokenAt", k)
TokenBefore(k) == Do("tokenBefore", k)
Invalid == Do("invalid", "")
InvalidBefore == Do("invalidBefore", "")
PartialChar == Do("partialChar", "")
Case(classes, do) == << [on |-> classes, do |-> do] >>
CaseCut == Case({"CUT"}, PartialChar)

CHECK_NMSTRT_CASES(c) == CaseCut \o Case(NameStart, Go(c))
CHECK_NAME_CASES(c) == CaseCut \o Case(NameChar, Go(c))
INVALID_CASES == CaseCut \o Case(Illegal, Invalid)
\* anything legal, with some special characters
Chars(c, special) == special \o INVALID_CASES \o Case(AnyChar, Go(c))

scanCommentDashes == [
    comment      |-> Case({"MINUS"}, Go("commentText")),
    commentText  |-> Chars("commentText", Case({"MINUS"}, Go("commentMinus"))),
    commentMinus |-> Case({"MINUS"}, Go("commentEnd")) \o Case(AnyChar, Stay("commentText")),
    commentEnd   |-> Case({"GT"}, Token("COMMENT")) \o Case(AnyChar, Stay("commentText")) ]
scanComment == [
    comment      |-> Case({"MINUS"}, Go("commentText")),
    commentText  |-> Chars("commentText", Case({"MINUS"}, Go("commentMinus"))),
    commentMinus |-> Case({"MINUS"}, Go("commentEnd")) \o Case(AnyChar, Stay("commentText")),
    commentEnd   |-> Case({"GT"}, Token("COMMENT")) ]

scanDecl == [
    decl     |-> Case({"MINUS"}, Go("comment")) \o Case({"LSQB"}, Token("COND_SECT_OPEN"))
                 \o Case(NMSTRT \cup HEX, Go("declName")),
    declName |-> Case({"PERCNT"}, Go("declPercent")) \o Case(Space, TokenAt("DECL_OPEN"))
                 \o Case(NMSTRT \cup HEX, Go("declName")),
    declPercent |-> Case(Space \cup {"PERCNT"}, InvalidBefore) \o Case(AnyChar, TokenBefore("DECL_OPEN")) ]

\* "target" is Go if checkPiTarget accepts what is between "<?" and here;
\* "pi" is Token with the token it chose.
scanPi == [
    pi      |-> CHECK_NMSTRT_CASES("piName"),
    piName  |-> CHECK_NAME_CASES("piName") \o Case(Space, Do("target", "piText"))
                \o Case({"QUEST"}, Do("target", "piEnd")),
    piText  |-> Chars("piText", Case({"QUEST"}, Go("piQuest"))),
    piQuest |-> Case({"GT"}, Do("pi", "")) \o Case(AnyChar, Stay("piText")),
    piEnd   |-> Case({"GT"}, Do("pi", "")) ]

cdataSectionTok == [
    cdataSection |-> Case({"RSQB"}, Go("cdataRsqb")) \o Case({"CR"}, Go("cdataCr"))
                     \o Case({"LF"}, Token("DATA_NEWLINE")) \o Chars("cdataChars", <<>>),
    cdataRsqb    |-> Case({"RSQB"}, Go("cdataRsqb2")) \o Case(AnyChar, Stay("cdataChars")),
    cdataRsqb2   |-> Case({"GT"}, Token("CDATA_SECT_CLOSE")) \o Case(AnyChar, Back("cdataChars")),
    cdataCr      |-> Case({"LF"}, Token("DATA_NEWLINE")) \o Case(AnyChar, TokenAt("DATA_NEWLINE")),
    cdataChars   |-> Case(Illegal \cup {"CUT", "CR", "LF", "RSQB"}, TokenAt("DATA_CHARS"))
                     \o Case(AnyChar, Go("cdataChars")) ]

scanEndTag == [
    endTag     |-> CHECK_NMSTRT_CASES("endTagName"),
    endTagName |-> CHECK_NAME_CASES("endTagName") \o Case(Space, Go("endTagS"))
                   \o Case({"COLON"}, Go("endTagName")) \o Case({"GT"}, Token("END_TAG")),
    endTagS    |-> Case(Space, Go("endTagS")) \o Case({"GT"}, Token("END_TAG")) ]

scanHexCharRef == [
    hexCharRef |-> Case(HEX \cup {"DIGIT"}, Go("hexDigits")),
    hexDigits  |-> Case(HEX \cup {"DIGIT"}, Go("hexDigits")) \o Case({"SEMI"}, Token("CHAR_REF")) ]
scanCharRef == [
    charRef |-> Case({"x"}, Go("hexCharRef")) \o Case({"DIGIT"}, Go("digits")),
    digits  |-> Case({"DIGIT"}, Go("digits")) \o Case({"SEMI"}, Token("CHAR_REF")) ]
scanRef == [
    ref     |-> CHECK_NMSTRT_CASES("refName") \o Case({"NUM"}, Go("charRef")),
    refName |-> CHECK_NAME_CASES("refName") \o Case({"SEMI"}, Token("ENTITY_REF")) ]

\* "ref" runs scanRef behind the ampersand and continues where it ended.
AttValue(c, open) ==
    Case({open}, Go("afterValue")) \o INVALID_CASES \o Case({"AMP"}, Do("ref", c))
    \o Case({"LT"}, Invalid) \o Case(AnyChar, Go(c))
AttEquals == Case(Space, Go("attEquals")) \o Case({"EQUALS"}, Go("attOpen"))
AttsEnd == Case({"GT"}, Token("START_TAG_WITH_ATTS")) \o Case({"SOL"}, Go("attsSol"))
scanAtts == [
    attName    |-> CHECK_NAME_CASES("attName") \o Case({"COLON"}, Go("attColon")) \o AttEquals,
    attColon   |-> CHECK_NMSTRT_CASES("attLocal"),
    attLocal   |-> CHECK_NAME_CASES("attLocal") \o AttEquals,
    attEquals  |-> AttEquals,
    attOpen    |-> Case(Space, Go("attOpen")) \o Case({"QUOT"}, Go("valueQuot"))
                   \o Case({"APOS"}, Go("valueApos")),
    valueQuot  |-> AttValue("valueQuot", "QUOT"),
    valueApos  |-> AttValue("valueApos", "APOS"),
    afterValue |-> Case(Space, Go("nextAtt")) \o AttsEnd,
    nextAtt    |-> CHECK_NMSTRT_CASES("attName") \o Case(Space, Go("nextAtt")) \o AttsEnd,
    attsSol    |-> Case({"GT"}, Token("EMPTY_ELEMENT_WITH_ATTS")) ]

TagEnd == Case({"GT"}, Token("START_TAG_NO_ATTS")) \o Case({"SOL"}, Go("tagSol"))
scanLt == [
    lt       |-> CHECK_NMSTRT_CASES("tagName") \o Case({"EXCL"}, Go("ltExcl"))
                 \o Case({"QUEST"}, Go("pi")) \o Case({"SOL"}, Go("endTag")),
    ltExcl   |-> Case({"MINUS"}, Go("comment")) \o Case({"LSQB"}, Go("cdata")),
    tagName  |-> CHECK_NAME_CASES("tagName") \o Case({"COLON"}, Go("tagColon"))
                 \o Case(Space, Go("tagS")) \o TagEnd,
    tagColon |-> CHECK_NMSTRT_CASES("tagLocal"),
    tagLocal |-> CHECK_NAME_CASES("tagLocal") \o Case(Space, Go("tagS")) \o TagEnd,
    tagS     |-> CHECK_NMSTRT_CASES("attName") \o TagEnd \o Case(Space, Go("tagS")),
    tagSol   |-> Case({"GT"}, Token("EMPTY_ELEMENT_NO_ATTS")) ]

contentTok == [
    content      |-> Case({"LT"}, Go("lt")) \o Case({"AMP"}, Go("ref")) \o Case({"CR"}, Go("contentCr"))
                     \o Case({"LF"}, Token("DATA_NEWLINE")) \o Case({"RSQB"}, Go("contentRsqb"))
                     \o Chars("contentChars", <<>>),
    contentCr    |-> Case({"LF"}, Token("DATA_NEWLINE")) \o Case(AnyChar, TokenAt("DATA_NEWLINE")),
    contentRsqb  |-> Case({"RSQB"}, Go("contentRsqb2")) \o Case(AnyChar, Stay("contentChars")),
    contentRsqb2 |-> Case({"GT"}, Invalid) \o Case(AnyChar, Back("contentChars")),
    contentChars |-> Case({"RSQB"}, Go("charsRsqb"))
                     \o Case(Illegal \cup {"CUT", "AMP", "LT", "CR", "LF"}, TokenAt("DATA_CHARS"))
                     \o Case(AnyChar, Go("contentChars")),
    charsRsqb    |-> Case({"RSQB"}, Go("charsRsqb2")) \o Case(AnyChar, Stay("contentChars")),
    charsRsqb2   |-> Case({"GT"}, Invalid) \o Case(AnyChar, Back("contentChars")) ]

scanPercent == [
    percent     |-> CHECK_NMSTRT_CASES("percentName") \o Case(Space \cup {"PERCNT"}, TokenAt("PERCENT")),
    percentName |-> CHECK_NAME_CASES("percentName") \o Case({"SEMI"}, Token("PARAM_ENTITY_REF")) ]
scanPoundName == [
    pound     |-> CHECK_NMSTRT_CASES("poundName"),
    poundName |-> CHECK_NAME_CASES("poundName")
                  \o Case(Space \cup {"RPAR", "GT", "PERCNT", "VERBAR"}, TokenAt("POUND_NAME")) ]
scanLit == [
    litQuot |-> Chars("litQuot", Case({"QUOT"}, Go("litEnd"))),
    litApos |-> Chars("litApos", Case({"APOS"}, Go("litEnd"))),
    litEnd  |-> Case(Space \cup {"GT", "PERCNT", "LSQB"}, TokenAt("LITERAL")) ]

NameEnd(k) == Case(Space \cup {"GT", "RPAR", "COMMA", "VERBAR", "LSQB", "PERCNT"}, TokenAt(k))
NameQuant == Case({"PLUS"}, Token("NAME_PLUS")) \o Case({"AST"}, Token("NAME_ASTERISK"))
             \o Case({"QUEST"}, Token("NAME_QUESTION"))
prologTok == [
    prolog      |-> Case({"QUOT"}, Go("litQuot")) \o Case({"APOS"}, Go("litApos")) \o Case({"LT"}, Go("prologLt"))
                    \o Case({"CR"}, Go("prologCr")) \o Case(S \cup {"LF"}, Go("prologS"))
                    \o Case({"PERCNT"}, Go("percent")) \o Case({"COMMA"}, Token("COMMA"))
                    \o Case({"LSQB"}, Token("OPEN_BRACKET")) \o Case({"RSQB"}, Go("prologRsqb"))
                    \o Case({"LPAR"}, Token("OPEN_PAREN")) \o Case({"RPAR"}, Go("prologRpar"))
                    \o Case({"VERBAR"}, Token("OR")) \o Case({"GT"}, Token("DECL_CLOSE"))
                    \o Case({"NUM"}, Go("pound")) \o CHECK_NMSTRT_CASES("name")
                    \o Case(NameChar \cup {"COLON"}, Go("nmtoken")),
    prologLt    |-> Case({"EXCL"}, Go("decl")) \o Case({"QUEST"}, Go("pi"))
                    \o Case(NMSTRT \cup HEX \cup NONASCII \cup Lead, TokenBefore("INSTANCE_START")),
    prologCr    |-> Case(AnyChar, Stay("prologS")),
    prologS     |-> Case(S \cup {"LF"}, Go("prologS")) \o Case({"CR"}, Go("prologSCr"))
                    \o Case(AnyChar, TokenAt("PROLOG_S")),
    prologSCr   |-> Case(AnyChar, Stay("prologS")),
    prologRsqb  |-> Case({"RSQB"}, Go("prologRsqb2")) \o Case(AnyChar, TokenAt("CLOSE_BRACKET")),
    prologRsqb2 |-> Case({"GT"}, Token("COND_SECT_CLOSE")) \o Case(AnyChar, TokenBefore("CLOSE_BRACKET")),
    prologRpar  |-> Case({"AST"}, Token("CLOSE_PAREN_ASTERISK")) \o Case({"QUEST"}, Token("CLOSE_PAREN_QUESTION"))
                    \o Case({"PLUS"}, Token("CLOSE_PAREN_PLUS"))
                    \o Case(Space \cup {"GT", "COMMA", "VERBAR", "RPAR"}, TokenAt("CLOSE_PAREN")),
    name        |-> CHECK_NAME_CASES("name") \o NameEnd("NAME") \o Case({"COLON"}, Go("nameColon")) \o NameQuant,
    nameColon   |-> CHECK_NAME_CASES("prefixed") \o Case({"BAD", "LEAD_O", "NONASCII_O"}, Invalid)
                    \o Case(AnyChar, Stay("nmtoken")),
    prefixed    |-> CHECK_NAME_CASES("prefixed") \o NameEnd("PREFIXED_NAME")
                    \o Case({"COLON"}, Go("nmtoken")) \o NameQuant,
    nmtoken     |-> CHECK_NAME_CASES("nmtoken") \o NameEnd("NMTOKEN") \o Case({"COLON"}, Go("nmtoken")) ]

attributeValueTok == [
    attributeValue |-> Case({"AMP"}, Go("ref")) \o Case({"LT"}, Invalid) \o Case({"LF"}, Token("DATA_NEWLINE"))
                       \o Case({"CR"}, Go("contentCr")) \o Case(S, Token("ATTRIBUTE_VALUE_S"))
                       \o Case(AnyChar, Go("attributeChars")),
    attributeChars |-> Case({"LT"}, Invalid) \o Case(Space \cup {"AMP"}, TokenAt("DATA_CHARS"))
                       \o Case(AnyChar, Go("attributeChars")) ]
entityValueTok == [
    entityValue   |-> Case({"AMP"}, Go("ref")) \o Case({"PERCNT"}, Go("entityPercent"))
                      \o Case({"LF"}, Token("DATA_NEWLINE")) \o Case({"CR"}, Go("contentCr"))
                      \o Case(AnyChar, Go("entityChars")),
    entityPercent |-> CHECK_NMSTRT_CASES("percentName"),
    entityChars   |-> Case({"AMP", "PERCNT", "LF", "CR"}, TokenAt("DATA_CHARS"))
                      \o Case(AnyChar, Go("entityChars")) ]

\* "up" and "down" are Go with the level of sections changed.
ignoreSectionTok == [
    ignoreSection |-> Chars("ignoreSection", Case({"LT"}, Go("ignoreLt")) \o Case({"RSQB"}, Go("ignoreRsqb"))),
    ignoreLt      |-> Case({"EXCL"}, Go("ignoreExcl")) \o Case(AnyChar, Stay("ignoreSection")),
    ignoreExcl    |-> Case({"LSQB"}, Do("up", "ignoreSection")) \o Case(AnyChar, Stay("ignoreSection")),
    ignoreRsqb    |-> Case({"RSQB"}, Go("ignoreRsqb2")) \o Case(AnyChar, Stay("ignoreSection")),
    ignoreRsqb2   |-> Case({"GT"}, Do("down", "ignoreSection")) \o Case(AnyChar, Stay("ignoreSection")) ]
-----------------------------------------------------------------------------
Scanners ==
    scanComment @@ scanDecl @@ scanPi @@ cdataSectionTok @@ scanEndTag @@ scanHexCharRef @@ scanCharRef
    @@ scanRef @@ scanAtts @@ scanLt @@ contentTok @@ scanPercent @@ scanPoundName @@ scanLit
    @@ prologTok @@ attributeValueTok @@ entityValueTok @@ ignoreSectionTok
FirstCase(cases, class) ==
    LET hits == SelectSeq(cases, LAMBDA c : class \in c.on)
    IN IF hits = <<>> THEN Invalid ELSE hits[1].do
Chosen(table) == [c \in DOMAIN table |-> [k \in AnyChar |-> FirstCase(table[c], k)]]
Switch == Chosen(Scanners)

\* A token, where it ends, and whether its code is negative: complete only if
\* the text ends there.
Found(tok, next) == [tok |-> tok, next |-> next, open |-> FALSE]
OpenEnd(tok, next) == [tok |-> tok, next |-> next, open |-> TRUE]
NotPositive == {"NONE", "INVALID", "PARTIAL", "PARTIAL_CHAR", "TRAILING_CR", "TRAILING_RSQB"}

\* The points at which the text may end, other than with XML_TOK_PARTIAL.
OpenAt == [litEnd |-> "LITERAL", poundName |-> "POUND_NAME", prologCr |-> "PROLOG_S",
           prologRsqb |-> "CLOSE_BRACKET", prologRpar |-> "CLOSE_PAREN", name |-> "NAME",
           prefixed |-> "PREFIXED_NAME", nmtoken |-> "NMTOKEN"]
TrailingAtLate == [contentCr |-> "DATA_NEWLINE", contentRsqb |-> "TRAILING_RSQB", contentRsqb2 |-> "TRAILING_RSQB"]
TrailingAt == [contentCr |-> "TRAILING_CR", contentRsqb |-> "TRAILING_RSQB", contentRsqb2 |-> "TRAILING_RSQB"]
CharsAt == [cdataChars |-> 0, contentChars |-> 0, charsRsqb |-> 1, charsRsqb2 |-> 2,
            attributeChars |-> 0, entityChars |-> 0]
SpaceAtWithCr == [prologS |-> 0, prologSCr |-> 0]
SpaceAtButLast == [prologS |-> 1, prologSCr |-> 1]
SpaceAt == [prologS |-> 0, prologSCr |-> 1]
AtEnd(t, c, p) ==
    IF c \in DOMAIN OpenAt THEN OpenEnd(OpenAt[c], p)
    ELSE IF c \in DOMAIN TrailingAt THEN Found(TrailingAt[c], p)
    ELSE IF c \in DOMAIN CharsAt THEN Found("DATA_CHARS", p - CharsAt[c] * t.w)
    ELSE IF c \in DOMAIN SpaceAt THEN Found("PROLOG_S", p - SpaceAt[c] * t.w)
    ELSE Found("PARTIAL", p)

Unit(t, p, i) == t.bytes[p + (i - 1) * t.w]
Units(t, p, q) == [i \in 1 .. (q - p) \div t.w |-> Unit(t, p, i)]

\* ptr is behind "<![": six characters are awaited before the first is read.
scanCdataSection(t, p) ==
    LET keyword == <<"C", "D", "A", "T", "A", "LSQB">>
        wrong == { i \in 1 .. 6 : Unit(t, p, i) # keyword[i] }
    IN IF ~HAS_CHAR(t, p + 5 * t.w) THEN Found("PARTIAL", p)
       ELSE IF wrong = {} THEN Found("CDATA_SECT_OPEN", p + 6 * t.w)
       ELSE Found("INVALID", p + t.w * ((CHOOSE i \in wrong : \A j \in wrong : i <= j) - 1))

\* The target of the processing instruction read so far, up to p.
PiTarget(t, p) ==
    LET all == Units(t, t.from + 2 * t.w, p)
        ends == { i \in 1 .. Len(all) : all[i] \in Space \cup {"QUEST"} }
    IN IF ends = {} THEN all ELSE SubSeq(all, 1, (CHOOSE i \in ends : \A j \in ends : i <= j) - 1)
\* the answer and *tokPtr of checkPiTarget
checkPiTarget(target) ==
    IF target = <<"x", "m", "l">> THEN "XML_DECL"
    ELSE IF Len(target) = 3 /\ target[1] \in {"x", "X"} /\ target[2] \in {"m", "M"} /\ target[3] \in {"l", "L"}
    THEN "refused" ELSE "PI"

\* Point c with the character ch at p; the case do of the switch there, with
\* the next character at next.
RECURSIVE scan(_, _, _, _), scanChar(_, _, _, _, _), scanCase(_, _, _, _, _)
scan(t, c, p, level) ==
    IF c = "cdata" THEN scanCdataSection(t, p) ELSE scanChar(t, c, CharAt(t, p), p, level)
scanChar(t, c, ch, p, level) ==
    IF ch.class = "END" THEN AtEnd(t, c, p)
    ELSE scanCase(t, Switch[c][ch.class], p, p + ch.len, level)
scanCase(t, do, p, next, level) ==
    CASE do.what = "go"          -> scan(t, do.to, next, level)
      [] do.what = "stay"        -> scan(t, do.to, p, level)
      [] do.what = "back"        -> scan(t, do.to, p - t.w, level)
      [] do.what = "up"          -> scan(t, do.to, next, level + 1)
      [] do.what = "down"        -> IF level = 0 THEN Found("IGNORE_SECT", next)
                                    ELSE scan(t, do.to, next, level - 1)
      [] do.what = "target"      -> IF checkPiTarget(PiTarget(t, p)) = "refused" THEN Found("INVALID", p)
                                    ELSE scan(t, do.to, next, level)
      [] do.what = "ref"         -> LET r == scan(t, "ref", next, level)
                                    IN IF r.tok \in NotPositive THEN r ELSE scan(t, do.to, r.next, level)
      [] do.what = "pi"          -> Found(checkPiTarget(PiTarget(t, p)), next)
      [] do.what = "token"       -> Found(do.to, next)
      [] do.what = "tokenAt"     -> Found(do.to, p)
      [] do.what = "tokenBefore" -> Found(do.to, p - t.w)
      [] do.what = "invalid"     -> Found("INVALID", p)
      [] do.what = "invalidBefore" -> Found("INVALID", p - t.w)
      [] do.what = "partialChar" -> Found("PARTIAL_CHAR", p)

\* XmlTok in a state: content, cdataSection, prolog, ignoreSection, or
\* XmlLiteralTok: attributeValue, entityValue.
XmlTok(t, state) ==
    IF t.from > Len(t.bytes) /\ state # "ignoreSection" THEN Found("NONE", t.from)
    ELSE scan(t, state, t.from, 0)
-----------------------------------------------------------------------------
(* What the parser asks of a token it has.                                 *)

NameLengthClasses == NameChar \cup NONASCII \cup Lead \cup {"COLON"}
RECURSIVE nameLength(_, _)
nameLength(t, p) ==
    LET ch == CharAt(t, p)
    IN IF ch.class \in NameLengthClasses THEN ch.len + nameLength(t, p + ch.len) ELSE 0

RECURSIVE skipS(_, _)
skipS(t, p) == IF CharAt(t, p).class \in Space THEN skipS(t, p + t.w) ELSE p

\* the space at p of the value that begins at value keeps it from being
\* normalised already
UnnormalSpace(t, p, value, open) ==
    p = value \/ t.bytes[p] # "S" \/ t.bytes[p + t.w] = "S" \/ t.bytes[p + t.w] = open

NewAtt == [name |-> 0, valuePtr |-> 0, valueEnd |-> 0, normalized |-> FALSE]
\* The loop of getAtts: a is the attribute nAtts, atts those before it, of
\* which only the first attsMax are stored.
RECURSIVE attsFrom(_, _, _, _, _, _, _)
attsFrom(t, p, state, open, a, n, atts) ==
    LET ch == CharAt(t, p)
        k == ch.class
        max == t.attsMax
        room == n < max
        step(s, o, b, m, as) == attsFrom(t, p + ch.len, s, o, b, m, as)
        same == step(state, open, a, n, atts)
    IN CASE k \in NMSTRT \cup HEX \cup NONASCII \cup Lead ->
              IF state = "other" THEN step("inName", open, [a EXCEPT !.name = p, !.normalized = TRUE], n, atts)
              ELSE same
         [] k \in {"QUOT", "APOS"} ->
              IF state # "inValue" THEN step("inValue", k, [a EXCEPT !.valuePtr = p + t.w], n, atts)
              ELSE IF open = k
              THEN step("other", open, NewAtt, n + 1,
                        IF room THEN Append(atts, [a EXCEPT !.valueEnd = p]) ELSE atts)
              ELSE same
         [] k = "AMP" -> step(state, open, [a EXCEPT !.normalized = FALSE], n, atts)
         [] k \in S ->
              IF state = "inName" THEN step("other", open, a, n, atts)
              ELSE IF state = "inValue" /\ a.normalized /\ UnnormalSpace(t, p, a.valuePtr, open)
              THEN step(state, open, [a EXCEPT !.normalized = FALSE], n, atts) ELSE same
         [] k \in {"CR", "LF"} ->
              IF state = "inName" THEN step("other", open, a, n, atts)
              ELSE IF state = "inValue" THEN step(state, open, [a EXCEPT !.normalized = FALSE], n, atts) ELSE same
         [] k \in {"GT", "SOL"} /\ state # "inValue" -> [nAtts |-> n, atts |-> atts]
         [] OTHER -> same
\* The attributes of the start tag or empty element tag at t.from.
getAtts(t) == attsFrom(t, t.from + t.w, "inName", "", NewAtt, 0, <<>>)

StartPosition == [line |-> 0, column |-> 0]
RECURSIVE updatePosition(_, _, _, _)
updatePosition(t, p, end, pos) ==
    LET ch == CharAt(t, p)
        lf == p + t.w < end /\ CharAt(t, p + t.w).class = "LF"
        nextLine == [line |-> pos.line + 1, column |-> 0]
    IN IF end - p < t.w THEN pos
       ELSE CASE ch.class = "LF" -> updatePosition(t, p + t.w, end, nextLine)
              [] ch.class = "CR" -> updatePosition(t, p + IF lf THEN 2 * t.w ELSE t.w, end, nextLine)
              [] OTHER -> updatePosition(t, p + ch.len, end, [pos EXCEPT !.column = @ + 1])
=============================================================================
