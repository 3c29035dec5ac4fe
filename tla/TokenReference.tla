--------------------------- MODULE TokenReference ---------------------------
(***************************************************************************)
(* The tokens of XML as regular expressions over characters, and what is   *)
(* claimed of the scanners in terms of them.                               *)
(***************************************************************************)
EXTENDS TokenStream, RegularExpressions

Except(set) == One(Legal \ set)
White == Many(One(Space))
Name == Seq2(One(NameStart), Many(One(NameChar)))
QName == Seq2(Name, Maybe(Seq2(Ch("COLON"), Name)))
Reference == Cat(<<Ch("AMP"),
    Or2(Name, Seq2(Ch("NUM"), Or2(Some(Ch("DIGIT")), Seq2(Ch("x"), Some(One(HEX \cup {"DIGIT"})))))),
    Ch("SEMI")>>)
Quoted(q) == Cat(<<Ch(q), Many(Or2(Except({q, "LT", "AMP"}), Reference)), Ch(q)>>)
Attribute == Cat(<<Some(One(Space)), QName, White, Ch("EQUALS"), White, Or2(Quoted("QUOT"), Quoted("APOS"))>>)
Tag(atts, end) == Cat(<<Ch("LT"), QName, atts, White>> \o end \o <<Ch("GT")>>)
Word(cs) == Cat([i \in DOMAIN cs |-> Ch(cs[i])])
NoDashes == Many(Or2(Except({"MINUS"}), Seq2(Ch("MINUS"), Except({"MINUS"}))))
NoPiEnd == Many(Or2(Except({"QUEST"}), Seq2(Some(Ch("QUEST")), Except({"QUEST", "GT"}))))

\* tok, its expression with the characters the scanner looks at behind the
\* token, and how many these are
Kind(tok, re, ahead) == [tok |-> tok, re |-> re, ahead |-> ahead]
CommentKind == Kind("COMMENT", Cat(<<Word(<<"LT", "EXCL", "MINUS", "MINUS">>), NoDashes,
                                     Word(<<"MINUS", "MINUS", "GT">>)>>), 0)
PiKind == Kind("PI", Cat(<<Word(<<"LT", "QUEST">>), Name,
                           Maybe(Seq2(One(Space), Seq2(NoPiEnd, Many(Ch("QUEST"))))),
                           Word(<<"QUEST", "GT">>)>>), 0)
ContentKinds == <<
    CommentKind, PiKind,
    Kind("START_TAG_NO_ATTS", Tag(Empty, <<>>), 0),
    Kind("START_TAG_WITH_ATTS", Tag(Some(Attribute), <<>>), 0),
    Kind("EMPTY_ELEMENT_NO_ATTS", Tag(Empty, <<Ch("SOL")>>), 0),
    Kind("EMPTY_ELEMENT_WITH_ATTS", Tag(Some(Attribute), <<Ch("SOL")>>), 0),
    Kind("END_TAG", Cat(<<Word(<<"LT", "SOL">>), One(NameStart), Many(One(NameChar \cup {"COLON"})),
                          White, Ch("GT")>>), 0),
    Kind("CDATA_SECT_OPEN", Word(<<"LT", "EXCL", "LSQB", "C", "D", "A", "T", "A", "LSQB">>), 0),
    Kind("ENTITY_REF", Cat(<<Ch("AMP"), Name, Ch("SEMI")>>), 0),
    Kind("CHAR_REF", Reference, 0) >>

\* In a DTD a prefixed name is taken as one even if what follows the colon
\* does not begin like a name.
Prefixed == Cat(<<Name, Ch("COLON"), Some(One(NameChar))>>)
NmToken == Some(One(NameChar \cup {"COLON"}))
Delimited(tok, re, more) ==
    Kind(tok, Seq2(re, One(Space \cup {"GT", "PERCNT"} \cup more)), 1)
NameDelimited(tok, re) == Delimited(tok, re, {"RPAR", "COMMA", "VERBAR", "LSQB"})
Mark(tok, c) == Kind(tok, Ch(c), 0)
DeclWord == Cat(<<Word(<<"LT", "EXCL">>), Some(One(NMSTRT \cup HEX))>>)
PrologKinds == <<
    CommentKind, PiKind,
    Mark("COMMA", "COMMA"), Mark("OPEN_BRACKET", "LSQB"), Mark("OPEN_PAREN", "LPAR"),
    Mark("OR", "VERBAR"), Mark("DECL_CLOSE", "GT"),
    Kind("COND_SECT_OPEN", Word(<<"LT", "EXCL", "LSQB">>), 0),
    Kind("COND_SECT_CLOSE", Word(<<"RSQB", "RSQB", "GT">>), 0),
    Kind("CLOSE_BRACKET", Seq2(Ch("RSQB"), One(AnyChar \ {"RSQB"})), 1),
    Kind("CLOSE_BRACKET", Cat(<<Ch("RSQB"), Ch("RSQB"), One(AnyChar \ {"GT"})>>), 2),
    Kind("CLOSE_PAREN_ASTERISK", Word(<<"RPAR", "AST">>), 0),
    Kind("CLOSE_PAREN_QUESTION", Word(<<"RPAR", "QUEST">>), 0),
    Kind("CLOSE_PAREN_PLUS", Word(<<"RPAR", "PLUS">>), 0),
    Kind("CLOSE_PAREN", Seq2(Ch("RPAR"), One(Space \cup {"GT", "COMMA", "VERBAR", "RPAR"})), 1),
    Delimited("LITERAL", Cat(<<Ch("QUOT"), Many(Except({"QUOT"})), Ch("QUOT")>>), {"LSQB"}),
    Delimited("LITERAL", Cat(<<Ch("APOS"), Many(Except({"APOS"})), Ch("APOS")>>), {"LSQB"}),
    Kind("PERCENT", Seq2(Ch("PERCNT"), One(Space \cup {"PERCNT"})), 1),
    Kind("PARAM_ENTITY_REF", Cat(<<Ch("PERCNT"), Name, Ch("SEMI")>>), 0),
    Delimited("POUND_NAME", Seq2(Ch("NUM"), Name), {"RPAR", "VERBAR"}),
    Kind("DECL_OPEN", Seq2(DeclWord, One(Space)), 1),
    Kind("DECL_OPEN", Cat(<<DeclWord, Ch("PERCNT"), One(AnyChar \ (Space \cup {"PERCNT"}))>>), 2),
    Kind("INSTANCE_START", Seq2(Ch("LT"), One(NMSTRT \cup HEX \cup NONASCII \cup Lead)), 2),
    NameDelimited("NAME", Name), NameDelimited("PREFIXED_NAME", Prefixed), NameDelimited("NMTOKEN", NmToken),
    Kind("NAME_PLUS", Seq2(Or2(Name, Prefixed), Ch("PLUS")), 0),
    Kind("NAME_ASTERISK", Seq2(Or2(Name, Prefixed), Ch("AST")), 0),
    Kind("NAME_QUESTION", Seq2(Or2(Name, Prefixed), Ch("QUEST")), 0) >>
LiteralKinds == <<
    Kind("ENTITY_REF", Cat(<<Ch("AMP"), Name, Ch("SEMI")>>), 0), Kind("CHAR_REF", Reference, 0),
    Kind("PARAM_ENTITY_REF", Cat(<<Ch("PERCNT"), Name, Ch("SEMI")>>), 0) >>
Kinds == [content |-> ContentKinds, prolog |-> PrologKinds,
          attributeValue |-> LiteralKinds, entityValue |-> LiteralKinds]
-----------------------------------------------------------------------------
\* The characters from p on, with their places; the last of them possibly cut.
RECURSIVE CharsFrom(_, _)
CharsFrom(t, p) ==
    LET ch == CharAt(t, p)
        here == <<[class |-> ch.class, upto |-> p + ch.len]>>
    IN IF ch.class = "END" THEN <<>>
       ELSE IF ch.class = "CUT" THEN here ELSE here \o CharsFrom(t, p + ch.len)
Classes(chars) == [i \in DOMAIN chars |-> chars[i].class]
\* how many of the characters are before the byte p
Before(chars, p) == Len(SelectSeq(chars, LAMBDA c : c.upto <= p))

Begins(kinds, u) == \E i \in DOMAIN kinds : Read(kinds[i].re, u) # Never
\* the first kind of which the n first characters, with those behind it, are one
Is(kinds, u, n) ==
    LET fits(k) == n + k.ahead <= Len(u) /\ Nullable(Read(k.re, SubSeq(u, 1, n + k.ahead)))
        which == SelectSeq(kinds, fits)
    IN IF which = <<>> THEN "none" ELSE which[1].tok
\* the target of a processing instruction: xml, another spelling of it, or
\* anything else
TargetOf(u) == checkPiTarget(SubSeq(u, 3, 2 + CHOOSE k \in 0 .. Len(u) :
    /\ \A i \in 3 .. 2 + k : u[i] \in NameChar
    /\ k + 3 > Len(u) \/ u[k + 3] \notin NameChar))

\* The answer r, of which the token is the first n of the characters u, is
\* what the grammar of these kinds says.
TokenIsXml(kinds, u, r, n) ==
    CASE r.tok = "INVALID" ->
           \/ n = 5 /\ u[2] = "QUEST" /\ TargetOf(u) = "refused"
           \/ /\ Begins(kinds, SubSeq(u, 1, n))
              /\ \/ ~Begins(kinds, SubSeq(u, 1, n + 1))
                 \/ u[n + 1] = "PERCNT" /\ ~Begins(kinds, SubSeq(u, 1, n + 2))
      [] r.tok = "PARTIAL" ->
           \/ Begins(kinds, u)
           \/ Len(u) < 9 /\ SubSeq(u, 1, 3) = <<"LT", "EXCL", "LSQB">>
      [] r.tok = "PARTIAL_CHAR" -> u[Len(u)] = "CUT" /\ Begins(kinds, SubSeq(u, 1, Len(u) - 1))
      [] r.open -> n = Len(u) /\ Is(kinds, Append(u, "GT"), n) = r.tok
      [] OTHER -> /\ Is(kinds, u, n) = IF r.tok = "XML_DECL" THEN "PI" ELSE r.tok
                  /\ r.tok \in {"PI", "XML_DECL"} => r.tok = TargetOf(u)
                  /\ \A m \in 1 .. n - 1 : \A i \in DOMAIN kinds :
                       kinds[i].ahead = 0 => ~Nullable(Read(kinds[i].re, SubSeq(u, 1, m)))
IsData(kinds, u) == u = <<>> \/ ~Begins(kinds, <<u[1]>>)
\* Markup is recognised exactly: a token returned is a token of XML of that
\* kind, and the first; a text is refused at the first character with which no
\* token can go on (a reserved processing instruction target at the end of the
\* target); and what is called partial can still become a token, or is "<!["
\* with fewer than the six characters scanCdataSection awaits before it looks
\* at the first of them.
TokensAreXml(chars, r) ==
    \A kinds \in {Kinds[state]}, u \in {Classes(chars)} :
        IsData(kinds, u) \/ TokenIsXml(kinds, u, r, Before(chars, r.next))

Forbidden == [content |-> {"LT", "AMP", "CR", "LF"}, cdataSection |-> {"CR", "LF"},
              attributeValue |-> Space \cup {"LT", "AMP"}, entityValue |-> {"AMP", "PERCNT", "CR", "LF"}]
SectionEnd == <<"RSQB", "RSQB", "GT">>
EndsAt(u) == { i \in 1 .. Len(u) - 2 : SubSeq(u, i, i + 2) = SectionEnd }
\* Character data is what is between the markup: no character that XML
\* forbids there is in it, nor the end of a CDATA section, which is found in a
\* section and refused outside of one wherever the text was cut.
DataIsXml(chars, r) ==
    LET u == Classes(chars)
        n == Before(chars, r.next)
    IN /\ r.tok = "DATA_CHARS" =>
            /\ n > 0 /\ \A i \in 1 .. n : u[i] \in Legal \ Forbidden[state]
            /\ state \in {"content", "cdataSection"} => \A i \in EndsAt(u) : i > n
       /\ r.tok = "DATA_NEWLINE" =>
            \/ n = 1 /\ u[1] = "LF"
            \/ n = 2 /\ u[1] = "CR" /\ u[2] = "LF"
            \/ n = 1 /\ u[1] = "CR" /\ Len(u) > 1 /\ u[2] # "LF"
       /\ r.tok = "CDATA_SECT_CLOSE" <=> state = "cdataSection" /\ 1 \in EndsAt(u)
       /\ state = "content" /\ u # <<>> /\ u[1] \notin {"LT", "AMP"} /\ r.tok = "INVALID" =>
            (n = 0 /\ u[1] \in Illegal) \/ n - 1 \in EndsAt(u)
-----------------------------------------------------------------------------
\* Tokens that may be returned in pieces, put together.
Joined(toks) ==
    LET join(seq, k) ==
          IF seq # <<>> /\ Last(seq).tok = k.tok /\ k.tok \in {"DATA_CHARS", "PROLOG_S"}
          THEN Front(seq) \o <<[Last(seq) EXCEPT !.to = k.to]>> ELSE Append(seq, k)
    IN FoldLeft(join, <<>>, toks)
NextState(s, tok) ==
    CASE tok = "CDATA_SECT_OPEN" -> "cdataSection"
      [] tok \in {"CDATA_SECT_CLOSE", "INSTANCE_START"} -> "content"
      [] tok = "IGNORE_SECT" -> "prolog"
      [] OTHER -> s
\* The tokens of a text given in one piece, and the code that ends them.
RECURSIVE AtOnce(_, _, _), AndOn(_, _, _, _)
AtOnce(t, s, toks) == AndOn(t, s, toks, XmlTok(t, s))
AndOn(t, s, toks, r) ==
    IF r.tok \in NotPositive \/ r.open THEN [toks |-> Joined(toks), end |-> r, at |-> t.from]
    ELSE AtOnce([t EXCEPT !.from = r.next], NextState(s, r.tok),
                Append(toks, [tok |-> r.tok, from |-> t.from, to |-> r.next]))
\* with the data in front of what is refused
Tokens(whole) ==
    whole.toks \o IF whole.end.tok # "INVALID" THEN <<>>
                  ELSE <<[tok |-> "DATA_CHARS", from |-> whole.at, to |-> whole.end.next]>>

\* How a text is cut into pieces does not matter: the tokens taken are those
\* of the text given at once, except that character data and white space may
\* come in more pieces, and an error is the same and at the same place.  (The
\* data in front of a "]]>" outside of a CDATA section is taken only if the
\* text was cut behind it.)
PiecesDoNotMatter ==
    ~final =>
      \A whole \in {AtOnce([Given EXCEPT !.from = 1], source.state, <<>>)} :
        LET all == Tokens(whole)
            taken == Joined(out)
            k == Len(taken)
        IN /\ k <= Len(all)
           /\ \A i \in 1 .. k :
                \/ taken[i] = all[i]
                \/ i = k /\ taken[i].to <= all[i].to /\ [taken[i] EXCEPT !.to = all[i].to] = all[i]
           /\ phase = "INVALID_TOKEN" => /\ whole.end.tok = "INVALID"
                                         /\ whole.end.next = XmlTok(Given, state).next

\* Every token takes some of the text, or the first start tag is reached, so
\* the scan of a text ends; and it ends with all of the text taken.
ScanAdvances ==
    [][ /\ (out' # out) => (from' > from \/ state' # state)
        /\ (phase' = "done" /\ phase # "done") => from' = Len(text) + 1 ]_streamVars

\* The line and column at a token, added up token by token, are those of its
\* place in the text, where CR LF is one line end.
PositionIsPlace ==
    phase # "done" =>
      \A chars \in {CharsFrom([Given EXCEPT !.from = 1], 1)} :
      LET u == Classes(SubSeq(chars, 1, Before(chars, from)))
          ends == { i \in 1 .. Len(u) : u[i] \in {"CR", "LF"} }
          inPair == { i \in ends : i > 1 /\ u[i] = "LF" /\ u[i - 1] = "CR" }
          last == IF ends = {} THEN 0 ELSE CHOOSE i \in ends : \A j \in ends : j <= i
      IN position = [line |-> Cardinality(ends \ inPair), column |-> Len(u) - last]
-----------------------------------------------------------------------------
\* A value as attribute-value normalisation makes it, for a type other than
\* CDATA, if it has no references.
NeedsNormalizing(v) ==
    \/ \E i \in DOMAIN v : v[i] \in {"AMP", "TAB", "CR", "LF"}
    \/ v # <<>> /\ (v[1] = "S" \/ v[Len(v)] = "S")
    \/ \E i \in 1 .. Len(v) - 1 : v[i] = "S" /\ v[i + 1] = "S"
\* The attributes getAtts finds in a tag are those of the grammar, as many as
\* there are even if there is no room for them, and one is marked normalized
\* exactly if normalising would not change its value.
AttributesAreRead ==
    out # <<>> /\ Last(out).tok \in {"START_TAG_WITH_ATTS", "EMPTY_ELEMENT_WITH_ATTS"} =>
      \A t \in {[Given EXCEPT !.from = Last(out).from]} :
      \A g \in {getAtts(t)} :
      \A all \in {getAtts([t EXCEPT !.attsMax = g.nAtts])} :
      LET between(p, q) == Classes(CharsFrom([t EXCEPT !.bytes = SubSeq(@, 1, q - 1)], p))
          spelled(a, p) == between(p, a.valueEnd + t.w)
          prev(i) == IF i = 1 THEN t.from + t.w + nameLength(t, t.from + t.w)
                     ELSE all.atts[i - 1].valueEnd + t.w
      IN /\ g.atts = SubSeq(all.atts, 1, IF g.nAtts < t.attsMax THEN g.nAtts ELSE t.attsMax) /\ Len(all.atts) = g.nAtts
         /\ g.nAtts > 0
         /\ \A i \in 1 .. g.nAtts :
              /\ Nullable(Read(Attribute, spelled(all.atts[i], prev(i))))
              /\ skipS(t, prev(i)) = all.atts[i].name
              /\ all.atts[i].normalized = ~NeedsNormalizing(between(all.atts[i].valuePtr, all.atts[i].valueEnd))
         /\ LET rest == between(all.atts[g.nAtts].valueEnd + t.w, Last(out).to)
            IN Nullable(Read(Cat(<<White, Maybe(Ch("SOL")), Ch("GT")>>), rest))

\* What the scanners find in a text is what the grammar has there: the markup
\* (TokensAreXml), the data between it (DataIsXml) and the attributes of tags
\* (AttributesAreRead).  One refusal comes late: "<![" waits for six more
\* characters, whatever they are.
TextIsXml ==
    /\ phase = "scanning" =>
         \A chars \in {CharsFrom(Given, from)}, r \in {XmlTok(Given, state)} :
           /\ state \in DOMAIN Kinds => TokensAreXml(chars, r)
           /\ state \in DOMAIN Forbidden => DataIsXml(chars, r)
    /\ AttributesAreRead
=============================================================================
