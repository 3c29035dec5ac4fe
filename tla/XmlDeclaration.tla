--------------------------- MODULE XmlDeclaration ---------------------------
(***************************************************************************)
(* How the encoding of an entity is found: initScan on its first bytes,    *)
(* and the XML or text declaration (doParseXmlDecl).                       *)
(***************************************************************************)
EXTENDS Integers, Sequences, SequencesExt, FiniteSets

\* NS(encodings): from the name given at initialisation to an encoding
encodings == [ISO_8859_1 |-> "latin1", US_ASCII |-> "ascii", UTF_8 |-> "utf8", UTF_16 |-> "big2",
              UTF_16BE |-> "big2", UTF_16LE |-> "little2", NO_ENC |-> "utf8"]
Utf16Names == {"UTF_16", "UTF_16BE", "UTF_16LE"}

\* A token code; for "scan" the encoding's own scanner is asked.
Detected(tok, enc, next) == [tok |-> tok, enc |-> enc, next |-> next]
Undecided(tok) == Detected(tok, "init", 1)
\* one byte is all there is
OneByteEager(b, index, content) ==
    IF \/ index \in Utf16Names
       \/ b \in {0, \h3C}
       \/ b \in {\hFE, \hFF} /\ ~(index = "ISO_8859_1" /\ content)
    THEN Undecided("PARTIAL") ELSE Detected("scan", encodings[index], 1)
OneByte(b, index, content) ==
    IF \/ index \in Utf16Names
       \/ b \in {0, \h3C}
       \/ b \in {\hFE, \hFF, \hEF} /\ ~(index = "ISO_8859_1" /\ content)
    THEN Undecided("PARTIAL") ELSE Detected("scan", encodings[index], 1)
\* b begins an entity; content is state = XML_CONTENT_STATE
initScan(b, index, content) ==
    LET first == b[1]
        second == b[2]
        latin1 == index = "ISO_8859_1" /\ content
        named == Detected("scan", encodings[index], 1)
        little == Detected("scan", "little2", 1)
    IN IF b = <<>> THEN Undecided("NONE")
       ELSE IF Len(b) = 1 THEN OneByte(first, index, content)
       ELSE CASE first = \hFE /\ second = \hFF -> IF latin1 THEN named ELSE Detected("BOM", "big2", 3)
              [] first = \h3C /\ second = 0 ->
                   IF index \in {"UTF_16BE", "UTF_16"} /\ content THEN named ELSE little
              [] first = \hFF /\ second = \hFE -> IF latin1 THEN named ELSE Detected("BOM", "little2", 3)
              [] first = \hEF /\ second = \hBB ->
                   IF content /\ index \in Utf16Names \cup {"ISO_8859_1"} THEN named
                   ELSE IF Len(b) = 2 THEN Undecided("PARTIAL")
                   ELSE IF b[3] = \hBF THEN Detected("BOM", "utf8", 4) ELSE named
              [] first = 0 ->
                   IF content /\ index = "UTF_16LE" THEN named ELSE Detected("scan", "big2", 1)
              [] first # 0 /\ second = 0 /\ first # \h3C -> IF content THEN named ELSE little
              [] OTHER -> named
-----------------------------------------------------------------------------
(* The declaration, without "<?xml" and "?>", as words and marks: a word   *)
(* of letters, DIGIT, S, EQ, QUOT, APOS, another ASCII character OTHER and *)
(* one that is not ASCII.                                                  *)

encodingNames == ("iso-8859-1" :> "ISO_8859_1") @@ ("us-ascii" :> "US_ASCII") @@ ("utf-8" :> "UTF_8")
    @@ ("utf-16" :> "UTF_16") @@ ("utf-16be" :> "UTF_16BE") @@ ("utf-16le" :> "UTF_16LE")
Words == {"version", "encoding", "standalone", "yes", "no", "other"} \cup DOMAIN encodingNames
InValue == Words \cup {"DIGIT"}
\* toAscii: -1 at the end and for a character that is not ASCII
toAscii(d, p) == IF p > Len(d) \/ d[p] = "NONASCII" THEN "-1" ELSE d[p]
RECURSIVE AfterSpace(_, _)
AfterSpace(d, p) == IF toAscii(d, p) = "S" THEN AfterSpace(d, p + 1) ELSE p
RECURSIVE NameTo(_, _)
NameTo(d, p) == IF toAscii(d, p) \in {"-1", "EQ", "S"} THEN p ELSE NameTo(d, p + 1)
RECURSIVE ValueTo(_, _)
ValueTo(d, p) == IF toAscii(d, p) \in InValue THEN ValueTo(d, p + 1) ELSE p

NoAttribute(ok, p) == [ok |-> ok, name |-> <<>>, value |-> <<>>, next |-> p]
PseudoAttributeGlued(d, p) ==
    LET name == AfterSpace(d, p)
        nameEnd == NameTo(d, name)
        eq == AfterSpace(d, nameEnd)
        quote == AfterSpace(d, eq + 1)
        value == ValueTo(d, quote + 1)
    IN IF p > Len(d) \/ name > Len(d) THEN NoAttribute(TRUE, name)
       ELSE IF \/ nameEnd = name \/ toAscii(d, eq) # "EQ"
               \/ toAscii(d, quote) \notin {"QUOT", "APOS"} \/ toAscii(d, value) # d[quote]
            THEN NoAttribute(FALSE, p)
       ELSE [ok |-> TRUE, name |-> SubSeq(d, name, nameEnd - 1),
             value |-> SubSeq(d, quote + 1, value - 1), next |-> value + 1]
parsePseudoAttribute(d, p) ==
    LET name == AfterSpace(d, p)
        nameEnd == NameTo(d, name)
        eq == AfterSpace(d, nameEnd)
        quote == AfterSpace(d, eq + 1)
        value == ValueTo(d, quote + 1)
    IN IF p > Len(d) THEN NoAttribute(TRUE, p)
       ELSE IF toAscii(d, p) # "S" THEN NoAttribute(FALSE, p)
       ELSE IF name > Len(d) THEN NoAttribute(TRUE, name)
       ELSE IF \/ nameEnd = name \/ toAscii(d, eq) # "EQ"
               \/ toAscii(d, quote) \notin {"QUOT", "APOS"} \/ toAscii(d, value) # d[quote]
            THEN NoAttribute(FALSE, p)
       ELSE [ok |-> TRUE, name |-> SubSeq(d, name, nameEnd - 1),
             value |-> SubSeq(d, quote + 1, value - 1), next |-> value + 1]

\* findEncoding: an encoding of expat's own, enc itself for the UTF-16 that is
\* read already, or Null: a name for the application.  (A name of ENCODING_MAX
\* bytes or more is none of expat's own, and Null as well.)
getEncodingIndex(name) ==
    IF Len(name) = 1 /\ name[1] \in DOMAIN encodingNames THEN encodingNames[name[1]] ELSE "UNKNOWN_ENC"
findEncoding(name, enc) ==
    LET i == getEncodingIndex(name)
    IN CASE i = "UTF_16" /\ enc \in {"big2", "little2"} -> enc
         [] i = "UNKNOWN_ENC" -> "Null"
         [] OTHER -> encodings[i]

BadDecl == [ok |-> FALSE, version |-> <<>>, encoding |-> <<>>, found |-> "Null", standalone |-> -1]
\* what is left to be parsed after the encoding declaration: a is the next
\* pseudo attribute, r the result so far
StandaloneOf(d, text, a, r) ==
    IF a.name # <<"standalone">> \/ text \/ a.value \notin {<<"yes">>, <<"no">>}
       \/ AfterSpace(d, a.next) # Len(d) + 1 THEN BadDecl
    ELSE [r EXCEPT !.standalone = IF a.value = <<"yes">> THEN 1 ELSE 0]
EncodingOf(d, text, enc, a, r) ==
    LET found == [r EXCEPT !.encoding = a.value, !.found = findEncoding(a.value, enc)]
        b == parsePseudoAttribute(d, a.next)
    IN IF a.name # <<"encoding">> THEN StandaloneOf(d, text, a, r)
       ELSE IF a.value = <<>> \/ a.value[1] \notin Words \/ ~b.ok THEN BadDecl
       ELSE IF b.name = <<>> THEN found ELSE StandaloneOf(d, text, b, found)
\* text is isGeneralTextEntity
doParseXmlDecl(d, text, enc) ==
    LET a == parsePseudoAttribute(d, 1)
        b == parsePseudoAttribute(d, a.next)
        none == [BadDecl EXCEPT !.ok = TRUE]
        versioned == [none EXCEPT !.version = a.value]
    IN IF ~a.ok \/ a.name = <<>> THEN BadDecl
       ELSE IF a.name # <<"version">> THEN IF text THEN EncodingOf(d, text, enc, a, none) ELSE BadDecl
       ELSE IF ~b.ok THEN BadDecl
       ELSE IF b.name = <<>> THEN IF text THEN BadDecl ELSE versioned
       ELSE EncodingOf(d, text, enc, b, versioned)
=============================================================================
