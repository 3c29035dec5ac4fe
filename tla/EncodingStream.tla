--------------------------- MODULE EncodingStream ---------------------------
(***************************************************************************)
(* What the parser has the functions of Encodings and XmlDeclaration do,   *)
(* piece by piece, and what is claimed of it: find the encoding while the  *)
(* first bytes arrive, convert character data into buffers of some size,   *)
(* read numbers and declarations as they grow, take over a table.          *)
(***************************************************************************)
EXTENDS Encodings, XmlDeclaration, RegularExpressions

CONSTANTS
    Detections,    \* [index, content]: a protocol encoding and the state
    FirstBytes,    \* bytes an entity may begin with
    DetectLen,
    Texts,         \* what is converted: [enc, to, bytes, lim, unknown, convert, room]
    References,    \* [hex, digits, set, more]: a number and digits to go on with
    Declarations,  \* [text, words, marks, more]
    Characters,    \* UTF-8: sets of bytes at each place
    Tables         \* [bytes, values, convert]

VARIABLES
    job,      \* "detect", "convert", "reference", "declaration", "utf8", "table"
    subject,  \* one of Detections, Texts, ...
    read,     \* the bytes, digits or words so far; the values of a table
    found,    \* detect: what initScan answered when it decided
    chunks,   \* convert: the buffers passed on
    at,       \* convert: fromP
    result    \* convert: the last result
encodingVars == <<job, subject, read, found, chunks, at, result>>

\* XMLDecl and TextDecl of XML, with any value for the version
Mark1(c) == One({c})
Gap == Some(Mark1("S"))
Equals == Cat(<<Many(Mark1("S")), Mark1("EQ"), Many(Mark1("S"))>>)
InQuotes(re) == Or2(Cat(<<Mark1("QUOT"), re, Mark1("QUOT")>>), Cat(<<Mark1("APOS"), re, Mark1("APOS")>>))
Pseudo(name, re) == Cat(<<Gap, Mark1(name), Equals, InQuotes(re)>>)
VersionInfo == Pseudo("version", Many(One(InValue)))
EncodingDecl == Pseudo("encoding", Seq2(One(Words), Many(One(InValue))))
SDDecl == Pseudo("standalone", One({"yes", "no"}))
XMLDecl == Cat(<<VersionInfo, Maybe(EncodingDecl), Maybe(SDDecl), Many(Mark1("S"))>>)
TextDecl == Cat(<<Maybe(VersionInfo), EncodingDecl, Many(Mark1("S"))>>)
Grammar(text) == IF text THEN TextDecl ELSE XMLDecl
\* any names with any values, with or without space between them
AnyDecl == Many(Or2(Mark1("S"), Cat(<<One(Words), Equals, InQuotes(Many(One(InValue)))>>)))

Jobs == [detect |-> Detections, convert |-> Texts, reference |-> References,
         declaration |-> Declarations, utf8 |-> Characters, table |-> Tables]
Begun(j, s) == CASE j = "reference" -> s.digits [] j = "declaration" -> s.words [] OTHER -> <<>>
EncodingInit ==
    /\ job \in DOMAIN Jobs /\ subject \in Jobs[job] /\ read = Begun(job, subject)
    /\ found = Undecided("NONE") /\ chunks = <<>> /\ at = 1 /\ result = "OUTPUT_EXHAUSTED"

\* XML_Parse with one more byte, and the first scan of the entity with what
\* there is by now; or the byte comes with others.
Arrive(scan) ==
    /\ job = "detect" /\ found.enc = "init" /\ Len(read) < DetectLen
    /\ \E b \in FirstBytes : read' = Append(read, b)
    /\ found' = IF scan THEN initScan(read', subject.index, subject.content) ELSE found
    /\ UNCHANGED <<job, subject, chunks, at, result>>
MoreArrives ==
    /\ job = "detect" /\ found.enc # "init" /\ Len(read) < DetectLen
    /\ \E b \in FirstBytes : read' = Append(read, b)
    /\ UNCHANGED <<job, subject, found, chunks, at, result>>

\* One turn of the loop around XmlConvert: the buffer is full or all is done.
reportDefault ==
    /\ job = "convert" /\ result = "OUTPUT_EXHAUSTED"
    /\ \E c \in {XmlConvert(subject, at, subject.room)} :
         at' = c.from /\ chunks' = Append(chunks, c.out) /\ result' = c.res
    /\ UNCHANGED <<job, subject, read, found>>

\* the text of a reference, of a declaration (up to a mistake within a name
\* with its value), of a character grows
Grow ==
    /\ \/ job = "reference" /\ Len(read) < Len(subject.digits) + subject.more
          /\ \E n \in subject.set : read' = Append(read, n)
       \/ job = "declaration" /\ Len(read) < Len(subject.words) + subject.more
          /\ Read(AnyDecl, read) # Never
          /\ \E w \in subject.marks : read' = Append(read, w)
       \/ job = "utf8" /\ Len(read) < Len(subject)
          /\ \E b \in subject[Len(read) + 1] : read' = Append(read, b)
       \/ job = "table" /\ Len(read) < Len(subject.bytes)
          /\ \E c \in subject.values \cup {subject.bytes[Len(read) + 1]} : read' = Append(read, c)
    /\ UNCHANGED <<job, subject, found, chunks, at, result>>

EncodingNext == Arrive(TRUE) \/ Arrive(FALSE) \/ MoreArrives \/ reportDefault \/ Grow
EncodingSpec == EncodingInit /\ [][EncodingNext]_encodingVars
-----------------------------------------------------------------------------
(* Unicode, as the properties need it.                                     *)

IsXmlChar(c) == \/ c \in {9, 10, 13} \/ c \in \h20 .. \hD7FF \/ c \in \hE000 .. \hFFFD
                \/ c \in \h10000 .. \h10FFFF
CodePoint(b) ==
    LET bits(i) == b[i] % 64 IN
    CASE Len(b) = 1 -> b[1]
      [] Len(b) = 2 -> (b[1] - \hC0) * 64 + bits(2)
      [] Len(b) = 3 -> (b[1] - \hE0) * 4096 + bits(2) * 64 + bits(3)
      [] Len(b) = 4 -> (b[1] - \hF0) * 262144 + bits(2) * 4096 + bits(3) * 64 + bits(4)
LeastOfLen == <<0, \h80, \h800, \h10000>>
\* b is the UTF-8 of a character that is neither a surrogate nor FFFE, FFFF
IsUtf8Char(b) ==
    /\ Len(b) = LeadBytes(b[1]) /\ \A i \in 2 .. Len(b) : Trail(b[i])
    /\ CodePoint(b) >= LeastOfLen[Len(b)] /\ CodePoint(b) <= \h10FFFF
    /\ CodePoint(b) \notin \hD800 .. \hDFFF \cup {\hFFFE, \hFFFF}
\* the characters of UTF-8, of UTF-16, of any other encoding; -1 at a place
\* where there is none
RECURSIVE Utf8Chars(_)
Utf8Chars(b) ==
    IF b = <<>> THEN <<>>
    ELSE LET n == LeadBytes(b[1])
         IN IF n > Len(b) \/ Trail(b[1]) THEN <<-1>>
            ELSE <<CodePoint(SubSeq(b, 1, n))>> \o Utf8Chars(SubSeq(b, n + 1, Len(b)))
High(u) == u \in \hD800 .. \hDBFF
Low(u) == u \in \hDC00 .. \hDFFF
RECURSIVE Utf16Chars(_)
Utf16Chars(u) ==
    IF u = <<>> THEN <<>>
    ELSE IF High(u[1]) /\ Len(u) > 1 /\ Low(u[2])
         THEN <<\h10000 + (u[1] - \hD800) * 1024 + (u[2] - \hDC00)>> \o Utf16Chars(SubSeq(u, 3, Len(u)))
    ELSE <<IF High(u[1]) \/ Low(u[1]) THEN -1 ELSE u[1]>> \o Utf16Chars(Tail(u))
RECURSIVE TableChars(_, _)
TableChars(t, b) ==
    IF b = <<>> THEN <<>>
    ELSE LET n == t.unknown[b[1]].lead
         IN <<IF n = 1 THEN t.unknown[b[1]].utf16 ELSE t.convert[SubSeq(b, 1, n)]>>
            \o TableChars(t, SubSeq(b, n + 1, Len(b)))
WholeUnits(t, b) == [i \in 1 .. Len(b) \div 2 |-> GET([t EXCEPT !.bytes = b], 2 * i - 1)]
CharsOf(t, b) ==
    CASE t.enc = "utf8" -> Utf8Chars(b)
      [] t.enc \in {"little2", "big2"} -> Utf16Chars(WholeUnits(t, b))
      [] t.enc = "unknown" -> TableChars(t, b)
      [] OTHER -> b
Written(chars, to) == IF to = "utf8" THEN Utf8Chars(chars) ELSE Utf16Chars(chars)
-----------------------------------------------------------------------------
\* The first scan finds the same encoding whether the first bytes come one
\* by one or together.  (A byte that tells nothing is taken for one of the
\* encoding named even in a prolog, where with a zero behind it it would be
\* UTF-16 without a byte order mark.)
DetectionIsStable ==
    LET alone == ~subject.content /\ Len(read) > 1 /\ read[2] = 0 IN
    job = "detect" /\ found.enc # "init" /\ ~(alone /\ found.tok = "scan") =>
      found = initScan(read, subject.index, subject.content)

\* Character data is passed on as it is: the buffers, put together, are the
\* text up to where the converter got, and in the end that is the whole text
\* but for a character that is cut off.
ConvertedIsText ==
    LET t == subject IN
    job = "convert" =>
      /\ Written(FlattenSeq(chunks), t.to) = CharsOf(t, SubSeq(t.bytes, 1, at - 1))
      /\ result # "OUTPUT_EXHAUSTED" =>
           LET all == CharsOf(t, SubSeq(t.bytes, 1, t.lim - 1))
               whole == SelectSeq(all, LAMBDA c : c # -1)
           IN CharsOf(t, SubSeq(t.bytes, 1, at - 1)) = whole

\* UTF-16 to UTF-16, and the last turn of the loop has one unit more to copy
\* than room for it, the second of a pair: utf16_toUtf16 takes it for the first
\* of one, copies the unit before it and says XML_CONVERT_INPUT_INCOMPLETE.
HalfIsLast(t) ==
    LET units == WholeUnits(t, SubSeq(t.bytes, 1, t.lim - 1)) IN
    /\ t.enc \in {"little2", "big2"} /\ t.to = "utf16"
    /\ Len(units) > t.room /\ (Len(units) - 1) % t.room = 0 /\ Low(units[Len(units)])

\* UTF-16 with surrogates, to UTF-16: utf16_toUtf16 copies units, and the two
\* of a pair may come in different buffers.
PairsAsPairs(t) == t.enc \in {"little2", "big2"} /\ t.to = "utf16"
                   /\ \E u \in ToSet(WholeUnits(t, t.bytes)) : High(u)

\* A character is not divided between two buffers, by any converter that reads
\* characters.
ChunksAreWhole ==
    job = "convert" /\ ~PairsAsPairs(subject) =>
      \A i \in DOMAIN chunks : \A c \in ToSet(Written(chunks[i], subject.to)) : c # -1

\* A buffer that was too small was used: each turn of the loop gets on, so it
\* ends.
ConversionAdvances == [][ job = "convert" /\ result' = "OUTPUT_EXHAUSTED" => at' > at ]_encodingVars

\* A reference is to the character of that number if XML has it, however many
\* digits there are, and what is written for it is its UTF-8 and UTF-16.
ReferenceIsChar ==
    LET base == IF subject.hex THEN 16 ELSE 10
        n == FoldLeft(LAMBDA v, d : v * base + d, 0, read)
        c == charRefNumber(read, subject.hex)
    IN job = "reference" /\ read # <<>> =>
         /\ c = IF IsXmlChar(n) THEN n ELSE -1
         /\ c # -1 => /\ IsUtf8Char(XmlUtf8Encode(c)) /\ CodePoint(XmlUtf8Encode(c)) = c
                      /\ Utf16Chars(XmlUtf16Encode(c)) = <<c>>

\* UTF8_INVALIDn refuses exactly what is not UTF-8 or not a character.
Utf8IsUnicode ==
    job = "utf8" /\ read # <<>> /\ LeadBytes(read[1]) = Len(read) /\ Len(read) > 1 =>
      IsUtf8Char(read) = ~CASE Len(read) = 2 -> UTF8_INVALID2(read)
                            [] Len(read) = 3 -> UTF8_INVALID3(read)
                            [] Len(read) = 4 -> UTF8_INVALID4(read)

\* A declaration is accepted exactly if it is one of XML (with any value for
\* the version), and says what is reported.
DeclarationIsXml ==
    LET value(k) == SubSeq(read, k, (CHOOSE m \in k .. Len(read) :
                      read[m] \notin InValue /\ \A j \in k .. m - 1 : read[j] \in InValue) - 1)
        valueOf(name) == { value(k) : k \in { k \in 3 .. Len(read) : \E i \in 1 .. k - 1 :
            /\ read[i] = name /\ read[k - 1] \in {"QUOT", "APOS"}
            /\ { read[j] : j \in i + 1 .. k - 2 } \in {{"EQ"}, {"S", "EQ"}} } }
    IN job = "declaration" =>
       \A r \in {doParseXmlDecl(read, subject.text, "utf8")} :
         /\ r.ok = Nullable(Read(Grammar(subject.text), read))
         /\ r.ok /\ r.encoding # <<>> => r.encoding \in valueOf("encoding")
         /\ r.ok => (r.encoding # <<>>) = (valueOf("encoding") # {})
         /\ r.ok => r.standalone = IF valueOf("standalone") = {} THEN -1
                                   ELSE IF valueOf("standalone") = {<<"yes">>} THEN 1 ELSE 0

\* An encoding made from a table is that table: what a byte means is what it
\* is converted to, a byte for which the converter is called is told apart
\* from every other, and a character that has a part in XML is written only
\* by its own ASCII byte.
TableIsKept ==
    LET table == [b \in ToSet(subject.bytes) |-> read[CHOOSE i \in DOMAIN read : subject.bytes[i] = b]]
        e == XmlInitUnknownEncoding(table, subject.convert)
    IN job = "table" /\ Len(read) = Len(subject.bytes) /\ e # <<>> =>
         \A b \in DOMAIN table :
           LET c == table[b] IN
           /\ IsXmlChar(c) => e[b].utf8 = XmlUtf8Encode(c) /\ e[b].utf16 = c
           /\ (e[b].type \in {"MALFORM", "NONXML"}) = (c = -1 \/ (c >= 0 /\ ~IsXmlChar(c)))
           /\ (c < -1) = (e[b].utf8 = <<>>) /\ (c < -1) = (e[b].utf16 = 0)
           /\ c < -1 => subject.convert /\ e[b].lead = -c
           /\ c \in {9, 10, 13, \h20, \h21, \h22, \h26, \h27, \h3C, \h3E, \h41} => b = c

\* Character data that goes through a converter in several buffers arrives
\* whole (ConvertedIsText), pairs of UTF-16 copied to UTF-16 included wherever
\* the buffer ends but in the one case of HalfIsLast, which loses half of one;
\* and it comes in buffers of whole characters (ChunksAreWhole).
TextIsConverted ==
    /\ (job = "convert" /\ ~HalfIsLast(subject)) => ConvertedIsText
    /\ ChunksAreWhole

\* Only characters of XML get into a document, and each as what it is: by a
\* reference (ReferenceIsChar), in UTF-8 (Utf8IsUnicode), through the table of
\* an application's encoding (TableIsKept).
CharactersAreXml == ReferenceIsChar /\ Utf8IsUnicode /\ TableIsKept
=============================================================================
