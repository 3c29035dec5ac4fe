----------------------------- MODULE MCEncodings -----------------------------
(***************************************************************************)
(* EncodingStream on characters and bytes at the limits of their ranges.   *)
(***************************************************************************)
EXTENDS EncodingStream

MCDetections == [index : DOMAIN encodings, content : BOOLEAN]
MCFirstBytes == {0, \h20, \h3C, \hBB, \hBF, \hEF, \hFE, \hFF}

CodePoints == {\h41, \hE9, \h7FF, \h800, \h10000, \h10FFFF}
Tuples(set, n) == UNION { [1 .. k -> set] : k \in 0 .. n }
Swapped(us, enc) == FlattenSeq([i \in DOMAIN us |->
    IF enc = "little2" THEN <<us[i] % 256, us[i] \div 256>> ELSE <<us[i] \div 256, us[i] % 256>>])
BytesOf(enc, cs) ==
    IF enc = "utf8" THEN FlattenSeq([i \in DOMAIN cs |-> XmlUtf8Encode(cs[i])])
    ELSE Swapped(FlattenSeq([i \in DOMAIN cs |-> XmlUtf16Encode(cs[i])]), enc)
Some2 == XmlInitUnknownEncoding([b \in {\h41, \h80, \h81} |->
             IF b = \h80 THEN -2 ELSE IF b = \h81 THEN \h2022 ELSE b], TRUE)
Convert2 == [p \in {<<\h80, \h41>>, <<\h80, \h81>>} |-> IF p[2] = \h41 THEN \h3B1 ELSE \hE9]
Text(enc, to, bytes, cut, room) ==
    [enc |-> enc, to |-> to, bytes |-> bytes, lim |-> Len(bytes) + 1 - cut, unknown |-> Some2,
     convert |-> Convert2, room |-> room]
Rooms(to) == IF to = "utf8" THEN 4 .. 6 ELSE 2 .. 3
Uncut(encs, to) == { Text(enc, to, BytesOf(enc, cs), 0, room) :
    enc \in encs, room \in Rooms(to),
    cs \in Tuples(CodePoints, 2) \cup Tuples({\h41, \h800, \h10000}, 3) }
Cuts == { Text(enc, "utf8", BytesOf(enc, cs \o <<c>>), cut, room) :
            enc \in {"utf8", "big2"}, cs \in Tuples(CodePoints, 1), c \in {\h800, \h10000}, cut \in 1 .. 1, room \in 4 .. 6 }
Single == { Text(enc, to, bytes, 0, room) : enc \in {"latin1"}, to \in {"utf8", "utf16"},
              bytes \in Tuples({\h41, \h80, \hFF}, 4), room \in 4 .. 5 }
Ascii == { Text("ascii", to, bytes, 0, room) : to \in {"utf8", "utf16"}, bytes \in Tuples({\h41}, 6), room \in 4 .. 5 }
Mapped == { Text("unknown", to, FlattenSeq(cs), 0, room) : to \in {"utf8", "utf16"}, room \in 4 .. 5,
              cs \in Tuples({<<\h41>>, <<\h80, \h41>>, <<\h80, \h81>>, <<\h81>>}, 3) }
MCTexts == Uncut({"utf8", "little2"}, "utf8") \cup Uncut({"utf8", "big2"}, "utf16")
           \cup Cuts \cup Single \cup Ascii \cup Mapped

MCPairs == Uncut({"big2"}, "utf16")

Ref(hex, digits, set, more) == [hex |-> hex, digits |-> digits, set |-> set, more |-> more]
MCReferences ==
    {Ref(TRUE, <<>>, {0, 1, 8, 13, 15}, 6), Ref(TRUE, <<15, 15, 15>>, 0 .. 15, 1), Ref(TRUE, <<>>, 0 .. 15, 2)}
    \cup {Ref(FALSE, ds, 0 .. 9, 2) : ds \in {<<>>, <<5, 5, 2>>, <<5, 7, 3>>, <<6, 5, 5>>, <<1, 1, 1, 4, 1>>,
                                             <<1, 1, 1, 4, 1, 1, 1>>, <<0, 0, 0, 0, 0>>}}

Decl(text, words, marks, more) == [text |-> text, words |-> words, marks |-> marks, more |-> more]
VersionWords == <<"S", "version", "EQ", "QUOT", "DIGIT", "QUOT">>
EncodingWords == <<"S", "encoding", "EQ", "APOS", "utf-8", "APOS">>
Marks == {"S", "EQ", "QUOT", "APOS"}
MCDeclarations ==
    { Decl(text, <<>>, Marks \cup {"version", "encoding", "utf-8", "DIGIT", "NONASCII"}, 6) : text \in BOOLEAN }
    \cup { Decl(text, VersionWords, Marks \cup {"encoding", "utf-16", "DIGIT"}, 6) : text \in BOOLEAN }
    \cup { Decl(text, words, {"S", "standalone", "EQ", "QUOT", "yes", "no", "OTHER"}, 6) :
             text \in BOOLEAN, words \in {VersionWords, VersionWords \o EncodingWords} }

Edges == {\h7F, \h80, \h8F, \h90, \h9F, \hA0, \hBD, \hBE, \hBF, \hC0}
MCCharacters ==
    {<<{\hC0, \hC1, \hC2, \hDF}, Edges>>, <<{\hE0, \hE1, \hEC, \hED, \hEE, \hEF}, Edges, Edges>>,
     <<{\hF0, \hF1, \hF3, \hF4}, Edges, Edges, Edges>>}

Values == {-5, -4, -2, -1, 0, \h24, \h3C, \h41, \hB7, \hE9, \hD800, \hFFFF, \h10000, \h2022}
MCTables == { [bytes |-> bytes, values |-> Values, convert |-> convert] :
                bytes \in {<<\h24, \h3C, \h80>>, <<0, \h80, \hE9>>}, convert \in BOOLEAN }
=============================================================================
