------------------------------ MODULE MCTokens ------------------------------
(***************************************************************************)
(* Texts that begin each kind of token, continued in every way up to a     *)
(* length, in encodings of one and of two bytes a unit.                    *)
(***************************************************************************)
EXTENDS TokenReference

Source(st, begin, bytes, more) ==
    [w |-> 1, state |-> st, begin |-> begin, bytes |-> bytes, maxLen |-> Len(begin) + more]
Wide(st, chars, bytes, more) ==
    [w |-> 2, state |-> st, begin |-> FlattenSeq([i \in DOMAIN chars |-> <<chars[i], "SECOND">>]),
     bytes |-> bytes, maxLen |-> 2 * (Len(chars) + more)]

ContentSources == {
    \* data and the ends of lines and sections
    Source("content", <<>>, {"OTHER", "CR", "LF", "RSQB", "GT"}, 4),
    Source("content", <<>>, {"OTHER", "CR", "LEAD2", "TRAIL_O"}, 4),
    \* tags
    Source("content", <<"LT">>, {"NMSTRT", "COLON", "DIGIT", "S", "SOL", "GT", "EXCL", "QUEST"}, 3),
    Source("content", <<"LT", "NMSTRT">>, {"NMSTRT", "COLON", "S", "SOL", "GT"}, 4),
    Source("content", <<"LT", "SOL">>, {"NMSTRT", "COLON", "LF", "GT"}, 4),
    Source("content", <<"LT", "SOL">>, {"NMSTRT", "GT", "LEAD2", "TRAIL_N", "TRAIL_S"}, 4),
    \* attributes
    Source("content", <<"LT", "NMSTRT", "S", "NMSTRT">>, {"S", "EQUALS", "APOS", "SOL", "GT"}, 4),
    Source("content", <<"LT", "NMSTRT", "S", "NMSTRT", "EQUALS", "APOS", "APOS">>, {"S", "NMSTRT", "SOL", "GT"}, 4),
    Source("content", <<"LT", "HEX", "TAB", "NMSTRT", "EQUALS", "QUOT">>,
           {"S", "TAB", "NMSTRT", "QUOT", "GT"}, 4),
    Source("content", <<"LT", "NMSTRT", "S", "NMSTRT", "EQUALS", "QUOT", "QUOT", "S", "NMSTRT">>,
           {"NMSTRT", "EQUALS", "COLON", "APOS", "GT"}, 4),
    \* references
    Source("content", <<"AMP">>, {"NMSTRT", "NUM", "x", "DIGIT", "HEX", "SEMI", "MALFORM"}, 3),
    Source("content", <<"AMP", "NUM">>, {"x", "DIGIT", "HEX", "SEMI"}, 4),
    Source("content", <<"LT", "NMSTRT", "S", "NMSTRT", "EQUALS", "APOS", "AMP">>,
           {"NUM", "x", "DIGIT", "SEMI", "APOS"}, 4),
    Source("content", <<"LT", "NMSTRT", "S", "NMSTRT", "EQUALS", "APOS", "AMP", "NUM", "x">>,
           {"DIGIT", "SEMI", "APOS", "GT"}, 4),
    \* comments, processing instructions, CDATA sections
    Source("content", <<"LT", "EXCL">>, {"MINUS", "GT", "S", "LSQB", "NONXML"}, 3),
    Source("content", <<"LT", "EXCL", "MINUS", "MINUS">>, {"MINUS", "GT", "S", "NONXML"}, 4),
    Source("content", <<"LT", "QUEST">>, {"x", "M", "m", "l", "QUEST", "GT"}, 3),
    Source("content", <<"LT", "QUEST", "x">>, {"m", "l", "QUEST", "GT"}, 4),
    Source("content", <<"LT", "EXCL", "LSQB", "C", "D", "A", "T">>, {"A", "LSQB", "RSQB"}, 2),
    Source("content", <<"LT", "EXCL", "LSQB", "C", "D", "A", "T", "A", "LSQB">>,
           {"OTHER", "RSQB", "GT", "CR"}, 5),
    Wide("content", <<>>, {"NONASCII_O", "RSQB", "GT", "CR", "LF", "LEAD4"}, 3),
    Wide("content", <<"LT">>, {"NONASCII_S", "NONASCII_N", "SOL", "GT", "LEAD4"}, 3) }
PrologSources == {
    Source("prolog", <<>>, {"CR", "LF", "S", "GT", "RSQB"}, 4),
    Source("prolog", <<"LT">>, {"EXCL", "NMSTRT", "LSQB", "PERCNT", "MINUS", "S", "LEAD3"}, 3),
    Source("prolog", <<"LT", "EXCL">>, {"NMSTRT", "LSQB", "MINUS", "S", "PERCNT"}, 3),
    Source("prolog", <<>>, {"NMSTRT", "COLON", "MINUS", "AST"}, 4),
    Source("prolog", <<>>, {"NMSTRT", "LEAD3", "TRAIL_N", "TRAIL_S", "VERBAR"}, 4),
    Source("prolog", <<"NMSTRT", "COLON">>, {"DIGIT", "COLON", "PLUS", "QUEST", "RPAR", "LEAD2", "TRAIL_O"}, 3),
    Source("prolog", <<"RPAR">>, {"AST", "QUEST", "PLUS", "VERBAR", "RPAR", "NMSTRT", "LPAR", "COMMA"}, 3),
    Source("prolog", <<>>, {"PERCNT", "NMSTRT", "SEMI", "S", "QUOT"}, 4),
    Source("prolog", <<>>, {"NUM", "NMSTRT", "APOS", "S", "PERCNT"}, 4),
    Source("prolog", <<"LT", "QUEST", "x">>, {"m", "l", "QUEST", "GT", "LF"}, 4),
    Wide("prolog", <<>>, {"NMSTRT", "CR", "LF", "LEAD4", "NONASCII_N"}, 3) }
OtherSources == {
    Source("ignoreSection", <<>>, {"LT", "EXCL", "LSQB", "RSQB", "GT"}, 4),
    Source("ignoreSection", <<"LT", "EXCL", "LSQB">>, {"LT", "RSQB", "GT"}, 6),
    Source("attributeValue", <<>>, {"NMSTRT", "AMP", "SEMI", "S", "CR", "LF"}, 4),
    Source("entityValue", <<>>, {"NMSTRT", "AMP", "PERCNT", "SEMI", "CR", "LF"}, 4) }
MCSources == ContentSources \cup PrologSources \cup OtherSources
=============================================================================
