------------------------------ MODULE Encodings ------------------------------
(***************************************************************************)
(* The functions of xmltok.c on bytes and characters: what UTF-8 is valid, *)
(* the converters to UTF-8 and UTF-16, character references, encodings     *)
(* made from an application's table.  Bytes and characters are numbers.    *)
(***************************************************************************)
EXTENDS Integers, Sequences, SequencesExt, FiniteSets, TLC

Trail(b) == b \div 64 = 2
UTF8_INVALID2(p) == p[1] < \hC2 \/ ~Trail(p[2])
UTF8_INVALID3(p) ==
    \/ p[3] < \h80
    \/ IF p[1] = \hEF /\ p[2] = \hBF THEN p[3] > \hBD ELSE p[3] >= \hC0
    \/ IF p[1] = \hE0 THEN p[2] < \hA0 \/ p[2] >= \hC0
       ELSE p[2] < \h80 \/ IF p[1] = \hED THEN p[2] > \h9F ELSE p[2] >= \hC0
UTF8_INVALID4(p) ==
    \/ ~Trail(p[4]) \/ ~Trail(p[3])
    \/ IF p[1] = \hF0 THEN p[2] < \h90 \/ p[2] >= \hC0
       ELSE p[2] < \h80 \/ IF p[1] = \hF4 THEN p[2] > \h8F ELSE p[2] >= \hC0
\* BT_LEADn of utf8tab.h; 1 for any other type
LeadBytes(b) == IF b \in \hC0 .. \hDF THEN 2 ELSE IF b \in \hE0 .. \hEF THEN 3
                ELSE IF b \in \hF0 .. \hF4 THEN 4 ELSE 1
-----------------------------------------------------------------------------
(* Character references.                                                   *)

\* asciitab.h and latin1tab.h
Punctuation ==
    (\h21 :> "EXCL" @@ \h22 :> "QUOT" @@ \h23 :> "NUM" @@ \h25 :> "PERCNT" @@ \h26 :> "AMP" @@ \h27 :> "APOS"
     @@ \h28 :> "LPAR" @@ \h29 :> "RPAR" @@ \h2A :> "AST" @@ \h2B :> "PLUS" @@ \h2C :> "COMMA" @@ \h2D :> "MINUS"
     @@ \h2E :> "NAME" @@ \h2F :> "SOL" @@ \h3A :> "COLON" @@ \h3B :> "SEMI" @@ \h3C :> "LT" @@ \h3D :> "EQUALS"
     @@ \h3E :> "GT" @@ \h3F :> "QUEST" @@ \h5B :> "LSQB" @@ \h5D :> "RSQB" @@ \h5F :> "NMSTRT" @@ \h7C :> "VERBAR")
latin1_type(c) ==
    CASE c \in {9, \h20} -> "S" [] c = 10 -> "LF" [] c = 13 -> "CR"
      [] c < 32 /\ c \notin {9, 10, 13} -> "NONXML"
      [] c \in DOMAIN Punctuation -> Punctuation[c]
      [] c \in \h30 .. \h39 -> "DIGIT"
      [] c \in \h41 .. \h46 \cup \h61 .. \h66 -> "HEX"
      [] c \in \h47 .. \h5A \cup \h67 .. \h7A \cup {\hAA, \hB5, \hBA} \cup (\hC0 .. \hFF \ {\hD7, \hF7}) -> "NMSTRT"
      [] c = \hB7 -> "NAME"
      [] OTHER -> "OTHER"

checkCharRefNumber(n) ==
    IF \/ n \div 256 \in \hD8 .. \hDF
       \/ n < 256 /\ latin1_type(n) = "NONXML"
       \/ n \in {\hFFFE, \hFFFF} THEN -1 ELSE n

RECURSIVE RefValueLate(_, _, _)
RefValueLate(digits, base, n) ==
    IF digits = <<>> THEN checkCharRefNumber(n)
    ELSE IF n > \h110000 THEN -1 ELSE RefValueLate(Tail(digits), base, n * base + digits[1])
\* the number n with the digits behind it
RECURSIVE RefValue(_, _, _)
RefValue(digits, base, n) ==
    IF n >= \h110000 THEN -1
    ELSE IF digits = <<>> THEN checkCharRefNumber(n)
    ELSE RefValue(Tail(digits), base, n * base + digits[1])
charRefNumber(digits, hex) == RefValue(digits, IF hex THEN 16 ELSE 10, 0)

XmlUtf8Encode(c) ==
    LET low(n) == ((c \div n) % 64) + \h80
    IN CASE c < 0        -> <<>>
         [] c \in 0 .. \h7F -> <<c>>
         [] c \in \h80 .. \h7FF -> <<c \div 64 + \hC0, low(1)>>
         [] c \in \h800 .. \hFFFF -> <<c \div 4096 + \hE0, low(64), low(1)>>
         [] c \in \h10000 .. \h10FFFF -> <<c \div 262144 + \hF0, low(4096), low(64), low(1)>>
         [] OTHER -> <<>>
XmlUtf16Encode(c) ==
    CASE c \in 0 .. \hFFFF -> <<c>>
      [] c \in \h10000 .. \h10FFFF -> <<(c - \h10000) \div 1024 + \hD800, ((c - \h10000) % 1024) + \hDC00>>
      [] OTHER -> <<>>
-----------------------------------------------------------------------------
(* Encodings from a table.  A table gives a byte's character, -1, or -n if *)
(* it leads n bytes.                                                       *)

\* nmstrtPages and namePages, for the characters of the instances
Nmstrt == {\hE9, \h3B1}
Naming == Nmstrt \cup {\hB7}
Ignored == {"OTHER", "NONXML"}
Refused(table, i, hasConvert) ==
    LET c == table[i] IN
    \/ i < 128 /\ latin1_type(i) \notin Ignored /\ c # i
    \/ c < -4 \/ (c < -1 /\ ~hasConvert)
    \/ c \in 0 .. 127 /\ latin1_type(c) \notin Ignored /\ c # i
    \/ c > \hFFFF /\ checkCharRefNumber(c) >= 0
NoChar(type) == [type |-> type, utf8 |-> <<0>>, utf16 |-> \hFFFF, lead |-> 1]
ByteOf(c) ==
    IF c = -1 THEN NoChar("MALFORM")
    ELSE IF c < 0 THEN [type |-> "LEAD", utf8 |-> <<>>, utf16 |-> 0, lead |-> -c]
    ELSE IF c < 128 THEN [type |-> latin1_type(c), utf8 |-> <<c>>,
                          utf16 |-> IF c = 0 THEN \hFFFF ELSE c, lead |-> 1]
    ELSE IF checkCharRefNumber(c) < 0 THEN NoChar("NONXML")
    ELSE [type |-> IF c \in Nmstrt THEN "NMSTRT" ELSE IF c \in Naming THEN "NAME" ELSE "OTHER",
          utf8 |-> XmlUtf8Encode(c), utf16 |-> c, lead |-> 1]
\* Null, or for each byte its type and what it is converted to
XmlInitUnknownEncoding(table, hasConvert) ==
    IF \E i \in DOMAIN table : Refused(table, i, hasConvert) THEN <<>>
    ELSE [i \in DOMAIN table |-> ByteOf(table[i])]
-----------------------------------------------------------------------------
(* Converters.  t is [enc, to, bytes, lim, unknown, convert]; a loop       *)
(* takes one character at a time from the bytes before lim until it stops. *)

Put(n, units) == [stop |-> "", take |-> n, put |-> units]
Stop(res) == [stop |-> res, take |-> 0, put |-> <<>>]
RoomFor(n, units, room) == IF room < Len(units) THEN Stop("OUTPUT_EXHAUSTED") ELSE Put(n, units)

RECURSIVE trim_to_complete_utf8_characters(_, _, _, _)
trim_to_complete_utf8_characters(b, from, lim, walked) ==
    LET prev == b[lim - 1]
        n == IF prev \div 8 = 30 THEN 4 ELSE IF prev \div 16 = 14 THEN 3 ELSE IF prev \div 32 = 6 THEN 2 ELSE 0
    IN IF lim <= from \/ prev < 128 THEN lim
       ELSE IF n > 0 /\ walked + 1 >= n THEN lim + n - 1
       ELSE trim_to_complete_utf8_characters(b, from, lim - 1, IF n > 0 THEN 1 ELSE walked + 1)
MinOf(a, b) == IF a < b THEN a ELSE b
utf8_toUtf8(t, from, room) ==
    LET storable == MinOf(t.lim, from + room)
        lim == trim_to_complete_utf8_characters(t.bytes, from, storable, 0)
    IN [from |-> lim, out |-> SubSeq(t.bytes, from, lim - 1),
        res |-> IF storable < t.lim THEN "OUTPUT_EXHAUSTED"
                ELSE IF lim < storable THEN "INPUT_INCOMPLETE" ELSE "COMPLETED"]

\* while there are bytes and there is room
WhileRoom(t, from, room, do) ==
    IF from < t.lim /\ room > 0 THEN do
    ELSE Stop(IF from < t.lim THEN "OUTPUT_EXHAUSTED" ELSE "COMPLETED")
utf8_toUtf16(t, from, room) ==
    LET n == LeadBytes(t.bytes[from])
        bits(i) == t.bytes[from + i] % 64
        value == CASE n = 1 -> t.bytes[from]
                   [] n = 2 -> (t.bytes[from] % 32) * 64 + bits(1)
                   [] n = 3 -> (t.bytes[from] % 16) * 4096 + bits(1) * 64 + bits(2)
                   [] n = 4 -> (t.bytes[from] % 8) * 262144 + bits(1) * 4096 + bits(2) * 64 + bits(3)
    IN WhileRoom(t, from, room,
         IF n = 4 /\ room < 2 THEN Stop("OUTPUT_EXHAUSTED")
         ELSE IF t.lim - from < n THEN Stop("INPUT_INCOMPLETE") ELSE Put(n, XmlUtf16Encode(value)))
latin1_toUtf8(t, from, room) ==
    IF from = t.lim THEN Stop("COMPLETED") ELSE RoomFor(1, XmlUtf8Encode(t.bytes[from]), room)
latin1_toUtf16(t, from, room) == WhileRoom(t, from, room, Put(1, <<t.bytes[from]>>))
ascii_toUtf8(t, from, room) == WhileRoom(t, from, room, Put(1, <<t.bytes[from]>>))

\* the unit of two bytes at p
GET(t, p) == IF t.enc = "little2" THEN t.bytes[p] + 256 * t.bytes[p + 1]
             ELSE t.bytes[p + 1] + 256 * t.bytes[p]
Even(t, from) == from + 2 * ((t.lim - from) \div 2)
Utf8Of(hi, lo) ==
    IF hi = 0 /\ lo < 128 THEN <<lo>>
    ELSE IF hi < 8 THEN <<(lo \div 64) + hi * 4 + \hC0, (lo % 64) + \h80>>
    ELSE <<(hi \div 16) + \hE0, (hi % 16) * 4 + (lo \div 64) + \h80, (lo % 64) + \h80>>
Utf8OfPairPlane0(hi, lo, hi2, lo2) ==
    LET plane == (hi % 4) * 4 + (lo \div 64)
    IN <<(plane \div 4) + \hF0, ((lo \div 4) % 16) + (plane % 4) * 16 + \h80,
         (lo % 4) * 16 + (hi2 % 4) * 4 + (lo2 \div 64) + \h80, (lo2 % 64) + \h80>>
Utf8OfPair(hi, lo, hi2, lo2) ==
    LET plane == (hi % 4) * 4 + (lo \div 64) + 1
    IN <<(plane \div 4) + \hF0, ((lo \div 4) % 16) + (plane % 4) * 16 + \h80,
         (lo % 4) * 16 + (hi2 % 4) * 4 + (lo2 \div 64) + \h80, (lo2 % 64) + \h80>>
utf16_toUtf8(t, from, room) ==
    LET lim == Even(t, from)
        hi(p) == GET(t, p) \div 256
        lo(p) == GET(t, p) % 256
    IN IF from >= lim THEN Stop("COMPLETED")
       ELSE IF hi(from) \notin \hD8 .. \hDB THEN RoomFor(2, Utf8Of(hi(from), lo(from)), room)
       ELSE IF room < 4 THEN Stop("OUTPUT_EXHAUSTED")
       ELSE IF lim - from < 4 THEN Stop("INPUT_INCOMPLETE")
       ELSE Put(4, Utf8OfPair(hi(from), lo(from), hi(from + 2), lo(from + 2)))
\* the whole of the call: the test for a half looks at the end of the input
utf16_toUtf16(t, from, room) ==
    LET even == Even(t, from)
        half == even - from > 2 * room /\ GET(t, even - 2) \div 2048 = 27
        lim == IF half THEN even - 2 ELSE even
        n == MinOf((lim - from) \div 2, room)
    IN [from |-> from + 2 * n, out |-> [i \in 1 .. n |-> GET(t, from + 2 * (i - 1))],
        res |-> IF n = room /\ from + 2 * n < lim THEN "OUTPUT_EXHAUSTED"
                ELSE IF half THEN "INPUT_INCOMPLETE" ELSE "COMPLETED"]

unknown_toUtf8(t, from, room) ==
    LET b == t.unknown[t.bytes[from]]
        c == t.convert[SubSeq(t.bytes, from, from + b.lead - 1)]
    IN IF from = t.lim THEN Stop("COMPLETED")
       ELSE RoomFor(b.lead, IF b.utf8 = <<>> THEN XmlUtf8Encode(c) ELSE b.utf8, room)
unknown_toUtf16(t, from, room) ==
    LET b == t.unknown[t.bytes[from]]
        c == t.convert[SubSeq(t.bytes, from, from + b.lead - 1)]
    IN WhileRoom(t, from, room, Put(b.lead, <<IF b.utf16 = 0 THEN c % 65536 ELSE b.utf16>>))

ConvertStep(t, from, room) ==
    LET utf8 == t.to = "utf8" IN
    CASE t.enc = "utf8"    -> utf8_toUtf16(t, from, room)
      [] t.enc = "latin1"  -> IF utf8 THEN latin1_toUtf8(t, from, room) ELSE latin1_toUtf16(t, from, room)
      [] t.enc = "ascii"   -> IF utf8 THEN ascii_toUtf8(t, from, room) ELSE latin1_toUtf16(t, from, room)
      [] t.enc = "unknown" -> IF utf8 THEN unknown_toUtf8(t, from, room) ELSE unknown_toUtf16(t, from, room)
      [] OTHER -> utf16_toUtf8(t, from, room)
RECURSIVE ConvertLoop(_, _, _, _)
ConvertLoop(t, from, room, out) ==
    LET s == ConvertStep(t, from, room)
    IN IF s.stop # "" THEN [from |-> from, out |-> out, res |-> s.stop]
       ELSE ConvertLoop(t, from + s.take, room - Len(s.put), out \o s.put)
\* XmlUtf8Convert or XmlUtf16Convert from the byte from on, with room units
XmlConvert(t, from, room) ==
    CASE t.enc = "utf8" /\ t.to = "utf8" -> utf8_toUtf8(t, from, room)
      [] t.enc \in {"little2", "big2"} /\ t.to = "utf16" -> utf16_toUtf16(t, from, room)
      [] OTHER -> ConvertLoop(t, from, room, <<>>)
=============================================================================
