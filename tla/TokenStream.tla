----------------------------- MODULE TokenStream -----------------------------
(***************************************************************************)
(* The loops that take tokens from a text that arrives in pieces: the      *)
(* heads of doContent, doCdataSection, doIgnoreSection and doProlog, which *)
(* begin a token again when more of it has come, and the walk over a       *)
(* literal, which is all there.  What the parser does with a token is in   *)
(* other modules.                                                          *)
(***************************************************************************)
EXTENDS Tokenizer

CONSTANT
    Sources  \* the texts: [w, state, begin, bytes, maxLen]: MINBPC, the state
             \* the scan begins in, how the text begins, the bytes that may
             \* follow and how long it may become

VARIABLES
    source,    \* one of Sources
    text,      \* the bytes given so far
    final,     \* no more will come: ~haveMore
    state,     \* the scanner asked: the argument of XmlTok
    from,      \* s: where the next token begins
    position,  \* m_position, at from
    out,       \* the tokens taken: [tok, from, to]
    phase      \* "scanning", "waiting" for more, "done" or the error
streamVars == <<source, text, final, state, from, position, out, phase>>

Given == [bytes |-> text, w |-> source.w, from |-> from, attsMax |-> 1]
Literals == {"attributeValue", "entityValue"}

StreamInit ==
    /\ source \in Sources /\ text = source.begin /\ state = source.state
    /\ final = FALSE /\ from = 1 /\ position = StartPosition /\ out = <<>>
    /\ phase = IF source.state \in Literals THEN "waiting" ELSE "scanning"

Bytes == IF source.w = 2 /\ Len(text) % 2 = 1 THEN {"SECOND"} ELSE source.bytes
\* XML_Parse with more of the text, as long as it is not refused.
Feed ==
    /\ phase \in {"scanning", "waiting"} /\ ~final /\ Len(text) < source.maxLen
    /\ phase = "scanning" => XmlTok(Given, state).tok # "INVALID"
    /\ \E b \in Bytes : text' = Append(text, b)
    /\ phase' = IF source.state \in Literals THEN "waiting" ELSE "scanning"
    /\ UNCHANGED <<source, final, state, from, position, out>>
\* XML_Parse with isFinal.
Finish ==
    /\ phase \in {"scanning", "waiting"} /\ ~final
    /\ final' = TRUE /\ phase' = "scanning"
    /\ UNCHANGED <<source, text, state, from, position, out>>

\* The token from..to - 1, after which the scan goes on in next.
Take(tok, to, next) ==
    /\ out' = Append(out, [tok |-> tok, from |-> from, to |-> to])
    /\ position' = updatePosition(Given, from, to, position)
    /\ from' = to /\ state' = next
    /\ UNCHANGED <<source, text, final>>
Wait == phase' = "waiting" /\ UNCHANGED <<source, text, final, state, from, position, out>>
StopWith(p) == phase' = p /\ UNCHANGED <<source, text, final, state, from, position, out>>

Atend == Len(text) + 1
TakeToken(r, next) ==
    /\ r.tok \notin NotPositive /\ ~r.open
    /\ Take(r.tok, r.next, next) /\ UNCHANGED phase
WaitOr(r, toks, ended) == r.tok \in toks /\ IF final THEN StopWith(ended) ELSE Wait
\* at the end of the text what is there is taken as tok
WaitOrTake(r, tok) ==
    IF final THEN Take(tok, Atend, state) /\ phase' = "done" ELSE Wait
InvalidToken(r) == r.tok = "INVALID" /\ StopWith("INVALID_TOKEN")

doContent ==
    /\ phase = "scanning" /\ state = "content"
    /\ \E r \in {XmlTok(Given, "content")} :
       \/ TakeToken(r, IF r.tok = "CDATA_SECT_OPEN" THEN "cdataSection" ELSE "content")
       \/ r.tok = "TRAILING_CR" /\ WaitOrTake(r, "DATA_NEWLINE")
       \/ r.tok = "TRAILING_RSQB" /\ WaitOrTake(r, "DATA_CHARS")
       \/ WaitOr(r, {"NONE"}, "done")
       \/ WaitOr(r, {"PARTIAL"}, "UNCLOSED_TOKEN")
       \/ WaitOr(r, {"PARTIAL_CHAR"}, "PARTIAL_CHAR")
       \/ InvalidToken(r)
doCdataSection ==
    /\ phase = "scanning" /\ state = "cdataSection"
    /\ \E r \in {XmlTok(Given, "cdataSection")} :
       \/ TakeToken(r, IF r.tok = "CDATA_SECT_CLOSE" THEN "content" ELSE "cdataSection")
       \/ WaitOr(r, {"PARTIAL", "NONE"}, "UNCLOSED_CDATA_SECTION")
       \/ WaitOr(r, {"PARTIAL_CHAR"}, "PARTIAL_CHAR")
       \/ InvalidToken(r)
doIgnoreSection ==
    /\ phase = "scanning" /\ state = "ignoreSection"
    /\ \E r \in {XmlTok(Given, "ignoreSection")} :
       \/ TakeToken(r, "prolog")
       \/ WaitOr(r, {"PARTIAL"}, "SYNTAX")
       \/ WaitOr(r, {"PARTIAL_CHAR"}, "PARTIAL_CHAR")
       \/ InvalidToken(r)
doProlog ==
    /\ phase = "scanning" /\ state = "prolog"
    /\ \E r \in {XmlTok(Given, "prolog")} :
       \/ TakeToken(r, IF r.tok = "INSTANCE_START" THEN "content" ELSE "prolog")
       \/ /\ r.open
          /\ IF final THEN Take(r.tok, Atend, state) /\ UNCHANGED phase ELSE Wait
       \/ WaitOr(r, {"NONE"}, "done")
       \/ WaitOr(r, {"PARTIAL"}, "UNCLOSED_TOKEN")
       \/ WaitOr(r, {"PARTIAL_CHAR"}, "PARTIAL_CHAR")
       \/ InvalidToken(r)
\* appendAttributeValue and storeEntityValue
literal ==
    /\ phase = "scanning" /\ state \in Literals
    /\ \E r \in {XmlTok(Given, state)} :
       \/ TakeToken(r, state)
       \/ r.tok = "TRAILING_CR" /\ WaitOrTake(r, "DATA_NEWLINE")
       \/ WaitOr(r, {"NONE"}, "done")
       \/ WaitOr(r, {"PARTIAL"}, "INVALID_TOKEN")
       \/ InvalidToken(r)

StreamNext ==
    Feed \/ Finish \/ doContent \/ doCdataSection \/ doIgnoreSection \/ doProlog \/ literal
StreamSpec == StreamInit /\ [][StreamNext]_streamVars
=============================================================================
