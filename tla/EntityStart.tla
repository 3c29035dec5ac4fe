----------------------------- MODULE EntityStart -----------------------------
(***************************************************************************)
(* The processors a parser begins with: for the document, an external      *)
(* general entity, an external parameter entity between declarations and   *)
(* one in an entity value.  Each looks for a byte order mark and a text    *)
(* declaration in what has arrived and hands over to the processor for the *)
(* rest.  The entity is a sequence of tokens that arrives in pieces cut    *)
(* anywhere, empty ones included; a call runs one processor after another  *)
(* (pending) until one returns.                                            *)
(***************************************************************************)
EXTENDS Integers, Sequences, FiniteSets, SequencesExt

CONSTANTS
    Entities,      \* [kind, tokens, cut, handler]: what is parsed as what, whether its
                   \* last byte is missing, what the handler of declarations does
    MaxEmpty       \* bound on the calls without a byte

VARIABLES
    entity,          \* the entity that is parsed, a member of Entities
    arrived,         \* bytes that were passed to XML_Parse
    isFinal,         \* finalBuffer
    pending,         \* whether a call is in progress
    empties,         \* where in the entity calls without a byte were made
    suspended,       \* whether the handler has stopped the parser
    processor,       \* m_processor
    unread,          \* the first token that is not consumed
    scanned,         \* in a call: the token entityValueInitProcessor is at
    declared,        \* the token taken as declaration, 0 for none
    stored,          \* what became the entity's content, in order
    outcome          \* NONE while it goes on, then END (nothing is left) or the error
startVars == <<entity, arrived, isFinal, pending, empties, suspended, processor, unread, scanned,
               declared, stored, outcome>>

\* A byte order mark and a declaration are the tokens that can be cut.
Width(tok) == IF tok \in {"BOM", "XML_DECL"} THEN 2 ELSE 1
EndOf(k) == FoldLeft(LAMBDA n, tok : n + Width(tok), 0, SubSeq(entity.tokens, 1, k))
Size == EndOf(Len(entity.tokens)) - IF entity.cut THEN 1 ELSE 0
\* XmlPrologTok and XmlContentTok on what has arrived from token k on
EntityTokenAt(k) ==
    IF EndOf(k - 1) >= arrived THEN "NONE"
    ELSE IF EndOf(k) > arrived THEN "PARTIAL" ELSE entity.tokens[k]

InitProcessor(kind) ==
    CASE kind = "document" -> "prologInit" [] kind = "general" -> "externalEntityInit"
      [] OTHER -> "externalParEntInit"
StartInit ==
    /\ entity \in Entities /\ arrived = 0 /\ isFinal = FALSE /\ pending = FALSE /\ empties = {}
    /\ suspended = FALSE
    /\ processor = InitProcessor(entity.kind) /\ unread = 1 /\ scanned = 1 /\ declared = 0
    /\ stored = <<>> /\ outcome = "NONE"

\* XML_Parse with n more bytes
Piece(n, last) ==
    /\ ~pending /\ outcome = "NONE" /\ ~isFinal /\ ~suspended
    /\ arrived + n <= Size
    /\ last => arrived + n = Size
    /\ (n = 0 /\ ~last) => Cardinality(empties \cup {arrived}) <= MaxEmpty
    /\ empties' = IF n = 0 /\ ~last THEN empties \cup {arrived} ELSE empties
    /\ arrived' = arrived + n /\ isFinal' = last /\ pending' = TRUE /\ scanned' = unread
    /\ UNCHANGED <<entity, suspended, processor, unread, declared, stored, outcome>>
XML_ResumeParser ==
    /\ suspended /\ suspended' = FALSE /\ pending' = TRUE
    /\ UNCHANGED <<entity, arrived, isFinal, empties, processor, unread, scanned, declared, stored, outcome>>

Running(p) == pending /\ processor = p
\* the processor returns, having consumed the tokens in front of token k
Returns(k) == unread' = k /\ pending' = FALSE /\ UNCHANGED <<suspended, processor, declared, stored, outcome>>
Fails(error) == outcome' = error /\ pending' = FALSE /\ UNCHANGED <<suspended, processor, unread, declared, stored>>
GoesOn(p, k) == processor' = p /\ unread' = k /\ UNCHANGED <<suspended, pending, declared, stored, outcome>>
Unclosed(k) == IF isFinal THEN Fails("UNCLOSED_TOKEN") ELSE Returns(k)
\* processXmlDecl accepts token k and calls the handler, which may stop the
\* parser for good, or until it is resumed if it is not for a parameter entity
Declares(p, k) ==
    /\ declared' = k
    /\ IF entity.handler = "abort"
       THEN outcome' = "ABORTED" /\ pending' = FALSE /\ UNCHANGED <<suspended, processor, unread, stored>>
       ELSE /\ unread' = k + 1 /\ UNCHANGED <<stored, outcome>>
            /\ IF entity.handler = "suspend" /\ entity.kind \in {"document", "general"}
               THEN suspended' = TRUE /\ pending' = FALSE /\ UNCHANGED processor
               ELSE processor' = p /\ UNCHANGED <<suspended, pending>>
Same == UNCHANGED <<entity, arrived, isFinal, empties>>

prologInitProcessor == Running("prologInit") /\ GoesOn("prolog", unread)
externalEntityInitProcessor == Running("externalEntityInit") /\ GoesOn("externalEntityInit2", unread)
externalEntityInitProcessor2AtEnd ==
    /\ Running("externalEntityInit2")
    /\ LET tok == EntityTokenAt(unread) IN
       \/ tok = "BOM" /\ GoesOn("externalEntityInit3", unread + 1)
       \/ tok = "PARTIAL" /\ Unclosed(unread)
       \/ tok \notin {"BOM", "PARTIAL"} /\ GoesOn("externalEntityInit3", unread)
externalEntityInitProcessor2 ==
    /\ Running("externalEntityInit2")
    /\ LET tok == EntityTokenAt(unread) IN
       \/ /\ tok = "BOM"
          /\ IF EndOf(unread) = arrived /\ ~isFinal THEN Returns(unread + 1)
             ELSE GoesOn("externalEntityInit3", unread + 1)
       \/ tok = "PARTIAL" /\ Unclosed(unread)
       \/ tok \notin {"BOM", "PARTIAL"} /\ GoesOn("externalEntityInit3", unread)
externalEntityInitProcessor3 ==
    /\ Running("externalEntityInit3")
    /\ LET tok == EntityTokenAt(unread) IN
       \/ tok = "XML_DECL" /\ Declares("externalEntityContent", unread)
       \/ tok = "PARTIAL" /\ Unclosed(unread)
       \/ tok \notin {"XML_DECL", "PARTIAL"} /\ GoesOn("externalEntityContent", unread)
\* doContent: token by token, to the end of what has arrived
externalEntityContentProcessor ==
    /\ Running("externalEntityContent")
    /\ LET tok == EntityTokenAt(unread) IN
       \/ tok = "NONE" /\ IF isFinal THEN Fails("END") ELSE Returns(unread)
       \/ tok = "PARTIAL" /\ Unclosed(unread)
       \/ tok = "XML_DECL" /\ Fails("MISPLACED_XML_PI")
       \/ /\ tok \in {"TEXT", "INSTANCE_START"}
          /\ stored' = Append(stored, unread) /\ unread' = unread + 1
          /\ UNCHANGED <<suspended, pending, processor, declared, outcome>>
-----------------------------------------------------------------------------
externalParEntInitProcessor ==
    /\ Running("externalParEntInit")
    /\ GoesOn(IF entity.kind = "value" THEN "entityValueInit" ELSE "externalParEnt", unread)
externalParEntProcessor ==
    /\ Running("externalParEnt")
    /\ LET tok == EntityTokenAt(unread) IN
       \/ tok = "NONE" /\ IF isFinal THEN GoesOn("prolog", unread) ELSE Returns(unread)
       \/ tok = "PARTIAL" /\ Unclosed(unread)
       \/ tok \notin {"NONE", "PARTIAL"} /\ GoesOn("prolog", unread + IF tok = "BOM" THEN 1 ELSE 0)
\* doProlog with prolog0 or externalSubset0: a declaration only as the first
\* token, in a document behind a byte order mark
prologProcessor ==
    /\ Running("prolog")
    /\ LET tok == EntityTokenAt(unread) IN
       \/ tok = "NONE" /\ IF isFinal THEN Fails("END") ELSE Returns(unread)
       \/ tok = "PARTIAL" /\ Unclosed(unread)
       \/ tok = "BOM" /\ GoesOn("prolog", unread + 1)
       \/ /\ tok = "XML_DECL"
          /\ IF declared = 0 /\ stored = <<>> THEN Declares("prolog", unread)
             ELSE Fails("MISPLACED_XML_PI")
       \/ /\ tok \in {"TEXT", "INSTANCE_START"}
          /\ IF entity.kind = "parameter" /\ tok = "INSTANCE_START" THEN Fails("SYNTAX")
             ELSE /\ stored' = Append(stored, unread) /\ unread' = unread + 1
                  /\ UNCHANGED <<suspended, pending, processor, declared, outcome>>
\* storeEntityValue on what is there from unread on
Stores ==
    /\ stored' = [i \in 1 .. Len(entity.tokens) - unread + 1 |-> unread + i - 1]
    /\ outcome' = "END" /\ pending' = FALSE /\ UNCHANGED <<suspended, processor, unread, declared>>
entityValueInitProcessorKeepsBom ==
    /\ Running("entityValueInit")
    /\ LET tok == EntityTokenAt(scanned) IN
       \/ tok = "NONE" /\ IF isFinal THEN Stores ELSE Returns(unread)
       \/ tok = "PARTIAL" /\ Unclosed(unread)
       \/ tok = "XML_DECL" /\ Declares("entityValue", scanned)
       \/ tok = "INSTANCE_START" /\ Fails("SYNTAX")
       \/ tok \in {"BOM", "TEXT"} /\ GoesOn("entityValueInit", unread)
    /\ scanned' = scanned + 1
entityValueInitProcessor ==
    /\ Running("entityValueInit")
    /\ LET tok == EntityTokenAt(scanned) IN
       \/ tok = "NONE" /\ IF isFinal THEN Stores ELSE Returns(unread)
       \/ tok = "PARTIAL" /\ Unclosed(unread)
       \/ tok = "XML_DECL" /\ Declares("entityValue", scanned)
       \/ tok = "INSTANCE_START" /\ Fails("SYNTAX")
       \/ tok = "BOM" /\ GoesOn("entityValueInit", scanned + 1)
       \/ tok = "TEXT" /\ GoesOn("entityValueInit", unread)
    /\ scanned' = scanned + 1
\* a declaration is here a token as any other, and is left to storeEntityValue
entityValueProcessor ==
    /\ Running("entityValue")
    /\ LET tok == EntityTokenAt(scanned) IN
       \/ tok = "NONE" /\ IF isFinal THEN Stores ELSE Returns(unread)
       \/ tok = "PARTIAL" /\ Unclosed(unread)
       \/ tok = "INSTANCE_START" /\ Fails("SYNTAX")
       \/ tok \in {"TEXT", "XML_DECL"} /\ GoesOn("entityValue", unread)
    /\ scanned' = scanned + 1

StartNext ==
    \/ \E n \in 0 .. Size, last \in BOOLEAN : Piece(n, last)
    \/ XML_ResumeParser
    \/ /\ \/ prologInitProcessor \/ externalEntityInitProcessor \/ externalEntityInitProcessor2
          \/ externalEntityInitProcessor3 \/ externalEntityContentProcessor
          \/ externalParEntInitProcessor \/ externalParEntProcessor \/ prologProcessor
       /\ Same /\ UNCHANGED scanned
    \/ (entityValueInitProcessor \/ entityValueProcessor) /\ Same
StartSpec == StartInit /\ [][StartNext]_startVars
-----------------------------------------------------------------------------
(* What XML says of an entity as a whole.                                  *)

\* the token behind the byte order mark, if there is one
FirstToken == IF entity.tokens # <<>> /\ entity.tokens[1] = "BOM" THEN 2 ELSE 1
Whole(k) == k <= Len(entity.tokens) /\ ~(entity.cut /\ k = Len(entity.tokens))
IsDecl(k) == Whole(k) /\ entity.tokens[k] = "XML_DECL"
Mistake(k) ==
    CASE ~Whole(k) -> "UNCLOSED_TOKEN"
      [] IsDecl(k) /\ entity.kind # "value" -> "MISPLACED_XML_PI"
      [] entity.tokens[k] = "INSTANCE_START" /\ entity.kind \in {"parameter", "value"} -> "SYNTAX"
      [] OTHER -> "NONE"
Expected ==
    LET first == IF IsDecl(FirstToken) THEN FirstToken + 1 ELSE FirstToken
        bad == { k \in first .. Len(entity.tokens) : Mistake(k) # "NONE" }
        stop == IF bad = {} THEN Len(entity.tokens) + 1 ELSE CHOOSE k \in bad : \A j \in bad : k <= j
        content == [i \in 1 .. stop - first |-> first + i - 1]
    IN IF Len(entity.tokens) = 1 /\ entity.cut THEN <<"UNCLOSED_TOKEN", 0, <<>>>>
       ELSE IF IsDecl(FirstToken) /\ entity.handler = "abort" THEN <<"ABORTED", FirstToken, <<>>>>
       ELSE <<IF bad = {} THEN "END" ELSE Mistake(stop),
              IF IsDecl(FirstToken) THEN FirstToken ELSE 0,
              IF entity.kind = "value" /\ bad # {} THEN <<>> ELSE content>>

\* Where the processors do not follow the reference: an external general
\* entity that is given an empty piece where its declaration should begin, or
\* whose handler suspends the parser in its declaration when another follows,
\* and a declaration somewhere in an entity value.
Deviates ==
    \/ entity.kind = "general" /\ IsDecl(FirstToken) /\ {0, EndOf(FirstToken - 1)} \cap empties # {}
    \/ entity.kind = "general" /\ entity.handler = "suspend" /\ IsDecl(FirstToken + 1)
    \/ entity.kind = "value" /\ \E k \in FirstToken + 1 .. Len(entity.tokens) : IsDecl(k)
\* What an entity's declaration is and what its content is does not depend on
\* the pieces it arrives in, on the handler stopping the parser or on the
\* processor it began with: a declaration is taken exactly at the start,
\* every other one is refused, and no token is lost.
StartIsRead == outcome # "NONE" /\ ~Deviates => <<outcome, declared, stored>> = Expected

\* A declaration is taken as one only at the start of the entity, and is
\* refused as misplaced only elsewhere.
DeclarationIffFirst ==
    /\ declared # 0 => declared = FirstToken
    /\ outcome = "MISPLACED_XML_PI" => unread # FirstToken
=============================================================================
