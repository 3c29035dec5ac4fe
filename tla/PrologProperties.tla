-------------------------- MODULE PrologProperties --------------------------
(***************************************************************************)
(* What is claimed of Prolog, in terms of PrologReference.                 *)
(***************************************************************************)
EXTENDS Prolog, PrologReference

\* The handlers of xmlrole.c, with the checks of connectors in doProlog,
\* accept exactly the productions of XML: while the prolog is read the tokens
\* of the current declaration begin a declaration of the grammar, and the next
\* token is refused exactly if it continues none.
DeclarationsAreGrammatical ==
    status = "parsing" =>
      /\ Begun(seen)
      /\ Complete(seen) \/
         \A tok \in { t \in scenario.tokens : t.kind \notin {"PROLOG_S", "PARAM_ENTITY_REF"} } :
            \A r \in {XmlTokenRole(st, tok)} :
              Begun(Append(seen, tok)) = ~(r.role = "ERROR" \/ ConnectorRefused(r.role, r.state))

\* A declaration that begins in a parameter entity referred to between
\* declarations ends in it: the entity is left only with no declaration, and
\* no end of the internal subset, half read.
DeclarationsNest ==
    [][ (Len(openPE') < Len(openPE) /\ openPE[1].betweenDecl) => Complete(seen) ]_prologVars

-----------------------------------------------------------------------------
(* Content models.  A model and the tokens it was declared by are both     *)
(* spelled with the same marks.                                            *)

Marks(tok) ==
    CASE tok.kind \in {"NAME", "PREFIXED_NAME"} -> <<"name", tok.word, "">>
      [] tok.kind = "NAME_QUESTION" -> <<"name", tok.word, "?">>
      [] tok.kind = "NAME_ASTERISK" -> <<"name", tok.word, "*">>
      [] tok.kind = "NAME_PLUS"     -> <<"name", tok.word, "+">>
      [] tok.kind = "CLOSE_PAREN"          -> <<")", "">>
      [] tok.kind = "CLOSE_PAREN_QUESTION" -> <<")", "?">>
      [] tok.kind = "CLOSE_PAREN_ASTERISK" -> <<")", "*">>
      [] tok.kind = "CLOSE_PAREN_PLUS"     -> <<")", "+">>
      [] OTHER -> <<tok.kind>>

RECURSIVE Spelled(_, _)
Spelled(m, k) ==
    LET node == m[k]
        child(i) == Spelled(m, node.children + i - 1)
        sep == IF node.type = "SEQ" THEN <<"COMMA">> ELSE <<"OR">>
        first == IF node.type = "MIXED" THEN << <<"POUND_NAME">> >> ELSE child(1)
        from == IF node.type = "MIXED" THEN 1 ELSE 2
        rest == [i \in 1 .. node.numchildren - from + 1 |-> <<sep>> \o child(i + from - 1)]
    IN IF node.type \in {"ANY", "EMPTY"} THEN << <<"name", node.type, "">> >>
       ELSE IF node.type = "NAME" THEN << <<"name", node.name, node.quant>> >>
       ELSE << <<"OPEN_PAREN">> >> \o first \o FlattenSeq(rest) \o << <<")", node.quant>> >>

\* The model given to the element declaration handler, flattened by
\* nextScaffoldPart and laid out again by build_model, spells the tokens of
\* the declaration, even if the handler was taken out and put back meanwhile.
ModelIsDeclared ==
    \A i \in 1 .. Len(calls) :
        calls[i][1] = "element" =>
          /\ calls[i][2] = seen[2].word
          /\ Spelled(model, 1) = [k \in 1 .. Len(seen) - 2 |-> Marks(seen[k + 2])]

-----------------------------------------------------------------------------
(* What a declaration says.                                                *)

White == {"SP", "CR", "LF"}
\* A public identifier with each run of white space between two other
\* characters made one space, and no other.
Squeezed(text) ==
    LET kept(i) == \/ text[i] \notin White
                   \/ /\ i > 1 /\ text[i - 1] \notin White
                      /\ \E j \in i .. Len(text) : text[j] \notin White
        keep == SetToSortSeq({ i \in 1 .. Len(text) : kept(i) }, <)
    IN [k \in 1 .. Len(keep) |-> IF text[keep[k]] \in White THEN "SP" ELSE text[keep[k]]]

\* A text with a line feed for each of its line ends: CR LF, CR and LF.
LinesOf(text) ==
    LET keep == SetToSortSeq({ i \in 1 .. Len(text) :
                                 ~(text[i] = "LF" /\ i > 1 /\ text[i - 1] = "CR") }, <)
    IN [k \in 1 .. Len(keep) |-> IF text[keep[k]] = "CR" THEN "LF" ELSE text[keep[k]]]

\* <<system identifier, public identifier>> from token k on
Ids(k) ==
    IF k > Len(seen) \/ seen[k].kind # "NAME" THEN <<NullText, NullText>>
    ELSE IF seen[k].word = "SYSTEM" THEN <<seen[k + 1].text, NullText>>
    ELSE <<IF k + 2 <= Len(seen) /\ seen[k + 2].kind = "LITERAL" THEN seen[k + 2].text
           ELSE NullText,
           Squeezed(seen[k + 1].text)>>

EntitySaid ==
    LET k == IF seen[2].kind = "PERCENT" THEN 3 ELSE 2
        unparsed == \E i \in k + 1 .. Len(seen) - 1 : seen[i].word = "NDATA"
    IN IF seen[k + 1].kind = "LITERAL"
       THEN <<<<k = 3, seen[k].word>>, seen[k + 1].text, NullText, NullText, Null>>
       ELSE <<<<k = 3, seen[k].word>>, NullText, Ids(k + 1)[1], Ids(k + 1)[2],
              IF unparsed THEN seen[Len(seen)].word ELSE Null>>

\* The last attribute definition of an ATTLIST: its name is the token behind
\* the default before it, or the third.
AttributeSaid ==
    LET n == Len(seen)
        ends == { i \in 1 .. n - 1 : seen[i].kind = "LITERAL"
                    \/ (seen[i].kind = "POUND_NAME" /\ seen[i].word # "FIXED") }
        k == IF ends = {} THEN 3 ELSE 1 + CHOOSE i \in ends : \A j \in ends : j <= i
        valued == seen[n].kind = "LITERAL"
        fixed == valued /\ seen[n - 1].kind = "POUND_NAME"
        last == IF fixed THEN n - 2 ELSE n - 1
        piece(i) == IF seen[i].kind = "OPEN_PAREN" THEN "("
                    ELSE IF seen[i].kind = "CLOSE_PAREN" THEN ")"
                    ELSE IF seen[i].kind = "OR" THEN "|" ELSE seen[i].word
        type == IF seen[k + 1].word = "NOTATION" /\ last > k + 1
                THEN <<"NOTATION(">> \o [i \in 1 .. last - k - 2 |-> piece(i + k + 2)]
                ELSE [i \in 1 .. last - k |-> piece(i + k)]
    IN <<seen[2].word, seen[k].word, type, IF valued THEN seen[n].text ELSE NullText,
         fixed \/ seen[n].word = "REQUIRED">>

\* A declaration handler is told what the declaration says: names, types put
\* together from enumerations, normalised identifiers, values.  Strings kept
\* in m_tempPool are told apart from what other declarations left there, as
\* long as every declaration is processed.
ReportsAreDeclared ==
    \A i \in 1 .. Len(calls) :
        LET h == calls[i][1]
            args == calls[i][2]
        IN /\ h = "startDoctype" =>
                args = << <<seen[2].word>>, Ids(3)[1], Ids(3)[2],
                          seen[Len(seen)].kind = "OPEN_BRACKET">>
           /\ h \in {"entity", "unparsedEntity"} => args = EntitySaid
           /\ h = "attlist" => args = AttributeSaid
           /\ h = "notation" /\ KeepProcessing => args = << <<seen[2].word>>, Ids(3)[1], Ids(3)[2]>>
           /\ h = "pi" /\ KeepProcessing =>
                \E tok \in scenario.tokens : tok.kind = "PI" /\ args = << <<tok.word>>, LinesOf(tok.text)>>
           /\ h = "comment" /\ KeepProcessing =>
                \E tok \in scenario.tokens : tok.kind = "COMMENT" /\ args = <<LinesOf(tok.text)>>

\* The doctype handlers are called once each and in order, whether or not
\* there is an internal subset, and both before the content begins.
DoctypeCallsInOrder ==
    LET made == [i \in 1 .. Len(doctypeCalls) |-> doctypeCalls[i][1]] IN
    {"startDoctype", "endDoctype"} \subseteq handlers =>
      /\ made \in {<<>>, <<"startDoctype">>, <<"startDoctype", "endDoctype">>}
      /\ status = "content" /\ decls > 0 => Len(made) = 2

\* What the handlers of declarations are told, and when, is what the document
\* declares: the arguments (ReportsAreDeclared), content models
\* (ModelIsDeclared) and the calls around the DTD (DoctypeCallsInOrder).
HandlersAreTold == ReportsAreDeclared /\ ModelIsDeclared /\ DoctypeCallsInOrder

\* A parameter entity between declarations is refused as incomplete only if
\* it leaves a declaration or a section half read.
CompleteMarkupIsAccepted ==
    status = "INCOMPLETE_PE" /\ openPE # <<>>
      => ~(Complete(seen) /\ st.includeLevel = openPE[1].sections)
=============================================================================
