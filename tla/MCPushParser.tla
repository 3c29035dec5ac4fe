---------------------------- MODULE MCPushParser ----------------------------
EXTENDS PushParser

Token(kind, start, len, first, calls) ==
    [kind |-> kind, start |-> start, len |-> len, first |-> first,
     calls |-> calls, trailing |-> FALSE, async |-> FALSE]

(* Data, an entity with two callbacks, data. *)
DocEntity == << Token("data", 0, 1, 0, 1), Token("ref", 1, 2, 1, 2),
                Token("data", 3, 2, 3, 1) >>

(* An empty element, and a token that takes several pieces to arrive. *)
DocLong == << Token("empty", 0, 2, 0, 2), Token("data", 2, 4, 2, 1) >>

(* An entity, and a token that is not well formed. *)
DocBad == << Token("ref", 0, 1, 0, 2), Token("bad", 1, 2, 2, 0) >>

(* An entity that ends inside an element it started. *)
DocAsync == << Token("data", 0, 1, 0, 1),
               [Token("ref", 1, 3, 1, 1) EXCEPT !.async = TRUE],
               Token("data", 4, 4, 2, 1) >>

(* A token that reaches beyond the largest index. *)
DocBeyond == << Token("data", 0, 8, 0, 1) >>

(* An entity whose text ends in ']'. *)
DocTrailing == << Token("data", 0, 1, 0, 1),
                  [Token("ref", 1, 2, 1, 1) EXCEPT !.trailing = TRUE],
                  Token("data", 3, 2, 2, 1) >>

AllDocs == {DocEntity, DocLong, DocBad, DocAsync, DocBeyond}
BadDocs == {DocBad}
EntityDocs == {DocEntity}
AsyncDocs == {DocAsync}
TrailingDocs == {DocTrailing}
NoDocs == {}

(* With one document the parser is reset, and called after errors. *)
ResetBad == [d \in Docs |-> IF d = DocBad THEN 1 ELSE 0]
NoResets == [d \in Docs |-> 0]
=============================================================================
