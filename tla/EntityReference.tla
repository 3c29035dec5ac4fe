--------------------------- MODULE EntityReference ---------------------------
(***************************************************************************)
(* What entity expansion means, by recursion on the depth of references,   *)
(* and the properties of EntityExpansion against it.                       *)
(***************************************************************************)
EXTENDS EntityExpansion, SequencesExt

Loop    == [k |-> "loop"]      \* an entity refers to itself
Async   == [k |-> "async"]     \* an entity with half an element
Illegal == [k |-> "illegal"]   \* not allowed in a value

MaxDepth == Cardinality(Entities)

(* An attribute value with each reference expanded by value. *)
ExpandValue(text, value) ==
    FlattenSeq([i \in 1..Len(text) |->
        CASE text[i].k = "data" -> <<text[i]>>
          [] text[i].k = "ref" /\ HasText(text[i].e) -> value[text[i].e]
          [] text[i].k = "ref" /\ Kind[text[i].e] = "undeclared" -> <<>>
          [] OTHER -> <<Illegal>>])

ValueOf[n \in 0..MaxDepth] ==
    [e \in Entities |-> IF n = 0 THEN <<Loop>> ELSE ExpandValue(Text[e], ValueOf[n - 1])]

(* The callbacks of a token, with references expanded by content. *)
ExpandToken(t, content, value) ==
    CASE t.k = "data" -> <<t>>
      [] t.k = "end" -> <<[k |-> "end"]>>
      [] t.k = "start" -> <<[k |-> "start", a |-> ExpandValue(t.a, value)]>>
      [] t.k = "empty" -> <<[k |-> "start", a |-> ExpandValue(t.a, value)], [k |-> "end"]>>
      [] t.k = "ref" /\ HasText(t.e) /\ expandInternal -> content[t.e]
      [] OTHER -> <<[k |-> IF Kind[t.e] = "external" THEN "external" ELSE "skipped",
                     e |-> t.e]>>

ExpandText(text, content, value) ==
    FlattenSeq([i \in 1..Len(text) |-> ExpandToken(text[i], content, value)])

(* Elements begin and end in the same text. *)
Level(text, n) == Len(SelectSeq(SubSeq(text, 1, n), LAMBDA t : t.k = "start"))
                    - Len(SelectSeq(SubSeq(text, 1, n), LAMBDA t : t.k = "end"))
Balanced(text) == Level(text, Len(text)) = 0 /\ \A n \in 1..Len(text) : Level(text, n) >= 0

ContentOf[n \in 0..MaxDepth] ==
    [e \in Entities |->
        IF n = 0 THEN <<Loop>>
        ELSE ExpandText(Text[e], ContentOf[n - 1], ValueOf[n - 1])
               \o IF Balanced(Text[e]) THEN <<>> ELSE <<Async>>]

Expected == ExpandText(doc, ContentOf[MaxDepth], ValueOf[MaxDepth])

(* The entities that the expansion of a text can reach. *)
RefsOf(text) ==
    LET tokens == ToSet(text) \cup UNION {ToSet(t.a) : t \in {u \in ToSet(text) :
                                             u.k \in {"start", "empty"}}}
    IN  {t.e : t \in {u \in tokens : u.k = "ref"}}

Reaches[n \in 0..MaxDepth] ==
    [e \in Entities |-> IF n = 0 THEN {} ELSE
        RefsOf(Text[e]) \cup UNION {Reaches[n - 1][f] : f \in RefsOf(Text[e])}]

(* The bytes read when each reference is expanded once per use. *)
SumOver(f(_), text) == FoldLeft(LAMBDA sum, t : sum + f(t), 0, text)

RefBytes(t, counts) ==
    IF t.k = "ref" /\ HasText(t.e) THEN counts[t.e] ELSE 0

ValueBytes[n \in 0..MaxDepth] ==
    [e \in Entities |-> IF n = 0 THEN 0 ELSE
        SumOver(LAMBDA t : Bytes(t) + RefBytes(t, ValueBytes[n - 1]), Text[e])]

TokenBytes(t, content, value) ==
    CASE t.k = "ref" -> IF expandInternal THEN RefBytes(t, content) ELSE 0
      [] t.k \in {"start", "empty"} -> SumOver(LAMBDA v : RefBytes(v, value), t.a)
      [] OTHER -> 0

ContentBytes[n \in 0..MaxDepth] ==
    [e \in Entities |-> IF n = 0 THEN 0 ELSE
        SumOver(LAMBDA t : Bytes(t)
                  + TokenBytes(t, ContentBytes[n - 1], ValueBytes[n - 1]), Text[e])]

-----------------------------------------------------------------------------
(* What the handlers see is the document with every reference expanded in  *)
(* place, in content and in attribute values, across suspensions inside    *)
(* entities and however deep they nest; a parse that succeeds has reported *)
(* all of it, so there was no recursion, no element half in an entity and  *)
(* no markup in a value, and it has left no entity open.                   *)
OutputIsExpansion ==
    /\ out # <<>> => IsPrefix(out, Expected)
    /\ pc = "done" => out = Expected /\ openEntities = {}

(* Two references to one entity side by side are not recursion:            *)
(* RECURSIVE_ENTITY_REF is reported only of an entity that really contains *)
(* itself.                                                                 *)
RecursionIsReal ==
    error = "RECURSIVE_ENTITY_REF" =>
        \E e \in Entities, f \in RefsOf(doc) :
            e \in Reaches[MaxDepth][e] /\ e \in {f} \cup Reaches[MaxDepth][f]

(* Each byte of the document is counted once as direct, and each byte of a *)
(* replacement text once per expansion as indirect, however often the      *)
(* expansion was suspended.                                                *)
AccountedOnce ==
    pc = "done" =>
        /\ countBytesDirect = SumOver(Bytes, doc)
        /\ countBytesIndirect =
             SumOver(LAMBDA t : TokenBytes(t, ContentBytes[MaxDepth], ValueBytes[MaxDepth]),
                     doc)

(* Expansion ends: the loops over the open entities always make progress.  *)
ParseEnds == <>(pc \in {"done", "failed"})
=============================================================================
