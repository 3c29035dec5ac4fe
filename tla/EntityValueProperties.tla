------------------------- MODULE EntityValueProperties -------------------------
(***************************************************************************)
(* What is stored for the entities of a DTD, against the expansion of      *)
(* their texts by recursion.                                               *)
(***************************************************************************)
EXTENDS EntityValue, SequencesExt

(* What the declared entities stand for in a value, expanded by recursion. *)
TextOf(e) ==
    CASE kind[e] = "internal" -> text[e]
      [] kind[e] = "external" /\ handler[e] = "parse" -> Files[e]
      [] OTHER -> <<>>

StoredAs(t, expansion) ==
    CASE t.k = "ref" -> expansion[t.e]
      [] t.k = "escaped" -> <<[k |-> "ref", e |-> t.e]>>
      [] OTHER -> <<t>>

Replaced(input, expansion) ==
    FlattenSeq([i \in 1..Len(input) |-> StoredAs(input[i], expansion)])

Expansion[n \in 0..Cardinality(Names)] ==
    [e \in Names |-> IF n = 0 THEN <<>> ELSE Replaced(TextOf(e), Expansion[n - 1])]

(* However deep the references nest, through text that is stored in the    *)
(* DTD and text that other parsers read, the value stored for an entity is *)
(* the literal with every reference replaced by its expansion: nothing is  *)
(* lost, repeated or put in another order in the pool the parsers share.   *)
ValueIsExpansion ==
    valuePc = "value" => pool = Replaced(P.input, Expansion[Cardinality(Names)])

(* The references in the text of an entity, and those in the literal that  *)
(* is being stored for the entity being declared.                          *)
ValueRefsOf(e) == Refs(IF e = valueParsers[Len(valueParsers)].declEntity
                  THEN decls[at].value ELSE TextOf(e))

Reach[n \in 0..Cardinality(Names)] ==
    [e \in Names |-> IF n = 0 THEN ValueRefsOf(e)
                     ELSE UNION {{d} \cup Reach[n - 1][d] : d \in ValueRefsOf(e)}]
Reachable(e) == Reach[Cardinality(Names)][e]
FromValue == UNION {{e} \cup Reachable(e) : e \in Refs(decls[at].value)}
Cyclic == \E e \in FromValue : e \in Reachable(e)

(* XML_ERROR_RECURSIVE_ENTITY_REF is reported only for a value that really *)
(* contains itself, and no such value is ever stored as if it were fine,   *)
(* although the open marks are set and cleared by several parsers.         *)
RecursionIsExact ==
    /\ valueError = "RECURSIVE_ENTITY_REF" /\ valuePc = "error" => Cyclic
    /\ valuePc = "value" => ~Cyclic

(* A parameter entity in a value that was not read - undeclared, skipped   *)
(* by the handler, without a handler, or referred to in the text of one    *)
(* that was read - stops the processing of declarations, unless the        *)
(* document is standalone; nothing else does.                              *)
Unread(e) == kind[e] = "undeclared" \/ (kind[e] = "external" /\ handler[e] # "parse")
UnreadStopsDeclarations ==
    valuePc = "value" =>
        (keepProcessing <=> (standalone \/ \A e \in FromValue : ~Unread(e)))

(* callStoreEntityValue's loop ends for every value. *)
DeclarationsEnd == <>(valuePc = "failed" \/ (valuePc = "prolog" /\ at > Len(decls)))
=============================================================================
