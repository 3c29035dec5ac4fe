-------------------------- MODULE ElementProperties --------------------------
(***************************************************************************)
(* What Elements promises, from the start tags alone: path holds the open  *)
(* elements of all parsers as they were written, and namespaces are looked *)
(* up there.                                                               *)
(***************************************************************************)
EXTENDS Elements

\* The attributes of a start tag, those of the DTD that were not given included.
Effective(t) ==
    LET given == { t.atts[i].name : i \in 1 .. Len(t.atts) }
        defaults == IF t.name \in DOMAIN document.defaults THEN document.defaults[t.name] ELSE <<>>
    IN t.atts \o SelectSeq(defaults, LAMBDA d : d.value # "NULL" /\ d.name \notin given)
Declarations(t) == SelectSeq(Effective(t), LAMBDA a : IsXmlns(a.name))
Others(t) == SelectSeq(Effective(t), LAMBDA a : ~IsXmlns(a.name))
\* the URI of a prefix in the innermost of the elements that declares it
UriOf(prefix, elements) ==
    LET declares(k) == { i \in 1 .. Len(Declarations(elements[k])) :
                           Declared(Declarations(elements[k])[i].name) = prefix }
        at == { k \in 1 .. Len(elements) : declares(k) # {} }
        k == CHOOSE k \in at : \A j \in at : k <= j
        uri == Declarations(elements[k])[CHOOSE i \in declares(k) : TRUE].value
    IN IF at = {} THEN IF prefix = "xml" THEN "XML" ELSE "NULL"
       ELSE IF uri = "" THEN "NULL" ELSE uri
\* the name an element or attribute is reported by
Expanded(name, elements, isElement) ==
    LET uri == UriOf(name.prefix, elements)
    IN IF ~document.ns \/ (name.prefix = "" /\ (~isElement \/ uri = "NULL")) THEN QName(name)
       ELSE <<uri>> \o Separator \o <<name.local>>
            \o IF document.triplets /\ name.prefix # "" THEN <<document.sep, name.prefix>> ELSE <<>>

\* Every way in which a start tag breaks the rules of names.
Mistakes(t, elements) ==
    LET d == Declarations(t)
        o == Others(t)
        prefixed == { i \in 1 .. Len(o) : IsPrefixed(o[i].name) }
        in(i, S) == d[i].value \in S
        declares(i, prefix) == Declared(d[i].name) = prefix
    IN (IF \/ \E i, j \in 1 .. Len(t.atts) : i < j /\ t.atts[i].name = t.atts[j].name
           \/ \E i, j \in prefixed : /\ i < j /\ o[i].name.local = o[j].name.local
                                     /\ UriOf(o[i].name.prefix, elements) = UriOf(o[j].name.prefix, elements)
        THEN {"DUPLICATE_ATTRIBUTE"} ELSE {})
       \cup (IF \/ document.ns /\ t.name.prefix # "" /\ UriOf(t.name.prefix, elements) = "NULL"
                \/ \E i \in prefixed : UriOf(o[i].name.prefix, elements) = "NULL"
             THEN {"UNBOUND_PREFIX"} ELSE {})
       \cup UNION { (IF in(i, {""}) /\ ~declares(i, "") THEN {"UNDECLARING_PREFIX"} ELSE {})
                    \cup (IF declares(i, "xmlns") THEN {"RESERVED_PREFIX_XMLNS"} ELSE {})
                    \cup (IF declares(i, "xml") /\ ~in(i, {"XML"}) THEN {"RESERVED_PREFIX_XML"} ELSE {})
                    \cup (IF in(i, {"XMLNS"}) \/ (in(i, {"XML"}) /\ ~declares(i, "xml"))
                          THEN {"RESERVED_NAMESPACE_URI"} ELSE {})
                    \cup (IF <<d[i].value, document.sep>> \in Includes /\ document.sep = "|"
                          THEN {"SYNTAX"} ELSE {}) : i \in 1 .. Len(d) }

NsCalls(t) == LET d == Declarations(t) IN
    [i \in 1 .. Len(d) |-> <<"ns", Declared(d[i].name), IF d[i].value = "" THEN "NULL" ELSE d[i].value>>]
EndNsCalls(t) == LET d == Reverse(Declarations(t)) IN [i \in 1 .. Len(d) |-> <<"endNs", Declared(d[i].name)>>]
\* A start tag or an empty element is refused exactly if its names break the
\* rules of XML or of namespaces, for a reason that holds; else it is reported
\* with the names that the scope of the document gives it, whatever storeAtts
\* left in its tables before, in parsers of entities as in their parents.
TagsFollowScope ==
    asked.kind \in {"start", "empty"} =>
      LET begun == asked.kind = "start" /\ Top.error = "NONE"
          t == [name |-> asked.name, atts |-> asked.atts]
          elements == IF begun THEN path ELSE <<t>> \o path
          o == Others(t)
          said == Expanded(t.name, elements, TRUE)
          app == [i \in 1 .. Len(o) |-> [name |-> Expanded(o[i].name, elements, FALSE), value |-> o[i].value]]
          given == SelectSeq(t.atts, LAMBDA a : ~IsXmlns(a.name))
          id == { i \in 1 .. Len(given) : t.name \in DOMAIN document.idAtt /\ given[i].name = document.idAtt[t.name] }
      IN /\ Top.error = "NONE" <=> Mistakes(t, elements) = {}
         /\ Top.error \in Mistakes(t, elements) \cup {"NONE"}
         /\ Top.error = "NONE" =>
              /\ calls = NsCalls(t) \o <<<<"start", said, app>>>>
                         \o IF begun THEN <<>> ELSE <<<<"end", said>>>> \o EndNsCalls(t)
              /\ Top.nSpecified = 2 * Len(given)
              /\ IF id = {} THEN Top.idIndex = -1 ELSE Top.idIndex \in { 2 * i - 2 : i \in id }

\* An end tag is refused exactly if it is not the name of the innermost element
\* that was opened in its entity, however many calls ago; else the element ends
\* by the name it was reported with, and its declarations in reverse.
EndTagsMatch ==
    [][ (asked'.kind = "end" /\ parsers' # <<>>) =>
          LET own == Top.level > StartTagLevel
              error == parsers'[1].error
          IN /\ error = IF ~own THEN "ASYNC_ENTITY"
                        ELSE IF asked'.name # path[1].name THEN "TAG_MISMATCH" ELSE "NONE"
             /\ error = "NONE" => calls' = <<<<"end", path[1].said>>>> \o EndNsCalls(path[1])
      ]_elementVars

\* Every block of the heap has one owner that will free it, in one parser, and
\* holds no more than it has room for; every binding is in one list.
MemoryIsOwned ==
    LET blocks(p) == [i \in 1 .. Len(p.tags) |-> p.tags[i].buf] \o p.freeTags
                     \o [b \in 1 .. Cardinality(DOMAIN p.bindings) |-> p.bindings[b].uri]
        lists(p) == FlattenSeq([i \in 1 .. Len(p.tags) |-> p.tags[i].list]) \o p.freeBindings \o p.inherited
        all == FlattenSeq([i \in 1 .. Len(parsers) |-> blocks(parsers[i])])
    IN /\ Len(all) = Cardinality(DOMAIN heap) /\ ToSet(all) = DOMAIN heap
       /\ \A i \in 1 .. Len(parsers) : LET l == lists(parsers[i]) IN
            Len(l) = Cardinality(DOMAIN parsers[i].bindings) /\ ToSet(l) = DOMAIN parsers[i].bindings
       /\ \A b \in DOMAIN heap :
            Chars(heap[b].text) + Chars(heap[b].raw) + (IF heap[b].raw = <<>> THEN 0 ELSE 1) <= heap[b].size

\* A reference is refused as recursive exactly if the entity is being read, by
\* this parser or by one above it.
RecursionIsSeen ==
    LET entities == { i \in 1 .. Len(parsers) : asked.name.local = parsers[i].entity }
    IN asked.kind = "ref" => Cardinality(entities) = 1
=============================================================================
