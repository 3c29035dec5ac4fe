------------------------------- MODULE Elements -------------------------------
(***************************************************************************)
(* Tags, attributes and namespaces: the start, empty and end tag tokens of *)
(* doContent with storeAtts, addBinding and freeBindings, storeRawNames at *)
(* the end of a call, and the parsers that are made for external general   *)
(* entities, which inherit the scope of the reference through a context    *)
(* string.                                                                 *)
(*                                                                         *)
(* A string is a sequence of atoms (a URI, a local part, a prefix, a colon *)
(* or a separator), each of some Length.  Buffers are blocks of the heap;  *)
(* realloc always moves them, and what is read through a pointer to a      *)
(* block that was freed is junk.  All handlers are set and the allocator   *)
(* does not fail.                                                          *)
(***************************************************************************)
EXTENDS Integers, Sequences, FiniteSets, SequencesExt, TLC

CONSTANTS
    Length,              \* [atom -> Nat]: the characters of a name, prefix or URI
    Includes,            \* the pairs of a URI and a separator that is part of it
    Documents,           \* [ns, sep, triplets, tags, defaults, idAtt, entities, resets, most]: how
                         \* it is parsed, its tags [name, atts, form], its DTD, whether the
                         \* parser is used again, and a bound on its tags and references
    INIT_TAG_BUF_SIZE, INIT_ATTS_SIZE, INIT_ATTS_VERSION, EXPAND_SPARE,
    MaxOpen             \* bound on the open elements of all parsers

VARIABLES
    document,            \* what is parsed, and how: a member of Documents
    heap,                \* [block -> [text, raw, size]], the blocks in use
    parsers,             \* the parsers, the innermost first
    calls,               \* the handler calls of the last token
    asked,               \* the last token: [kind, name, atts]
    path,                \* the open elements, the innermost first: [name, atts, said]
    used                 \* how many tags, references and resets there were
elementVars == <<document, heap, parsers, calls, asked, path, used>>

-----------------------------------------------------------------------------
(* Strings and memory.                                                     *)

Colon == ":"
\* m_namespaceSeparator: document.sep, or nothing
Separator == IF document.sep = "" THEN <<>> ELSE <<document.sep>>
RECURSIVE Chars(_)
Chars(text) == IF text = <<>> THEN 0 ELSE Length[Head(text)] + Chars(Tail(text))
QName(name) == IF name.prefix = "" THEN <<name.local>> ELSE <<name.prefix, Colon, name.local>>
Lost == [text |-> <<"junk", "junk", "junk">>, raw |-> <<"junk">>, size |-> 0]
At(h, block) == IF block \in DOMAIN h THEN h[block] ELSE Lost
\* A block is <<parser, use, n, place>>: the n-th buffer of a use, in one of
\* two places between which realloc moves it.
NoBlock == <<>>
NewBlock(p, use, n) == <<p.id, use, n, 0>>
Moved(block) == [block EXCEPT ![4] = 1 - @]
Put(h, block, value) == (block :> value) @@ h
FREE(h, blocks) == [b \in DOMAIN h \ blocks |-> h[b]]
REALLOC(h, block, value) == FREE(Put(h, Moved(block), value), {block})

\* A parser and what a token works on: the heap, the calls made, the bindings
\* of the tag (bindingsPtr), the attribute list, the name found for the tag.
NewParser(id, entity, dtd) ==
    [id |-> id, dtd |-> dtd, tags |-> <<>>, freeTags |-> <<>>,
     bindings |-> << >>, freeBindings |-> <<>>, inherited |-> <<>>, binding |-> << >>,
     flag |-> << >>, nsPower |-> 0, nsVersion |-> 0, nsAtts |-> <<>>,
     attsSize |-> INIT_ATTS_SIZE, nSpecified |-> 0, idIndex |-> -1, level |-> 0,
     entity |-> entity, open |-> {}, processor |-> "content", error |-> "NONE"]
Work(h, p) == [heap |-> h, p |-> p, calls |-> <<>>, list |-> <<>>, app |-> <<>>,
               slots |-> <<>>, str |-> NoBlock, uriLen |-> 0]
FailWith(q, error) == [q EXCEPT !.p.error = error]
Failed(q) == q.p.error # "NONE"
Say(q, call) == [q EXCEPT !.calls = Append(@, call)]
\* entries of the DTD's tables that were not made yet have no binding, no flag
Get(f, x) == IF x \in DOMAIN f THEN f[x] ELSE 0
Set(f, x, v) == IF v = 0 THEN [y \in DOMAIN f \ {x} |-> f[y]] ELSE (x :> v) @@ f
Bind(q, prefix, b) == [q EXCEPT !.p.binding = Set(@, prefix, b)]
Mark(q, name, v) == [q EXCEPT !.p.flag = Set(@, name, v)]

-----------------------------------------------------------------------------
(* Namespace bindings.                                                     *)

is_rfc3986_uri_char(c) == c = "/"
BindingError(prefix, uri) ==
    CASE uri = "" /\ prefix # ""        -> "UNDECLARING_PREFIX"
      [] prefix = "xmlns"               -> "RESERVED_PREFIX_XMLNS"
      [] <<uri, document.sep>> \in Includes /\ ~is_rfc3986_uri_char(document.sep) -> "SYNTAX"
      [] prefix = "xml" /\ uri # "XML"  -> "RESERVED_PREFIX_XML"
      [] prefix # "xml" /\ uri = "XML"  -> "RESERVED_NAMESPACE_URI"
      [] uri = "XMLNS"                  -> "RESERVED_NAMESPACE_URI"
      [] OTHER                          -> "NONE"
\* attId is the attribute, or NoAttId for a binding of the context
NoAttId == [prefix |-> "", local |-> ""]
addBinding(q, prefix, attId, uri) ==
    LET text == <<uri>> \o Separator
        fresh == [text |-> text, raw |-> <<>>, size |-> Chars(text) + EXPAND_SPARE]
        reused == q.p.freeBindings # <<>>
        b == IF reused THEN q.p.freeBindings[1] ELSE Cardinality(DOMAIN q.p.bindings) + 1
        old == IF reused THEN q.p.bindings[b].uri ELSE NewBlock(q.p, "uri", b)
        fits == reused /\ Chars(text) <= q.heap[old].size
        block == IF reused /\ ~fits THEN Moved(old) ELSE old
        bound == ~(uri = "" /\ prefix = "")
        record == [uri |-> block, uriLen |-> Len(text), prefix |-> prefix, attId |-> attId,
                   prev |-> Get(q.p.binding, prefix)]
        added == [q EXCEPT !.heap = IF fits THEN [@ EXCEPT ![old].text = text]
                                    ELSE IF reused THEN REALLOC(@, old, fresh) ELSE Put(@, old, fresh),
                           !.p.bindings = Put(@, b, record),
                           !.p.freeBindings = IF reused THEN Tail(@) ELSE @,
                           !.list = <<b>> \o @]
        bind == Bind(added, prefix, IF bound THEN b ELSE 0)
    IN IF BindingError(prefix, uri) # "NONE" THEN FailWith(q, BindingError(prefix, uri))
       ELSE IF attId = NoAttId THEN bind
       ELSE Say(bind, <<"ns", prefix, IF bound THEN uri ELSE "NULL">>)
\* freeBindings, and the same loop for an end tag
freeBindings(q, list) ==
    LET free(r, b) == Bind(Say([r EXCEPT !.p.freeBindings = <<b>> \o @],
                               <<"endNs", r.p.bindings[b].prefix>>),
                           r.p.bindings[b].prefix, r.p.bindings[b].prev)
    IN FoldLeft(free, q, list)
-----------------------------------------------------------------------------
(* storeAtts, step by step.                                                *)

\* getAttributeId: a declaration of the default namespace or of a prefix, a
\* prefixed attribute or another
IsXmlns(name) == document.ns /\ (name = [prefix |-> "", local |-> "xmlns"] \/ name.prefix = "xmlns")
Declared(name) == IF name.prefix = "xmlns" THEN name.local ELSE ""
IsPrefixed(name) == document.ns /\ name.prefix # "" /\ ~IsXmlns(name)
DefaultAtts(p, name) == IF name \in DOMAIN p.dtd.defaults THEN p.dtd.defaults[name] ELSE <<>>

\* the array of attributes grows, and is then filled again from the start
GetAttributes(q, atts, n) ==
    LET old == q.p.attsSize
        read(size) == [i \in 1 .. Len(atts) |->
                         IF i <= size THEN atts[i] ELSE [name |-> NoAttId, value |-> "junk"]]
        grows == Len(atts) + n > old
    IN [q EXCEPT !.app = IF grows /\ Len(atts) > old THEN read(Len(atts)) ELSE read(old),
                 !.p.attsSize = IF grows THEN Len(atts) + n + INIT_ATTS_SIZE ELSE old]
\* one specified attribute: entries of the list are [id, value]
Specify(q, att) ==
    IF Failed(q) THEN q
    ELSE IF Get(q.p.flag, att.name) # 0 THEN FailWith(q, "DUPLICATE_ATTRIBUTE")
    ELSE IF IsXmlns(att.name)
    THEN addBinding(Mark(q, att.name, 1), Declared(att.name), att.name, att.value)
    ELSE Mark([q EXCEPT !.app = Append(@, att)], att.name, IF IsPrefixed(att.name) THEN 2 ELSE 1)
\* one default attribute
Default(q, att) ==
    IF Failed(q) \/ Get(q.p.flag, att.name) # 0 \/ att.value = "NULL" THEN q
    ELSE IF IsXmlns(att.name) THEN addBinding(q, Declared(att.name), att.name, att.value)
    ELSE Mark([q EXCEPT !.app = Append(@, att)], att.name, IF IsPrefixed(att.name) THEN 2 ELSE 1)
IdAttIndex(q, name) ==
    LET id == IF name \in DOMAIN q.p.dtd.idAtt THEN q.p.dtd.idAtt[name] ELSE NoAttId
        at == { i \in 1 .. Len(q.app) : q.app[i].name = id }
    IN IF Failed(q) THEN q
       ELSE [q EXCEPT
                 !.p.nSpecified = 2 * Len(q.app),
                 !.p.idIndex = IF id = NoAttId \/ Get(q.p.flag, id) = 0 THEN -1
                               ELSE IF at = {} THEN @
                               ELSE 2 * (CHOOSE i \in at : \A j \in at : i <= j) - 2]

\* The table of expanded names: a slot is taken if it has the current version.
\* What the slots of other versions hold is gone with m_tempPool: Stale.
Stale == <<"stale">>
NsPower(n, power) ==
    LET k == CHOOSE k \in power .. power + n + 1 : n \div 2^k = 0 /\ \A j \in power .. k - 1 : n \div 2^j # 0
    IN IF (2 * n) \div 2^power = 0 THEN power ELSE IF k + 1 < 3 THEN 3 ELSE k + 1
\* Mutant: a version that begins again does not initialise the slots.
NsVersionKeepsSlots(q, n) ==
    LET power == NsPower(n, q.p.nsPower)
        grows == power # q.p.nsPower
        version == (IF grows \/ q.p.nsVersion = 0 THEN INIT_ATTS_VERSION ELSE q.p.nsVersion) - 1
        versions == IF grows THEN [j \in 1 .. 2^power |-> INIT_ATTS_VERSION] ELSE q.p.nsAtts
    IN [q EXCEPT !.p.nsPower = power, !.p.nsVersion = version,
                 !.slots = [j \in 1 .. 2^power |-> [version |-> versions[j], uriName |-> Stale]]]
NsVersion(q, n) ==
    LET power == NsPower(n, q.p.nsPower)
        reset == power # q.p.nsPower \/ q.p.nsVersion = 0
        version == (IF reset THEN INIT_ATTS_VERSION ELSE q.p.nsVersion) - 1
        versions == IF reset THEN [j \in 1 .. 2^power |-> INIT_ATTS_VERSION] ELSE q.p.nsAtts
    IN [q EXCEPT !.p.nsPower = power, !.p.nsVersion = version,
                 !.slots = [j \in 1 .. 2^power |-> [version |-> versions[j], uriName |-> Stale]]]
\* one attribute of the list, with its flag cleared; the order in which slots
\* are probed is that of the table
Expand(q, i) ==
    LET name == q.app[i].name
        b == Get(q.p.binding, name.prefix)
        bound == q.p.bindings[b]
        uriName == SubSeq(At(q.heap, bound.uri).text, 1, bound.uriLen) \o <<name.local>>
        free == { j \in 1 .. Len(q.slots) : q.slots[j].version # q.p.nsVersion }
        slot == CHOOSE j \in free : \A k \in free : j <= k
        said == uriName \o IF document.triplets THEN <<document.sep, bound.prefix>> ELSE <<>>
        cleared == Mark(q, name, 0)
    IN IF Failed(q) THEN q
       ELSE IF Get(q.p.flag, name) # 2 THEN [cleared EXCEPT !.app[i].name = QName(name)]
       ELSE IF b = 0 THEN FailWith(cleared, "UNBOUND_PREFIX")
       ELSE IF free = {} THEN FailWith(cleared, "the search does not end")
       ELSE IF \E j \in 1 .. slot - 1 : q.slots[j].uriName \in {uriName, Stale}
       THEN FailWith(cleared, "DUPLICATE_ATTRIBUTE")
       ELSE [cleared EXCEPT !.app[i].name = said,
                            !.slots[slot] = [version |-> q.p.nsVersion, uriName |-> uriName]]
\* how many attributes have a prefix
Prefixed(q) == Cardinality({ i \in 1 .. Len(q.app) : Get(q.p.flag, q.app[i].name) = 2 })
\* the versions of the slots stay, if the table was used
KeepSlots(q) ==
    IF q.slots = <<>> THEN q
    ELSE [q EXCEPT !.p.nsAtts = [j \in 1 .. Len(q.slots) |-> q.slots[j].version]]
\* the flags of the namespace declarations are cleared, too
ClearFlags(q) ==
    LET clear(r, b) == Mark(r, r.p.bindings[b].attId, 0)
    IN IF Failed(q) THEN q ELSE FoldLeft(clear, q, q.list)
ExpandAll(q) ==
    IF Failed(q) THEN q
    ELSE ClearFlags(KeepSlots(FoldLeft(Expand, IF Prefixed(q) = 0 THEN q ELSE NsVersion(q, Prefixed(q)),
                                       [i \in 1 .. Len(q.app) |-> i])))

\* The name of the element, put together in the buffer of its namespace's
\* binding: every open element of that namespace has its name there.
ElementName(q, name) ==
    LET b == Get(q.p.binding, name.prefix)
        bound == q.p.bindings[b]
        old == At(q.heap, bound.uri)
        text == SubSeq(old.text, 1, bound.uriLen) \o <<name.local>>
                \o IF document.triplets /\ name.prefix # "" THEN <<document.sep, name.prefix>> ELSE <<>>
        total == Chars(text) + 1
        uri == Moved(bound.uri)
        named == [q EXCEPT !.uriLen = bound.uriLen]
    IN IF Failed(q) \/ ~document.ns THEN q
       ELSE IF b = 0 THEN IF name.prefix # "" THEN FailWith(q, "UNBOUND_PREFIX") ELSE q
       ELSE IF total <= old.size
       THEN [named EXCEPT !.heap[bound.uri].text = text, !.str = bound.uri]
       ELSE [named EXCEPT
               !.heap = REALLOC(@, bound.uri, [old EXCEPT !.text = text, !.size = total + EXPAND_SPARE]),
               !.p.tags = [k \in 1 .. Len(@) |->
                             IF @[k].str = bound.uri THEN [@[k] EXCEPT !.str = uri] ELSE @[k]],
               !.p.bindings[b].uri = uri, !.str = uri]
SpecifyAll(q) == FoldLeft(Specify, [q EXCEPT !.app = <<>>], q.app)
storeAtts(q, name, atts) ==
    LET got == GetAttributes(q, atts, Len(DefaultAtts(q.p, name)))
        full == FoldLeft(Default, IdAttIndex(SpecifyAll(got), name), DefaultAtts(q.p, name))
    IN ElementName(ExpandAll(full), name)
-----------------------------------------------------------------------------
(* Tokens of the content.  The parser on top reads; a token is refused     *)
(* once it has failed.                                                     *)

Top == parsers[1]
Reads(kind, name, atts) == Top.error = "NONE" /\ asked' = [kind |-> kind, name |-> name, atts |-> atts]
Becomes(q) ==
    heap' = q.heap /\ parsers' = <<q.p>> \o Tail(parsers) /\ calls' = q.calls /\ UNCHANGED document
Refuses(error) == Becomes(FailWith(Work(heap, Top), error)) /\ UNCHANGED path
StartTagLevel == IF Len(parsers) = 1 THEN 0 ELSE 1

\* the size of the tag's buffer, doubled until name and terminator fit
RECURSIVE Doubled(_, _)
Doubled(size, n) == IF n <= size - 1 THEN size ELSE Doubled(2 * size, n)
\* the tag is taken from the free list or made, and is the innermost
pushTag(p, name) ==
    LET reused == p.freeTags # <<>>
        text == QName(name)
        size == IF reused THEN heap[p.freeTags[1]].size ELSE INIT_TAG_BUF_SIZE
        fits == Chars(text) <= size - 1
        block == [text |-> text, raw |-> <<>>, size |-> Doubled(size, Chars(text))]
        old == IF reused THEN p.freeTags[1] ELSE NewBlock(p, "tag", Len(p.tags) + 1)
        buf == IF reused /\ ~fits THEN Moved(old) ELSE old
        h == IF reused /\ ~fits THEN REALLOC(heap, old, block) ELSE Put(heap, old, block)
        tag == [buf |-> buf, str |-> buf, localPart |-> NoBlock, uriLen |-> 0, prefix |-> "",
                rawName |-> "input", raw |-> text, list |-> <<>>]
    IN Work(h, [p EXCEPT !.tags = <<tag>> \o @, !.level = @ + 1,
                         !.freeTags = IF reused THEN Tail(@) ELSE @])
\* and has the name and the bindings that storeAtts found
nameTag(q, name) ==
    [q EXCEPT !.p.tags[1] =
        IF q.str = NoBlock THEN [@ EXCEPT !.list = q.list]
        ELSE [@ EXCEPT !.list = q.list, !.str = q.str, !.uriLen = q.uriLen,
                       !.localPart = q.p.tags[1].buf, !.prefix = name.prefix]]
NameOfTop(q) == At(q.heap, q.p.tags[1].str).text
startTag(name, atts) ==
    /\ Reads("start", name, atts) /\ Top.processor = "content"
    /\ \E q \in {nameTag(storeAtts(pushTag(Top, name), name, atts), name)} :
         /\ Becomes(IF Failed(q) THEN q ELSE Say(q, <<"start", NameOfTop(q), q.app>>))
         /\ path' = IF Failed(q) THEN path
                    ELSE <<[name |-> name, atts |-> atts, said |-> NameOfTop(q)]>> \o path
\* a start and an end at once; the bindings do not outlive it
sayEmpty(q, said) ==
    freeBindings(IF Failed(q) THEN q
                 ELSE Say(Say(q, <<"start", said, q.app>>), <<"end", said>>), q.list)
emptyElement(name, atts) ==
    /\ Reads("empty", name, atts) /\ Top.processor = "content" /\ UNCHANGED path
    /\ \E q \in {storeAtts(Work(heap, Top), name, atts)} :
       \E s \in {sayEmpty(q, IF q.str = NoBlock THEN QName(name) ELSE At(q.heap, q.str).text)} :
         Becomes(IF Failed(s) \/ Top.level # 0 THEN s ELSE [s EXCEPT !.p.processor = "epilog"])
endTag(name) ==
    LET p == Top
        tag == Head(p.tags)
        raw == IF tag.rawName = "input" THEN tag.raw ELSE IF tag.rawName = "buf" THEN At(heap, tag.buf).raw
               ELSE Lost.raw
        local == At(heap, tag.localPart).text
        whole == SubSeq(At(heap, tag.str).text, 1, tag.uriLen) \o <<Last(local)>>
                 \o IF document.triplets /\ tag.prefix # "" THEN <<document.sep, tag.prefix>> ELSE <<>>
        h == IF tag.localPart = NoBlock THEN heap ELSE [heap EXCEPT ![tag.str].text = whole]
        popped == [p EXCEPT !.tags = Tail(@), !.freeTags = <<tag.buf>> \o @, !.level = @ - 1,
                            !.processor = IF p.level = 1 THEN "epilog" ELSE @]
        s == freeBindings(Say(Work(h, popped), <<"end", At(h, tag.str).text>>), tag.list)
    IN /\ Reads("end", name, <<>>) /\ p.processor = "content" /\ p.level > 0
       /\ IF p.level = StartTagLevel THEN Refuses("ASYNC_ENTITY")
          ELSE IF raw # QName(name) THEN Refuses("TAG_MISMATCH")
          ELSE Becomes(s) /\ path' = Tail(path)
\* epilogProcessor: nothing but white space, comments and instructions
epilogToken ==
    /\ Reads("junk", NoAttId, <<>>) /\ Top.processor = "epilog" /\ Refuses("JUNK_AFTER_DOC_ELEMENT")
-----------------------------------------------------------------------------
(* The end of a call, of an entity and of a document.                      *)

\* Mutant: only the innermost tag keeps its raw name.
storeRawNamesTop(q) ==
    IF q.p.tags = <<>> THEN q
    ELSE [q EXCEPT !.heap[q.p.tags[1].buf].raw = q.p.tags[1].raw, !.p.tags[1].rawName = "buf"]
\* copies raw names from the input to their tags, down to the first that was
\* copied before
storeRawNames(q) ==
    LET stored == { i \in 1 .. Len(q.p.tags) : q.p.tags[i].rawName = "buf" }
        end == IF stored = {} THEN Len(q.p.tags) + 1 ELSE CHOOSE i \in stored : \A j \in stored : i <= j
        store(r, i) ==
            LET tag == r.p.tags[i]
                block == [At(r.heap, tag.buf) EXCEPT !.raw = tag.raw]
                size == Chars(block.text) + 1 + Chars(tag.raw)
                new == Moved(tag.buf)
            IN IF size <= block.size
               THEN [r EXCEPT !.heap[tag.buf] = block, !.p.tags[i].rawName = "buf"]
               ELSE [r EXCEPT !.heap = REALLOC(@, tag.buf, [block EXCEPT !.size = size]),
                              !.p.tags[i] = [tag EXCEPT !.rawName = "buf", !.buf = new,
                                                        !.str = IF @ = tag.buf THEN new ELSE @,
                                                        !.localPart = IF @ = NoBlock THEN @ ELSE new]]
    IN FoldLeft(store, q, [i \in 1 .. end - 1 |-> i])
\* contentProcessor returns and the input is given up: a raw name that is
\* still there is lost
callEnds ==
    LET q == storeRawNames(Work(heap, Top))
        gone(tag) == IF tag.rawName = "input" THEN [tag EXCEPT !.rawName = "gone"] ELSE tag
    IN /\ Reads("more", NoAttId, <<>>) /\ \E i \in 1 .. Len(Top.tags) : Top.tags[i].rawName = "input"
       /\ Becomes([q EXCEPT !.p.tags = [i \in 1 .. Len(@) |-> gone(@[i])]])
       /\ UNCHANGED path
\* the final call ends
documentEnds ==
    /\ Reads("final", NoAttId, <<>>) /\ Len(parsers) = 1 /\ Top.processor # "done" /\ UNCHANGED path
    /\ IF Top.processor = "content" THEN Becomes(FailWith(Work(heap, Top), "NO_ELEMENTS"))
       ELSE Becomes(Work(heap, [Top EXCEPT !.processor = "done"]))

\* the context of a reference: the bindings in force and the open entities
getContext(p, e) ==
    LET len(b) == p.bindings[b].uriLen - Len(Separator)
        uri(b) == SubSeq(At(heap, p.bindings[b].uri).text, 1, len(b))
    IN [bindings |-> { <<prefix, IF Len(uri(b)) = 1 THEN uri(b)[1] ELSE "junk">> :
                         <<prefix, b>> \in { <<x, p.binding[x]>> : x \in DOMAIN p.binding } },
        entities |-> p.open \cup {e}]
\* Mutant: the entities that are open above are not taken over.
setContextBindings(q, context) ==
    LET add(r, x) == addBinding(r, x[1], NoAttId, x[2])
        bound == FoldLeft(add, q, SetToSeq(context.bindings))
    IN [bound EXCEPT !.p.inherited = bound.list, !.p.open = {q.p.entity}, !.list = <<>>]
setContext(q, context) ==
    LET add(r, x) == addBinding(r, x[1], NoAttId, x[2])
        bound == FoldLeft(add, q, SetToSeq(context.bindings))
    IN [bound EXCEPT !.p.inherited = bound.list, !.p.open = context.entities, !.list = <<>>]
implicitContext == [bindings |-> IF document.ns THEN {<<"xml", "XML">>} ELSE {}, entities |-> {}]
dtdCopy(dtd) == [defaults |-> dtd.defaults, idAtt |-> dtd.idAtt]

XML_ExternalEntityParserCreate(e) ==
    setContext(Work(heap, [NewParser(Len(parsers) + 1, e, dtdCopy(Top.dtd)) EXCEPT !.level = 1]), getContext(Top, e))
externalEntityRef(e) ==
    /\ Reads("ref", [prefix |-> "", local |-> e], <<>>) /\ Top.processor = "content" /\ Top.level > 0
    /\ IF e \in Top.open THEN Refuses("RECURSIVE_ENTITY_REF")
       ELSE \E q \in {XML_ExternalEntityParserCreate(e)} :
              /\ heap' = q.heap /\ parsers' = <<q.p>> \o parsers /\ calls' = q.calls
              /\ UNCHANGED <<document, path>>

\* Mutant: the bindings of the context are not freed.
OwnedTags(p) ==
    LET lists == FlattenSeq([i \in 1 .. Len(p.tags) |-> p.tags[i].list]) \o p.freeBindings
    IN { p.tags[i].buf : i \in 1 .. Len(p.tags) } \cup { p.freeTags[i] : i \in 1 .. Len(p.freeTags) }
         \cup { p.bindings[lists[i]].uri : i \in 1 .. Len(lists) }
\* the blocks XML_ParserFree frees
Owned(p) ==
    LET lists == FlattenSeq([i \in 1 .. Len(p.tags) |-> p.tags[i].list]) \o p.freeBindings \o p.inherited
    IN { p.tags[i].buf : i \in 1 .. Len(p.tags) } \cup { p.freeTags[i] : i \in 1 .. Len(p.freeTags) }
         \cup { p.bindings[lists[i]].uri : i \in 1 .. Len(lists) }
\* the handler of the reference returns when the entity is read, or has failed
entityEnds ==
    LET rest == Tail(parsers)
        failed == Top.error # "NONE"
        open == FoldLeft(LAMBDA n, p : n + Len(p.tags), 0, rest)
    IN /\ Len(parsers) > 1 /\ asked' = [kind |-> "entity", name |-> NoAttId, atts |-> <<>>]
       /\ IF ~failed /\ Top.level # 1 THEN Refuses("ASYNC_ENTITY")
          ELSE /\ heap' = FREE(heap, Owned(Top)) /\ calls' = <<>>
               /\ parsers' = IF failed THEN [rest EXCEPT ![1].error = "EXTERNAL_ENTITY_HANDLING"] ELSE rest
               /\ path' = SubSeq(path, Len(path) - open + 1, Len(path)) /\ UNCHANGED document

\* dtdReset empties the tables; the next document has the same declarations
XML_ParserReset ==
    LET p == Top
        moved == FlattenSeq([i \in 1 .. Len(p.tags) |-> p.tags[i].list]) \o p.inherited
        fresh == [NewParser(1, "", p.dtd) EXCEPT
                    !.freeTags = Reverse([i \in 1 .. Len(p.tags) |-> p.tags[i].buf]) \o p.freeTags,
                    !.freeBindings = Reverse(moved) \o p.freeBindings, !.bindings = p.bindings,
                    !.nsPower = p.nsPower, !.nsVersion = p.nsVersion, !.nsAtts = p.nsAtts,
                    !.attsSize = p.attsSize, !.idIndex = p.idIndex]
    IN /\ Len(parsers) = 1 /\ document.resets
       /\ Becomes(setContext(Work(heap, fresh), implicitContext))
       /\ asked' = [kind |-> "reset", name |-> NoAttId, atts |-> <<>>] /\ path' = <<>>
XML_ParserFree ==
    /\ Len(parsers) = 1 /\ heap' = FREE(heap, Owned(Top)) /\ parsers' = <<>>
    /\ calls' = <<>> /\ asked' = [kind |-> "free", name |-> NoAttId, atts |-> <<>>] /\ path' = <<>>
    /\ UNCHANGED document

ElementInit ==
    /\ document \in Documents
    /\ LET q == setContext(Work(<< >>, NewParser(1, "", [defaults |-> document.defaults, idAtt |-> document.idAtt])),
                           implicitContext)
       IN heap = q.heap /\ parsers = <<q.p>>
    /\ calls = <<>> /\ asked = [kind |-> "more", name |-> NoAttId, atts |-> <<>>] /\ path = <<>> /\ used = 0
ElementNext ==
    /\ parsers # <<>>
    /\ \/ /\ \/ \E t \in document.tags :
                  \/ t.form = "start" /\ Len(path) < MaxOpen /\ startTag(t.name, t.atts)
                  \/ t.form = "empty" /\ emptyElement(t.name, t.atts)
             \/ \E e \in document.entities : externalEntityRef(e)
             \/ XML_ParserReset
          /\ used < document.most /\ used' = used + 1
       \/ /\ \/ \E name \in { t.name : t \in document.tags } : endTag(name)
             \/ epilogToken \/ callEnds \/ documentEnds \/ entityEnds \/ XML_ParserFree
          /\ UNCHANGED used
ElementSpec == ElementInit /\ [][ElementNext]_elementVars
=============================================================================
