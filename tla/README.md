# A verification project for Expat

TLA+ models of the Expat XML parser (`expat/lib`), checked with TLC on small
instances, and proofs about them checked with TLAPS for every value of the
constants. The C source is the reference; `PROJECT.json` gives, for every
definition, the lines it models.

## 1. The system

Expat is a push parser: the application creates a parser, registers handlers,
and hands the document over in pieces. The library is single-threaded, but its
control is not simple. Handlers run in the middle of the parser's own loops
and may stop it, resume it later, ask for positions, or call back into it;
tokens are cut anywhere by the pieces; entities are expanded by state machines
instead of recursion so that the parser can stop in the middle of one; and
every allocation may fail.

| Part | State | Operations | What makes it hard |
|---|---|---|---|
| Parse driver (`xmlparse.c`) | parsing status, error code, processor, event and position pointers | `XML_Parse`, `XML_ParseBuffer`, `XML_GetBuffer`, `XML_StopParser`, `XML_ResumeParser`, `XML_ParserReset`, `callProcessor` | re-entrant calls, suspension at any callback, deferral of partial tokens, calls after an error |
| Input buffer | `m_buffer`, `m_bufferPtr`, `m_bufferEnd`, `m_bufferLim`, `m_parseEndByteIndex` | slide, grow, append, consume, reset | stale pointers after a move, `int` overflow, kept context |
| General entities | `open`, `hasMore`, `processed` of each entity, lists of open entities, free list | `processEntity`, `internalEntityProcessor`, `storeAttributeValue`, `appendAttributeValue` | nesting without recursion, suspension inside an entity, recursion check by flag |
| Accounting | direct and indirect byte counts | `accountingDiffTolerated` | double or missing counts, saturation, quotient with zero |
| Entity values | `entityValuePool`, open parameter entities | `storeEntityValue`, `callStoreEntityValue`, `entityValueInitProcessor`, `entityValueProcessor` | a value read across an external parameter entity by a second parser |
| Prolog | role state, DTD under construction | `xmlrole.c`, `doProlog` | one handler per state, declarations cut by parameter entities |
| Tags and namespaces | tag stack, bindings, attribute tables | `doContent`, `storeAtts`, `addBinding`, `storeRawNames` | raw names in a moving buffer, shared uri buffers, versioned hash of attributes |
| External entities | child parsers, shared or copied DTD, context strings | `XML_ExternalEntityParserCreate`, `XML_ParserFree`, initial processors | lifetime of the DTD, text declarations, suspension of a child |
| Hash tables | slots, power, used | `lookup`, iteration, clearing | growth while probing |
| String pools | blocks, string under construction | `poolGrow`, `poolStoreString`, ... | the string moves while it is being built |
| Content models | scaffold array, group stack | `nextScaffoldPart`, `build_model` | links by index, growth |
| Allocation tracker | total, peak, limits | `expat_malloc`, `expat_realloc`, `expat_free` | overflow, limits shared by a family of parsers |
| Encodings | converters, unknown encodings | `XmlInitEncoding`, `processXmlDecl`, UTF converters | partial characters at the end of a piece |
| Tokenizer | none | `xmltok_impl.c` | the same token must be found whatever has arrived behind it |
| Starts of entities | the current processor | the initial processors | byte order marks and declarations cut by pieces, a handler that stops in one |

Correctness, part by part: the callbacks are those of the document, in order,
whatever the pieces and the stops; a stop is reported; positions are exact;
no pointer is used after the buffer moved; what the handlers see is the
recursive expansion of the document; recursion is reported exactly when there
is some; tokens and declarations are those of the grammar; every byte is counted
once and the output stays within the limit; errors stay; a reset gives a fresh parser; every loop ends.

## 2. Modules

| Module | Models |
|---|---|
| `InputBuffer` | the buffer alone: `XML_GetBuffer` (in place, slide, grow, fail), the append of `XML_ParseBuffer`, consumption, reset |
| `PushParser` | the driver; extends `InputBuffer` and implements it |
| `Tokenizer` | the scanners of `xmltok_impl.c` as tables over classes of characters, and `updatePosition`, `getAtts` |
| `TokenStream` | the loops that call them on a text that arrives in pieces |
| `RegularExpressions`, `TokenReference` | the tokens of XML as regular expressions; the properties of the scanners |
| `Encodings` | the functions of `xmltok.c` on bytes and characters: valid UTF-8, converters, character references, tables of unknown encodings |
| `XmlDeclaration` | `initScan` on the first bytes and `doParseXmlDecl` |
| `EncodingStream` | both of them at work piece by piece, and their properties |
| `EntityStart` | the processors a parser begins with |
| `PrologRole` | `xmlrole.c`: a set of rows per state function |
| `Prolog` | `doProlog` with `defineAttribute` and the DTD it builds; implements `Scaffold` |
| `PrologReference`, `PrologProperties` | the productions of XML 1.0 for declarations; the properties of `Prolog` |
| `Scaffold` | the connectors and the scaffold of a content model, `nextScaffoldPart`, `build_model` |
| `Normalize` | `normalizePublicId`, `normalizeLines` |
| `EntityExpansion` | expansion of general entities and the accounting |
| `EntityReference` | what expansion means, by recursion on depth, and the properties of `EntityExpansion` against it |
| `EntityValue`, `EntityValueProperties` | declarations of entities and the values stored for them, by a stack of parsers that share a DTD; the values against the expansion of the texts |
| `Elements`, `ElementProperties` | tags, attributes, namespace bindings, raw names, parsers of external general entities; their properties |
| `NameTable`, `HashTable` | a set of names; the table that implements it |
| `StringPool` | `STRING_POOL` |
| `AllocTracker` | `expat_malloc`, `expat_realloc`, `expat_free` and the limits |
| `MCPushParser`, `MCInput`, `MCDtd`, `MCContent` | the instances of the passing runs |
| `MCTokens`, `MCEncodings`, `MCStart`, `MCProlog`, `MCEntityExpansion`, `MCEntityValue`, `MCElements` | the inputs of one component each |
| `PushParserProofs`, `DocumentProofs` | theorems about the buffer and the driver |
| `PrologProofs`, `ScaffoldProofs`, `EntityValueProofs`, `EntityExpansionProofs` | theorems about `doProlog`, content models, entity values and expansion |
| `HashTableProofs`, `MemoryProofs` | theorems about tables; about pools and the allocation tracker |

### InputBuffer

Pointers are offsets from `m_buffer`; `bufferLim = 0` stands for the null
pointers before the first allocation. A byte is named by its position in the
input, so `mem[i]` says which input byte is stored at `m_buffer[i]` and a lost
or repeated byte is visible. `GetBufferInPlace`, `GetBufferMoves` and
`GetBufferFails` are the outcomes of `XML_GetBuffer`; the two overflow checks
and the doubling keep the width of `int` through `IntBits`. `granted` is the
room the application was given: filling more than that breaks the interface
and is not modelled.

### PushParser

One action per public call and per step of a processor. `pc` says who runs:
the application between calls (`app`), `XML_Parse` between its copy and
`XML_ParseBuffer` (`copied`), a processor (`process`) or a handler
(`handler`). In a handler every public call is possible again, so re-entrant
calls are ordinary interleavings. A document is a sequence of tokens that say
how many callbacks they make; the processors find a token by the input bytes
that are really in the buffer at the cursor, so a corrupted buffer leads to a
wrong token and not to a correct one by construction. Of the processors,
`contentProcessor`, `internalEntityProcessor` (one entity at a time) and
`errorProcessor` are modelled.

`XML_StopParser` follows its documented contract: from a handler, or to abort
a suspended parser. `ContinueAfterError` is the set of documents with which the
application goes on after an error; the reference advises against it. `push_parser`
shows what still holds if it does, `error_forgotten` what does not.

### Tokenizer, TokenStream, TokenReference

A scanner of `xmltok_impl.c` is a table: points of its control flow, and at
each the cases of the switch there in order. `scan` runs a table over the bytes
that are available and answers the token, its end, or that it is partial,
cut inside a character, or invalid at a place. A byte is its class in the
encoding's table; the bytes behind a lead byte carry what kind of character it
is, so a character can be cut. The same tables serve UTF-8 (one byte a unit)
and UTF-16 (two).

`TokenStream` is the heads of `doContent`, `doCdataSection`, `doIgnoreSection`
and `doProlog`: it takes tokens, keeps what is partial, and begins again when
more has come. `Feed` appends any byte of a small set, or ends the text, so the
behaviours are all texts and all cuts at once. The reference is a set of regular
expressions, read by derivatives, which is independent of the scanners' control
flow: the token found is the one the grammar has there, an invalid place is one
where no token goes on, and the tokens found in a text are the same whatever
the pieces (`PiecesDoNotMatter`).

### Encodings, XmlDeclaration, EncodingStream

Bytes and characters are numbers here. `EncodingStream` does one of six jobs on
a `subject`: detect the encoding as the first bytes arrive, convert text
through a buffer of some room, read a character reference, a UTF-8 character or
a declaration as it grows by one digit, byte or word, fill a table of an unknown
encoding. Properties compare with what Unicode and XML say: what is converted
is a prefix of the text and the rest is still there, no chunk splits a
character, no overlong form, surrogate or number above 10FFFF passes.

### EntityStart

`prologInitProcessor`, the three `externalEntityInitProcessor`s,
`externalParEntInitProcessor`, `entityValueInitProcessor` and
`entityValueProcessor`, each with its treatment of a byte order mark, of a
declaration, of what is partial and of the end, over tokens whose bytes arrive
in any pieces, also empty ones. The handler of the declaration goes on, suspends
or aborts. `StartIsRead` says that the outcome is a function of the entity
alone; `Deviates` names the cases in which it is not, which are those of
`declaration_not_first`.

### PrologRole, Prolog, Scaffold

Each state function of `xmlrole.c` is the set of its rows (token, keyword, next
state, role), and `XmlTokenRole` with its three ways of falling through to
`common` runs them. `Prolog` gives it any token of a scenario at any time and
does what `doProlog` does for the role: every case of its switch, the DTD
(entities, attribute lists, ID attributes, `keepProcessing`, `standalone`,
`paramEntityRead`), the declaration being read (`m_declEntity` and its siblings,
the type under construction in `m_tempPool`), the stack of internal parameter
entities, sections, foreign DTDs, and the handlers, which may be taken out and
put back between two tokens. `seen` is the history of the tokens of the
declaration; `PrologReference` derives declarations by the productions of XML 1.0
and reads off what they say, and `PrologProperties` compares: what is accepted
is what the grammar derives (`DeclarationsAreGrammatical`), what handlers are
told is what was declared (`HandlersAreTold`), the first declaration binds,
declarations and parameter entities nest, a reference that was not followed
stops the DTD. The last property, the first declaration and the refinement below
are stated in `Prolog` itself, which reaches no recursive operator and can be proved about.

`Scaffold` is the part of that on content models alone, with its arrays as
functions on their indices, doubling, `INT_MAX` and the tree that `build_model`
makes. `ContentModelsAreScaffold` is the refinement: `Prolog` with its state
projected onto the scaffold satisfies `ScaffoldSpec` (theorem `ContentModels`).

### EntityExpansion

A text is a sequence of tokens: data, references, start, empty and end tags
with attribute values that are texts again. `pc` is the function that runs;
the actions are the cases of `doContent` and `appendAttributeValue` and the
steps of their callers. After each token the handlers may have suspended or
aborted the parser. An entity is internal, internal but declared in a
parameter entity, external, unparsed or undeclared. The values of attributes
that need no normalisation are taken as they are, as `storeAtts` does.
`Bytes` gives a tag the length of its value and two more, any other token one.
Predefined entities are data. The quotient of
`accountingGetCurrentAmplification` is compared exactly; the code compares
`float`s.

`EntityReference` defines the expansion of a document without any of that:
`ValueOf` and `ContentOf` expand to a depth, `Expected` is the whole output,
and the byte sums count each text once per use.

### EntityValue

A DTD is a sequence of declarations with literals made of data, parameter
entity references and references whose `%` is written as a character
reference, which become references in the stored text; that is how internal
parameter entities nest and recurse. `valueParsers` is the stack of parsers: the
outer one runs `callStoreEntityValue`, each of the others was created by a
handler for an external entity and runs `storeEntityValue` from
`entityValueInitProcessor`. Pool, entities, `keepProcessing` and
`paramEntityRead` are shared, as in the code; `declEntity` and the list of open
values are each parser's own. A handler parses the entity (and returns the
status of its parser), skips it, fails, or is not there. Handlers that hide
the failure of their parser break the contract and are left out. In `content`
the text of an external entity refers to external entities only
(`FilesReferToFiles`, which `MCContent` assumes); `value_cut_short` shows what happens otherwise. `StoreExhausted` stands for a
failed allocation or a breach of the amplification limit at any token.

### Elements

Start, empty and end tags with `storeAtts`, `addBinding`, `freeBindings`, the
copying of raw names at the end of a call (`storeRawNames`), references to
external general entities with the parser that `XML_ExternalEntityParserCreate`
makes (`getContext`, `setContext`, `dtdCopy`), `XML_ParserReset` and
`XML_ParserFree`. The point is memory: a `TAG`'s buffer holds its name and raw
name and is reallocated, a `BINDING`'s uri doubles as the buffer in which the
names of elements are put together, free lists recycle both, and the table of
attribute names is not cleared but given a version. So buffers are blocks of a
heap, `realloc` always moves, and what is read through a pointer to a freed
block is junk. `TagsFollowScope` compares every name reported with the one the
enclosing tags give by the rules of namespaces, `EndTagsMatch` every end tag
with its start tag, `MemoryIsOwned` says that each block is freed once or still
has one owner.

### HashTable, NameTable, StringPool

`lookup` is a sequence of steps (probe, grow, rehash each entry, insert), since
a table is inconsistent in between and an allocation may fail; no other call
interleaves with them. `NameTable` is what it promises, a set of entries with
names, and `LookupIsNameTable` the refinement. Hash functions are constants:
one long chain, none, and chains that part when the table has grown.
`StringPool` is `poolGrow` in all its branches (a free block for an empty pool, a
larger free block, a reallocation of the first block when the string begins it, a
new block, a failure), the
append functions, `poolDiscard`, `poolChop`, `poolFinish` and `poolClear`; a
string has at least one character. Addresses are pairs of a block and an index.

### AllocTracker

The heap is a range of addresses and a block owns an interval of it, header
included, so the bytes in use are the cardinality of a union. `malloc_fcn` and
`realloc_fcn` return any memory that is not in use, or fail (a stuttering
step). Counts wrap modulo `CountMax + 1`, so an assertion that failed would also
corrupt the count. `limit` is a history variable. The assumption
`CountMax <= SizeMax` says that `XmlBigCount` is no wider than `size_t`; on a
machine with a 32-bit `size_t` the argument for the assertion at
`xmlparse.c:1013` does not go through. Blocks taken straight from
`malloc_fcn` are not tracked by the code and not modelled.

### Composition

Where components share state the modules are built on one another: `PushParser`
extends `InputBuffer`, `Prolog` instantiates `Scaffold` and `Normalize`,
`EncodingStream` extends `Encodings` and `XmlDeclaration`, `TokenStream` extends
`Tokenizer`. `MCInput`, `MCDtd` and `MCContent` put components side by side that
meet only through values: a behaviour is one of one component (`part` says
which) and the others stay in one initial state, so the states of the run are the
sum of the components' states and its properties are those of every component.

## 3. Runs

| Run | Expect | Shows |
|---|---|---|
| `push_parser` | pass | callbacks in order, exact positions, reported stops, pinned buffer, refinement of `InputBuffer`; after an error nothing is reported or consumed, whatever is called; calls return, and an application that feeds and resumes reaches the end |
| `input` | pass | the buffer is a contiguous run of the input; the scanners find the tokens of the grammar whatever the pieces; detection, conversion, references and declarations are right; the start of an entity is read alike by every processor |
| `dtd` | pass | the prolog accepts the grammar and reports what is declared; content models implement `Scaffold`; hash tables are sets of names; pooled strings stay; the allocation count is exact |
| `content` | pass | entities expand to what recursion gives and each byte is counted once; entity values are expansions; tags, names and bindings follow the scope, with one owner for each block; the loops end |
| `resume_deferred` | violation | `XML_ResumeParser` may be deferred in the middle of an entity |
| `error_forgotten` | violation | a deferred call clears the error of a failed parser |
| `abort_unreported` | violation | an abort at a trailing `]` of an entity is reported as success |
| `start_tag_counted_twice` | violation | attribute values of a non-empty start tag are counted twice |
| `value_cut_short` | violation | a value is cut at an internal entity referred to by external text |
| `complete_entity_refused` | violation | a parameter entity with complete markup is refused inside an INCLUDE section |
| `declaration_not_first` | violation | a text declaration behind other text is taken as one when the entity is read for a value |
| `half_pair_dropped` | violation | UTF-16 copied to UTF-16 loses the trailing surrogate of a pair that is one unit too long for the buffer |

Several properties are conjunctions of statements on one subject, each defined
and explained by itself where the conjunction is: `BufferIsInput`,
`StopsAreReported`, `HandlersAreTold`, `StringsAreKept`, `TrackingIsExact`,
`RecursionIsReported`, `LoopsEnd`, `LoopsAdvance`, `TextIsXml`,
`TextIsConverted`, `CharactersAreXml`. The other modules named `MC...`
hold the constants of one component, for these runs and for the violations.

Bounds of `push_parser`: documents of up to 8 bytes in pieces of up to
2, context of 1 byte; an entity with two callbacks is long enough to
be suspended twice, an empty element gives two callbacks for one token, a token
of 4 bytes needs several pieces and one of 8 reaches beyond the largest index. With
the shortest document, an entity and a token
that is not well formed, the application also resets the parser once, at any point,
and goes on after errors (`MaxResets` and `ContinueAfterError` are given for each
document): with every document the states would be ten times as many, and what a
reset or a call after an error does depends on the fields of the parser, not on
what comes later in the document.

Bounds of `input`. Buffer: requests up to 4 bytes, an `int` of 4 value bits and an
index limit of 8, so that sliding, growing, a doubling that wraps and the index
limit all occur. Tokens: 37 sources, each the beginning of one kind of token (or
nothing) and 2 to 6 more characters from the three to eight classes that matter
there; longer texts repeat states of the tables. Encodings: the limits of every
range of code points and bytes, three bytes to detect an encoding from, room for
one to three characters, texts of up to three characters (six bytes of ASCII),
references around each number at which the answer changes, declarations of up to
six more words. Start: entities of up to three tokens and a byte order mark, a
handler that suspends or aborts in those of up to three, one position for calls
without a byte.

Bounds of `dtd`. Prolog: thirteen scenarios, one for each kind of declaration and
for the ways parameter entities and sections enter a subset, each with every
sequence of its tokens up to 5 to 12 in a declaration and one to three
declarations; groups nest twice, arrays begin with one or two elements and
`INT_MAX` is 4, so that every array grows and the limits are met. Names: five
names and four hash functions in a table of 4 slots that grows to 8 and to 16.
Pool: blocks of 2 and 4 characters, four blocks, strings of one and three.
Allocations: nine bytes of memory, headers of two bytes and an `XmlBigCount`
of at most ten, enough for four blocks, resizes that move, and requests that
overflow. Entries and blocks are interchangeable, so the first that is free is
taken (`EntriesInOrder`, `BlocksInOrder`) instead of a symmetry set, which would
not be sound with the sum of the components.

Bounds of `content`. Expansion: twelve entities and thirteen documents cover nesting
to depth 3, two uses of one entity, direct and mutual recursion, recursion through
an attribute value, an element half inside an entity, and every kind of entity.
The threshold of the accounting is 8, so that both sides of it occur, and its
counts end at 40, so that one document overflows them; one reset. Values: six
entities and nine DTDs, with internal text three deep, external text inside
external text inside internal text, entities used several times in one value,
recursion through internal text, external text and both, references before the
declaration and second declarations; the handler does any of four things with
two of the external entities. Elements: seven documents, each a set of two to
thirteen tags in any order up to five, three open at once, in calls cut anywhere between
tokens, with tag buffers of 2, a spare of 1 and versions that begin at 2, so that buffers
move, uris are extended and the versions run out.

Deadlock. The system may stop: a parser that has finished, failed or is no longer
called has no next step, so `CHECK_DEADLOCK` is off, except in `input`: requests
for buffers never leave the application without a next one (`Ends` lets the
other components stop).

Fairness. `FairSpec` of `PushParser` is weak fairness of the processors and of
returning handlers: they are straight-line code of one thread. `FeedSpec` adds
an application that keeps feeding, ends the document and resumes after a
suspension, with strong fairness because those calls are not enabled while a
call is in progress. `ContentSpec` has the same for the loops of
`EntityExpansion` (with an application that resumes) and of `EntityValue`. The
progress of scanners, converters and probes is stated without fairness, as action
properties and invariants (`LoopsAdvance`, `ProbingEnds`).

Eight of the runs are disagreements between the code and what a comment, the
reference or a test says; `PROJECT.json` quotes both sides. Other places a reader
of the code may stumble over, which the models reproduce and the properties leave
room for:

- `parserInit` (`xmlparse.c:1532`) does not set `m_parsingStatus.finalBuffer`, so
  `XML_ParserReset` leaves it as the last parse set it; nor does it reset
  `m_idAttIndex`.
- `utf16_toUtf16` (`xmltok.c:709`) looks for a surrogate only at the end of the input,
  not at the end of the output, so a pair may be divided between two buffers
  (`ChunksAreWhole` leaves that pair of encodings out, `PairsAsPairs`). When exactly
  the trailing half does not fit it is lost: the subject of `half_pair_dropped`, and
  the only case (`HalfIsLast`) in which `TextIsConverted` does not ask for the whole text.
- `initScan` decides with one byte differently if that byte is a piece of its own
  (`DetectionIsStable` names the case).
- The data in front of a `]]>` in content is reported before the error only if
  a piece ended between them; `ignoreSectionTok` steps over `]]]>`.
- `prologTok` gives `a:1` as a prefixed name.
- An attribute's enumerated type stays in `m_tempPool` if the DTD is no longer processed, and is
  then in front of the next string stored there; `ReportsAreDeclared` speaks of
  the declarations that are processed. A handler for attribute lists that is set in
  the middle of a declaration is told part of the type.
- A start tag that `storeAtts` refuses may have called the start-namespace handler;
  the end handler is not called.

## 4. Theorems

| Theorem | For all constants |
|---|---|
| `BufferSafety` | `BufferSpec` keeps `BufferIsInput`: types, `WindowIsInput` and `ContextIsKept` |
| `ParserImplementsBuffer` | every step of `PushParser` is a step of `InputBuffer` or leaves the buffer alone |
| `ParserBufferSafety` | therefore the same holds inside the parser |
| `SuspendedInput` | a suspended parser keeps `m_parseEndPtr = m_bufferEnd` |
| `BufferPinned` | nothing moves the buffer while a processor or handler runs |
| `InDocumentOrder` | callbacks come in document order, none twice and none left out, whatever the application calls and when |
| `WholeDocument` | `CallbacksAreDocument`: also, when the final call returns `XML_STATUS_OK` they are all of the document's, if no entity's text ends in `]` and no error came before |
| `ExactPositions` | `PositionsAreExact`: every byte before `m_positionPtr` is counted once, and the event of a callback is its token |
| `SuspensionReported` | a call whose handler suspends returns `XML_STATUS_SUSPENDED` or an error |
| `StopsReported` | `StopsAreReported`: the same, and an abort is reported as one, if no entity's text ends in `]` |
| `ErrorIsFinal` | `ErrorSilences`: after an error nothing is reported or consumed before a reset |
| `OpenEntities` | `open` flags, lists, depth and record count of entity expansion agree |
| `AmplificationBound` | `AmplificationIsBounded`: what handlers were given is below the threshold or within the factor of the direct bytes |
| `ScaffoldStaysInRange` | no index into connectors, open groups or nodes leaves its array |
| `ContentModels` | `ContentModelsAreScaffold`: on content models `doProlog` is `Scaffold`, so the same holds there |
| `UnreadStops` | `UnreadStopsDtd`: once `keepProcessing` is off it stays off and the DTD is as it was, but for the entry of the external subset |
| `FirstBinds` | `FirstDeclarationBinds`: `storeAtts` finds the type and the default of the first declaration processed |
| `MarksExact` | `MarksAreExact`: the open marks of a stack of parsers are those of the entities they have open, if no external entity's text refers to an internal one |
| `NamesAreFound` | every probe sequence of an entry meets only other entries before it; no name is twice in the table |
| `HashTableImplementsNames` | `HashSpec` implements `NameTable` |
| `SearchesEnd` | `ProbingEnds`: `used` counts the entries, they fill at most half of the table, and every probe sequence comes to the name or to a free slot |
| `PoolKeepsStrings` | a finished string stays where it is and what it is, and the string under construction is what was appended |
| `ExactCount` | the tracker's count is the number of bytes in live blocks, and the assertions of the allocation functions and of `parserCreate` hold |
| `Growth` | the bytes in use stay within the largest limit that was in force, or the root parser's own struct |
| `Types` | the types of the tracker's state |

`BufferSafety`: the conjunction of its three parts is inductive. `ContextIsKept`
alone is not, since sliding may only drop what `WindowIsInput` says is input.

`ParserImplementsBuffer` needs to know about the locals of a call in progress:
the length copied fits the room granted, the cursor of a processor lies between
`m_bufferPtr` and `m_bufferEnd`, and `m_parseEndPtr` is the end of the data
while a processor runs. `CallInv` states that; `BufferInv /\ CallInv` is the
inductive invariant, and the refinement is then one step per action.

`InDocumentOrder` and the theorems after it rest on `BufferInv /\ CallInv /\ LogInv`.
`LogInv` ties three things that no single step keeps together: the callbacks made,
the place of `m_bufferPtr` or of the processor's cursor in the input, and what is
left of the token or entity in progress. Between tokens the place is a boundary of
the document at which exactly the callbacks made are due (`At`); inside a token with
two callbacks, and inside an entity whose text is read by
`internalEntityProcessor`, what is left is the difference. That the bytes found at the cursor are those of the
token at that place is `WindowIsInput`, from `BufferSafety`; that tokens lie one
behind the other with their callbacks numbered through is an induction over the
document, done with the least member of a set of naturals (`LeastNatural`). The
theorem holds for every application, also one that parses on after an error.

`WholeDocument` adds `EndInv`: a call for the final piece that returned
`XML_STATUS_OK` has reached the end, unless the parser had failed before. That
exception and the hypothesis on `]` are not conveniences: `error_forgotten` and
`abort_unreported` show what happens without them.
`ExactPositions` adds `PosInv`: unless the parser has failed, `m_positionPtr` is null or lies
between the place up to which lines were counted and the event, so neither a move of the
buffer nor a new call counts a byte twice. `ErrorIsFinal` adds `SilenceInv`: once
a processor has returned an error, `m_processor` is `errorProcessor`, and although
a later call may forget `m_errorCode` no call sets `m_processor` again.

`OpenEntities`: the invariant is `OpenIsTracked` with the types of the lists.
The argument is about lists of distinct entities; opening puts an entity that
is not open in front of one list (`RefError` excludes the others), closing
takes the head off, and everything else leaves the lists alone. Nothing about
the texts is needed.

`AmplificationBound`: that the output is within what was counted is not
inductive, since a start tag is counted with its attribute value before the value is normalised and
reported only after. `Pending` is what a tag in progress may still report without
more being counted, its own end and the rest of the value's text, and `BudgetInv`
says that the size of the output and `Pending` are together at most the bytes
counted; each step that reports either counts at least as much or takes it from `Pending`.
The size is the cardinality of the set of pieces, so that the lemmas on
finite sets say how it grows. `Shape` gives the types this needs. That the
sum counted is tolerated is what `accountingDiffTolerated` leaves true when
it does not fail.

`ScaffoldStaysInRange`: that an access is in range depends on what the grammar
lets come when. `GrammarOK` relates `dtd->in_eldecl`, the state of the grammar,
its `level` and `dtd->scaffLevel`; `ConnectorsOK` says that the connectors reach
to the level, `ScaffoldOK` that counts fit their arrays and that links between
nodes point at nodes.

`ContentModels`, `UnreadStops`, `FirstBinds` are about every scenario: any set of
tokens, handlers installed, taken out and put back at any time, errors, internal
and external parameter entities to any depth. They share `ModelInv`, which says
which states `xmlrole.c` can be in; the step from it is a fact about the rows of
every state function (`RowOK`: the roles of content models come from `element0` to
`element7` only, with the states and levels that go with them), proved table by table.
`ContentModels` is then one case per role: a role of a content model is an action of
`Scaffold`, any other one leaves the model alone, and `phase` follows the handler
of the grammar. `UnreadStops` adds `DtdInv`: only a document that is not standalone
stops processing its DTD, and the XML declaration, which may make it standalone, comes
before anything that could stop it; without that `keepProcessing` might come
back on. `FirstBinds` adds `FirstInv`: the list of an element holds entries of declared
attributes only (`ListsOK`), so an attribute that is not on the list is declared for the
first time and its entry goes behind those of others; an attribute that is on the list
gets another entry only without a default.

`MarksExact`: that the marks are exact does not survive the closing of an entity
unless no other parser has the same one open. `ValueInv` adds that: the entities on
the list of a parser are internal and differ, every parser but the outer one has an
empty list and reads the text of an external entity, and the entities parsers wait
for are external and differ; so a mark belongs to one place. `RECURSIVE_ENTITY_REF`
keeps it so when an entity is opened. Its hypothesis is the one under which
an inner parser opens nothing: such a parser passes no `nextPtr`, so
`storeEntityValue` puts the entity on its list, returns, and the parser is freed
with the mark set.

`NamesAreFound`, `HashTableImplementsNames`: a name that is in the table can be
missed only if its probe sequence meets a free slot before it. `Placed` says it
does not; while the table grows the same holds of the array that is being filled
(`Growing`), and together they cover all names. The proof uses nothing about
`PROBE_STEP`: an entry goes where its own sequence first finds room, and no slot is freed
except all of them.

`SearchesEnd`: that a sequence comes to a free slot is number theory and counting.
An odd step is invertible modulo a power of two, by induction on the power, so the
first `size` probes are different slots, and by the pigeonhole principle all of
them; `CountInv` says that `used` is the number of occupied slots and at most half of
the size, with room for one more where an entry is about to go in, and that the array
being filled has one entry for each that was passed in the old one. The
first size is one of the powers of two from 4 to 64 (`HashAssumption`; it is 64 in the
code); growth doubles it without a bound.

`PoolKeepsStrings`: `PoolInv` says that the two lists of
blocks are disjoint and without repetition, that start, ptr and end lie in the
first block in this order, and that a finished string lies in an allocated block
and, if in the first one, before the string under construction. Reallocation of
the first block keeps finished strings because it happens only if the string
begins the block, and then none is in it.

`ExactCount`, `Growth`: that the count covers a block is not
inductive by itself, since freeing one block could take from the count of
another. `IInv` says that blocks are disjoint intervals of memory and that the
count is the cardinality of their union; `HeapAdds` and `HeapRemoves` say how
that cardinality changes with a block, and a resize is one after the other. The
count never wraps because memory is no larger than a count.

The assumptions are those named in the modules (`BufferAssumption`,
`DocsAssumption`, `ExpansionAssumption`, `HashAssumption`, `PoolAssumption`,
`AllocAssumption`, `ValueAssumption`, and `PrologAssumption`, which contains
`ScaffoldAssumption` and says that the names in a document have a length);
TLC evaluates them in the runs.

Only model-checked: liveness (`ParseCompletes`, `LoopsEnd`), which the proof system does not reach; whatever is
compared with a recursive or grammatical reference (`OutputIsExpansion`,
`AccountedOnce`, `ValueIsExpansion`, the properties of tokens, encodings,
declarations and names), since a proof would have to know what a recursive definition
computes for every argument, and the theorems on recursive functions take an
operator as a parameter, which the provers cannot instantiate (induction over the
naturals itself is at hand, through least members); and the invariants of
`Elements`, `EntityStart` and the streams of tokens and encodings.

## 5. Not modelled

- Failed allocations in `Prolog`, `Elements`, `EntityStart` and `dtdCopy`; they are modelled
  in the driver, in entity expansion, in entity values, in the scaffold, in pools and tables. Stops
  inside `doProlog` are left to `PushParser` and `EntityStart`.
- A parser for an external entity that outlives its parent, and its accounting as
  part of the family's.
- CDATA sections in `Elements` (their tokens are in `TokenStream`), character
  data with its chunks (in `EncodingStream` as conversions only), white space rules
  of attribute values.
- `predefinedEntityName`, `sameName`, `nameMatchesAscii`; trailing odd bytes of a
  two-byte encoding; name characters of unknown encodings.
- The iterators of hash tables, `hashTableDestroy`, `poolDestroy`. `dtdCopy` enters
  keys of `defaultAttsNames` that point into the old pool (`xmlparse.c:7747`); names in
  `Elements` are atoms, so the model cannot tell.
- Setters and getters of one field, `XML_GetErrorString`, the feature list, debug output.
- Hash functions and their salts, the sources of randomness.
- Generated tables of names and characters (a class is part of the input).
- `xmlwf`, examples, fuzzers, tests.
- Builds with `XML_CONTEXT_BYTES == 0`, without `XML_DTD`, `XML_NS` or `XML_GE`, and
  with `XML_UNICODE`.
