CONSTANTS
    Entities <- MCEntities
    Kind <- MCKind
    Text <- MCText
    Docs <- CountedDocs
    Factor = 4
    Threshold = 8
    CountMax = 40
    MaxResets = 1
    Names <- MCNames
    Files <- MCFiles
    Handlers <- MCHandlers
    DTDs <- MCDTDs
    Length <- MCLength
    Includes <- MCIncludes
    Documents <- MCDocuments
    INIT_TAG_BUF_SIZE = 2
    INIT_ATTS_SIZE = 1
    INIT_ATTS_VERSION = 2
    EXPAND_SPARE = 1
    MaxOpen = 3
SPECIFICATION ContentSpec
INVARIANTS
    OutputIsExpansion
    OpenIsTracked
    AccountedOnce
    AmplificationIsBounded
    ValueIsExpansion
    MarksAreExact
    UnreadStopsDeclarations
    TagsFollowScope
    MemoryIsOwned
    RecursionIsReported
PROPERTIES
    LoopsEnd
    EndTagsMatch
CHECK_DEADLOCK FALSE
