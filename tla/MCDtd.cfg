CONSTANTS
    NameLen <- MCNameLen
    InitGroup = 2
    InitScaffold = 1
    IntLimit = 4
    Scenarios <- MCScenarios
    MaxOpen = 2
    MaxSections = 1
    KeySet <- MCKeys
    Entries = {1, 2, 3, 4, 5}
    NoEntry = NoEntry
    NoKey = NoKey
    Hashes <- MCHashes
    INIT_POWER = 2
    InitSize = 4
    PowerLimit = 5
    Blocks = {1, 2, 3, 4}
    Char = {"a", "b"}
    Garbage = "_"
    Strings <- MCStrings
    INIT_BLOCK_SIZE = 2
    MaxBlock = 4
    MaxFinished = 1
    Header = 2
    Struct = 1
    SizeMax = 10
    CountMax = 10
    MemSize = 9
    Thresholds = {0, 6}
    Factors = {1, 4}
    MaxDirect = 3
SPECIFICATION DtdSpec
INVARIANTS
    DeclarationsAreGrammatical
    HandlersAreTold
    FirstDeclarationBinds
    ProbingEnds
    StringsAreKept
    TrackingIsExact
    GrowthIsBounded
PROPERTIES
    DeclarationsNest
    UnreadStopsDtd
    ContentModelsAreScaffold
    LookupIsNameTable
CHECK_DEADLOCK FALSE
