CONSTANTS
    ContextBytes = 1
    InitBufferSize = 1
    IntBits = 4
    IndexMax = 7
    MaxRequest = 2
    Docs <- AllDocs
    MaxResets <- ResetBad
    ContinueAfterError <- BadDocs
SPECIFICATION FeedSpec
INVARIANTS
    CallbacksAreDocument
    PositionsAreExact
PROPERTIES
    ImplementsBuffer
    BufferIsPinned
    StopsAreReported
    ErrorSilences
    ParseCompletes
CHECK_DEADLOCK FALSE
