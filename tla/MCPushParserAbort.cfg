CONSTANTS
    ContextBytes = 1
    InitBufferSize = 1
    IntBits = 4
    IndexMax = 7
    MaxRequest = 3
    Docs <- TrailingDocs
    MaxResets <- NoResets
    ContinueAfterError <- NoDocs
SPECIFICATION Spec
PROPERTY AbortIsReported
CHECK_DEADLOCK FALSE
