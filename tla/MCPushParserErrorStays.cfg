CONSTANTS
    ContextBytes = 1
    InitBufferSize = 1
    IntBits = 4
    IndexMax = 9
    MaxRequest = 3
    Docs <- AsyncDocs
    MaxResets <- NoResets
    ContinueAfterError <- AsyncDocs
SPECIFICATION Spec
INVARIANT ErrorStays
CHECK_DEADLOCK FALSE
