CONSTANTS
    ContextBytes = 1
    InitBufferSize = 1
    IntBits = 4
    IndexMax = 7
    MaxRequest = 3
    Docs <- EntityDocs
    MaxResets <- NoResets
    ContinueAfterError <- NoDocs
SPECIFICATION Spec
INVARIANT OkLeavesNoEntityOpen
CHECK_DEADLOCK FALSE
