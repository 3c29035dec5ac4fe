CONSTANTS
    Entities <- MCEntities
    Kind <- MCKind
    Text <- MCText
    Docs <- RawDocs
    Factor = 4
    Threshold = 100
    CountMax = 100
    MaxResets = 0
SPECIFICATION Spec
INVARIANT AccountedOnce
CHECK_DEADLOCK FALSE
