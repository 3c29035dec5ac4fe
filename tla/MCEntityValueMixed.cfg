CONSTANTS
    Names <- MCNames
    Files <- MixedFiles
    Handlers <- MCHandlers
    DTDs <- MixedDTDs
SPECIFICATION ValueSpec
INVARIANT ValueIsExpansion
CHECK_DEADLOCK FALSE
