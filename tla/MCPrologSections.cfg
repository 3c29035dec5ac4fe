SPECIFICATION PrologSpec
CONSTANTS
    NameLen <- MCNameLen
    InitGroup = 2
    InitScaffold = 1
    IntLimit = 4
    Scenarios <- SectionScenario
    MaxOpen = 2
    MaxSections = 1
INVARIANT CompleteMarkupIsAccepted
CHECK_DEADLOCK FALSE
