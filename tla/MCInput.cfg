CONSTANTS
    Sources <- MCSources
    Detections <- MCDetections
    FirstBytes <- MCFirstBytes
    DetectLen = 3
    Texts <- MCTexts
    References <- MCReferences
    Declarations <- MCDeclarations
    Characters <- MCCharacters
    Tables <- MCTables
    Entities <- MCEntities
    MaxEmpty = 1
    ContextBytes = 2
    InitBufferSize = 1
    IntBits = 4
    IndexMax = 8
    MaxRequest = 4
SPECIFICATION InputSpec
INVARIANTS
    TextIsXml
    PiecesDoNotMatter
    PositionIsPlace
    DetectionIsStable
    TextIsConverted
    CharactersAreXml
    DeclarationIsXml
    StartIsRead
    BufferIsInput
PROPERTIES
    LoopsAdvance
