CONSTANTS
    Detections <- MCDetections
    FirstBytes <- MCFirstBytes
    DetectLen = 3
    Texts <- MCPairs
    References <- MCReferences
    Declarations <- MCDeclarations
    Characters <- MCCharacters
    Tables <- MCTables
SPECIFICATION EncodingSpec
INVARIANT ConvertedIsText
CHECK_DEADLOCK FALSE
