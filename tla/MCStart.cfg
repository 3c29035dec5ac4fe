SPECIFICATION StartSpec
CONSTANTS
    Entities <- MCEntities
    MaxEmpty = 1
INVARIANT DeclarationIffFirst
CHECK_DEADLOCK FALSE
