\* The contexts meet only between whole responses.
SPECIFICATION FairSpec
CONSTANTS
    PoolSize = 2
    MaxResponses = 5
    Paced = TRUE
INVARIANTS
    SerialBlocks
    ListIntact
    SlotsAccounted
    NothingStranded
PROPERTY
    ImplementsSerialResponses
