\* Every interleaving of the two contexts.  A corrupted list stops the model.
SPECIFICATION FairSpec
CONSTANTS
    PoolSize = 2
    MaxResponses = 3
    Paced = FALSE
CHECK_DEADLOCK FALSE
INVARIANTS
    TypeOK
    BlockHasOwner
PROPERTY
    BlockEnds
