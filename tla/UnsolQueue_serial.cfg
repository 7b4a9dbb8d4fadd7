\* Two responses at once.
SPECIFICATION Spec
CONSTANTS
    PoolSize = 2
    MaxResponses = 3
    Paced = FALSE
INVARIANT
    SerialResponseBlocks
