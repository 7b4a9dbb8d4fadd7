\* An item zeroed while it is linked, or followed after it was zeroed.
SPECIFICATION Spec
CONSTANTS
    PoolSize = 2
    MaxResponses = 3
    Paced = FALSE
INVARIANT
    ListIntact
