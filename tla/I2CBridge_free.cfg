\* A caller and suspend meet at any point, fairly scheduled; late page writes arrive.
SPECIFICATION FairSpec
CONSTANTS
    Callers = {c1}
    c1 = c1
    PM = pm
    NONE = none
    NumCodecs = 1
    Pages = {16, 17}
    ResetPage = 0
    SuspendWaits = FALSE
    LateWrites = TRUE
INVARIANTS
    TypeOK
    ClockWhileTransferring
    ClockWillStop
PROPERTIES
    AccessEnds
    SuspendEnds
