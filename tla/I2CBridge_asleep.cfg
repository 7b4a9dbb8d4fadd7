\* An access that passed the test of suspended outlives the suspend.
SPECIFICATION Spec
CONSTANTS
    Callers = {c1}
    c1 = c1
    PM = pm
    NONE = none
    NumCodecs = 1
    Pages = {16, 17}
    ResetPage = 0
    SuspendWaits = FALSE
    LateWrites = FALSE
INVARIANTS
    ClockOffAsleep
