\* Suspend finds the callers idle; page writes that time out are lost.
SPECIFICATION Spec
CONSTANTS
    Callers = {c1, c2}
    c1 = c1
    c2 = c2
    PM = pm
    NONE = none
    NumCodecs = 2
    Pages = {16, 17}
    ResetPage = 0
    SuspendWaits = TRUE
    LateWrites = FALSE
SYMMETRY Symmetry
INVARIANTS
    RightRegister
    TransfersAwake
    ClockOffAsleep
