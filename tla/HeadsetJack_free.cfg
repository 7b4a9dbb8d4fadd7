\* The jack and the streams move at any time.
SPECIFICATION Spec
CONSTANTS
    LoopMax = 1
    JackPatient = FALSE
INVARIANTS
    TypeOK
    ForgottenWhenUnplugged
    DetectionWatched
