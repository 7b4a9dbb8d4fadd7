\* The headset is pulled out again while its plug is being handled.
SPECIFICATION FairSpec
CONSTANTS
    LoopMax = 1
    JackPatient = FALSE
PROPERTY
    UnplugInterruptFollows
