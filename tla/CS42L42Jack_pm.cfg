\* The jack moves, the codec suspends and resumes, at any time.
SPECIFICATION FairSpec
CONSTANTS
    MaxResponses = 3
    SwitchAsleep = FALSE
INVARIANTS
    TypeOK
    JackRight
    JackWatched
    NeverDeaf
    AwakeOutOfReset
PROPERTY
    JackReported
