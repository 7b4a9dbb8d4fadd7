\* The jack rests while something is going on; the streams do not.
SPECIFICATION FairSpec
CONSTANTS
    LoopMax = 2
    JackPatient = TRUE
INVARIANTS
    PlayRoute
    NothingLeftOn
    JackKnown
    NextEdgeWatched
    InputPathRight
PROPERTIES
    PlugReported
    Settles
