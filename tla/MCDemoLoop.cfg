SPECIFICATION Spec
CONSTANTS
    Lookahead = 3
    MeltFrames = 2
    LastTic = 9
    Endings = {"Refused", "DemoEnded"}
    StopAtFrame = 5
    MayClose = TRUE
INVARIANTS
    TypeOK
    FramesReadPlayedTics
    UncreditedIsInFlight
    FeederStopIsReceived
PROPERTY BothEnd
CHECK_DEADLOCK FALSE
