SPECIFICATION Spec
CONSTANTS
    Lookahead = 3
    MeltFrames = 1
    LastTic = 6
    Endings = {"Refused"}
    StopAtFrame = 3
    MayClose = FALSE
INVARIANT StopPastLastFrameNotReported
CHECK_DEADLOCK FALSE
