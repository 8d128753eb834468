SPECIFICATION Spec
CONSTANTS
    Lookahead = 2
    MeltFrames = 2
    LastTic = 12
    Endings = {"DemoEnded"}
    StopAtFrame = 8
    MayClose = FALSE
INVARIANT WithinLookahead
CHECK_DEADLOCK FALSE
