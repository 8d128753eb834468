SPECIFICATION Spec
CONSTANTS
    Program <- MCProgram
    Keys <- MCKeys
    Ref <- MCRef
    Modulus = 5
    RamWords = 2
    FbWords = 1
    PalWords = 1
    Ipms = 4
    LastIcount = 28
    HWM = 2
    CheckpointInterval = 13
    Me = me
    Ks = {4, 9}
    Targets = {28}
    RamBase = 8
    RamHashInterval = 39
    RetentionN = 2
    StopAtFrame = 2
    MaxStarts = 3
    MaxCrashes = 2
    MaxBatches = 10
CHECK_DEADLOCK FALSE
INVARIANT EveryBoundaryComparedOnce
