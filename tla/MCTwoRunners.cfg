SPECIFICATION Spec
CONSTANTS
    Program <- MCProgram
    Keys <- MCKeys
    Ref <- MCRef
    Modulus = 3
    RamWords = 1
    FbWords = 1
    PalWords = 1
    Ipms = 4
    LastIcount = 4
    HWM = 2
    CheckpointInterval = 5
    r1 = r1
    r2 = r2
    Ks = {2}
    Targets = {4}
    RamBase = 8
    RamHashInterval = 10
    RetentionN = 4
    StopAtFrame = 5
    MaxStarts = 2
    MaxCrashes = 0
    MaxBatches = 10
INVARIANT NoBatchLost
CHECK_DEADLOCK FALSE
