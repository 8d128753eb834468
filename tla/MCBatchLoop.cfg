SPECIFICATION FairSpec
CONSTANTS
    Program <- MCProgram
    Keys <- MCKeys
    Ref <- MCRef
    Modulus = 5
    RamWords = 2
    FbWords = 1
    PalWords = 1
    Ipms = 4
    LastIcount = 28
    HWM = 2
    CheckpointInterval = 5
    Me = me
    Ks = {5, 9}
    Targets = {21, 28}
    RamBase = 8
    RamHashInterval = 10
    RetentionN = 2
    StopAtFrame = 2
    MaxStarts = 3
    MaxCrashes = 2
    MaxBatches = 10
INVARIANTS
    TypeOK
    Recoverable
    CommittedRowsMatchReference
    DerivedTablesCurrent
    RamStaysDense
    FramesOutComplete
    NamedRowIsRetained
    RunEndsClean
PROPERTIES
    ImplementsAtomicCommit
    EveryRunEnds
CHECK_DEADLOCK FALSE
