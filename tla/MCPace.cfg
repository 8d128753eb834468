SPECIFICATION Spec
CONSTANTS
    Period = 3
    Work = {0, 1, 2, 4, 7, 11}
    Overshoot = {0, 1, 4}
    StartTimes = {0, 5}
    MaxTics = 4
INVARIANTS
    DeadlineAhead
PROPERTY NoCatchUpBurst
CHECK_DEADLOCK FALSE
