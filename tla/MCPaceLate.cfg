SPECIFICATION Spec
CONSTANTS
    Period = 3
    Work = {0, 1, 2, 4, 7, 11}
    Overshoot = {0}
    StartTimes = {0, 5}
    MaxTics = 4
INVARIANT SlowTicCostsItself
CHECK_DEADLOCK FALSE
