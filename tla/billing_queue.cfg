SPECIFICATION Spec
CONSTANTS
    References = {r1, r2}
    FirstDays = {0}
    LastDay = 1
    LastTime = 2
    Period = 1
    MaxCycles = 1
    MaxAttempts = 3
    MaxChanges = 3
    Workers = {w1}
SYMMETRY Symmetry
INVARIANT TypeOK
PROPERTY NoBlindRetry
PROPERTY SettledIsNotCharged
CHECK_DEADLOCK FALSE
