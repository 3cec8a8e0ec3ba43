SPECIFICATION Spec
CONSTANTS
    Triggers = {m1, m2, m3}
    None = None
    Cooldown = 2
    Ttl = 1
    SendTime = 1
    LastTime = 6
SYMMETRY Symmetry
INVARIANT TypeOK RepliesAreSpaced SenderHolds MessageFollowsExecution
CHECK_DEADLOCK FALSE
