SPECIFICATION Spec
CONSTANTS
    Inbound = {m1}
    Rows = {p1}
    Attempts = {a1, a2}
    Sessions = {s1, s2}
    None = None
    Grace = 1
    LastTime = 1
    Jobs = {"inbound", "send", "retry", "echo", "receipt", "resolve"}
    Crashes = TRUE
SYMMETRY Symmetry
INVARIANT OneSenderPerRow CountersMatch
CHECK_DEADLOCK FALSE
