SPECIFICATION Spec
CONSTANTS
    Inbound = {m1, m2}
    Rows = {p1}
    Attempts = {a1}
    Sessions = {s1, s2}
    None = None
    Grace = 1
    LastTime = 2
    Jobs = {"inbound", "send", "echo", "resolve", "markRead"}
    Crashes = TRUE
SYMMETRY Symmetry
INVARIANT TypeOK EpisodesAreDisjoint ReplyIsWithin
CHECK_DEADLOCK FALSE
