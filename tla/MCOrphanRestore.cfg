SPECIFICATION Spec
CONSTANTS
    p1 = p1
    p2 = p2
    v1 = v1
    v2 = v2
    None = None
    Conflict = Conflict
    NumFiles = 2
    Structured = {1}
    Plans = {p1, p2}
    Restores = {r1}
    Payload <- PayloadOf
    Touches <- TouchesOf
    MaxGuards = 2
    AnyRecover = TRUE
    MaxEdits = 0
    MaxFaults = 2
INVARIANT InterruptedRefusesApply
CHECK_DEADLOCK FALSE
