SPECIFICATION FairSpec
CONSTANTS
    p1 = p1
    p2 = p2
    v1 = v1
    v2 = v2
    None = None
    Conflict = Conflict
    NumFiles = 2
    Structured = {1}
    Plans = {p1, p2}
    Restores = {r1, r2}
    Payload <- PayloadOf
    Touches <- TouchesOf
    MaxGuards = 2
    AnyRecover = FALSE
    MaxEdits = 1
    MaxFaults = 2
INVARIANTS
    TypeOK
    Recoverable
    EditsKept
    SettledContent
    RestorePossible
PROPERTIES
    RecoveryConverges
CHECK_DEADLOCK FALSE
