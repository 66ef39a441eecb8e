SPECIFICATION Spec
CHECK_DEADLOCK FALSE
CONSTANTS
    o1 = o1
    o2 = o2
    d1 = d1
    d2 = d2
    NoDrive = NoDrive
    Nodes = {1, 2}
    Edges <- Chain
    Gated = {}
    MaxParallel = 2
    MaxAttempts = 3
    MaxIdentical = 1
    MaxReadySet = 2
    Drives = {d1}
    Owners = {o1, o2}
    Commands = {"pause", "cancel", "resume", "approve"}
    Delegated = {}
    Results = {"Succeeded", "RetryableFailure"}
    Preflights = {TRUE, FALSE}
    MaxCommands = 3
    MaxCrashes = 1
    MaxProposals = 0
INVARIANTS
    TypeOK
    NoCorruption
    CompletionSound
    RetryBounded
    RefusedGraphIsInert
PROPERTIES
    CommandsLinearize
    OutcomesFinal
    ResumeTriaged
SYMMETRY OwnerSymmetry
