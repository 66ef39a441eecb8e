SPECIFICATION Spec
CHECK_DEADLOCK FALSE
CONSTANTS
    o1 = o1
    o2 = o2
    d1 = d1
    d2 = d2
    NoDrive = NoDrive
    Nodes = {1, 2, 3}
    Edges <- Fork
    Gated = {3}
    MaxParallel = 2
    MaxAttempts = 2
    MaxIdentical = 1
    MaxReadySet = 2
    Drives = {d1}
    Owners = {o1}
    Commands = {"pause", "stop", "cancel", "resume", "approve"}
    Delegated = {2}
    Results = {"Succeeded", "TerminalFailure", "NeedsCapacity", "refused", "panicked"}
    Preflights = {TRUE}
    MaxCommands = 3
    MaxCrashes = 0
    MaxProposals = 1
INVARIANTS
    DependencyOrder
    FailureSettled
