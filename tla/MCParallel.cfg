SPECIFICATION FairSpec
CHECK_DEADLOCK FALSE
CONSTANTS
    o1 = o1
    o2 = o2
    d1 = d1
    d2 = d2
    NoDrive = NoDrive
    Nodes = {1, 2, 3}
    Edges <- NoEdges
    Gated = {}
    MaxParallel = 2
    MaxAttempts = 2
    MaxIdentical = 1
    MaxReadySet = 3
    Drives = {d1}
    Owners = {o1}
    Commands = {"pause", "stop", "resume"}
    Delegated = {}
    Results = {"Succeeded", "RetryableFailure"}
    Preflights = {TRUE}
    MaxCommands = 2
    MaxCrashes = 0
    MaxProposals = 0
INVARIANTS
    ParallelBound
    PauseResidue
PROPERTIES
    DriveReturns
