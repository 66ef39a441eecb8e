SPECIFICATION Spec
CONSTANTS
    Nodes = {n1}
    Declared = {n1}
    Bundles = {good}
    Sufficient = {good}
    WaitWithin = 1
    ClearanceWithin = 1
    Drives = {d1}
    Callers = {p1}
    Ticker = tick
    Sweepers = {tick, operator}
    MaxEvents = 4
    MaxTime = 2
    MaxQuiet = 1
INVARIANT OneExceptionPerEpisode
CHECK_DEADLOCK FALSE
