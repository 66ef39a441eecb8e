SPECIFICATION FairSpec
CONSTANTS
    Nodes = {n1}
    Declared = {n1}
    Bundles = {good, thin}
    Sufficient = {good}
    WaitWithin = 1
    ClearanceWithin = 1
    Drives = {d1}
    Callers = {p1, p2}
    Ticker = tick
    Sweepers = {tick}
    MaxEvents = 5
    MaxTime = 2
    MaxQuiet = 1
INVARIANT TypeOK
INVARIANT ClearanceSound
PROPERTY LapseRaised
CHECK_DEADLOCK FALSE
