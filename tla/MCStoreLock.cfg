SPECIFICATION FairSpec
CONSTANTS
    Handles = {h1, h2, h3}
    RootLocks = TRUE
    MaxReplaced = 1
INVARIANTS TypeOK WriterAlone SharedRootMeetsNoWriter TornRootIsEmpty
PROPERTY TurnstileMoves
