CONSTANTS
    s1 = s1
    t1 = t1
    t2 = t2
    Sessions = {s1}
    Sweeps = {t1, t2}
    Audiences <- ForSleeperOrNobody
    MaxContent = 2
    MaxArmings = 2
    MaxAttempts = 2
    MaxCrashes = 1
SPECIFICATION FairSpec
CHECK_DEADLOCK FALSE
INVARIANTS
    TypeOK
    Replayable
    BurnsAsCaptured
    HonestAnswers
PROPERTIES
    NotesAreRead
