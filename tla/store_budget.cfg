SPECIFICATION Spec
INVARIANT BudgetMet
CONSTANTS
    s1 = s1
    s2 = s2
    s3 = s3
    s4 = s4
    Evidence = {s1, s2, s3, s4}
    Stock <- FourOld
    StartClock = 3
    Captures = {}
    Pruners = {p1, p2}
    Keep = 3
    MaxBytes = 3
    Size <- OldLarge
    AutoKeep = 0
    Grace = 0
    MaxTries = 3
    MaxSuffix = 2
    MaxClock = 6
    MoveFails = FALSE
    StampFails = FALSE
    Restores = FALSE
    Crashes = FALSE
    NoName = NoName
    NoDir = NoDir
    NoLimit = NoLimit
