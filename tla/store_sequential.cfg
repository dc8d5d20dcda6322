SPECIFICATION Spec
INVARIANT IndexExact
PROPERTY NewestKept
CONSTANTS
    s1 = s1
    s2 = s2
    s3 = s3
    s4 = s4
    Evidence = {s1, s2, s3, s4}
    Stock <- TwoOld
    StartClock = 1
    Captures = {c1}
    Pruners = {}
    Keep = 1
    MaxBytes = NoLimit
    Size <- AlikeSize
    AutoKeep = 1
    Grace = 1
    MaxTries = 3
    MaxSuffix = 2
    MaxClock = 6
    MoveFails = FALSE
    StampFails = TRUE
    Restores = FALSE
    Crashes = FALSE
    NoName = NoName
    NoDir = NoDir
    NoLimit = NoLimit
CHECK_DEADLOCK FALSE
