SPECIFICATION Spec
PROPERTY RetentionFloor
CONSTANTS
    s1 = s1
    s2 = s2
    s3 = s3
    s4 = s4
    Evidence = {s1, s2}
    Stock <- TwoOld
    StartClock = 1
    Captures = {}
    Pruners = {p1, p2}
    Keep = 1
    MaxBytes = NoLimit
    Size <- AlikeSize
    AutoKeep = 0
    Grace = 1
    MaxTries = 3
    MaxSuffix = 2
    MaxClock = 2
    MoveFails = FALSE
    StampFails = FALSE
    Restores = FALSE
    Crashes = FALSE
    NoName = NoName
    NoDir = NoDir
    NoLimit = NoLimit
