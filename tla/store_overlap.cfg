SPECIFICATION FairSpec
INVARIANT DistinctPaths
INVARIANT VerdictSound
PROPERTY RetirementEnds
PROPERTY ExpiredLeavesTrash
CONSTANTS
    s1 = s1
    s2 = s2
    s3 = s3
    s4 = s4
    Evidence = {s1, s2, s3, s4}
    Stock <- Twins
    StartClock = 1
    Captures = {c1}
    Pruners = {p1}
    Keep = 1
    MaxBytes = NoLimit
    Size <- AlikeSize
    AutoKeep = 1
    Grace = 1
    MaxTries = 2
    MaxSuffix = 3
    MaxClock = 3
    MoveFails = FALSE
    StampFails = FALSE
    Restores = FALSE
    Crashes = FALSE
    NoName = NoName
    NoDir = NoDir
    NoLimit = NoLimit
