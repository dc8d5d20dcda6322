SPECIFICATION Spec
PROPERTY GraceHonoured
PROPERTY ImplementsLifecycle
PROPERTY RetentionFloor
SYMMETRY Alike
CONSTANTS
    s1 = s1
    s2 = s2
    s3 = s3
    s4 = s4
    Evidence = {s1, s2, s3}
    Stock <- TwoOld
    StartClock = 1
    Captures = {c1, c2}
    Pruners = {p1}
    Keep = 1
    MaxBytes = NoLimit
    Size <- AlikeSize
    AutoKeep = 0
    Grace = 1
    MaxTries = 3
    MaxSuffix = 2
    MaxClock = 2
    MoveFails = TRUE
    StampFails = FALSE
    Restores = TRUE
    Crashes = TRUE
    NoName = NoName
    NoDir = NoDir
    NoLimit = NoLimit
