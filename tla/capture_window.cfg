SPECIFICATION FairSpec
INVARIANT NothingStranded
INVARIANT NoOrphans
INVARIANT DriftDeclared
INVARIANT RecordComplete
PROPERTY WindowsClose
CONSTANTS
    Plans <- AnyPlan
    Captures = {c1}
    Specs = {app, perf, bt}
    Sudo = {bt}
    Mono = {bt}
    InterruptedAt <- InWindow
    MaxInterrupts = 2
    MaxWrites = 2
    Source = Source
    NoLink = NoLink
    NoSpec = NoSpec
    NoManifest = NoManifest
CHECK_DEADLOCK FALSE
