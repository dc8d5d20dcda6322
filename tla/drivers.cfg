SPECIFICATION Spec
CONSTANTS
    Entries = 2
    MaxInterrupts = 2
    Tiers = 1
    None = None
    Ladder = Ladder
    Up = Up
    Traceback = Traceback
INVARIANT InterruptsHandled
PROPERTY WorkloadAttributed
PROPERTY MatrixEnds
CHECK_DEADLOCK FALSE
