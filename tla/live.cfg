SPECIFICATION Spec
CONSTANTS
    MaxUtc = 3
    Depths = {1, 2}
    MaxFailures = 2
    MaxClicks = 2
    Count = 3
    MaxBytes = 2
    None = None
INVARIANT HistoryInOrder
INVARIANT MonitorAccounts
PROPERTY PanelRecovers
CHECK_DEADLOCK FALSE
