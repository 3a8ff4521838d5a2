CONSTANTS
    t1 = t1
    Calls = {t1}
    Requests <- Direct
    Timeout = 1
    MaxDuration = 5
    Longest = 6
    Horizon = 7
    NaN = NaN
    None = None
SPECIFICATION ToolsSpec
INVARIANTS
    ReadOnlyChangesNothing
    AllowListIsInSync
    CappedCommandsEnd
    TimerCoversWait
PROPERTY ImplementsDeviceCall
CHECK_DEADLOCK FALSE
