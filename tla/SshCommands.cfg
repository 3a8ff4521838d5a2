CONSTANTS
    s1 = s1
    s2 = s2
    Calls = {s1, s2}
    AcceptAll = FALSE
    CleanLoss = {s2}
SPECIFICATION FairSpec
INVARIANTS
    CallsCleanUp
    RejectedHostsStayOut
    DataIsOfTheCommand
PROPERTIES
    EveryCallSettles
    ImplementsDeviceCall
CHECK_DEADLOCK FALSE
