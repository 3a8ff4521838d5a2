CONSTANTS
    q1 = q1
    q2 = q2
    q3 = q3
    q4 = q4
    Requests = {q1, q2}
    None = None
    Modes = {"http"}
    MaxSignals = 1
SPECIFICATION FairSpec
PROPERTIES
    EveryRequestEnds
    ShutdownEnds
CHECK_DEADLOCK FALSE
