CONSTANTS
    q1 = q1
    q2 = q2
    q3 = q3
    q4 = q4
    Requests = {q1, q2, q3}
    None = None
    Modes = {"stdio", "http"}
    MaxSignals = 2
SPECIFICATION Spec
INVARIANTS
    ClosedIsForgotten
    OpenIsReachable
    ShutdownCloses
SYMMETRY Symmetry
CHECK_DEADLOCK FALSE
