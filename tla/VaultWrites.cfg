\* Three calls, two of them for the same title, every fault, two outside saves and one crash.
CONSTANTS
    c1 = c1
    c2 = c2
    c3 = c3
    x1 = x1
    Calls <- ThreeCalls
    Outside = {x1}
    Titles <- MCTitles
    TitleOf <- MCTitleOf
    None = None
    MaxAttempts = 2
    MaxEdits = 2
    MaxCrashes = 1
    LateEdits = TRUE
    InPlaceWrites = TRUE
SPECIFICATION Spec
INVARIANTS
    TypeOK
    OneWriter
    TailIsNewest
    AcknowledgedIsStored
    RejectedIsNotStored
    UniqueTitles
    EarlyEditsSurvive
    GivesUpOnlyOnContention
CHECK_DEADLOCK FALSE
