CONSTANTS
    c1 = c1
    c2 = c2
    c3 = c3
    x1 = x1
    Calls <- ThreeCalls
    Outside = {x1}
    Titles <- MCTitles
    TitleOf <- MCTitleOf
    None = None
    MaxAttempts = 2
    MaxEdits = 2
    MaxCrashes = 1
    LateEdits = FALSE
    InPlaceWrites = FALSE
SPECIFICATION FairSpec
PROPERTIES
    ImplementsAtomicVault
    EveryCallSettles
CHECK_DEADLOCK FALSE
