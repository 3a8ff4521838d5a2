CONSTANTS
    r1 = r1
    r2 = r2
    h1 = h1
    h2 = h2
    Ids = {r1, r2}
    Hosts = {h1, h2}
    Absent = Absent
    All = All
    MaxIds = 3
    MaxEdits = 2
SPECIFICATION FairSpec
INVARIANTS
    EveryIdAnswered
    DataFromOwnDevice
    AnswersMatchDevices
PROPERTY
    EveryCallReturns
CHECK_DEADLOCK FALSE
