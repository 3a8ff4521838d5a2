CONSTANTS
    a = a
    b = b
    d1 = d1
    d2 = d2
    x1 = x1
    Runs = {a, b}
    Devices = {d1, d2}
    Identities = {"core"}
    DeviceOf <- MCDeviceOf
    IdentityOf <- MCIdentityOf
    Empty = Empty
    Relocate = TRUE
    LateService = TRUE
    Crashes = TRUE
    Outside = {x1}
    OutsideTitle <- MCOutsideTitle
    None = None
    MaxAttempts = 2
    MaxEdits = 2
    MaxCrashes = 1
    LateEdits = TRUE
    InPlaceWrites = FALSE
SPECIFICATION FairSpec
PROPERTIES
    ImplementsSetup
    EverySetupEnds
CHECK_DEADLOCK FALSE
