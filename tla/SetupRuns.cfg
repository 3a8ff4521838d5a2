CONSTANTS
    a = a
    b = b
    c = c
    d1 = d1
    d2 = d2
    Runs <- ThreeRuns
    Devices = {d1, d2}
    Identities = {"core", "edge"}
    DeviceOf <- MCDeviceOf
    IdentityOf <- MCIdentityOf
    Empty = Empty
    Relocate = TRUE
    LateService = TRUE
    Crashes = TRUE
SPECIFICATION Spec
INVARIANTS
    TypeOK
    StoredPasswordsWork
    SuccessIsLasting
    NoPasswordIsOrphaned
    ResetMeansGone
CHECK_DEADLOCK FALSE
