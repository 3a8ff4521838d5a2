CONSTANTS
    a = a
    b = b
    c = c
    d1 = d1
    d2 = d2
    Runs <- OneRun
    Devices = {d1, d2}
    Identities = {"core", "edge"}
    DeviceOf <- MCDeviceOf
    IdentityOf <- MCIdentityOf
    Empty = Empty
    Relocate = TRUE
    LateService = FALSE
    Crashes = FALSE
SPECIFICATION Spec
INVARIANTS
    KeepassFailureIsRerunnable
CHECK_DEADLOCK FALSE
