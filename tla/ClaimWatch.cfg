SPECIFICATION WatchSpec
CONSTANTS
    Requests = {h1}
    Recoveries = {r1}
    h1 = h1
    r1 = r1
    Faults = {"es", "net", "crash"}
    MayForce = FALSE
    Horizon = 3
    Retention = 2
    MaxAge = 1
CHECK_DEADLOCK FALSE
INVARIANTS AlarmIsJustified OrphanHasCause
PROPERTIES BuriedOnlyUnseen
