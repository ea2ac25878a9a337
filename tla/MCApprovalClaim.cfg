SPECIFICATION Spec
CONSTANTS
    Requests = {h1, h2, h3}
    Recoveries = {r1, r2}
    Faults = {"es", "net", "disk", "crash"}
    MayForce = FALSE
SYMMETRY Symmetric
\* Every request and recovery runs once: the system stops when all are done.
CHECK_DEADLOCK FALSE
INVARIANTS
    TypeOK
    SingleHolder
    AtMostOneDispatch
    OpenClaimIsClean
    RecordsTellTruth
PROPERTIES
    SuccessIsFinal
    ImplementsContainmentOnce
