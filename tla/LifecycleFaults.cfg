SPECIFICATION LifecycleSpec
CONSTANTS
    Requests = {h1, h2}
    Recoveries = {r1}
    Deliveries = {d1, d2}
    Faults = {"es", "net", "disk", "crash"}
    Policies = {"protected", "draft"}
    MayForce = FALSE
SYMMETRY LifecycleSymmetric
\* Every delivery and request runs once: the system stops when all are done.
CHECK_DEADLOCK FALSE
INVARIANTS
    OneContainment
    DraftIsQueued
PROPERTIES
    ImplementsContainmentOnce
