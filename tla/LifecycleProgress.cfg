SPECIFICATION LifecycleFairSpec
CONSTANTS
    Requests = {h1, h2}
    Recoveries = {r1}
    Deliveries = {d1, d2}
    Faults = {"net"}
    Policies = {"protected", "autonomous", "draft"}
    MayForce = FALSE
\* Every delivery and request runs once: the system stops when all are done.
CHECK_DEADLOCK FALSE
INVARIANTS
    DraftCanBeApproved
PROPERTIES
    AlertIsDecided
    ClaimsSettle
