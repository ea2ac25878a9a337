SPECIFICATION Spec
CONSTANTS
    Routers = {r1, r2}
    Faults = {"net", "disk"}
SYMMETRY Interchangeable
\* The call is over when the agent and every session are done.
CHECK_DEADLOCK FALSE
INVARIANTS
    CountsAreHonest
    UnknownHasReason
    FailedUnlessMisled
PROPERTY ImplementsContract
