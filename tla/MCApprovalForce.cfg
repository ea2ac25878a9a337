\* Fault-free, with an operator who forces a recovery of a claim that is not
\* stale, having established that no block landed or can still land.
SPECIFICATION Spec
CONSTANTS
    Requests = {h1, h2, h3}
    Recoveries = {r1}
    Faults = {}
    MayForce = TRUE
CHECK_DEADLOCK FALSE
INVARIANT AtMostOneDispatch
