SPECIFICATION Spec
CONSTANTS
    Copies = {c1, c2, c3}
    Window = 2
    Restarts = 1
    Horizon = 6
SYMMETRY Interchangeable
\* The clock stops at the horizon.
CHECK_DEADLOCK FALSE
INVARIANTS
    SecondNeedsDelay
    ReplaysAreReplays
