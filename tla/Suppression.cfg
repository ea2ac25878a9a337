SPECIFICATION Spec
CONSTANTS
    Firings = {f1, f2, c1, c2}
    Critical = {c1, c2}
    Window = 2
    MaxDuration = 3
    Horizon = 5
    Faults = {"es", "crash"}
SYMMETRY Interchangeable
\* Every firing happens once and the clock stops at the horizon.
CHECK_DEADLOCK FALSE
INVARIANTS
    SilenceIsEarned
    CriticalIsHeard
