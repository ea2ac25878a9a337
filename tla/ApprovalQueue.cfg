SPECIFICATION Spec
CONSTANTS
    Ids = {a1, a2}
    MaxRows = 3
    MaxRuns = 2
    Faults = {"crash", "disk"}
SYMMETRY Interchangeable
\* Threads and job stop after their last row and run.
CHECK_DEADLOCK FALSE
INVARIANTS
    
    OpenIsVisible
