SPECIFICATION Spec
CONSTANTS
    Docs = {d1, d2, d3}
    Runs = {r1, r2}
    Refreshes = 2
    MinDocs = 2
    Faults = {"es", "bulk", "crash"}
CHECK_DEADLOCK FALSE
INVARIANTS TypeOK CleanRunMeansDone GuardHolds
PROPERTIES LiveDocsSurvive DropHasCause
SYMMETRY Symmetric
