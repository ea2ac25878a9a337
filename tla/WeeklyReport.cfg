SPECIFICATION Spec
CONSTANTS
    Runs = {w1, w2, w3}
    Keep = 1
    Seconds = 1
    Faults = {"disk", "net", "crash"}
\* Every run ends.
CHECK_DEADLOCK FALSE
INVARIANTS NoticeIsTrue DirectoryIsBounded LossNeedsRivals
SYMMETRY Symmetric
