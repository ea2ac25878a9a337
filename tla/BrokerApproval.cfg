\* Three requests at a time, each starting as often as it likes, one action and
\* every fault.
SPECIFICATION Spec
CONSTANTS
    Handlers = {h1, h2, h3}
    Actions = {a1}
    Faults = {"job dies", "broker dies", "disk"}
INVARIANTS
    TypeOK
    ViewIsCurrent
    ResolvedIsFinal
    RowsTellTruth
PROPERTIES
    KeepsRows
    RequestsEnd
