SPECIFICATION Spec
CONSTANTS
    Procs = {p1}
    Files = {tmp}
    Expiring = {tmp}
    None = None
    Scenarios <- OneCollection
SYMMETRY Symmetry
CONSTRAINT OnlySwap
CHECK_DEADLOCK FALSE
INVARIANT AllReadable
