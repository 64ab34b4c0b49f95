SPECIFICATION Spec
CONSTANTS
    Procs = {p1}
    Files = {tmp}
    Expiring = {tmp}
    None = None
    Scenarios <- OneCollection
SYMMETRY Symmetry
CONSTRAINT OnlyCached
CHECK_DEADLOCK FALSE
INVARIANT HeadPinsHold
