SPECIFICATION Spec
CONSTANTS
    Procs = {p1, p2}
    Blobs = {a}
    Torn = Torn
    Garbage = Garbage
    None = None
    MaxCaptures = 2
    MaxKills = 0
    MaxPowerLosses = 0
    MaxTornRefs = 1
SYMMETRY Symmetry
CONSTRAINT OnlyCount
CHECK_DEADLOCK FALSE
INVARIANT NotRefused
