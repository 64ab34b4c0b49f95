SPECIFICATION Spec
CONSTANTS
    Procs = {p1, p2}
    Blobs = {a}
    Torn = Torn
    Garbage = Garbage
    None = None
    MaxCaptures = 2
    MaxKills = 1
    MaxPowerLosses = 0
    MaxTornRefs = 0
SYMMETRY Symmetry
CONSTRAINT OnlyKill
CHECK_DEADLOCK FALSE
INVARIANT DurableIntact
