SPECIFICATION Spec
CONSTANTS
    Procs = {p1, p2}
    Blobs = {a}
    Torn = Torn
    Garbage = Garbage
    None = None
    MaxCaptures = 2
    MaxKills = 0
    MaxPowerLosses = 1
    MaxTornRefs = 0
SYMMETRY Symmetry
CONSTRAINT OnlyPublish
CHECK_DEADLOCK FALSE
INVARIANT DurableIntact
