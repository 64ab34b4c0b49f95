SPECIFICATION Spec
CONSTANTS
    Procs = {p1, p2}
    Blobs = {a}
    Torn = Torn
    Garbage = Garbage
    None = None
    MaxCaptures = 2
    MaxKills = 1
    MaxPowerLosses = 1
    MaxTornRefs = 1
SYMMETRY Symmetry
CONSTRAINT OneAtATimeAfterFault
CONSTRAINT Unraced
CHECK_DEADLOCK FALSE
INVARIANT FrontierPacks
INVARIANT FrontierRefs
INVARIANT DurableCapturesSurvive
INVARIANT PublishedComplete
INVARIANT OpenNeverRefused
PROPERTY PublishedStays
