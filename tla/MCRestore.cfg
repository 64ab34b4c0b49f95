SPECIFICATION Spec
CONSTANTS
    None = None
    p1 = p1
    p2 = p2
    Procs = {p1, p2}
    NumPaths = 2
    MaxContent = 2
    Selections <- WholeOrFirst
    MaxEdits = 2
    MaxRestores = 2
    MaxFaults = 1
SYMMETRY Symmetry
CONSTRAINTS IntentKept Together
CHECK_DEADLOCK FALSE
INVARIANT NothingTorn
PROPERTY Atomic
