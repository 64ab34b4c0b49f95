SPECIFICATION Spec
CONSTANTS
    Procs = {p1, p2}
    Files = {tmp}
    Expiring = {tmp}
    None = None
    Scenarios <- MCScenarios
SYMMETRY Symmetry
CONSTRAINT Unraced
CHECK_DEADLOCK FALSE
INVARIANT Rebuildable
INVARIANT RetainedReadable
INVARIANT HeadAndPinsExact
INVARIANT IntentRestorable
