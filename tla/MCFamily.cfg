CONSTANTS
    Forks = {1, 2}
    Names = {"f", "g"}
    Paths = {"p", "q"}
    Contents = {0, 1}
    Keys <- Key
    Scenarios <- All
    MaxCoordFiles = 1
    None = None
SPECIFICATION Spec
INVARIANT ForkedExactly
INVARIANT Coordinated
INVARIANT Openable
INVARIANT BaseHeld
CHECK_DEADLOCK FALSE
PROPERTY OwnRemoval
