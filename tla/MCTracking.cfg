SPECIFICATION Spec
CONSTANTS
    Paths = {1, 2}
    Ignored = {2}
    Scenarios <- MCScenarios
    None = None
CHECK_DEADLOCK FALSE
INVARIANT TrackedComplete
PROPERTY ScreenedOnly
PROPERTY Protected
