SPECIFICATION Spec
CONSTANTS
    Paths = {1, 2}
    Ignored = {2}
    Scenarios <- PullingOnly
    None = None
CHECK_DEADLOCK FALSE
PROPERTY ProtectedAlways
