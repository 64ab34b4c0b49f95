SPECIFICATION Spec
CONSTANTS
    None = None
    Machines = {m1, m2}
    NumPaths = 2
    Transports = {"directory", "s3"}
    MaxEdits = 2
    MaxEvents = 1
ACTION_CONSTRAINT FirstEdit
CHECK_DEADLOCK FALSE
INVARIANT Complete
PROPERTY RemoteKept
PROPERTY LocalKept
PROPERTY Settles
