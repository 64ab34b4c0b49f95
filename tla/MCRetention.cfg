SPECIFICATION Spec
CONSTANTS
    Hour = 2
    Day = 4
    Week = 8
    AllWindow = 2
    HourlyWindow = 4
    DailyWindow = 8
    MaxSnapshots = 3
    MaxTime = 12
    MaxSkew = 1
CHECK_DEADLOCK FALSE
INVARIANT StateReadable
INVARIANT PromisedKept
INVARIANT TimelineExact
