SPECIFICATION Spec
CONSTANTS
    Contents = {v1, v2}
    Absent = Absent
    MaxSnapshots = 5
INVARIANT BreakingMoment
CHECK_DEADLOCK FALSE
