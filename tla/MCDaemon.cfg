SPECIFICATION FairSpec
CONSTANTS
    Requests = {r1, r2}
    Stores = {s1}
    Nobody = Nobody
    MaxFailures = 2
CHECK_DEADLOCK FALSE
INVARIANT BusyNeverRuns
INVARIANT DurableAsTold
PROPERTY Answered
PROPERTY GroupDurability
PROPERTY ShutdownEnds
