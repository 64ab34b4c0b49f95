\* The header of a frame is at its limit before the frame is.
CONSTANTS
    Devices = {1, 2}
    Objects <- MCObjects
    Kind <- MCKind
    Children <- MCChildren
    Size <- MCSize
    Parent <- MCParent
    Author <- MCAuthor
    MaxFrame = 6
    MaxHeader = 2
    Entry = 1
    WantLimit = 2
    Scenarios <- MCScenarios
    None = "none"
SPECIFICATION Spec
INVARIANT Exported
CHECK_DEADLOCK FALSE
