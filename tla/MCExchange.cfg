CONSTANTS
    Devices = {1, 2}
    Objects <- MCObjects
    Kind <- MCKind
    Children <- MCChildren
    Size <- MCSize
    Parent <- MCParent
    Author <- MCAuthor
    MaxFrame = 6
    MaxHeader = 6
    Entry = 1
    WantLimit = 2
    Scenarios <- MCScenarios
    None = "none"
SPECIFICATION Spec
CHECK_DEADLOCK FALSE
INVARIANT HeadServed
PROPERTY TakenKept
PROPERTY Taken
