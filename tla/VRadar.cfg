SPECIFICATION Spec
CONSTANTS
    Universes = {1, 2, 3}
    Paths <- MCPaths
    Relevant <- MCPaths
    Trees <- MCTrees
    Patterns <- MCPatterns
    Scenarios <- OneScanner
    EventLimit = 2
    None = None
PROPERTY FlaggedAlways
CHECK_DEADLOCK FALSE
