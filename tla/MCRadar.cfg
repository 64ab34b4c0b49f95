SPECIFICATION Spec
CONSTANTS
    Universes = {1, 2, 3}
    Paths <- MCPaths
    Relevant <- MCPaths
    Trees <- MCTrees
    Patterns <- MCPatterns
    Scenarios <- MCScenarios
    EventLimit = 2
    None = None
INVARIANT Told
INVARIANT Exclusive
PROPERTY Flagged
CHECK_DEADLOCK FALSE
