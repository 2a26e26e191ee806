SPECIFICATION Spec
CONSTANTS
  MaxNodes = 4
  MaxEdges = 4
  Searches = {}
INVARIANTS NodesAreOperations OlderFirst
CHECK_DEADLOCK FALSE
