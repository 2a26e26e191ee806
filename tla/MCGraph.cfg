SPECIFICATION GraphSpec
CONSTANTS
  MaxNodes = 3
  MaxEdges = 3
  Searches = {s}
INVARIANTS AdjacencyMirrorsEdges AlgorithmsAgree CalmSearchIsRight
PROPERTIES PathIsThere
CHECK_DEADLOCK FALSE
