SPECIFICATION FairSpec
CONSTANTS
  a = a
  b = b
  c = c
  d = d
  z = z
  old = old
  Nodes <- MCNodes
  Edges <- MCEdges
  Conditional <- MCConditional
  Given = {z}
  Heir = {b, c, d}
  Primary <- MCPrimary
  Sources <- MCSources
  Branches = {old, "default"}
  Placed = {z, b}
  Place <- MCPlace
  MaxConcurrent = 1
  Slots = 2
  Timeouts = TRUE
  Attempts = 1
INVARIANTS AllAccountedFor ContextInherited
PROPERTIES FollowsTheGraph FlowEnds
CHECK_DEADLOCK FALSE
