SPECIFICATION Spec
CONSTANTS
  a = a
  b = b
  c = c
  d = d
  z = z
  old = old
  Nodes <- ChainNodes
  Edges <- ChainEdges
  Conditional = {}
  Given = {}
  Heir = {b, c}
  Primary <- ChainPrimary
  Sources <- NoSources
  Branches = {"default"}
  Placed = {}
  Place <- NoPlace
  MaxConcurrent = 0
  Slots = 0
  Timeouts = FALSE
  Attempts = 0
INVARIANTS OnlyCompleted
CHECK_DEADLOCK FALSE
