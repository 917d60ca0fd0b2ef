SPECIFICATION Spec
CONSTANTS
  Run = {r1, r2}
  Pinned = pinned
  Commit = {pinned, later}
  None = None
  Partial = Partial
  Leftover <- MCLeftover
  Library <- MCLibrary
SYMMETRY MCSymmetry
INVARIANTS
  SucceedsOnPinned
  ChecksOwnResponse
  DebrisNeverBlocks
CHECK_DEADLOCK FALSE
