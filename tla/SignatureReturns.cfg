SPECIFICATION Spec
CONSTANTS
  Tau = 1
  EquationCount = 1
  MaxNonce = 2
  Index = {0, 2}
  Component = {0}
  Elem <- MCElem
  Zero = 0
  Plus <- MCPlus
  Times <- MCTimes
  Point <- MCPoint
  Vec <- MCVec
  VPlus <- MCVPlus
  VTimes <- MCVTimes
  Secret <- MCSecret
  Seed = {0}
  Form <- MCForm
  Linear <- MCLinear
  Line <- MCLine
  Batching <- MCBatching
  Salt = {0}
  Message = {0}
PROPERTIES
  CallsReturn
CHECK_DEADLOCK FALSE
