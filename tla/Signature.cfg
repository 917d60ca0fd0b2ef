SPECIFICATION Spec
CONSTANTS
  Tau = 2
  EquationCount = 2
  MaxNonce = 1
  Index = {0, 2}
  Component = {0}
  Elem <- MCElem
  Zero = 0
  Plus <- MCPlus
  Times <- MCTimes
  Point <- MCPoint
  Vec <- MCVec
  VPlus <- MCVPlus
  VTimes <- MCVTimes
  Secret <- MCSecret
  Seed = {0, 1}
  Form <- MCForm
  Linear <- MCLinear
  Line <- MCLine
  Batching <- MCBatching
  Salt = {0, 1}
  Message = {0, 1}
INVARIANTS
  TypeOK
  FailsOnlyByLuck
  FirstNonce
  AcceptedOpensChallenge
PROPERTIES
  ContractSpec
CHECK_DEADLOCK FALSE
