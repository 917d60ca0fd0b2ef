SPECIFICATION Spec
CONSTANTS
  NbEvalsLog = 2
  Tau = 2
  Salt = {0, 1}
  Word = {0, 1}
  Zero = 0
  Xor <- MCXor
  Prg <- MCPrg
  Commit <- MCCommit
INVARIANTS
  TypeOK
  OpenedOnLine
  AcceptedIsCommitted
  HonestAccepted
  FoldingWeighsLeaves
CHECK_DEADLOCK FALSE
