SPECIFICATION Spec
CONSTANTS
  ByteSize = 8
  MaxUsize = 255
  BlockSize = 2
  Tau = 2
  NbEvalsLog = 3
  Salt <- MCSalt
  ZeroSalt <- MCZeroSalt
  Xor <- MCXor
  Length <- MCLength
INVARIANTS
  KeysSeparate
  FillOrRefuse
CHECK_DEADLOCK FALSE
