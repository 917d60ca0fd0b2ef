SPECIFICATION Spec
CONSTANTS
  MqN = 3
  EquationCount = 1
  Gf256 = {0, 1, 2, 3}
  Zero256 = 0
  Add256 <- MCAdd
  Mul256 <- MCMul
  Residue = 2
  Gf16 = {0, 1, 2, 3}
  Embed <- MCEmbed
  Stream <- MCStream
  Secret <- MCSecret
  Mask <- MCMask
  Point <- MCPoint
INVARIANTS
  NeverPanics
  LoopsAreForms
  VerifierAgrees
CHECK_DEADLOCK FALSE
