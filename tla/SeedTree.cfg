SPECIFICATION Spec
CONSTANTS
  NbEvalsLog = 3
  Key = {0, 1, 2, 3, 5}
  Seed = {0, 1, 2, 3}
  ZeroSeed = 0
  Xor <- MCXor
  Derive <- MCDerive
INVARIANTS
  TypeOK
  LeafSumIsDelta
  OpeningMatchesTree
  UnalteredLeavesAgree
  HiddenPathUnknown
  RefusesOnlyBadIndex
  AlterationReachesLeaves
PROPERTY PresentIsFinal
CHECK_DEADLOCK FALSE
