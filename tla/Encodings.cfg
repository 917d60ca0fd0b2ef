SPECIFICATION EncodingSpec
CONSTANTS
  SeedSize = 16
  SaltSize = 16
  DigestSize = 32
  MqN = 56
  EquationCount = 14
  Tau = 12
  NbEvalsLog = 11
  Eta = 8
  Skew <- MCSkew
INVARIANTS
  NeverPanics
  PackUndoesUnpack
  KeyReadAsWritten
  VerifierReadsSigner
CHECK_DEADLOCK FALSE
