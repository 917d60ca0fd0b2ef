SPECIFICATION DrbgSpec
CONSTANTS
  ByteSize = 4
  Width = 3
  Request <- MCRequest
INVARIANTS
  NoCounterTwice
PROPERTY
  ContractSpec
