SPECIFICATION FieldsSpec
CONSTANTS
  Factor <- MCFactor
  Inverted <- MCInverted
INVARIANTS
  ProductIsRemainder
  EmbedKeepsProducts
  InverseInverts
  TowerIsQuotient
CHECK_DEADLOCK FALSE
