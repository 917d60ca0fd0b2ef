SPECIFICATION Spec
CONSTANTS
  CaseCount = 2
  Contents <- MCContents
  Decimal = {"count"}
  Text = {"sm"}
  Value = {0, 1, 2}
  Number = {0, 1}
  None = None
  Reproduces <- MCReproduces
  Mutation = {1}
  Accepts <- MCAccepts
INVARIANTS
  DroppedOnlyForIndented
  FieldsAreOwn
  WellFormedAccepted
CHECK_DEADLOCK FALSE
