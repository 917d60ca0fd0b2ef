SPECIFICATION Spec
CONSTANTS
  CaseCount = 2
  Contents <- MCGoodContents
  Decimal = {"count"}
  Text = {"sm"}
  Value = {0, 1, 2}
  Number = {0, 1}
  None = None
  Reproduces <- MCReproduces
  Mutation = {1}
  Accepts <- MCAccepts
INVARIANTS
  EveryCountReproduced
CHECK_DEADLOCK FALSE
