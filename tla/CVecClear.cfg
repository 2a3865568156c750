SPECIFICATION FairSpec
CONSTANTS
  h1 = h1
  h2 = h2
  Handle = {h1, h2}
  Tracking = {h1, h2}
  Foreign = {}
  Block = {p1, p2}
  Elem = {e1, e2, e3}
  Null = Null
  None = None
  LenMax = 4
  CapMax = 3
  MaxSliceLen = 2
  MinNonZeroCap = 2
  EmptyBlock = 1
INVARIANTS
  RefusesOnlyAtLimit
PROPERTIES
  ClearCompletes
