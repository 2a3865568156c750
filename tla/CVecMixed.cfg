SPECIFICATION Spec
CONSTANTS
  h1 = h1
  h2 = h2
  h3 = h3
  p1 = p1
  p2 = p2
  p3 = p3
  e1 = e1
  e2 = e2
  e3 = e3
  Handle = {h1, h2, h3}
  Tracking = {h1, h2}
  Foreign = {h2}
  Block = {p1, p2, p3}
  Elem = {e1, e2, e3}
  Null = Null
  None = None
  LenMax = 2
  CapMax = 3
  MaxSliceLen = 4
  MinNonZeroCap = 2
  EmptyBlock = 1
SYMMETRY Symmetry
INVARIANTS
  TypeOK
  LayoutsFit
