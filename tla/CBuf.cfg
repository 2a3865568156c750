SPECIFICATION Spec
CONSTANTS
  f1 = f1
  f2 = f2
  o1 = o1
  x1 = x1
  k1 = k1
  k2 = k2
  p1 = p1
  p2 = p2
  p3 = p3
  p4 = p4
  v1 = v1
  v2 = v2
  Field = {f1, f2}
  Owned = {o1}
  Boxed = {x1}
  Call = {k1, k2}
  Block = {p1, p2, p3, p4}
  Null = Null
  Dangling = Dangling
  None = None
  Val = {v1, v2}
  UsizeMax = 65535
  IsizeMax = 32767
  LenType <- MCLenType
  Size = 8000
  MaxLen = 3
SYMMETRY Symmetry
INVARIANTS
  TypeOK
  Initialised
  BlocksOwnedOnce
  NoFault
PROPERTIES
  CloneExact
