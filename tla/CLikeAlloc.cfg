SPECIFICATION Spec
CONSTANTS
  s1 = s1
  s2 = s2
  a1 = a1
  a2 = a2
  p1 = p1
  p2 = p2
  Slot = {s1, s2}
  Alloc = {a1, a2}
  Addr = {p1, p2}
  Dangling = Dangling
  None = None
  Aligns = {1, 2, 4}
  MALLOC_ALIGN = 2
  MaxSize = 2
  Byte = {0}
  Junk = Junk
SYMMETRY Symmetry
INVARIANTS
  TypeOK
  BlocksServe
  BlocksOwnedOnce
  NeverMisused
PROPERTIES
  ImplementsAllocator
