SPECIFICATION Spec
CONSTANTS
  Half = 3
  None = None
  Box = {b1, b2, b3}
SYMMETRY Symmetry
INVARIANTS
  TypeOK
  UniqueOwner
  GuardsPinned
  FreeListSound
  NoSlotLost
  ErrorKind
PROPERTIES
  CapacityExceededOnlyAtCapacity
