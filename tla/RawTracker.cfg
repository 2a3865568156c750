SPECIFICATION Spec
CONSTANTS
  None = None
  Null = Null
  Box = {b1, b2, b3, b4}
  Addr = {a1, a2, a3, a4}
SYMMETRY Symmetry
INVARIANTS
  TypeOK
  UniqueOwner
  KeyIsAddress
  GuardsPinned
  CapacityExceededOnlyZeroSized
  ErrorKind
PROPERTIES
  ImplementsTracker
