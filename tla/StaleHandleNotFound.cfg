SPECIFICATION Spec
CONSTANTS
  Half = 3
  None = None
  Box = {b1, b2}
SYMMETRY Symmetry
INVARIANTS
  StaleHandleNotFound
