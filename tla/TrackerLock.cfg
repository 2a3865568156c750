SPECIFICATION FairSpec
CONSTANTS
  Half = 3
  Thread = {t1, t2}
  Box = {b1, b2}
  None = None
  LoggerMay = {"panic", "reenter"}
  Boundary = {"abort", "catch"}
INVARIANTS
  TypeOK
  OneOwner
PROPERTIES
  ImplementsTracker
  CallsReturn
CHECK_DEADLOCK FALSE
