CONSTANTS
  Ip = {i1}
  Handle = {h1}
  Request = {r1, r2}
  Limit = 2
  Window = 2
  Threshold = 1
  BaseMs = 1
  MaxMs = 2
  IdleMs = 2
  MaxTime = 6
  MaxFails = 2
  None = None
SPECIFICATION Spec
SYMMETRY Symmetry
INVARIANTS TypeOK BurstBounded WindowsSwept
PROPERTIES BackoffHonoured
CHECK_DEADLOCK FALSE
