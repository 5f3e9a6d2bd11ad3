CONSTANTS
  Lines = {0, 3, 4}
  Functions = {}
  MaxNodes = 4
  M = 8
SPECIFICATION Spec
INVARIANTS NonOverlapping
CHECK_DEADLOCK FALSE
