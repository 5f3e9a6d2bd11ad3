CONSTANTS
  Builds = {"backtrace"}
  Depth = 4
  Internal = 1
  M = 256
  Stale = 77
  Stacks <- MCStacks
SPECIFICATION Spec
CHECK_DEADLOCK FALSE
INVARIANTS OnlyStackIsSeen
