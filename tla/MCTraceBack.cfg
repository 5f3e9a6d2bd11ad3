CONSTANTS
  Builds = {"libunwind", "setjmp", "backtrace"}
  Depth = 4
  Internal = 1
  M = 256
  Stale = 77
  Stacks <- MCStacks
SPECIFICATION Spec
CHECK_DEADLOCK FALSE
INVARIANTS TypeOK TraceIsOfStack NothingLeftOver CountIsFrames InnermostRecorded EndsAtRoot
PROPERTIES InBounds
