CONSTANTS
  Elem = {p1, p2, p3}
  NULL = NULL
  Sizes <- MCSizes
  Key <- TraceKey
  Hash <- TraceHash
  Match <- TraceMatch
SPECIFICATION Spec
INVARIANTS TypeOK CountExact Placement LinkedOnce NewerUnmatched
PROPERTIES HandedBack
CHECK_DEADLOCK FALSE
