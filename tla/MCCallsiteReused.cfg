CONSTANTS
  a1 = a1
  a2 = a2
  b = b
  root = root
  line1 = line1
  start = start
  unknown = unknown
  NULL = NULL
  Depth = 3
  Bits = 1
  TableSize = 2
  Addr <- MCAddr
  Src <- MCSrc
  AddrCode <- MCAddrCode
  SrcCode <- MCSrcCode
  Traces <- RootedTraces
  Lookup <- KnownRoot
  Reuse = TRUE
  Ptr = {p1}
SPECIFICATION Spec
CHECK_DEADLOCK FALSE
INVARIANTS ResolutionIsOfTrace
