CONSTANTS
  a1 = a1
  a2 = a2
  b = b
  root = root
  line1 = line1
  start = start
  unknown = unknown
  NULL = NULL
  Depth = 3
  Bits = 1
  TableSize = 2
  Addr <- MCAddr
  Src <- MCSrc
  AddrCode <- MCAddrCode
  SrcCode <- MCSrcCode
  Traces <- RootedTraces
  Lookup <- KnownRoot
  Reuse = FALSE
  Ptr = {p1, p2}
SPECIFICATION Spec
CHECK_DEADLOCK FALSE
SYMMETRY Symmetry
INVARIANTS TypeOK OwnedIsLinked CachedStayInPlace ResolutionIsOfTrace RoundTrip
PROPERTIES PcSearchIsExact SrcSearchIsExact
