CONSTANTS
  Lines = {1, 3, 4}
  Functions <- MCFunctions
  MaxNodes = 8
  M = 8
SPECIFICATION FairSpec
INVARIANTS TypeOK LinksAgree RedsApart BlackBalanced Sorted NearestIsFound InsideIsFound NonOverlapping
PROPERTIES AddReturns
CHECK_DEADLOCK FALSE
