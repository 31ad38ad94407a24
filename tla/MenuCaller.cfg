CONSTANTS
  Attempts = 2
  Endpoint = {n0, n1}
  First = n0
  Arrives = {"ring", "up"}
  MaxKeys = 3
SPECIFICATION MenuFairSpec
CHECK_DEADLOCK FALSE
INVARIANTS NothingLeft
PROPERTIES CallerServed SessionEnds
