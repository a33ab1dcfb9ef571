CONSTANTS
  MaxId = 7
  FirstTotal = 2
  LongNames <- MCShort
  ArenaSz = 1
  Depot <- MCFlat
  RunsMayFail = FALSE
  Overlong <- MCShort
  MaxHandles = 0
SPECIFICATION Spec
INVARIANTS
  Balanced
CHECK_DEADLOCK FALSE
