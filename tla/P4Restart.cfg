CONSTANTS
  MaxId = 6
  FirstTotal = 4
  LongNames <- MCLong
  ArenaSz = 4
  Depot <- MCFiles
  RunsMayFail = TRUE
  Overlong <- MCOverlong
  MaxHandles = 3
  MaxRestarts = 2
SPECIFICATION SpecR
INVARIANTS
  TypeOK HandlesCounted FdsOwned FdsOnOwnFile ListedTruthful StuckOnKept
CHECK_DEADLOCK FALSE
