CONSTANTS
  MaxId = 9
  FirstTotal = 2
  LongNames <- MCLong
  ArenaSz = 4
  Depot <- MCDepot
  RunsMayFail = TRUE
  Overlong <- MCOverlong
  MaxHandles = 1
SPECIFICATION Spec
INVARIANTS
  EveryNodeFindable ToldStaysTrue ListingExact ListedTruthful EntriesMapped NeverStuck
PROPERTIES
  ListingStable ImplementsNodeMap
CHECK_DEADLOCK FALSE
