CONSTANTS
  Lens <- MCLens
  Starts <- MCStarts
  ReadSizes <- MCReadSizes
  MaxSeeks = 2
SPECIFICATION FairSpec
INVARIANTS
  TypeOK EndIsEnd OnlyMisplacedGarbles 
PROPERTIES
  EachInOrder ReadsToEnd
CHECK_DEADLOCK FALSE
