CONSTANTS
  NumIds = 4
  NumGens = 4
  NumLens = 4
  Inline = 1
  ArenaSz = 4
  FirstTotal = 4
  NameLens = {1, 2, 3}
  MaxInserts = 8
SPECIFICATION Spec
INVARIANTS
  TypeOK NamesIntact SafeOnNewFiles ArenaExact PairsUnique
CHECK_DEADLOCK FALSE
