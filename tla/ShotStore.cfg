SPECIFICATION FairSpec
CONSTANTS
  MaxShots = 3
  MaxId = 3
  Depth = 2
  MaxOps = 2
INVARIANTS
  TypeOK
  RowsSurvive
  SamplesSurvive
  RamMatchesCard
  DeletedStaysDeleted
  IdsUnique
PROPERTIES
  DeletionsLand
