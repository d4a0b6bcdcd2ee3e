CONSTANTS
  Rows = 2
  PerSector = 1
  Names = {a, b}
  LongNames = {}
  CutName = cut
  NoName = NoName
  Values = {v1, v2}
  Pattern = Pattern
  NoData = NoData
  NoFile = NoFile
  Sizes = {0, 1}
  Reserve = 100
  CountMod = 8
  MaxUsed = 3
  MaxCrashes = 2
  TornFormat = FALSE
  TestSectors = {7}
SYMMETRY Symmetry
SPECIFICATION Spec
INVARIANTS TypeOK ExtentsDisjoint FrontierAhead Durable CountDrift
PROPERTY StoreSpec
CHECK_DEADLOCK FALSE
