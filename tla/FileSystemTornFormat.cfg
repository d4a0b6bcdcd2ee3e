CONSTANTS
  Rows = 2
  PerSector = 1
  Names = {"a", "b"}
  LongNames = {}
  CutName = "cut"
  NoName = ""
  Values = {v1, v2}
  Pattern = Pattern
  NoData = NoData
  NoFile = NoFile
  Sizes = {0, 1}
  Reserve = 100
  CountMod = 8
  MaxUsed = 3
  MaxCrashes = 1
  TornFormat = TRUE
  TestSectors = {7}
SPECIFICATION Spec
INVARIANT ExtentsDisjoint
CHECK_DEADLOCK FALSE
