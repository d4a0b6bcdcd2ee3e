CONSTANTS
  Rows = 2
  PerSector = 1
  Names = {a, b}
  LongNames = {}
  CutName = cut
  NoName = NoName
  Values = {Text}
  Text = Text
  Pattern = Pattern
  NoData = NoData
  NoFile = NoFile
  Sizes = {1}
  Reserve = 100
  CountMod = 2
  MaxUsed = 1
  MaxCrashes = 2
  TornFormat = TRUE
  TestSectors = {5}
  Nothing = Nothing
  Unsure = Unsure
  Leftovers <- MCLeftovers
  MaxFaults = 1
SYMMETRY Symmetry
SPECIFICATION ShellSpec
INVARIANTS ShellTypeOK ToldOnDisk CatShows LsLists
CHECK_DEADLOCK FALSE
