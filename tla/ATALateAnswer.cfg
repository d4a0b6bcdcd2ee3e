CONSTANTS
  Sectors = {1, 2}
  Values = {v1, v2}
  NoData = NoData
  Polls = 2
SPECIFICATION Spec
PROPERTY TransfersOwn
