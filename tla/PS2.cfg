CONSTANTS
  Keys = {30, 48}
  Deltas = {0, 5, 120}
  MaxKeys = 2
  MaxMoves = 2
  Config = {69, 71, 85, 97, 117}
  Quiet = TRUE
SPECIFICATION Spec
INVARIANTS TypeOK PortsOn KeysInOrder
PROPERTIES BytesToOwner KeysArrive PacketsAligned
CHECK_DEADLOCK FALSE
