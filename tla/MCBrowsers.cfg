CONSTANTS
  p1 = p1
  p2 = p2
  map1 = map1
  tak1 = tak1
  Uids = {"u"}
  Handlers = {map1, tak1}
  Kind <- MCKind
  Writers = {p1, p2}
  Cap = 1
  MaxOps = 3
  MaxReads = 2
SPECIFICATION MCSpec
INVARIANTS
  StopIsClean
  MapIsTrue
PROPERTIES
  NobodyWaits
\* Pages are closed, and the bounds end the changes.
CHECK_DEADLOCK FALSE
