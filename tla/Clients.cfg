SPECIFICATION ConSpec
CONSTANTS
  c1 = c1
  c2 = c2
  Client = {c1, c2}
  Size <- Modes
  Zoom <- Shrink
  Absent = Absent
  Broken = Broken
  Requests <- Everything
  MaxBegun = 3
  MaxFaults = 1
  MaxChanges = 1
SYMMETRY Perms
INVARIANTS InputIsOwned ButtonsComeUp PointsOnScreen SizeIsFresh TornOnlyByOverlap
CHECK_DEADLOCK FALSE
PROPERTIES MeantIsHit RecordsAreKept
