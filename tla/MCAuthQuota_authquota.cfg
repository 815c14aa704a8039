SPECIFICATION Spec
CONSTANTS
  c1 = c1
  m1 = m1
  loop = loop
  None = None
  Credits = {c1}
  ExpiresAt <- ExpiresLate
  Manual = {m1}
  Loop = loop
  Interval = 1
  Failures = {"limited"}
  Length = 3
  Tolerance = 1
  HistoryLimit = 1
  MaxInferred = 2
  LastTime = 7
  Bounds <- SmallBounds
INVARIANTS
  TypeOK
  HistoryCoversRequests
  ExactWindowsAreReal
  CreditEventsAreTrue
PROPERTIES
  SnapshotMovesForward
CHECK_DEADLOCK FALSE
