SPECIFICATION Spec
CONSTANTS
  c1 = c1
  k1 = k1
  k2 = k2
  m1 = m1
  m2 = m2
  r1 = r1
  r2 = r2
  NoKey = NoKey
  NoModel = NoModel
  Callers = {c1}
  Keys = {k1, k2}
  Owner <- OneOwner
  Models = {m1}
  ReservationIDs = {r1, r2}
  Requests <- UnitRequests
  Usages <- UnitUsages
  Policies <- RotationPolicies
  CalendarLength <- ShortCalendar
  StaleTimeout = 0
  ResetScopes <- NoScopes
  FirstTime = 11
  LastTime = 12
SYMMETRY ReservationSymmetry
PROPERTIES
  ImplementsHolds
  RevokedIsFinal
  SlotsOnlyGrowWithinLimit
