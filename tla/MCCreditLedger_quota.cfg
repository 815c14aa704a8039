SPECIFICATION Spec
CONSTANTS
  c1 = c1
  k1 = k1
  k2 = k2
  m1 = m1
  m2 = m2
  r1 = r1
  r2 = r2
  NoKey = NoKey
  NoModel = NoModel
  Callers = {c1}
  Keys = {k1}
  Owner <- OneOwner
  Models = {m1, m2}
  ReservationIDs = {r1, r2}
  Requests <- DearOrLong
  Usages <- OverrunUsages
  Policies <- QuotaPolicies
  CalendarLength <- ShortCalendar
  StaleTimeout = 0
  ResetScopes <- TotalOrDaily
  FirstTime = 11
  LastTime = 12
SYMMETRY ReservationSymmetry
INVARIANTS
  TypeOK
  HeldMatchesReservations
  SpendMatchesLedger
  LedgerMatchesReservations
PROPERTIES
  FinalizedOnce
  AdmissionWithinTotalQuota
  TokenLimitExceededOnlyByUsage
  PeriodQuotaExceededOnlyByPrice
