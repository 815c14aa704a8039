SPECIFICATION Spec
CONSTANTS
  r1 = r1
  r2 = r2
  a1 = a1
  a2 = a2
  c1 = c1
  m1 = m1
  m2 = m2
  None = None
  Requests = {r1, r2}
  Auths = {a1, a2}
  WarmupAuths = {a1}
  Models = {m1, m2}
  ModelOf <- OneModel
  Calls = {c1}
  Limits <- OneOrTwoSlots
  FirstLimit <- OneSlot
SYMMETRY Symmetry
INVARIANTS
  TypeOK
  UsageReachesFallbackRow
  RecordChargedOnce
  SlotsWithinLimit
  SlotFollowsHost
CHECK_DEADLOCK FALSE
