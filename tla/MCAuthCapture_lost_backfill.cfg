SPECIFICATION Spec
CONSTANTS
  r1 = r1
  r2 = r2
  a1 = a1
  a2 = a2
  c1 = c1
  m1 = m1
  m2 = m2
  None = None
  Requests = {r1}
  Auths = {a1}
  WarmupAuths = {}
  Models = {m1, m2}
  ModelOf <- OneModel
  Calls = {c1}
  Limits <- NoLimits
  FirstLimit <- NoLimit
SYMMETRY Symmetry
INVARIANTS
  RowsLearnTheirAuth
CHECK_DEADLOCK FALSE
