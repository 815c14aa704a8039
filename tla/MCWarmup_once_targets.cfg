SPECIFICATION Spec
CONSTANTS
  s1 = s1
  a1 = a1
  a2 = a2
  j1 = j1
  j2 = j2
  l1 = l1
  l2 = l2
  None = None
  Schedules = {s1}
  Auths = {a1, a2}
  Jobs = {j1, j2}
  Loops = {l1}
  Once = {s1}
  Targets <- EveryTarget
  DaysOf <- FirstDayOnce
  Clock <- AtMidnight
  Jitter <- LaterForSecond
  DayLength = 2
  CatchUp = 2
  Parallel = {1}
  MaxModels = 1
  LastTime = 1
SYMMETRY Symmetry
PROPERTIES
  OnceServesEveryTarget
CHECK_DEADLOCK FALSE
