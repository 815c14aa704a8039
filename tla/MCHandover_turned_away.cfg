SPECIFICATION Spec
CONSTANTS
  i1 = i1
  i2 = i2
  i3 = i3
  t1 = t1
  host = host
  other = other
  shell = shell
  NoOne = NoOne
  Blank = Blank
  Instances = {i1, i2}
  Tools = {}
  Processes = {host, other, shell}
  ProcessOf <- TwoHosts
  PromptOwners = TRUE
PROPERTIES
  TurnedAwayOnlyByClaim
CHECK_DEADLOCK FALSE
