SPECIFICATION Spec
CONSTANTS
  call = call
  stream = stream
  image = image
  Requests = {stream, image}
  KindOf <- OneOfEach
  Faulty = {image}
  MissingUsage = "settle_reserved"
  LastEra = 2
INVARIANTS
  TypeOK
  SlotKeptWhileRunning
  UsageIsCharged
PROPERTIES
  ImplementsHolds
  NoLaunchForGoneClient
  HoldsEnd
CHECK_DEADLOCK FALSE
