SPECIFICATION Spec
CONSTANTS
  call = call
  stream = stream
  image = image
  Requests = {image}
  KindOf <- OneOfEach
  Faulty = {}
  MissingUsage = "settle_reserved"
  LastEra = 2
PROPERTIES
  AbandonedHoldsEnd
CHECK_DEADLOCK FALSE
