SPECIFICATION Spec
CONSTANTS
  a1 = a1
  a2 = a2
  q1 = q1
  f1 = f1
  f2 = f2
  gpt = gpt
  opus = opus
  None = None
  Models = {gpt, opus}
  Claude = {opus}
  RuleIds = {1, 2}
  Files = {f1, f2}
  Offers <- BothOffered
  Callers = {a1, a2}
  Requests = {q1}
  Prices <- SmallPrices
  PriceTiers <- SmallPriceTiers
  Puts <- SmallPuts
  Tables <- SmallTables
  DefaultPrice <- Default
  Bodies <- SmallBodies
  Usages <- SmallUsages
  Services = {"", "default", "priority"}
  Bounds <- SmallBounds
  TokensPerMTok = 4
  MaxInt64 = 60
  MaxPriceTiers = 4
  DefaultOutput = 2
  MaxTokenEstimate = 10
  MaxImages = 3
INVARIANTS
  TypeOK
  UserExclusionsSurvive
  CostIsFair
PROPERTIES
  DirectoryReflectsRules
CHECK_DEADLOCK FALSE
