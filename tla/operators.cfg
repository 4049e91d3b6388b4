SPECIFICATION OperatorsSpec
CONSTANTS
  Items = {1, 2}
  Kinds <- LinkKinds
  Filters <- Choices
  PageSize = 1
  BatchOfLink <- TwoBatches
  MaxOthers = 1
  MaxCalls = 1
  Installments = {1}
  Tabs = {1, 2}
  MaxKeys = 2
  MaxRepeats = 1
  MaxReverts = 1
  Intervals = {1, 2}
  MaxTime = 5
  MaxChanges = 3
  m1 = m1
  m2 = m2
  i1 = i1
  i2 = i2
  clinico = clinico
  orto = orto
  Blank = Blank
  Operators = {o1, o2}
  Campaigns = {c1}
  Batches = {b1, b2}
  Names = {n1, n2}
  Types = {clinico, orto}
  Keys <- TwoKeys
  Files <- ThreeFiles
  MaxBegun = 3
  Processes = {"web", "worker"}
  Web = "web"
  Fields = {"block", "attempts"}
  Low <- OneOrMore
  High <- FiveAndThree
  Default <- Threes
  Environments <- OneEnvironment
  Rows <- ThreeRows
  Presets <- TwoProfiles
  Administrators = {1, 2}
  TTL = 2
  MaxTicks = 3
  MaxSaves = 2
INVARIANTS
  ListFollowsFilters
  OneOperationPerRequest
  BatchesAgree
  SomeoneGoesOn
  ConfigurationIsCurrent
PROPERTY CompletedStays
PROPERTY StartsAreAllowed
CHECK_DEADLOCK FALSE
