SPECIFICATION FiguresSpec
CONSTANTS
  Rows = {1, 2}
  RowStates <- SixRowStates
  Urls <- SixUrls
  Today = 4
  RecentDays = 1
  DetailLimit = 1
  MaxMoves = 2
  Installments = {1, 2}
  AnswersOf <- EachTruth
  Loops = {w1, w2}
  Order <- TwoBatches
  MaxCycles = 2
  MaxFigureRequests = 0
  CampaignOf <- OneCampaign
  Receipt <- PixAndSlip
  Typings <- WithAndWithoutType
  Links = {l1, l2}
  Batches = {"b1"}
  BatchOf <- OneBatch
  MemberOf <- OneMember
  Runs = {r1}
  FreeRuns = {}
  MaxJobs = 1
  MaxAttempts = 2
  CfgAttempts = 2
  StaleLimit = 3
  ClaimLimit = 2
  ErpOutcomes = {"unpaid", "paid"}
  Requests = {}
  MaxRequests = 0
  MaxCrashes = 0
  NoLink = NoLink
  NoRun = NoRun
  NoBatch = NoBatch
  Gone = Gone
INVARIANT MoneyIsCanonical
CHECK_DEADLOCK FALSE
