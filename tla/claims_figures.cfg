SPECIFICATION FiguresSpec
CONSTANTS
  Rows = {1, 2}
  RowStates <- SixRowStates
  Urls <- SixUrls
  Today = 4
  RecentDays = 1
  DetailLimit = 1
  MaxMoves = 2
  Installments = {1, 2}
  AnswersOf <- EachTruth
  Loops = {w1, w2}
  Order <- TwoBatches
  MaxCycles = 2
  MaxFigureRequests = 1
  CampaignOf <- OneCampaign
  Receipt <- PixAndSlip
  Typings <- WithAndWithoutType
  Links = {l1, l2}
  Batches = {"b1"}
  BatchOf <- OneBatch
  MemberOf <- OneMember
  Runs = {r1, r2}
  FreeRuns = {r2}
  MaxJobs = 2
  MaxAttempts = 2
  CfgAttempts = 2
  StaleLimit = 3
  ClaimLimit = 2
  ErpOutcomes = {"unpaid", "paid"}
  Requests = {"process", "reprocess errors", "recheck",
    "prepare full sync", "full sync", "pause", "resume",
    "reprocess blocked", "reprocess filtered",
    "reprocess member", "delete member", "interrupt",
    "stop request"}
  MaxRequests = 1
  MaxCrashes = 1
  NoLink = NoLink
  NoRun = NoRun
  NoBatch = NoBatch
  Gone = Gone
INVARIANTS
  FiguresAgree
  ReportAgrees
PROPERTY OwnTotalsAreTrue
PROPERTY ClaimsImplemented
CHECK_DEADLOCK FALSE
