SPECIFICATION FairSpec
CONSTANTS
  l1 = l1
  l2 = l2
  r1 = r1
  r2 = r2
  b1 = b1
  NoLink = NoLink
  NoRun = NoRun
  NoBatch = NoBatch
  Gone = Gone
  Links = {l1}
  Batches = {b1}
  BatchOf <- OneLink
  MemberOf <- OnlyMember
  Runs = {r1}
  FreeRuns = {}
  MaxJobs = 2
  MaxAttempts = 2
  CfgAttempts = 2
  StaleLimit = 3
  ClaimLimit = 2
  ErpOutcomes = {"paid"}
  Requests = {"process", "reprocess member"}
  MaxRequests = 2
  MaxCrashes = 1
PROPERTY ExhaustedLinksSettle
