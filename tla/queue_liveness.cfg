SPECIFICATION FairSpec
CONSTANTS
  l1 = l1
  l2 = l2
  r1 = r1
  r2 = r2
  b1 = b1
  NoLink = NoLink
  NoRun = NoRun
  NoBatch = NoBatch
  Gone = Gone
  Links = {l1}
  Batches = {b1}
  BatchOf <- OneLink
  MemberOf <- OnlyMember
  Runs = {r1}
  FreeRuns = {}
  MaxJobs = 2
  MaxAttempts = 2
  CfgAttempts = 2
  StaleLimit = 3
  ClaimLimit = 2
  ErpOutcomes = {"unpaid"}
  Requests = {"full sync", "reprocess member", "pause", "stop request",
    "interrupt", "resume"}
  MaxRequests = 4
  MaxCrashes = 1
INVARIANT StopSurvivesRecovery
PROPERTIES
  JobsFollowLifecycle
  ClaimsEnd
  JobsEnd
