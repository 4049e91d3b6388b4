SPECIFICATION Spec
CONSTANTS
  l1 = l1
  l2 = l2
  r1 = r1
  r2 = r2
  b1 = b1
  NoLink = NoLink
  NoRun = NoRun
  NoBatch = NoBatch
  Gone = Gone
  Links = {l1, l2}
  Batches = {b1}
  BatchOf <- OneBatch
  MemberOf <- OneMember
  Runs = {r1, r2}
  FreeRuns = {}
  MaxJobs = 2
  MaxAttempts = 2
  CfgAttempts = 2
  StaleLimit = 3
  ClaimLimit = 2
  ErpOutcomes = {"unpaid", "paid"}
  Requests = {"process", "reprocess errors", "recheck",
    "prepare full sync", "full sync", "pause", "resume",
    "reprocess blocked", "reprocess filtered",
    "reprocess member", "delete member", "interrupt",
    "stop request"}
  MaxRequests = 2
  MaxCrashes = 1
INVARIANTS
  ClaimsAreWhole
  LedgerAddsUp
  ConfirmedNeverFails
  ClaimsStayInScope
  OwnersKnowTheirWork
PROPERTIES
  SuccessesAreResults
  WavesCloseDrained
SYMMETRY Sym
