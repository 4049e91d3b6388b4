SPECIFICATION FairSpec
CONSTANTS
  main = main
  free = free
  Main = main
  NoWorker = NoWorker
  Gone = Gone
  FreeWorkers = {}
  LastBatch = 2
  MaxRuns = 1
  MaxJobs = 2
  Requests = {"full sync", "pause", "resume", "cancel", "absorb", "manual job"}
  MaxRequests = 3
  MaxCrashes = 1
INVARIANT PausedRunsAreQuiet
PROPERTIES
  RunsSettle
  StopsTake
