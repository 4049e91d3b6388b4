SPECIFICATION Spec
CONSTANTS
  main = main
  free = free
  Main = main
  NoWorker = NoWorker
  Gone = Gone
  FreeWorkers = {}
  LastBatch = 1
  MaxRuns = 1
  MaxJobs = 1
  Requests = {"full sync", "cancel"}
  MaxRequests = 2
  MaxCrashes = 0
INVARIANT EndedWavesAreSilent
