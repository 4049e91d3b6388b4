SPECIFICATION Spec
CONSTANTS
  main = main
  free = free
  Main = main
  NoWorker = NoWorker
  Gone = Gone
  FreeWorkers = {free}
  LastBatch = 2
  MaxRuns = 2
  MaxJobs = 2
  Requests = {"full sync", "scheduled sync", "pause", "resume", "cancel", "manual job", "interrupt",
    "manual move"}
  MaxRequests = 2
  MaxCrashes = 0
INVARIANTS
  EndedRunsAreClosed
  OneBatchInOrder
PROPERTIES
  EndsAreFinal
  ExternalJobsUntouched
