SPECIFICATION ScreensSpec
CONSTANTS
  MaxRuns = 2
  MaxPreviews = 1
  MaxLost = 1
  StreamDies = TRUE
  MaxJobs = 2
  MaxAsked = 2
  MaxFailed = 1
  MaxDone = 1
  MaxMoves = 2
  MaxFlights = 2
  MaxRun = 2
INVARIANTS
  OneRunPerPreview
  ChangesAreOfShownRequest
PROPERTIES
  PanelsFollow
  ScreensSettle
CHECK_DEADLOCK FALSE
