SPECIFICATION Spec
CONSTANTS
  p1 = p1
  p2 = p2
  Procs = {p1, p2}
  Capacity = 2
  Rate = 1
  Costs <- TwoCosts
  Pages = 2
  MaxVer = 2
  HttpConfigs <- SomeHttpConfigs
INVARIANTS
    TelemetryIsTrue
    OfflineReplays
    
PROPERTIES
    CallsEnd
