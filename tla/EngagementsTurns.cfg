\* One or two calls a turn, up to three engagements, the process stopped once.
SPECIFICATION FairSpec
CONSTANTS
  MaxCalls = 2
  MaxEngagements = 3
  Scales <- SmallRuns
  MaxStops = 1
  Roles = {"executor", "reviewer"}
  KeepForks = 0
INVARIANTS Consistent
PROPERTIES RefinesProtocol ReportHeard
