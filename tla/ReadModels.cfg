CONSTANTS
  TicksPerHour = 2
  HoursPerDay = 2
  Days = 2
  StatsHours = 2
  DimDays = 2
  Retentions = {0, 1, 2}
  MaxHour = 5
  MaxCount = 1
  MaxPathless = 1
  MaxDelay = 1
  MaxPasses = 1
  Sessions = {1, 2}
  Targets = {"a", "b"}
  MaxTs = 2
  MaxRows = 4
  MaxSteps = 3
SPECIFICATION Spec
INVARIANTS
  ChartAddsUp
  ChartCovers
  PageMovesForward
  FunnelCounts
CHECK_DEADLOCK FALSE
