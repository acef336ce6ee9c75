CONSTANTS
  Visitors = {v1, v2}
  Window = 3
  TicksPerHour = 2
  HoursPerDay = 2
  StatsHours = 3
  DimDays = 2
  Retention = 2
  MaxLag = 1
  MaxDown = 2
  MaxTime = 10
  MaxEvents = 3
SPECIFICATION Spec
INVARIANTS
  TypeOK
  SessionTotals
  SessionBorders
  FinalStatsExact
  FinalDimsExact
  StrayOnlyAtCutoff
CHECK_DEADLOCK FALSE
