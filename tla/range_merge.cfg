SPECIFICATION Spec
CONSTANTS
  Moments <- AWeek
  Zones <- SomeZones
  MonthLength = 30
  StmtRanges <- AnyRange
  ViewRanges <- AnyRange
  MaxTicks = 1
  NoTime = NoTime
CHECK_DEADLOCK FALSE
INVARIANTS NoOtherDay NoDayLost PastWeeksAreWhole
