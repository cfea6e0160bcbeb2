SPECIFICATION FairSpec
CONSTANTS
  Batches = {b1, b2}
  LastDay = 3
  TradingDays = {1, 3}
  ActionDates = {2}
  WeekLength = 2
  MonthLength = 3
  MaxFaults = 1
  MaxCrashes = 1
INVARIANTS
  FreshIsComplete
  IndicatorNotAhead
  OpenFailureIsDue
  CleanCycleCatchesUp
PROPERTY StoresDays LastDayArrives
CHECK_DEADLOCK FALSE
