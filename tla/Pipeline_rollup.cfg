SPECIFICATION Spec
CONSTANTS
  Batches = {b1}
  LastDay = 3
  TradingDays = {1, 2, 3}
  ActionDates = {2}
  WeekLength = 2
  MonthLength = 3
  MaxFaults = 1
  MaxCrashes = 0
INVARIANT RollupFollowsAdjusted
CHECK_DEADLOCK FALSE
