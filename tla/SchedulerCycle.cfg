SPECIFICATION Spec
CONSTANTS
  DayLength = 6
  Close = 1
  Open = 3
  RetryInterval = 1
  MaxRunTime = 1
  SessionLag = 1
  MaxDay = 3
  MaxForgotten = 1
INVARIANTS
  NotRepeated
  NotSleptThrough
  RowTruthful
  AnnouncedInTime
