SPECIFICATION FairSpec
CONSTANTS
  LastDay = 3
  FirstCalendar = {1, 2, 3}
  Unknown = unknown
  MaxFaults = 2
  MaxNews = 1
INVARIANTS
  RowsMatchMetadata
  HolesExplained
  ShortOnlyIfInterrupted
PROPERTY StoresDays ServedDayArrives
CHECK_DEADLOCK FALSE
