SPECIFICATION Spec
CONSTANTS
  Isins = {"a", "b"}
  Migrations <- MCMigrations
  Actions <- MCActions
  Histories <- MCHistories
  OneSided = {2}
  None = none
  LastDay = 6
  WeekLength = 2
  BatchSize = 1
  RsiPeriod = 2
  GapThreshold = 2
  Window = 2
  ChunkDays = 2
  MaxCycles = 2
  MaxFaults = 1
INVARIANT NoChangeAcrossGap
CHECK_DEADLOCK FALSE
