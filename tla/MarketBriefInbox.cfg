SPECIFICATION FairSpec
CONSTANTS
  MaxFiles = 3
  MaxDate = 1
  Qualities = {"good", "bad"}
  Stable = 1
  Grace = 2
  LastDownload = 1
  MaxTime = 4
  MaxFaults = 1
INVARIANTS
  TypeOK
  ProcessedIsSaved
  OnlyFinishedFiles
PROPERTIES
  NewestWinsUndisturbed
  JsonSettled
CHECK_DEADLOCK FALSE
