SPECIFICATION FairSpec
CONSTANTS
  StaleAfter = 1
  MaxUploads = 2
  MaxWindows = 2
  MaxFaults = 2
  MaxCrashes = 1
INVARIANTS
  UniverseEnrichedFirst
  CursorCovered
PROPERTIES
  FlagReleased
  LocksApplication
  CycleCompletes
  UploadEnriched
