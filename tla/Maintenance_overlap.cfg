SPECIFICATION Spec
CONSTANTS
  StaleAfter = 1
  MaxUploads = 2
  MaxWindows = 1
  MaxFaults = 0
  MaxCrashes = 0
INVARIANT NeverBothWorking
