SPECIFICATION Spec
CONSTANTS
  Isins = {i1}
  LastDay = 2
  ExDates = {2}
  Ratios = {half, fifth}
  Unreadable = text
  None = none
  MaxNews = 3
  MaxFaults = 1
SYMMETRY Symmetry
INVARIANTS
  CanonicalFollowsRaw
  SuccessIsStored
  NoHoleInWindows
  RecordIsTruthful
CHECK_DEADLOCK FALSE
