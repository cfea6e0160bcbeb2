SPECIFICATION Spec
CONSTANTS
  NseListed = {i1, i2}
  BseListed = {i1, i3}
  Workers = {w1, w2}
  MaxFaults = 2
INVARIANT
  RecordedIsDone
CHECK_DEADLOCK FALSE
