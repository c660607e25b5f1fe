CONSTANTS
  MaxEvents = 6
  Writers = 1
  Lossy = FALSE
  Cap = 1
  Limit = 2
  MaxFaults = 0
SPECIFICATION Spec
INVARIANT
  NoGapNoDuplicate
