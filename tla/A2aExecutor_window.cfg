CONSTANTS
  MaxEvents = 4
  Writers = 1
  Lossy = FALSE
  Cap = 4
  Limit = 4
SPECIFICATION Spec
INVARIANT
  NoLoss
