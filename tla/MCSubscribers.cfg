CONSTANTS
  MaxEvents = 4
  Writers = 2
  Lossy = TRUE
  Cap = 2
  Limit = 4
  MaxFaults = 1
SPECIFICATION SubscribersSpec
INVARIANTS
  SubscribersTypeOK
  NoGapNoDuplicate
  A2aNoDuplicate
  
PROPERTIES
  StreamTerminalDelivered
  
