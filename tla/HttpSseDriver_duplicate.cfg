\* An error after the first event, and a connection that carries it again.
CONSTANTS
  ReconnectAttempts = 2
  MaxRemote = 3
SPECIFICATION Spec
INVARIANT
  NoDuplicate
CHECK_DEADLOCK FALSE
