\* One driver of six. Two stdio tasks have channels of two for three lines, so that
\* one can hold up the other; a remote task outgrows the page of a poll.
CONSTANTS
  Task = {t1, t2}
  NoTask = NoTask
  StdioCap = 2
  MaxLines = 3
  ReconnectAttempts = 2
  MaxCalls = 2
  AcpPage = 2
  MaxRemote = 3
  MaxChanges = 2
  MaxProgress = 1
  Caller = {c1, c2}
  MaxSessions = 2
SPECIFICATION Spec
INVARIANTS
  StdioNothingAfterTerminal
  SseNoLoss
  A2aOneRemoteTask
  
  
  McpOneTerminal
  AnpReadyIsOneSession
PROPERTIES
  StdioPendingReleased
  SseStreamEnds
  A2aStreamEnds
  AcpExitEndsLoop
  
  
\* A task ends, and with it what its driver does.
CHECK_DEADLOCK FALSE
