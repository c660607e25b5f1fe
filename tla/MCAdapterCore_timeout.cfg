CONSTANTS
  t1 = t1 t2 = t2 t3 = t3
  i1 = i1 i2 = i2 i3 = i3 i4 = i4
  c1 = c1 c2 = c2 p1 = p1
  a = a b = b k1 = k1 k2 = k2 g = g h = h
  Task = {t1}
  Caller = {a, b}
  Key = {k1, k2}
  Agent = {g, h}
  Invokes = {i1}
  Cancels = {c1}
  Inputs = {}
  TaskOf <- TaskOfCalls
  CallerOf <- CallerOfCalls
  KeyOf <- KeyOfCalls
  AgentOf <- AgentOfCalls
  Unserved = {}
  AcceptsInput = {g}
  MaxConcurrent = 1
  CallerQuota = 2
  MaxTasks = 1
  MaxQueued = 1
  MaxDriverEvents = 1
  Droppable = {}
  StoreFaults = FALSE
  MaxCrashes = 0
  NoCall = NoCall
SPECIFICATION Spec
INVARIANT
  WorkerLeavesTerminal
