CONSTANTS
  Backends = {"memory", "sqlite", "postgres"}
  Task = {t1, t2}
  Key = {k1, k2}
  Client = {c1, c2}
  MaxRevision = 3
  MaxTime = 1
  TaskTtl = 0
  EventTtl = 0
  Batch = 1
  Limit = 2
  NoRow = NoRow
  NoTask = NoTask
  t1 = t1 t2 = t2 k1 = k1 k2 = k2 c1 = c1 c2 = c2
  Requests <- CollidingRequests
SPECIFICATION Spec
SYMMETRY ClientSymmetry
INVARIANTS
  TypeOK
  SqlHandsOwnRow
  
PROPERTY
  ContractSpec
