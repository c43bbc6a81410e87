CONSTANTS
  u1 = u1
  u2 = u2
  Users = {u1, u2}
  Days = {1, 2}
  MinDate = 0
  Nobody = nobody
  Requests <- RequestsOfTwo
  Clients = {c1}
  SetWorkers = {w1, w2}
  RecoverWorkers = {v1}
  MaxSteps = 2
  MonthDays = 2
  DBUpdateBatch = 1
  Encodings = 1
  MaxRequests = 3
  MaxFaults = 1
  MaxMisses = 1
SYMMETRY Symmetry
CHECK_DEADLOCK FALSE
SPECIFICATION Spec
INVARIANTS TypeOK TableIsLast CacheIsCurrent
