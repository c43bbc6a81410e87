CONSTANTS
  u1 = u1
  u2 = u2
  Users = {u1, u2}
  Days = {1, 2}
  MinDate = 0
  Nobody = nobody
  Requests <- RequestsOfTwo
  Clients = {c1, c2}
  SetWorkers = {w1}
  RecoverWorkers = {v1}
  MaxSteps = 2
  MonthDays = 2
  DBUpdateBatch = 2
  Encodings = 2
  MaxRequests = 2
  MaxFaults = 1
  MaxMisses = 1
CHECK_DEADLOCK FALSE
SPECIFICATION FairSpec
PROPERTIES EventuallyStored EventuallyReadable
