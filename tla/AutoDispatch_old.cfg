CONSTANTS
  Users = {1, 2}
  Stepless = {2}
  Revocations = {{1}}
  Instances = {1}
  DBFetchBatch = 1
  DBUpdateBatch = 2
  ChanSize = 1
  MaxFaults = 1
CHECK_DEADLOCK FALSE
SPECIFICATION Spec
INVARIANTS OldResultUsed
