CONSTANTS
  Users = {1, 2}
  Stepless = {2}
  Revocations = {{1}, {1, 2}}
  Instances = {1, 2}
  DBFetchBatch = 1
  DBUpdateBatch = 2
  ChanSize = 2
  MaxFaults = 1
CHECK_DEADLOCK FALSE
SPECIFICATION FairSpec
INVARIANTS TypeOK PartsAreDisjoint PartsAreComplete
PROPERTIES AllUpdated RevokedLeave
