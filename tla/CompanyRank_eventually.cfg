CONSTANTS
  Instances = {i1, i2}
  Companies = {c1, none}
  NoCompany = none
  NoInstance = nobody
  MaxDay = 2
  MaxRecords = 2
  MaxStops = 2
  Disturbances = {"midnight", "redis"}
CHECK_DEADLOCK FALSE
SPECIFICATION FairSpec
INVARIANTS ExactRank
PROPERTIES EventuallySnapshot
