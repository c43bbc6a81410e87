CONSTANTS
  Instances = {i1, i2}
  Companies = {c1, c2}
  NoCompany = none
  NoInstance = nobody
  MaxDay = 3
  MaxRecords = 2
  MaxStops = 1
  Disturbances = {"late", "midnight", "redis"}
SYMMETRY Symmetry
CHECK_DEADLOCK FALSE
SPECIFICATION Spec
INVARIANTS TypeOK SnapshotIsComplete ExactRank
