CONSTANTS
  Users = {u1}
  Activities = {a1}
  NoActivity = none
  Reqs = {r1, r2}
  Funds <- DrawnFunds
  Half = 128
  MaxDay = 3
  Disturbances = {"overlap", "stop", "evict", "midnight"}
SYMMETRY Symmetry
CHECK_DEADLOCK FALSE
SPECIFICATION Spec
INVARIANTS CacheIsBacked AnsweredIsRecorded TimesWithinCharges NoOvercount
PROPERTIES RefinesLedger
