CONSTANTS
  Activities = {a1}
  Users = {1, 2, 3}
  DefaultOid = 0
  Workers = {w1}
  NoActivity = none
  PageSize = 1
  MaxTotal = 1
  MaxLosses = 1
CHECK_DEADLOCK FALSE
SPECIFICATION Spec
INVARIANTS FetchIsComplete
