CONSTANTS
  Users = {u1}
  Activities = {none, a1}
  NoActivity = none
  Reqs = {r1, r2, r3}
  Funds <- DrawnFunds
  Half = 128
  MaxDay = 3
  Disturbances = {"midnight", "evict"}
SYMMETRY Symmetry
CHECK_DEADLOCK FALSE
SPECIFICATION Spec
INVARIANTS TypeOK ExactTotals ComboIsStreak
