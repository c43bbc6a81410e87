CONSTANTS
  Activities = {a1}
  Users = {1, 2}
  DefaultOid = 0
  Workers = {w1, w2}
  NoActivity = none
  PageSize = 1
  MaxTotal = 2
  MaxLosses = 2
CHECK_DEADLOCK FALSE
SPECIFICATION FairSpec
INVARIANTS TypeOK QueueIsSet ScoresWithinTotals ExactRank
PROPERTIES EventuallyRecovered
