CONSTANTS
  Focuses = {"edits", "ranks"}
  Users = {u1}
  Teams = {t1}
  NoTeam = noteam
  Gone = gone
  Reqs = {r1, r2}
  Edits <- MovedPeriods
  Statuses = {"suspend"}
  Period <- FirstPeriod
  Day = 1
  MaxTime = 3
  MaxSteps = 1
  MaxRequests = 2
  MaxFails = 1
CHECK_DEADLOCK FALSE
SPECIFICATION FairSpec
INVARIANTS TypeOK ConfigsAgree StatusByClock FinalRanks
PROPERTIES EventuallyMarked
