CONSTANTS
  Users = {u1, u2}
  Teams = {t1, s1}
  SystemTeams = {s1}
  NoUser = nobody
  NoTeam = noteam
  Gone = gone
  Reqs = {r1, r2}
  Limit = 1
  MaxSteps = 1
  MaxRequests = 3
  Kinds = {"joinTeam", "leaveTeam", "dissolve", "updateStats", "joinActivity", "queryTeams"}
  Disturbances = {"overlap", "stop", "redis"}
  Mixed = FALSE
SYMMETRY Symmetry
CHECK_DEADLOCK FALSE
SPECIFICATION Spec
INVARIANTS TypeOK OneTeam LimitKept RankIsMembers StepsAddUp DissolvedIsClean LeaderIsMember
