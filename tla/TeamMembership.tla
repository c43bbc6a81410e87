--------------------------- MODULE TeamMembership ---------------------------
(* The teams of one activity. A request to join or leave moves the user's   *)
(* steps between the ranks in Redis first, writes the member table then,    *)
(* and at last elects a leader and dissolves a team of users nobody is in.  *)
(* Meanwhile other requests do the same, and workers bring the ranks up to  *)
(* date with steps that users reported. There are no transactions.          *)
EXTENDS Integers, FiniteSets, Functions

CONSTANTS Users, Teams,
          SystemTeams,   \* Team_SYS_TEAM: default teams of the platform
          NoUser,        \* "", the leader of a team without one
          NoTeam,        \* "", the team of a request that has none
          Gone,          \* a field that is not in the Redis hash
          Reqs,          \* request goroutines and workers of the delay set
          Limit,         \* TeamMemberLimit of the activity
          MaxSteps,      \* what a user can walk (bound)
          MaxRequests,   \* requests altogether (bound)
          Kinds,         \* the kinds of requests that come
          Disturbances,  \* what goes wrong: "overlap", "stop", "redis"
          Mixed          \* whether different disturbances may follow each other (bound)

Kind == {"joinTeam", "leaveTeam", "joinActivity", "dissolve", "updateStats", "queryTeams"}

Team == [leader : Users \cup {NoUser}, status : {"normal", "dissolved"}]

ASSUME ConstantsAssumption ==
  /\ NoUser \notin Users /\ NoTeam \notin Teams /\ Gone \notin Team
  /\ Users \cap Teams = {} /\ SystemTeams \subseteq Teams
  /\ Limit \in Nat \ {0} /\ IsFiniteSet(Reqs) /\ IsFiniteSet(Users)
  /\ MaxSteps \in Nat /\ MaxRequests \in Nat
  /\ Kinds \subseteq Kind /\ Disturbances \subseteq {"overlap", "stop", "redis"} /\ Mixed \in BOOLEAN

VARIABLES
  stored,    \* the steps activitymgr has stored for him (steps.UpdateUserSteps)
  inRank,    \* the users in the step rank of the activity
  actSteps,  \* the sum of steps of the activity
  enrolled,  \* t_activity_member
  meta,      \* the teams in Redis: ACTIVITY_TEAM_META
  row,       \* the teams in the table: t_team
  teamRank,  \* the users in the step rank of each team
  teamSteps, \* the steps of each team in the team rank of the activity
  members,   \* t_team_member, the rows with f_in_team = 2
  listed,    \* the teams of each user in Redis
  pc,        \* pc[r]: where request r is
  task,      \* task[r]: what it does, for whom, in which team
  copy,      \* copy[r]: the team as r has read it
  steps,     \* steps[r]: the steps r adds or subtracts
  requests,  \* how many requests have come
  faults     \* what has disturbed each user and each team so far (history)

activityVars == <<inRank, actSteps, enrolled>>
teamVars == <<meta, row>>
rankVars == <<teamRank, teamSteps>>
memberVars == <<members, listed>>
history == <<requests, faults>>
vars == <<stored, activityVars, teamVars, rankVars, memberVars,
          pc, task, copy, steps, history>>

Fresh == [leader |-> NoUser, status |-> "normal"]
Task == [kind : Kind, user : Users \cup {NoUser}, team : Teams \cup {NoTeam}]
NoTask == [kind |-> "dissolve", user |-> NoUser, team |-> NoTeam]

Init ==
  /\ stored = [u \in Users |-> 0]
  /\ inRank = {} /\ actSteps = 0 /\ enrolled = {}
  /\ meta = [t \in Teams |-> Fresh] /\ row = [t \in Teams |-> Fresh]
  /\ teamRank = [t \in Teams |-> {}] /\ teamSteps = [t \in Teams |-> 0]
  /\ members = {} /\ listed = {}
  /\ pc = [r \in Reqs |-> "idle"]
  /\ task = [r \in Reqs |-> NoTask]
  /\ copy = [r \in Reqs |-> Fresh]
  /\ steps = [r \in Reqs |-> 0]
  /\ requests = 0
  /\ faults = [x \in Users \cup Teams |-> {}]

MembersOf(t) == {u \in Users : <<u, t>> \in members}
TeamsOf(u) == {t \in Teams : <<u, t>> \in members}
Busy == {r \in Reqs : pc[r] # "idle"}
Goto(r, label) == pc' = [pc EXCEPT ![r] = label]
Joining(r) == task[r].kind = "joinTeam"

(* The user and the team of a request, as far as it has them. *)
Touches(r) == {task[r].user, task[r].team} \cap (Users \cup Teams)
Note(who, f) ==
  faults' = [x \in Users \cup Teams |-> faults[x] \cup IF x \in who THEN {f} ELSE {}]

Unseen(F) == \A x \in Users \cup Teams : faults[x] \cap F = {}

(* A request that stopped half way, and stores that say different things. *)
Broken == {"stop", "torn"}
Strange == {"stale", "drift"}

(* Mutant: the request does not let go of its task. *)
Finish_KeepsTask(r) ==
  /\ Goto(r, "idle")
  /\ copy' = [copy EXCEPT ![r] = Fresh]
  /\ steps' = [steps EXCEPT ![r] = 0]
  /\ UNCHANGED task

(* The request is over and its goroutine free. *)
Finish(r) ==
  /\ Goto(r, "idle")
  /\ task' = [task EXCEPT ![r] = NoTask]
  /\ copy' = [copy EXCEPT ![r] = Fresh]
  /\ steps' = [steps EXCEPT ![r] = 0]

local == <<task, copy, steps>>

-----------------------------------------------------------------------------
(* Requests.                                                                *)

FirstStep(kind) ==
  CASE kind \in {"joinTeam", "leaveTeam", "queryTeams"} -> "queryTeam"
    [] kind = "joinActivity" -> "updateSteps"
    [] kind = "dissolve" -> "dissolve"
    [] kind = "updateStats" -> "findTeam"

(* Two requests of one user overlap, and so do two in one team; a team that *)
(* two users join at the same time is only crowded, and who only looks at   *)
(* the team is not counted.                                                 *)
Apart(k, l) == {k.kind, l.kind} = {"joinTeam"} \/ "queryTeams" \in {k.kind, l.kind}
Overlapped(new) ==
  UNION {({new.user} \cap {task[q].user} \cap Users)
           \cup IF Apart(new, task[q]) THEN {}
                ELSE {new.team} \cap {task[q].team} \cap Teams : q \in Busy}
Crowded(new) ==
  {t \in Teams \cap {new.team} :
     new.kind = "joinTeam" /\ \E q \in Busy : Joining(q) /\ task[q].team = t}

(* A request comes, or a worker pops the steps of a user. *)
Begin(r, new) ==
  /\ pc[r] = "idle" /\ requests < MaxRequests
  /\ Mixed \/ Unseen({"overlap"})
  /\ Overlapped(new) # {} => "overlap" \in Disturbances /\ (Mixed \/ Unseen(Strange \cup Broken))
  /\ requests' = requests + 1
  /\ faults' = [x \in Users \cup Teams |->
       faults[x] \cup (IF x \in Overlapped(new) THEN {"overlap"} ELSE {})
                 \cup (IF x \in Crowded(new) THEN {"crowd"} ELSE {})]
  /\ task' = [task EXCEPT ![r] = new]
  /\ Goto(r, FirstStep(new.kind))
  /\ UNCHANGED <<stored, activityVars, teamVars, rankVars, memberVars, copy, steps>>

(* What the requests are about: a worker only knows the user. *)
Requested ==
  {k \in Task : /\ k.kind \in Kinds
                /\ k.user = NoUser <=> k.kind \in {"dissolve", "queryTeams"}
                /\ k.team = NoTeam <=> k.kind \in {"joinActivity", "updateStats"}}

(* The request has got its answer, is refused, or fails before it has       *)
(* changed anything that others see.                                        *)
Refuse(r) ==
  /\ pc[r] \in {"queryTeam", "queryRow", "fillTeam", "answer", "checkSize", "checkLimit",
                "updateSteps", "enter", "dissolve", "findTeam"}
  /\ Finish(r)
  /\ UNCHANGED <<stored, activityVars, teamVars, rankVars, memberVars, history>>

(* A leave that has failed may have taken the user out of the rank alone.   *)
Stopped(r) == IF task[r].kind = "leaveTeam" THEN "torn" ELSE "stop"

(* It fails later or its process stops: nothing is undone. *)
Stop(r) ==
  /\ pc[r] \notin {"idle", "queryTeam", "queryRow", "fillTeam", "answer", "checkSize",
                   "checkLimit", "updateSteps", "enter", "dissolve", "findTeam"}
  /\ "stop" \in Disturbances /\ (Mixed \/ Unseen({"overlap"} \cup Strange \cup Broken))
  /\ Note(Touches(r), Stopped(r))
  /\ Finish(r)
  /\ UNCHANGED <<stored, activityVars, teamVars, rankVars, memberVars, requests>>

-----------------------------------------------------------------------------
(* JoinTeam: the checks. With automatic teams it asks for the smallest one, *)
(* which is some team in Redis.                                             *)

AfterQuery(r) == CASE task[r].kind = "joinTeam" -> "checkSize"
                   [] task[r].kind = "leaveTeam" -> "checkLimit"
                   [] task[r].kind = "updateStats" -> "oldSteps"
                   [] task[r].kind = "queryTeams" -> "answer"

QueryTeamRedis(r) ==
  LET t == task[r].team IN
  /\ pc[r] = "queryTeam" /\ meta[t] # Gone
  /\ copy' = [copy EXCEPT ![r] = meta[t]]
  /\ Goto(r, AfterQuery(r))
  /\ UNCHANGED <<stored, activityVars, teamVars, rankVars, memberVars, task, steps, history>>

(* A call to Redis about the field of a team comes back with an error.      *)
RedisFails == "redis" \in Disturbances /\ (Mixed \/ Unseen({"overlap"} \cup Broken))

(* Redis has no such team or cannot say: its row is read, whatever its      *)
(* status.                                                                  *)
QueryTeamMiss(r) ==
  /\ pc[r] = "queryTeam"
  /\ meta[task[r].team] = Gone \/ RedisFails
  /\ Goto(r, "queryRow")
  /\ UNCHANGED <<stored, activityVars, teamVars, rankVars, memberVars, local, history>>

QueryTeamDB(r) ==
  /\ pc[r] = "queryRow"
  /\ copy' = [copy EXCEPT ![r] = row[task[r].team]]
  /\ Goto(r, "fillTeam")
  /\ UNCHANGED <<stored, activityVars, teamVars, rankVars, memberVars, task, steps, history>>

(* The row that was read is put back into Redis, whatever is there by now;  *)
(* a refill that fails is only logged. It revives a team that was not in    *)
(* Redis, and is stale if Redis or by now the table has another one, which  *)
(* the request does not know.                                               *)
Refill(r) ==
  LET t == task[r].team
      fill(written) ==
        /\ meta' = [meta EXCEPT ![t] = IF written THEN copy[r] ELSE @]
        /\ IF written /\ meta[t] = Gone /\ copy[r] = row[t] THEN Note({t}, "revived")
           ELSE Note(IF copy[r] = meta[t] THEN {} ELSE {t}, "stale")
  IN fill(TRUE) \/ (RedisFails /\ fill(FALSE))

FillTeam(r) ==
  /\ pc[r] = "fillTeam"
  /\ Refill(r)
  /\ Goto(r, AfterQuery(r))
  /\ UNCHANGED <<stored, activityVars, row, rankVars, memberVars, local, requests>>

(* A user who is in a team may not join another one. *)
GetTeamMemberSize(r) ==
  /\ pc[r] = "checkSize" /\ TeamsOf(task[r].user) = {}
  /\ Goto(r, "checkLimit")
  /\ UNCHANGED <<stored, activityVars, teamVars, rankVars, memberVars, local, history>>

(* Mutant: a team of the limit's size takes one more. *)
QueryTeamStats_OneMore(r) ==
  /\ pc[r] = "checkLimit"
  /\ Joining(r) => Cardinality(teamRank[task[r].team]) <= Limit
  /\ Goto(r, "updateSteps")
  /\ UNCHANGED <<stored, activityVars, teamVars, rankVars, memberVars, local, history>>

(* joinTeam counts the members in the team's rank. *)
QueryTeamStats(r) ==
  /\ pc[r] = "checkLimit"
  /\ Joining(r) => Cardinality(teamRank[task[r].team]) < Limit
  /\ Goto(r, "updateSteps")
  /\ UNCHANGED <<stored, activityVars, teamVars, rankVars, memberVars, local, history>>

-----------------------------------------------------------------------------
(* The user's steps, and the activity.                                      *)

(* steps.UpdateUserSteps stores and returns what the user has walked by now, *)
(* which may be less than before: nothing keeps a report from being smaller. *)
Walked == 0 .. MaxSteps

(* If the sums already have older steps of the user, or he leaves a team he *)
(* is not in, nobody makes up for the difference: they have drifted.        *)
UpdateUserSteps(r, n) ==
  LET u == task[r].user
      counted == u \in inRank \/ TeamsOf(u) # {}
      stray == task[r].kind = "leaveTeam" /\ task[r].team \notin TeamsOf(u)
      again == task[r].kind = "joinActivity" /\ u \in inRank
  IN
  /\ pc[r] = "updateSteps" /\ n \in Walked
  /\ stored' = [stored EXCEPT ![u] = n]
  /\ steps' = [steps EXCEPT ![r] = n]
  /\ Note(IF stray \/ again \/ (counted /\ stored[u] # n) THEN {u} ELSE {}, "drift")
  /\ Goto(r, IF task[r].kind = "joinActivity" THEN "rankUser" ELSE "enter")
  /\ UNCHANGED <<activityVars, teamVars, rankVars, memberVars, task, copy, requests>>

(* joinTeam asks whether the user is in the activity; if not, it takes him  *)
(* in, limit and white list permitting (else Refuse).                       *)
QueryUserStats(r) ==
  /\ pc[r] = "enter"
  /\ Goto(r, IF task[r].user \in inRank THEN "rankMember" ELSE "rankUser")
  /\ UNCHANGED <<stored, activityVars, teamVars, rankVars, memberVars, local, history>>

UpdateUserRank(r) ==
  /\ pc[r] = "rankUser"
  /\ inRank' = inRank \cup {task[r].user}
  /\ Goto(r, "addSteps")
  /\ UNCHANGED <<stored, actSteps, enrolled, teamVars, rankVars, memberVars, local, history>>

ModifyActivitySteps(r) ==
  /\ pc[r] = "addSteps"
  /\ actSteps' = actSteps + steps[r]
  /\ Goto(r, "enroll")
  /\ UNCHANGED <<stored, inRank, enrolled, teamVars, rankVars, memberVars, local, history>>

(* JoinActivity also writes an empty team for the user, which is no member. *)
SetActivityMember(r) ==
  /\ pc[r] = "enroll"
  /\ enrolled' = enrolled \cup {task[r].user}
  /\ IF task[r].kind = "joinActivity" THEN Finish(r)
     ELSE (Goto(r, "rankMember") /\ UNCHANGED local)
  /\ UNCHANGED <<stored, inRank, actSteps, teamVars, rankVars, memberVars, history>>

-----------------------------------------------------------------------------
(* The team.                                                                *)

(* Mutant: the two cases are mixed up. *)
UpdateTeamUserRank_Swapped(r) ==
  LET t == task[r].team
      u == task[r].user IN
  /\ pc[r] = "rankMember"
  /\ teamRank' = [teamRank EXCEPT ![t] = IF Joining(r) THEN @ \ {u} ELSE @ \cup {u}]
  /\ Goto(r, "modifySteps")
  /\ UNCHANGED <<stored, activityVars, teamVars, teamSteps, memberVars, local, history>>

UpdateTeamUserRank(r) ==
  LET t == task[r].team
      u == task[r].user IN
  /\ pc[r] = "rankMember"
  /\ teamRank' = [teamRank EXCEPT ![t] = IF Joining(r) THEN @ \cup {u} ELSE @ \ {u}]
  /\ Goto(r, "modifySteps")
  /\ UNCHANGED <<stored, activityVars, teamVars, teamSteps, memberVars, local, history>>

(* The funds of the team take the same way as its steps and are left out. *)
ModifyTeamSteps(r) ==
  LET t == task[r].team IN
  /\ pc[r] = "modifySteps"
  /\ teamSteps' = [teamSteps EXCEPT ![t] = IF Joining(r) THEN @ + steps[r] ELSE @ - steps[r]]
  /\ Goto(r, "setMember")
  /\ UNCHANGED <<stored, activityVars, teamVars, teamRank, memberVars, local, history>>

(* Both of two requests have found the user in no team. *)
BothInsert(r) ==
  {task[q].user : q \in {q \in Busy \ {r} :
     pc[q] = "syncMember" /\ Joining(q) /\ Joining(r) /\ task[q].user = task[r].user}}

(* What SetTeamMember does next: a repetition is passed over. Whether a user *)
(* who leaves a team he is not in has a row that says so is left open.      *)
AfterLook(r) ==
  LET in == <<task[r].user, task[r].team>> \in members IN
  CASE Joining(r) -> {IF in THEN "elect" ELSE "syncMember"}
    [] ~ Joining(r) -> IF in THEN {"syncMember"} ELSE {"elect", "syncMember"}

(* Mutant: the size is not asked again before the insert. *)
SetTeamMember_Unchecked(r) ==
  /\ pc[r] = "setMember"
  /\ \E next \in AfterLook(r) :
       /\ Note(IF next = "elect" THEN {} ELSE BothInsert(r), "both")
       /\ Goto(r, next)
  /\ UNCHANGED <<stored, activityVars, teamVars, rankVars, memberVars, local, requests>>

SetTeamMember(r) ==
  /\ pc[r] = "setMember"
  /\ \E next \in AfterLook(r) :
       /\ Joining(r) /\ next = "syncMember" => TeamsOf(task[r].user) = {}
       /\ Note(IF next = "elect" THEN {} ELSE BothInsert(r), "both")
       /\ Goto(r, next)
  /\ UNCHANGED <<stored, activityVars, teamVars, rankVars, memberVars, local, requests>>

(* A user in another team is an error, which leaves the ranks as they are.  *)
SetTeamMemberLimit(r) ==
  /\ pc[r] = "setMember" /\ Joining(r)
  /\ <<task[r].user, task[r].team>> \notin members /\ TeamsOf(task[r].user) # {}
  /\ Note(Touches(r), "stop")
  /\ Finish(r)
  /\ UNCHANGED <<stored, activityVars, teamVars, rankVars, memberVars, requests>>

SyncMemberDB(r) ==
  LET m == <<task[r].user, task[r].team>> IN
  /\ pc[r] = "syncMember"
  /\ members' = IF Joining(r) THEN members \cup {m} ELSE members \ {m}
  /\ Goto(r, "listMember")
  /\ UNCHANGED <<stored, activityVars, teamVars, rankVars, listed, local, history>>

SyncMemberRedis(r) ==
  LET m == <<task[r].user, task[r].team>> IN
  /\ pc[r] = "listMember"
  /\ listed' = IF Joining(r) THEN listed \cup {m} ELSE listed \ {m}
  /\ Goto(r, "elect")
  /\ UNCHANGED <<stored, activityVars, teamVars, rankVars, members, local, history>>

(* Mutant: who joins becomes the leader if there is one. *)
ElectTeamLeader_Inverted(r) ==
  LET needed == Joining(r) /\ copy[r].leader # NoUser IN
  /\ pc[r] = "elect"
  /\ \/ ~ needed /\ Goto(r, "check") /\ UNCHANGED copy
     \/ /\ needed /\ Goto(r, "syncTeamRedis")
        /\ copy' = [copy EXCEPT ![r].leader = task[r].user]
  /\ UNCHANGED <<stored, activityVars, teamVars, rankVars, memberVars, task, steps, history>>

(* ElectTeamLeader decides by the copy of the team read at the start. The   *)
(* first to have joined follows, here any of the members.                   *)
ElectTeamLeader(r) ==
  LET u == task[r].user
      NewLeader(l) == /\ copy' = [copy EXCEPT ![r].leader = l]
                      /\ Goto(r, "syncTeamRedis")
      needed == IF Joining(r) THEN copy[r].leader = NoUser ELSE copy[r].leader = u
      others == MembersOf(task[r].team)
  IN
  /\ pc[r] = "elect"
  /\ \/ ~ needed /\ Goto(r, "check") /\ UNCHANGED copy
     \/ needed /\ Joining(r) /\ NewLeader(u)
     \/ needed /\ ~ Joining(r) /\ \E l \in others : NewLeader(l)
     \/ needed /\ ~ Joining(r) /\ others = {} /\ NewLeader(NoUser)
  /\ UNCHANGED <<stored, activityVars, teamVars, rankVars, memberVars, task, steps, history>>

SyncTeamRedis(r) ==
  /\ pc[r] = "syncTeamRedis"
  /\ meta' = [meta EXCEPT ![task[r].team] = copy[r]]
  /\ Goto(r, "syncTeamDB")
  /\ UNCHANGED <<stored, activityVars, row, rankVars, memberVars, local, history>>

SyncTeamDB(r) ==
  /\ pc[r] = "syncTeamDB"
  /\ row' = [row EXCEPT ![task[r].team] = copy[r]]
  /\ Goto(r, "check")
  /\ UNCHANGED <<stored, activityVars, meta, rankVars, memberVars, local, history>>

-----------------------------------------------------------------------------
(* A team nobody is in.                                                     *)

(* checkTeam asks whether anybody is left, and what kind of team it is.     *)
CheckTeam(r) ==
  /\ pc[r] = "check"
  /\ IF teamRank[task[r].team] = {} THEN (Goto(r, "look") /\ UNCHANGED local) ELSE Finish(r)
  /\ UNCHANGED <<stored, activityVars, teamVars, rankVars, memberVars, history>>

AfterCheck(r) ==
  IF task[r].team \in SystemTeams THEN Finish(r) ELSE (Goto(r, "dissolve") /\ UNCHANGED local)

LookTeam(r) ==
  LET t == task[r].team IN
  /\ pc[r] = "look"
  /\ \/ meta[t] # Gone /\ AfterCheck(r)
     \/ /\ meta[t] = Gone \/ RedisFails
        /\ copy' = [copy EXCEPT ![r] = row[t]]
        /\ Goto(r, "fillAgain") /\ UNCHANGED <<task, steps>>
  /\ UNCHANGED <<stored, activityVars, teamVars, rankVars, memberVars, history>>

FillAgain(r) ==
  /\ pc[r] = "fillAgain"
  /\ Refill(r)
  /\ AfterCheck(r)
  /\ UNCHANGED <<stored, activityVars, row, rankVars, memberVars, requests>>

(* Is it a DeleteTeam of checkTeam, or of a DeleteActivityTeam request?     *)
Checking(r) == task[r].kind # "dissolve"

(* Whatever became of DeleteTeam, checkTeam removes the team from the rank. *)
EndDelete(r) == IF Checking(r) THEN (Goto(r, "removeAgain") /\ UNCHANGED local) ELSE Finish(r)

DeleteTeam(r) ==
  /\ pc[r] = "dissolve"
  /\ IF teamRank[task[r].team] = {} THEN (Goto(r, "dissolveRow") /\ UNCHANGED local) ELSE EndDelete(r)
  /\ UNCHANGED <<stored, activityVars, teamVars, rankVars, memberVars, history>>

DeleteFails(r) ==
  /\ pc[r] \in {"dissolve", "dissolveRow", "removeMeta", "removeRank", "removeSteps"} /\ Checking(r)
  /\ "stop" \in Disturbances /\ (Mixed \/ Unseen({"overlap"} \cup Strange \cup Broken))
  /\ Note(Touches(r), Stopped(r))
  /\ Goto(r, "removeAgain")
  /\ UNCHANGED <<stored, activityVars, teamVars, rankVars, memberVars, local, requests>>

DissolveRow(r) ==
  /\ pc[r] = "dissolveRow"
  /\ row' = [row EXCEPT ![task[r].team].status = "dissolved"]
  /\ Goto(r, "removeMeta")
  /\ UNCHANGED <<stored, activityVars, meta, rankVars, memberVars, local, history>>

(* Mutant: the team stays in Redis. *)
RemoveMeta_Kept(r) ==
  /\ pc[r] = "removeMeta"
  /\ Goto(r, "removeRank")
  /\ UNCHANGED <<stored, activityVars, teamVars, rankVars, memberVars, local, history>>

RemoveMeta(r) ==
  /\ pc[r] = "removeMeta"
  /\ meta' = [meta EXCEPT ![task[r].team] = Gone]
  /\ Goto(r, "removeRank")
  /\ UNCHANGED <<stored, activityVars, row, rankVars, memberVars, local, history>>

RemoveUserRank(r) ==
  /\ pc[r] = "removeRank"
  /\ teamRank' = [teamRank EXCEPT ![task[r].team] = {}]
  /\ Goto(r, "removeSteps")
  /\ UNCHANGED <<stored, activityVars, teamVars, teamSteps, memberVars, local, history>>

RemoveTeamSteps(r) ==
  /\ pc[r] = "removeSteps"
  /\ teamSteps' = [teamSteps EXCEPT ![task[r].team] = 0]
  /\ EndDelete(r)
  /\ UNCHANGED <<stored, activityVars, teamVars, teamRank, memberVars, history>>

RemoveActivityTeamRank(r) ==
  /\ pc[r] = "removeAgain"
  /\ teamSteps' = [teamSteps EXCEPT ![task[r].team] = 0]
  /\ Finish(r)
  /\ UNCHANGED <<stored, activityVars, teamVars, teamRank, memberVars, history>>

-----------------------------------------------------------------------------
(* updateActivityRankStats, by a worker of the delay set.                   *)

(* The activity is one of the user's, and he may be in a team of it, which  *)
(* is read like that of a request.                                          *)
FindTeam(r) ==
  LET u == task[r].user
      mine == {t \in Teams : <<u, t>> \in listed}
  IN
  /\ pc[r] = "findTeam" /\ u \in enrolled
  /\ \/ \E t \in mine : task' = [task EXCEPT ![r].team = t] /\ Goto(r, "queryTeam")
     \/ mine = {} /\ UNCHANGED task /\ Goto(r, "oldSteps")
  /\ UNCHANGED <<stored, activityVars, teamVars, rankVars, memberVars, copy, steps, history>>

QueryUserSteps(r) ==
  /\ pc[r] = "oldSteps"
  /\ steps' = [steps EXCEPT ![r] = stored[task[r].user]]
  /\ Goto(r, "newSteps")
  /\ UNCHANGED <<stored, activityVars, teamVars, rankVars, memberVars, task, copy, history>>

(* From here on steps[r] is deltaStep, which is never negative: fewer steps *)
(* than before are stored and ranked, while the sums keep the old ones.     *)
StoreNewSteps(r, n) ==
  LET u == task[r].user IN
  /\ pc[r] = "newSteps" /\ n \in Walked
  /\ stored' = [stored EXCEPT ![u] = n]
  /\ steps' = [steps EXCEPT ![r] = IF n < @ THEN 0 ELSE n - @]
  /\ Note(IF n < steps[r] THEN {u} ELSE {}, "drift")
  /\ Goto(r, "statUser")
  /\ UNCHANGED <<activityVars, teamVars, rankVars, memberVars, task, copy, requests>>

StatUser(r) ==
  /\ pc[r] = "statUser"
  /\ inRank' = inRank \cup {task[r].user}
  /\ Goto(r, "statSteps")
  /\ UNCHANGED <<stored, actSteps, enrolled, teamVars, rankVars, memberVars, local, history>>

StatSteps(r) ==
  /\ pc[r] = "statSteps"
  /\ actSteps' = actSteps + steps[r]
  /\ IF task[r].team = NoTeam THEN Finish(r) ELSE (Goto(r, "statMember") /\ UNCHANGED local)
  /\ UNCHANGED <<stored, inRank, enrolled, teamVars, rankVars, memberVars, history>>

StatMember(r) ==
  /\ pc[r] = "statMember"
  /\ teamRank' = [teamRank EXCEPT ![task[r].team] = @ \cup {task[r].user}]
  /\ Goto(r, "statTeam")
  /\ UNCHANGED <<stored, activityVars, teamVars, teamSteps, memberVars, local, history>>

(* Mutant: the team gets all the steps and not only the new ones. *)
StatTeam_AllSteps(r) ==
  /\ pc[r] = "statTeam"
  /\ teamSteps' = [teamSteps EXCEPT ![task[r].team] = @ + stored[task[r].user]]
  /\ Finish(r)
  /\ UNCHANGED <<stored, activityVars, teamVars, teamRank, memberVars, history>>

StatTeam(r) ==
  /\ pc[r] = "statTeam"
  /\ teamSteps' = [teamSteps EXCEPT ![task[r].team] = @ + steps[r]]
  /\ Finish(r)
  /\ UNCHANGED <<stored, activityVars, teamVars, teamRank, memberVars, history>>

-----------------------------------------------------------------------------

Ask(r) ==
  QueryTeamRedis(r) \/ QueryTeamMiss(r) \/ QueryTeamDB(r) \/ FillTeam(r)
    \/ GetTeamMemberSize(r) \/ QueryTeamStats(r)

Enter(r) ==
  (\E n \in 0 .. MaxSteps : UpdateUserSteps(r, n)) \/ QueryUserStats(r) \/ UpdateUserRank(r) \/ ModifyActivitySteps(r)
    \/ SetActivityMember(r)

Move(r) ==
  UpdateTeamUserRank(r) \/ ModifyTeamSteps(r) \/ SetTeamMember(r) \/ SetTeamMemberLimit(r)
    \/ SyncMemberDB(r) \/ SyncMemberRedis(r)
    \/ ElectTeamLeader(r) \/ SyncTeamRedis(r) \/ SyncTeamDB(r)

Dissolve(r) ==
  CheckTeam(r) \/ LookTeam(r) \/ FillAgain(r) \/ DeleteTeam(r) \/ DeleteFails(r)
    \/ DissolveRow(r) \/ RemoveMeta(r) \/ RemoveUserRank(r) \/ RemoveTeamSteps(r)
    \/ RemoveActivityTeamRank(r)

Stat(r) ==
  FindTeam(r) \/ QueryUserSteps(r) \/ (\E n \in 0 .. MaxSteps : StoreNewSteps(r, n)) \/ StatUser(r) \/ StatSteps(r)
    \/ StatMember(r) \/ StatTeam(r)

Next ==
  \E r \in Reqs : \/ \E k \in Requested : Begin(r, k)
                  \/ Ask(r) \/ Enter(r) \/ Move(r) \/ Dissolve(r) \/ Stat(r)
                  \/ Refuse(r) \/ Stop(r)

Spec == Init /\ [][Next]_vars

-----------------------------------------------------------------------------
(* Properties.                                                              *)

Fault == {"overlap", "crowd", "both", "stop", "torn", "drift", "revived", "stale"}
Label == {"idle", "queryTeam", "queryRow", "fillTeam", "answer", "checkSize", "checkLimit",
          "updateSteps", "enter", "rankUser", "addSteps", "enroll", "rankMember", "modifySteps", "setMember",
          "syncMember", "listMember", "elect", "syncTeamRedis", "syncTeamDB", "check",
          "look", "fillAgain", "dissolve", "dissolveRow", "removeMeta", "removeRank",
          "removeSteps", "removeAgain",
          "findTeam", "oldSteps", "newSteps", "statUser", "statSteps", "statMember", "statTeam"}

(* Every variable has its type, and a goroutine without a request has no    *)
(* task: the teams in Redis and in the table, the ranks and sums, the       *)
(* members, and what the handlers hold.                                     *)
TypeOK ==
  /\ stored \in [Users -> Nat]
  /\ inRank \subseteq Users /\ actSteps \in Int /\ enrolled \subseteq Users
  /\ meta \in [Teams -> Team \cup {Gone}] /\ row \in [Teams -> Team]
  /\ teamRank \in [Teams -> SUBSET Users] /\ teamSteps \in [Teams -> Int]
  /\ members \subseteq Users \X Teams /\ listed \subseteq Users \X Teams
  /\ pc \in [Reqs -> Label] /\ task \in [Reqs -> Task] /\ copy \in [Reqs -> Team]
  /\ \A r \in Reqs : pc[r] = "idle" <=> task[r] = NoTask
  /\ steps \in [Reqs -> Int]
  /\ requests \in Nat /\ faults \in [Users \cup Teams -> SUBSET Fault]

Only(x, tolerated) == faults[x] \subseteq tolerated
Settled(x) == \A r \in Busy : x \notin Touches(r)

(* A user is in one team at most, even if several of his requests run at    *)
(* once, as long as SetTeamMember does not look for other teams between     *)
(* another one's look and its insert.                                       *)
OneTeam == \A u \in Users : "both" \notin faults[u] => Cardinality(TeamsOf(u)) <= 1

(* A team that users join one after the other never shows more members than *)
(* the limit, although joinTeam counts the rank, which is not where members *)
(* are recorded, and joins that fail leave users in the rank. A leave that  *)
(* fails may take a member out of it, whom his next steps put back.         *)
LimitKept ==
  \A t \in Teams :
    Only(t, {"revived", "stale", "stop"}) /\ (\A u \in Users : "overlap" \notin faults[u]) =>
      Cardinality(teamRank[t]) <= Limit

(* The rank of a team, which is its number of members for the limit and for *)
(* checkTeam, holds the members of the table and nobody else, once the      *)
(* requests of the user and of the team have run to their end and none got  *)
(* in the way of another.                                                   *)
RankIsMembers ==
  \A u \in Users, t \in Teams :
    Settled(u) /\ Settled(t) /\ Only(u, {"drift"}) /\ Only(t, {"crowd", "revived", "stale"}) =>
      (u \in teamRank[t] <=> <<u, t>> \in members)

(* The sums of steps add up: each team has the stored steps of its members, *)
(* the activity those of everybody in its rank, though joins, leaves and    *)
(* the workers that bring new steps add differences in any order. That is   *)
(* as long as nobody's steps have drifted, say because he has fewer than    *)
(* before, which the ranks then show and the sums do not.                   *)
StepsAddUp ==
  Busy = {} /\ (\A u \in Users : Only(u, {})) =>
    /\ \A t \in Teams : Only(t, {"crowd", "revived", "stale"}) =>
         teamSteps[t] = SumFunctionOnSet(stored, MembersOf(t))
    /\ actSteps = SumFunctionOnSet(stored, inRank)

(* A team somebody is in has one of its members as the leader and an empty  *)
(* one has none, though the leader is chosen by an old copy, and Redis and  *)
(* the table say the same. When several users join at once the table may    *)
(* name another than Redis, and then somebody who has left; and a dissolved *)
(* team that several ask for at once may end without a leader. An error of  *)
(* Redis does no harm if the row is put back before anybody has elected     *)
(* another leader; a stale one brings the old leader back.                  *)
LeaderIsMember ==
  \A t \in Teams :
    Settled(t) /\ (Only(t, {"crowd"}) \/ Only(t, {"revived"})) /\ (\A u \in Users : Only(u, {"drift"})) =>
      /\ meta[t] # Gone =>
           meta[t].leader \in IF MembersOf(t) = {} THEN {NoUser} ELSE MembersOf(t)
      /\ meta[t] # Gone /\ "crowd" \notin faults[t] => meta[t] = row[t]

(* A team that was dissolved has left nothing behind: no members, no field  *)
(* in Redis, no steps, although these are removed one by one. It may have   *)
(* if it was asked for by its id or refilled since, or if requests met in   *)
(* it or stopped, or steps drifted: a join meanwhile is lost half way.      *)
DissolvedIsClean ==
  \A t \in Teams :
    row[t].status = "dissolved" /\ Settled(t) /\ Only(t, {"crowd"})
      /\ (\A u \in Users : Only(u, {})) =>
      meta[t] = Gone /\ teamRank[t] = {} /\ MembersOf(t) = {} /\ teamSteps[t] = 0
=============================================================================
