------------------------ MODULE TeamMembershipProofs ------------------------
(* What holds of the teams for any users, teams, requests and disturbances: *)
(* every variable keeps its type, since each handler is at a place where it *)
(* has the user and the team it needs; nobody is in two teams unless two of *)
(* his requests looked for teams before either of them wrote; the rank of a *)
(* team agrees with its members and with the limit, its leader is one of    *)
(* them, a dissolved team has left nothing, and the sums add up.            *)
EXTENDS TeamMembership, CollectionLemmas

-----------------------------------------------------------------------------
(* Where the handlers are.                                                  *)

AskLabels == {"queryTeam", "queryRow", "fillTeam"}
EnterLabels == {"updateSteps", "rankUser", "addSteps", "enroll"}
MoveLabels == {"checkSize", "checkLimit", "enter", "rankMember", "modifySteps", "setMember",
               "syncMember", "listMember", "elect", "syncTeamRedis", "syncTeamDB", "check",
               "look", "fillAgain", "removeAgain"}
DeleteLabels == {"dissolve", "dissolveRow", "removeMeta", "removeRank", "removeSteps"}
StatLabels == {"findTeam", "oldSteps", "newSteps", "statUser", "statSteps", "statMember", "statTeam"}

(* What a handler at label l needs of its task k.                           *)
Fits(k, l) ==
  /\ k.kind \notin {"dissolve", "queryTeams"} => k.user \in Users
  /\ k.kind \in {"joinTeam", "leaveTeam", "dissolve", "queryTeams"} => k.team \in Teams
  /\ k.kind = "queryTeams" => k.user = NoUser
  /\ l \in AskLabels =>
       k.kind \in {"joinTeam", "leaveTeam", "updateStats", "queryTeams"} /\ k.team \in Teams
  /\ l \in EnterLabels => k.kind \in {"joinTeam", "leaveTeam", "joinActivity"}
  /\ l \in MoveLabels => k.kind \in {"joinTeam", "leaveTeam"}
  /\ l \in DeleteLabels => k.kind \in {"joinTeam", "leaveTeam", "dissolve"}
  /\ l \in StatLabels => k.kind = "updateStats"
  /\ l \in {"statMember", "statTeam"} => k.team \in Teams

Control ==
  /\ pc \in [Reqs -> Label] /\ task \in [Reqs -> Task]
  /\ \A r \in Reqs : IF pc[r] = "idle" THEN task[r] = NoTask ELSE Fits(task[r], pc[r])

World ==
  /\ stored \in [Users -> Nat]
  /\ inRank \subseteq Users /\ actSteps \in Int /\ enrolled \subseteq Users
  /\ meta \in [Teams -> Team \cup {Gone}] /\ row \in [Teams -> Team]
  /\ teamRank \in [Teams -> SUBSET Users] /\ teamSteps \in [Teams -> Int]
  /\ members \subseteq Users \X Teams /\ listed \subseteq Users \X Teams

Locals == copy \in [Reqs -> Team] /\ steps \in [Reqs -> Int]

History == requests \in Nat /\ faults \in [Users \cup Teams -> SUBSET Fault]

IInv == Control /\ World /\ Locals /\ History

(* A step that ends a request, or goes on at one of some labels.            *)
MovesTo(r, labels) ==
  \/ Finish(r)
  \/ UNCHANGED task /\ \E l \in labels : Goto(r, l) /\ Fits(task[r], l)

Labels == Label \ {"idle", "syncMember"}

(* A task that fits is a task.                                              *)
LEMMA FitsIsTask ==
  ASSUME NEW l, Fits(NoTask, l) PROVE FALSE
BY ConstantsAssumption DEF Fits, NoTask

LEMMA InitHolds == Init => IInv
<1>1. Init => Control
  BY DEF Init, Control, Label, Task, NoTask, Kind
<1>2. Init => World /\ Locals /\ History
  BY DEF Init, World, Locals, History, Fresh, Team
<1> QED BY <1>1, <1>2 DEF IInv

LEMMA ControlIsType ==
  ASSUME Control
  PROVE  \A r \in Reqs : pc[r] = "idle" <=> task[r] = NoTask
BY FitsIsTask DEF Control

LEMMA TypeFollows == IInv => TypeOK
BY ControlIsType DEF IInv, Control, World, Locals, History, TypeOK

LEMMA MovesKeepControl ==
  ASSUME Control, NEW r \in Reqs, MovesTo(r, Label \ {"idle"})
  PROVE  Control'
<1>1. CASE Finish(r)
  <2>1. "idle" \in Label /\ NoTask \in Task
    BY DEF Label, Task, NoTask, Kind
  <2>2. /\ pc' = [pc EXCEPT ![r] = "idle"] /\ task' = [task EXCEPT ![r] = NoTask]
    BY <1>1 DEF Finish, Goto
  <2> QED BY <2>1, <2>2 DEF Control
<1>2. ASSUME UNCHANGED task, NEW l \in Label \ {"idle"}, Goto(r, l), Fits(task[r], l)
      PROVE  Control'
  BY <1>2 DEF Goto, Control
<1> QED BY <1>1, <1>2 DEF MovesTo

-----------------------------------------------------------------------------
(* Each action finds its handler at a label that fits, and leaves it at     *)
(* one; only SetTeamMember leads to the insert.                             *)

LEMMA OnwardMoves ==
  ASSUME Control, NEW r \in Reqs, UNCHANGED task, NEW l \in Labels, Goto(r, l),
         \/ pc[r] \in AskLabels /\ l \in AskLabels
         \/ pc[r] \in MoveLabels /\ l \in MoveLabels \cup EnterLabels \cup DeleteLabels
         \/ pc[r] \in EnterLabels /\ l \in EnterLabels
         \/ pc[r] \in DeleteLabels /\ l \in DeleteLabels
         \/ pc[r] \in StatLabels /\ l \in StatLabels \ {"statMember", "statTeam"}
  PROVE  MovesTo(r, Labels)
<1>1. pc[r] # "idle"
  BY DEF AskLabels, EnterLabels, MoveLabels, DeleteLabels, StatLabels
<1>2. Fits(task[r], pc[r])
  BY <1>1 DEF Control
<1>3. Fits(task[r], l)
  BY <1>2 DEF Fits, AskLabels, EnterLabels, MoveLabels, DeleteLabels, StatLabels
<1> QED BY <1>3 DEF MovesTo

LEMMA AskMoves ==
  ASSUME Control, NEW r \in Reqs, Ask(r) PROVE MovesTo(r, Labels)
<1>1. CASE QueryTeamRedis(r) \/ FillTeam(r)
  <2>1. UNCHANGED task /\ Goto(r, AfterQuery(r)) /\ pc[r] \in AskLabels
    BY <1>1 DEF QueryTeamRedis, FillTeam, local, AskLabels
  <2>2. Fits(task[r], pc[r])
    BY <2>1 DEF Control, AskLabels
  <2>3. AfterQuery(r) \in Labels /\ Fits(task[r], AfterQuery(r))
    BY <2>1, <2>2 DEF AfterQuery, Joining, Fits, Labels, Label, AskLabels, EnterLabels, MoveLabels,
                      DeleteLabels, StatLabels
  <2> QED BY <2>1, <2>3 DEF MovesTo
<1>2. CASE QueryTeamMiss(r) \/ QueryTeamDB(r)
  BY <1>2, OnwardMoves DEF QueryTeamMiss, QueryTeamDB, local, Labels, Label, AskLabels
<1>3. CASE GetTeamMemberSize(r) \/ QueryTeamStats(r)
  BY <1>3, OnwardMoves DEF GetTeamMemberSize, QueryTeamStats, local, Labels, Label, MoveLabels,
                           EnterLabels
<1> QED BY <1>1, <1>2, <1>3 DEF Ask

LEMMA EnterMoves ==
  ASSUME Control, NEW r \in Reqs, Enter(r) PROVE MovesTo(r, Labels)
<1>1. ASSUME NEW n \in 0 .. MaxSteps, UpdateUserSteps(r, n) PROVE MovesTo(r, Labels)
  <2>1. UNCHANGED task /\ pc[r] = "updateSteps"
        /\ Goto(r, IF task[r].kind = "joinActivity" THEN "rankUser" ELSE "enter")
    BY <1>1 DEF UpdateUserSteps
  <2>2. Fits(task[r], pc[r])
    BY <2>1 DEF Control
  <2>3. CASE task[r].kind = "joinActivity"
    BY <2>1, <2>3, OnwardMoves DEF Labels, Label, EnterLabels
  <2>4. CASE task[r].kind # "joinActivity"
    <3>1. Goto(r, "enter") /\ "enter" \in Labels
      BY <2>1, <2>4 DEF Labels, Label
    <3>2. Fits(task[r], "enter")
      BY <2>1, <2>2, <2>4 DEF Fits, AskLabels, EnterLabels, MoveLabels, DeleteLabels, StatLabels
    <3> QED BY <2>1, <3>1, <3>2 DEF MovesTo
  <2> QED BY <2>3, <2>4
<1>2. CASE QueryUserStats(r)
  BY <1>2, OnwardMoves DEF QueryUserStats, local, Labels, Label, MoveLabels, EnterLabels
<1>3. CASE UpdateUserRank(r) \/ ModifyActivitySteps(r)
  BY <1>3, OnwardMoves DEF UpdateUserRank, ModifyActivitySteps, local, Labels, Label, EnterLabels
<1>4. CASE SetActivityMember(r)
  <2>1. CASE task[r].kind = "joinActivity"
    BY <1>4, <2>1 DEF SetActivityMember, MovesTo
  <2>2. CASE task[r].kind # "joinActivity"
    <3>1. UNCHANGED task /\ pc[r] = "enroll" /\ Goto(r, "rankMember") /\ "rankMember" \in Labels
      BY <1>4, <2>2 DEF SetActivityMember, local, Labels, Label
    <3>2. Fits(task[r], "enroll")
      BY <3>1 DEF Control
    <3>3. Fits(task[r], "rankMember")
      BY <2>2, <3>2 DEF Fits, AskLabels, EnterLabels, MoveLabels, DeleteLabels, StatLabels
    <3> QED BY <3>1, <3>3 DEF MovesTo
  <2> QED BY <2>1, <2>2
<1> QED BY <1>1, <1>2, <1>3, <1>4 DEF Enter

(* All of Move but the step that leads to the insert.                       *)
LEMMA MoveMoves ==
  ASSUME Control, NEW r \in Reqs, Move(r), ~ SetTeamMember(r) PROVE MovesTo(r, Labels)
<1>1. CASE UpdateTeamUserRank(r) \/ ModifyTeamSteps(r) \/ SyncMemberDB(r) \/ SyncMemberRedis(r)
  BY <1>1, OnwardMoves DEF UpdateTeamUserRank, ModifyTeamSteps, SyncMemberDB, SyncMemberRedis,
                           local, Labels, Label, MoveLabels
<1>2. CASE SetTeamMemberLimit(r)
  BY <1>2 DEF SetTeamMemberLimit, MovesTo
<1>3. CASE ElectTeamLeader(r)
  <2>1. UNCHANGED task /\ pc[r] = "elect" /\ (Goto(r, "check") \/ Goto(r, "syncTeamRedis"))
    BY <1>3 DEF ElectTeamLeader
  <2> QED BY <2>1, OnwardMoves DEF Labels, Label, MoveLabels
<1>4. CASE SyncTeamRedis(r) \/ SyncTeamDB(r)
  BY <1>4, OnwardMoves DEF SyncTeamRedis, SyncTeamDB, local, Labels, Label, MoveLabels
<1> QED BY <1>1, <1>2, <1>3, <1>4 DEF Move

LEMMA SetTeamMemberMoves ==
  ASSUME Control, NEW r \in Reqs, SetTeamMember(r)
  PROVE  MovesTo(r, Label \ {"idle"})
<1>1. PICK l \in AfterLook(r) : Goto(r, l)
  BY DEF SetTeamMember
<1>2. UNCHANGED task /\ pc[r] = "setMember"
  BY DEF SetTeamMember, local
<1>3. l \in {"elect", "syncMember"}
  BY DEF AfterLook
<1>4. Fits(task[r], pc[r])
  BY <1>2 DEF Control
<1>5. Fits(task[r], l)
  BY <1>2, <1>3, <1>4 DEF Fits, AskLabels, EnterLabels, MoveLabels, DeleteLabels, StatLabels
<1> QED BY <1>1, <1>2, <1>3, <1>5 DEF MovesTo, Label

LEMMA DissolveMoves ==
  ASSUME Control, NEW r \in Reqs, Dissolve(r) PROVE MovesTo(r, Labels)
<1> DEFINE On(l) == UNCHANGED task /\ Goto(r, l)
<1>1. CASE CheckTeam(r) \/ LookTeam(r) \/ FillAgain(r)
  <2>1. pc[r] \in MoveLabels
    BY <1>1 DEF CheckTeam, LookTeam, FillAgain, MoveLabels
  <2>2. Finish(r) \/ On("look") \/ On("fillAgain") \/ On("dissolve")
    BY <1>1 DEF CheckTeam, LookTeam, FillAgain, AfterCheck, local
  <2>3. CASE Finish(r)
    BY <2>3 DEF MovesTo
  <2>4. CASE On("look") \/ On("fillAgain") \/ On("dissolve")
    BY <2>1, <2>4, OnwardMoves DEF Labels, Label, MoveLabels, DeleteLabels
  <2> QED BY <2>2, <2>3, <2>4
<1>2. CASE DeleteTeam(r) \/ DeleteFails(r) \/ RemoveTeamSteps(r)
  <2>1. pc[r] \in DeleteLabels
    BY <1>2 DEF DeleteTeam, DeleteFails, RemoveTeamSteps, DeleteLabels
  <2>2. Finish(r) \/ On("dissolveRow") \/ (Checking(r) /\ On("removeAgain"))
    BY <1>2 DEF DeleteTeam, DeleteFails, RemoveTeamSteps, EndDelete, local
  <2>3. CASE Finish(r)
    BY <2>3 DEF MovesTo
  <2>4. CASE On("dissolveRow")
    BY <2>1, <2>4, OnwardMoves DEF Labels, Label, DeleteLabels
  <2>5. CASE Checking(r) /\ On("removeAgain")
    <3>1. Fits(task[r], pc[r])
      BY <2>1 DEF Control, DeleteLabels
    <3>2. Fits(task[r], "removeAgain")
      BY <2>1, <2>5, <3>1 DEF Checking, Fits, AskLabels, EnterLabels, MoveLabels, DeleteLabels,
                              StatLabels
    <3> QED BY <2>5, <3>2 DEF MovesTo, Labels, Label
  <2> QED BY <2>2, <2>3, <2>4, <2>5
<1>3. CASE DissolveRow(r) \/ RemoveMeta(r) \/ RemoveUserRank(r)
  BY <1>3, OnwardMoves DEF DissolveRow, RemoveMeta, RemoveUserRank, local, Labels, Label, DeleteLabels
<1>4. CASE RemoveActivityTeamRank(r)
  BY <1>4 DEF RemoveActivityTeamRank, MovesTo
<1> QED BY <1>1, <1>2, <1>3, <1>4 DEF Dissolve

(* All of Stat but the step that finds the team.                            *)
LEMMA StatMoves ==
  ASSUME Control, NEW r \in Reqs, Stat(r), ~ FindTeam(r) PROVE MovesTo(r, Labels)
<1>1. CASE QueryUserSteps(r) \/ StatUser(r) \/ \E n \in 0 .. MaxSteps : StoreNewSteps(r, n)
  BY <1>1, OnwardMoves DEF QueryUserSteps, StatUser, StoreNewSteps, local, Labels, Label, StatLabels
<1>2. CASE StatSteps(r)
  <2>1. CASE task[r].team = NoTeam
    BY <1>2, <2>1 DEF StatSteps, MovesTo
  <2>2. CASE task[r].team # NoTeam
    <3>1. UNCHANGED task /\ pc[r] = "statSteps" /\ Goto(r, "statMember")
      BY <1>2, <2>2 DEF StatSteps, local
    <3>2. task[r].team \in Teams /\ Fits(task[r], "statSteps")
      BY <2>2, <3>1 DEF Control, Task
    <3>3. Fits(task[r], "statMember")
      BY <3>2 DEF Fits, AskLabels, EnterLabels, MoveLabels, DeleteLabels, StatLabels
    <3> QED BY <3>1, <3>3 DEF MovesTo, Labels, Label
  <2> QED BY <2>1, <2>2
<1>3. CASE StatMember(r)
  <2>1. UNCHANGED task /\ pc[r] = "statMember" /\ Goto(r, "statTeam")
    BY <1>3 DEF StatMember, local
  <2>2. Fits(task[r], "statMember")
    BY <2>1 DEF Control
  <2>3. Fits(task[r], "statTeam")
    BY <2>2 DEF Fits, AskLabels, EnterLabels, MoveLabels, DeleteLabels, StatLabels
  <2> QED BY <2>1, <2>3 DEF MovesTo, Labels, Label
<1>4. CASE StatTeam(r)
  BY <1>4 DEF StatTeam, MovesTo
<1> QED BY <1>1, <1>2, <1>3, <1>4 DEF Stat

LEMMA EndMoves ==
  ASSUME NEW r \in Reqs, Refuse(r) \/ Stop(r) PROVE MovesTo(r, Labels)
BY DEF Refuse, Stop, MovesTo

(* The two actions that give a handler a task or a team.                    *)
LEMMA BeginKeepsControl ==
  ASSUME Control, NEW r \in Reqs, NEW k \in Requested, Begin(r, k)
  PROVE  Control' /\ pc'[r] # "syncMember"
<1>1. /\ task' = [task EXCEPT ![r] = k] /\ pc' = [pc EXCEPT ![r] = FirstStep(k.kind)]
  BY DEF Begin, Goto
<1>2. k \in Task /\ (k.user = NoUser <=> k.kind \in {"dissolve", "queryTeams"})
      /\ (k.team = NoTeam <=> k.kind \in {"joinActivity", "updateStats"})
  BY DEF Requested
<1>3. k.kind \in Kind /\ (k.kind \notin {"dissolve", "queryTeams"} => k.user \in Users)
      /\ (k.kind \in {"joinTeam", "leaveTeam", "dissolve", "queryTeams"} => k.team \in Teams)
  BY <1>2 DEF Task, Kind
<1>4. FirstStep(k.kind) \in Labels /\ Fits(k, FirstStep(k.kind))
  BY <1>2, <1>3 DEF FirstStep, Kind, Labels, Label, Fits, AskLabels, EnterLabels, MoveLabels,
              DeleteLabels, StatLabels
<1> QED BY <1>1, <1>2, <1>4 DEF Control, Labels

LEMMA FindTeamKeepsControl ==
  ASSUME Control, NEW r \in Reqs, FindTeam(r)
  PROVE  Control' /\ pc'[r] # "syncMember"
<1>1. pc[r] = "findTeam" /\ Fits(task[r], "findTeam") /\ task[r] \in Task
  BY DEF FindTeam, Control
<1>2. ASSUME NEW t \in Teams, task' = [task EXCEPT ![r].team = t], Goto(r, "queryTeam")
      PROVE  Control' /\ pc'[r] # "syncMember"
  <2> DEFINE k == [task[r] EXCEPT !.team = t]
  <2>1. k \in Task /\ k.kind = "updateStats" /\ k.user = task[r].user /\ k.team = t
    BY <1>1 DEF Task, Fits, StatLabels
  <2>2. Fits(k, "queryTeam") /\ "queryTeam" \in Label
    BY <1>1, <2>1 DEF Fits, Label, AskLabels, EnterLabels, MoveLabels, DeleteLabels, StatLabels
  <2>3. task' = [task EXCEPT ![r] = k] /\ pc' = [pc EXCEPT ![r] = "queryTeam"]
    BY <1>2 DEF Goto
  <2> HIDE DEF k
  <2> QED BY <2>1, <2>2, <2>3 DEF Control
<1>3. CASE UNCHANGED task /\ Goto(r, "oldSteps")
  <2>1. MovesTo(r, Labels)
    BY <1>1, <1>3, OnwardMoves DEF Labels, Label, StatLabels
  <2>2. MovesTo(r, Label \ {"idle"})
    BY <2>1 DEF MovesTo, Labels
  <2> QED BY <1>3, <2>2, MovesKeepControl DEF Goto, Control
<1> QED BY <1>2, <1>3 DEF FindTeam

Act(r) == Ask(r) \/ Enter(r) \/ Move(r) \/ Dissolve(r) \/ Stat(r) \/ Refuse(r) \/ Stop(r)

LEMMA ControlKept ==
  ASSUME Control, NEW r \in Reqs, Act(r) \/ \E k \in Requested : Begin(r, k)
  PROVE  Control'
<1>1. MovesTo(r, Labels) => MovesTo(r, Label \ {"idle"})
  BY DEF MovesTo, Labels
<1> QED
  BY <1>1, MovesKeepControl, AskMoves, EnterMoves, MoveMoves, SetTeamMemberMoves, DissolveMoves,
     StatMoves, EndMoves, BeginKeepsControl, FindTeamKeepsControl
     DEF Act

-----------------------------------------------------------------------------
(* What the actions write.                                                  *)

(* A handler that moves a user between teams has both.                      *)
LEMMA HasUserAndTeam ==
  ASSUME Control, NEW r \in Reqs, pc[r] \in MoveLabels
  PROVE  task[r].user \in Users /\ task[r].team \in Teams
BY DEF Control, Fits, MoveLabels

LEMMA EnterKeepsWorld ==
  ASSUME Control, World, Locals, NEW r \in Reqs, Enter(r) PROVE World'
<1>1. ASSUME NEW n \in 0 .. MaxSteps, UpdateUserSteps(r, n) PROVE World'
  <2>1. n \in Nat /\ stored' = [stored EXCEPT ![task[r].user] = n]
    BY <1>1, ConstantsAssumption DEF UpdateUserSteps
  <2>2. stored' \in [Users -> Nat]
    BY <2>1 DEF World
  <2> QED BY <1>1, <2>2 DEF World, UpdateUserSteps, activityVars, teamVars, rankVars, memberVars
<1>2. CASE QueryUserStats(r)
  BY <1>2 DEF World, QueryUserStats, activityVars, teamVars, rankVars, memberVars
<1>3. CASE UpdateUserRank(r) \/ SetActivityMember(r)
  <2>1. pc[r] \in EnterLabels
    BY <1>3 DEF UpdateUserRank, SetActivityMember, EnterLabels
  <2>2. task[r].user \in Users
    BY <2>1 DEF Control, Fits, EnterLabels
  <2>3. inRank' \subseteq Users /\ enrolled' \subseteq Users
    BY <1>3, <2>2 DEF World, UpdateUserRank, SetActivityMember
  <2> QED BY <1>3, <2>3 DEF World, UpdateUserRank, SetActivityMember, teamVars, rankVars, memberVars
<1>4. CASE ModifyActivitySteps(r)
  <2>1. actSteps + steps[r] \in Int
    BY DEF World, Locals
  <2> QED BY <1>4, <2>1 DEF World, ModifyActivitySteps, teamVars, rankVars, memberVars
<1> QED BY <1>1, <1>2, <1>3, <1>4 DEF Enter

LEMMA MoveKeepsWorld ==
  ASSUME Control, World, Locals, NEW r \in Reqs, Move(r) PROVE World'
<1>1. CASE UpdateTeamUserRank(r)
  <2> DEFINE new == IF Joining(r) THEN teamRank[task[r].team] \cup {task[r].user}
                    ELSE teamRank[task[r].team] \ {task[r].user}
  <2>1. task[r].user \in Users /\ task[r].team \in Teams
    BY <1>1, HasUserAndTeam DEF UpdateTeamUserRank, MoveLabels
  <2>2. new \in SUBSET Users
    BY <2>1 DEF World
  <2>3. teamRank' = [teamRank EXCEPT ![task[r].team] = new]
    BY <1>1 DEF UpdateTeamUserRank
  <2>4. teamRank' \in [Teams -> SUBSET Users]
    BY <2>2, <2>3 DEF World
  <2> QED BY <1>1, <2>4 DEF World, UpdateTeamUserRank, activityVars, teamVars, memberVars
<1>2. CASE ModifyTeamSteps(r)
  <2> DEFINE new == IF Joining(r) THEN teamSteps[task[r].team] + steps[r]
                    ELSE teamSteps[task[r].team] - steps[r]
  <2>1. task[r].team \in Teams
    BY <1>2, HasUserAndTeam DEF ModifyTeamSteps, MoveLabels
  <2>2. new \in Int
    BY <2>1 DEF World, Locals
  <2>3. teamSteps' = [teamSteps EXCEPT ![task[r].team] = new]
    BY <1>2 DEF ModifyTeamSteps
  <2>4. teamSteps' \in [Teams -> Int]
    BY <2>2, <2>3 DEF World
  <2> QED BY <1>2, <2>4 DEF World, ModifyTeamSteps, activityVars, teamVars, memberVars
<1>3. CASE SyncMemberDB(r) \/ SyncMemberRedis(r)
  <2>1. task[r].user \in Users /\ task[r].team \in Teams
    BY <1>3, HasUserAndTeam DEF SyncMemberDB, SyncMemberRedis, MoveLabels
  <2>2. members' \subseteq Users \X Teams /\ listed' \subseteq Users \X Teams
    BY <1>3, <2>1 DEF World, SyncMemberDB, SyncMemberRedis
  <2> QED BY <1>3, <2>2 DEF World, SyncMemberDB, SyncMemberRedis, activityVars, teamVars, rankVars
<1>4. CASE SyncTeamRedis(r) \/ SyncTeamDB(r)
  <2>1. copy[r] \in Team
    BY DEF Locals
  <2>2. meta' \in [Teams -> Team \cup {Gone}] /\ row' \in [Teams -> Team]
    BY <1>4, <2>1 DEF World, SyncTeamRedis, SyncTeamDB
  <2> QED BY <1>4, <2>2 DEF World, SyncTeamRedis, SyncTeamDB, activityVars, rankVars, memberVars
<1>5. CASE SetTeamMember(r) \/ SetTeamMemberLimit(r) \/ ElectTeamLeader(r)
  BY <1>5 DEF World, SetTeamMember, SetTeamMemberLimit, ElectTeamLeader, activityVars, teamVars,
              rankVars, memberVars
<1> QED BY <1>1, <1>2, <1>3, <1>4, <1>5 DEF Move

LEMMA DissolveKeepsWorld ==
  ASSUME Control, World, Locals, NEW r \in Reqs, Dissolve(r) PROVE World'
<1>1. CASE CheckTeam(r) \/ LookTeam(r) \/ DeleteTeam(r) \/ DeleteFails(r)
  BY <1>1 DEF World, CheckTeam, LookTeam, DeleteTeam, DeleteFails, activityVars, teamVars,
              rankVars, memberVars
<1>2. CASE FillAgain(r) \/ RemoveMeta(r)
  <2>1. copy[r] \in Team
    BY DEF Locals
  <2>2. meta' \in [Teams -> Team \cup {Gone}]
    BY <1>2, <2>1 DEF World, FillAgain, Refill, RemoveMeta
  <2> QED BY <1>2, <2>2 DEF World, FillAgain, RemoveMeta, activityVars, rankVars, memberVars
<1>3. CASE DissolveRow(r)
  <2>1. \A t \in Teams : [row[t] EXCEPT !.status = "dissolved"] \in Team
    BY DEF World, Team
  <2>2. row' \in [Teams -> Team]
    BY <1>3, <2>1 DEF World, DissolveRow
  <2> QED BY <1>3, <2>2 DEF World, DissolveRow, activityVars, rankVars, memberVars
<1>4. CASE RemoveUserRank(r) \/ RemoveTeamSteps(r) \/ RemoveActivityTeamRank(r)
  BY <1>4 DEF World, RemoveUserRank, RemoveTeamSteps, RemoveActivityTeamRank, activityVars,
              teamVars, memberVars
<1> QED BY <1>1, <1>2, <1>3, <1>4 DEF Dissolve

LEMMA StatKeepsWorld ==
  ASSUME Control, World, Locals, NEW r \in Reqs, Stat(r) PROVE World'
<1>1. CASE FindTeam(r) \/ QueryUserSteps(r)
  BY <1>1 DEF World, FindTeam, QueryUserSteps, activityVars, teamVars, rankVars, memberVars
<1>2. ASSUME NEW n \in 0 .. MaxSteps, StoreNewSteps(r, n) PROVE World'
  <2>1. n \in Nat /\ stored' = [stored EXCEPT ![task[r].user] = n]
    BY <1>2, ConstantsAssumption DEF StoreNewSteps
  <2>2. stored' \in [Users -> Nat]
    BY <2>1 DEF World
  <2> QED BY <1>2, <2>2 DEF World, StoreNewSteps, activityVars, teamVars, rankVars, memberVars
<1>3. ASSUME pc[r] \in StatLabels PROVE task[r].user \in Users
  BY <1>3 DEF Control, Fits, StatLabels
<1>4. CASE StatUser(r)
  BY <1>3, <1>4 DEF World, StatUser, StatLabels, teamVars, rankVars, memberVars
<1>5. CASE StatSteps(r)
  <2>1. actSteps + steps[r] \in Int
    BY DEF World, Locals
  <2> QED BY <1>5, <2>1 DEF World, StatSteps, teamVars, rankVars, memberVars
<1>6. CASE StatMember(r)
  <2>1. task[r].user \in Users /\ task[r].team \in Teams
    BY <1>3, <1>6 DEF StatMember, StatLabels, Control, Fits
  <2>2. teamRank[task[r].team] \cup {task[r].user} \in SUBSET Users
    BY <2>1 DEF World
  <2>3. teamRank' \in [Teams -> SUBSET Users]
    BY <1>6, <2>2 DEF World, StatMember
  <2> QED BY <1>6, <2>3 DEF World, StatMember, activityVars, teamVars, memberVars
<1>7. CASE StatTeam(r)
  <2>1. task[r].team \in Teams
    BY <1>7 DEF StatTeam, Control, Fits
  <2>2. teamSteps[task[r].team] + steps[r] \in Int
    BY <2>1 DEF World, Locals
  <2>3. teamSteps' \in [Teams -> Int]
    BY <1>7, <2>2 DEF World, StatTeam
  <2> QED BY <1>7, <2>3 DEF World, StatTeam, activityVars, teamVars, memberVars
<1> QED BY <1>1, <1>2, <1>4, <1>5, <1>6, <1>7 DEF Stat

LEMMA WorldKept ==
  ASSUME Control, World, Locals, NEW r \in Reqs, Act(r) \/ \E k \in Requested : Begin(r, k)
  PROVE  World'
<1>1. CASE Ask(r)
  <2>1. UNCHANGED <<stored, activityVars, row, rankVars, memberVars>>
    BY <1>1 DEF Ask, QueryTeamRedis, QueryTeamMiss, QueryTeamDB, FillTeam, GetTeamMemberSize,
                QueryTeamStats, teamVars
  <2>2. meta' \in [Teams -> Team \cup {Gone}]
    <3>1. CASE FillTeam(r)
      <4>1. copy[r] \in Team
        BY DEF Locals
      <4> QED BY <3>1, <4>1 DEF World, FillTeam, Refill
    <3>2. CASE ~ FillTeam(r)
      BY <1>1, <3>2 DEF World, Ask, QueryTeamRedis, QueryTeamMiss, QueryTeamDB,
                        GetTeamMemberSize, QueryTeamStats, teamVars
    <3> QED BY <3>1, <3>2
  <2> QED BY <2>1, <2>2 DEF World, activityVars, rankVars, memberVars
<1>2. CASE Refuse(r) \/ Stop(r) \/ \E k \in Requested : Begin(r, k)
  BY <1>2 DEF World, Refuse, Stop, Begin, activityVars, teamVars, rankVars, memberVars
<1> QED BY <1>1, <1>2, EnterKeepsWorld, MoveKeepsWorld, DissolveKeepsWorld, StatKeepsWorld DEF Act

(* What a handler has read or elected is a team, and what it adds a number. *)
LEMMA LocalsKept ==
  ASSUME Control, World, Locals, NEW r \in Reqs, Act(r) \/ \E k \in Requested : Begin(r, k)
  PROVE  Locals'
<1>1. CASE Finish(r)
  <2>1. Fresh \in Team
    BY DEF Fresh, Team
  <2> QED BY <1>1, <2>1 DEF Locals, Finish
<1>2. CASE UNCHANGED <<copy, steps>>
  BY <1>2 DEF Locals
<1>3. ASSUME NEW c \in Team, copy' = [copy EXCEPT ![r] = c], UNCHANGED steps PROVE Locals'
  BY <1>3 DEF Locals
<1>4. ASSUME NEW n \in Int, steps' = [steps EXCEPT ![r] = n], UNCHANGED copy PROVE Locals'
  BY <1>4 DEF Locals
<1>5. CASE Ask(r)
  <2>1. CASE QueryTeamRedis(r)
    <3>1. task[r].team \in Teams /\ meta[task[r].team] # Gone
      BY <2>1 DEF QueryTeamRedis, Control, Fits, AskLabels
    <3>2. meta[task[r].team] \in Team
      BY <3>1 DEF World
    <3> QED BY <1>3, <2>1, <3>2 DEF QueryTeamRedis
  <2>2. CASE QueryTeamDB(r)
    <3>1. task[r].team \in Teams
      BY <2>2 DEF QueryTeamDB, Control, Fits, AskLabels
    <3>2. row[task[r].team] \in Team
      BY <3>1 DEF World
    <3> QED BY <1>3, <2>2, <3>2 DEF QueryTeamDB
  <2>3. CASE QueryTeamMiss(r) \/ FillTeam(r) \/ GetTeamMemberSize(r) \/ QueryTeamStats(r)
    BY <1>2, <2>3 DEF QueryTeamMiss, FillTeam, GetTeamMemberSize, QueryTeamStats, local
  <2> QED BY <1>5, <2>1, <2>2, <2>3 DEF Ask
<1>6. CASE Enter(r)
  <2>1. ASSUME NEW n \in 0 .. MaxSteps, UpdateUserSteps(r, n) PROVE Locals'
    <3>1. n \in Int
      BY ConstantsAssumption
    <3> QED BY <1>4, <2>1, <3>1 DEF UpdateUserSteps
  <2>2. CASE QueryUserStats(r) \/ UpdateUserRank(r) \/ ModifyActivitySteps(r) \/ SetActivityMember(r)
    BY <1>1, <1>2, <2>2 DEF QueryUserStats, UpdateUserRank, ModifyActivitySteps,
                            SetActivityMember, local
  <2> QED BY <1>6, <2>1, <2>2 DEF Enter
<1>7. CASE Move(r)
  <2>1. CASE ElectTeamLeader(r)
    <3>1. task[r].user \in Users
      BY <2>1, HasUserAndTeam DEF ElectTeamLeader, MoveLabels
    <3>2. \A l \in Users \cup {NoUser} : [copy[r] EXCEPT !.leader = l] \in Team
      BY DEF Locals, Team
    <3>3. UNCHANGED copy
          \/ \E l \in Users \cup {NoUser} : copy' = [copy EXCEPT ![r] = [copy[r] EXCEPT !.leader = l]]
      <4>1. MembersOf(task[r].team) \subseteq Users
        BY DEF MembersOf
      <4> QED BY <2>1, <3>1, <4>1 DEF ElectTeamLeader
    <3>4. UNCHANGED steps
      BY <2>1 DEF ElectTeamLeader
    <3> QED BY <1>2, <1>3, <3>2, <3>3, <3>4
  <2>2. CASE \/ UpdateTeamUserRank(r) \/ ModifyTeamSteps(r) \/ SetTeamMember(r)
             \/ SetTeamMemberLimit(r) \/ SyncMemberDB(r) \/ SyncMemberRedis(r)
             \/ SyncTeamRedis(r) \/ SyncTeamDB(r)
    BY <1>1, <1>2, <2>2 DEF UpdateTeamUserRank, ModifyTeamSteps, SetTeamMember,
         SetTeamMemberLimit, SyncMemberDB, SyncMemberRedis, SyncTeamRedis, SyncTeamDB, local
  <2> QED BY <1>7, <2>1, <2>2 DEF Move
<1>8. CASE Dissolve(r)
  <2>1. CASE LookTeam(r)
    <3>1. task[r].team \in Teams
      BY <2>1, HasUserAndTeam DEF LookTeam, MoveLabels
    <3>2. row[task[r].team] \in Team
      BY <3>1 DEF World
    <3> QED BY <1>1, <1>2, <1>3, <2>1, <3>2 DEF LookTeam, AfterCheck, local
  <2>2. CASE \/ CheckTeam(r) \/ FillAgain(r) \/ DeleteTeam(r) \/ DeleteFails(r)
             \/ DissolveRow(r) \/ RemoveMeta(r) \/ RemoveUserRank(r) \/ RemoveTeamSteps(r)
             \/ RemoveActivityTeamRank(r)
    BY <1>1, <1>2, <2>2 DEF CheckTeam, FillAgain, AfterCheck, DeleteTeam, EndDelete, DeleteFails,
         DissolveRow, RemoveMeta, RemoveUserRank, RemoveTeamSteps, RemoveActivityTeamRank, local
  <2> QED BY <1>8, <2>1, <2>2 DEF Dissolve
<1>9. CASE Stat(r)
  <2>1. CASE QueryUserSteps(r)
    <3>1. task[r].user \in Users
      BY <2>1 DEF QueryUserSteps, Control, Fits, StatLabels
    <3>2. stored[task[r].user] \in Int
      BY <3>1 DEF World
    <3> QED BY <1>4, <2>1, <3>2 DEF QueryUserSteps
  <2>2. ASSUME NEW n \in 0 .. MaxSteps, StoreNewSteps(r, n) PROVE Locals'
    <3> DEFINE new == IF n < steps[r] THEN 0 ELSE n - steps[r]
    <3>1. new \in Int
      BY ConstantsAssumption DEF Locals
    <3>2. steps' = [steps EXCEPT ![r] = new] /\ UNCHANGED copy
      BY <2>2 DEF StoreNewSteps, Locals
    <3> QED BY <1>4, <3>1, <3>2
  <2>3. CASE FindTeam(r) \/ StatUser(r) \/ StatSteps(r) \/ StatMember(r) \/ StatTeam(r)
    BY <1>1, <1>2, <2>3 DEF FindTeam, StatUser, StatSteps, StatMember, StatTeam, local
  <2> QED BY <1>9, <2>1, <2>2, <2>3 DEF Stat
<1>10. CASE Refuse(r) \/ Stop(r) \/ \E k \in Requested : Begin(r, k)
  BY <1>1, <1>2, <1>10 DEF Refuse, Stop, Begin
<1> QED BY <1>5, <1>6, <1>7, <1>8, <1>9, <1>10 DEF Act

(* What is noted is one of the faults, and none is forgotten.               *)
Grows == \A x \in Users \cup Teams : faults[x] \subseteq faults'[x]

LEMMA NoteGrows ==
  ASSUME History, NEW S, NEW f \in Fault, Note(S, f)
  PROVE  faults' \in [Users \cup Teams -> SUBSET Fault] /\ Grows
BY DEF History, Note, Grows

LEMMA HistoryKept ==
  ASSUME History, NEW r \in Reqs, Act(r) \/ \E k \in Requested : Begin(r, k)
  PROVE  History' /\ Grows
<1>1. CASE UNCHANGED history
  BY <1>1 DEF History, Grows, history
<1>2. ASSUME NEW S, NEW f \in {"stop", "torn", "revived", "stale", "drift", "both"}, Note(S, f), UNCHANGED requests
      PROVE  History' /\ Grows
  <2>1. f \in Fault
    BY DEF Fault
  <2> QED BY <1>2, <2>1, NoteGrows DEF History
<1>9. Stopped(r) \in {"stop", "torn"}
  BY DEF Stopped
<1>3. CASE Ask(r) \/ Enter(r)
  BY <1>1, <1>2, <1>3
     DEF Ask, QueryTeamRedis, QueryTeamMiss, QueryTeamDB, FillTeam, Refill, GetTeamMemberSize,
         QueryTeamStats, Enter, UpdateUserSteps, QueryUserStats, UpdateUserRank,
         ModifyActivitySteps, SetActivityMember
<1>4. CASE Move(r)
  BY <1>1, <1>2, <1>4
     DEF Move, UpdateTeamUserRank, ModifyTeamSteps, SetTeamMember, SetTeamMemberLimit,
         SyncMemberDB, SyncMemberRedis, ElectTeamLeader, SyncTeamRedis, SyncTeamDB
<1>5. CASE Dissolve(r)
  BY <1>1, <1>2, <1>5, <1>9
     DEF Dissolve, CheckTeam, LookTeam, FillAgain, Refill, DeleteTeam, DeleteFails, DissolveRow,
         RemoveMeta, RemoveUserRank, RemoveTeamSteps, RemoveActivityTeamRank
<1>6. CASE Stat(r)
  BY <1>1, <1>2, <1>6
     DEF Stat, FindTeam, QueryUserSteps, StoreNewSteps, StatUser, StatSteps, StatMember, StatTeam
<1>7. CASE Refuse(r) \/ Stop(r)
  BY <1>1, <1>2, <1>7, <1>9 DEF Refuse, Stop
<1>8. ASSUME NEW k \in Requested, Begin(r, k) PROVE History' /\ Grows
  <2>1. requests' = requests + 1
        /\ faults' = [x \in Users \cup Teams |->
             faults[x] \cup (IF x \in Overlapped(k) THEN {"overlap"} ELSE {})
                       \cup (IF x \in Crowded(k) THEN {"crowd"} ELSE {})]
    BY <1>8 DEF Begin
  <2>2. {"overlap", "crowd"} \subseteq Fault
    BY DEF Fault
  <2> QED BY <2>1, <2>2 DEF History, Grows
<1> QED BY <1>3, <1>4, <1>5, <1>6, <1>7, <1>8 DEF Act

LEMMA NextActs ==
  ASSUME [Next]_vars
  PROVE  UNCHANGED vars \/ \E r \in Reqs : Act(r) \/ \E k \in Requested : Begin(r, k)
BY DEF Next, Act

LEMMA TypesKept == IInv /\ [Next]_vars => IInv'
<1> SUFFICES ASSUME IInv, [Next]_vars PROVE IInv'
  OBVIOUS
<1>1. ASSUME NEW r \in Reqs, Act(r) \/ \E k \in Requested : Begin(r, k) PROVE IInv'
  BY <1>1, ControlKept, WorldKept, LocalsKept, HistoryKept DEF IInv
<1>2. CASE UNCHANGED vars
  BY <1>2 DEF IInv, Control, World, Locals, History, vars, activityVars, teamVars, rankVars,
              memberVars, history
<1> QED BY <1>1, <1>2, NextActs

THEOREM HandlersPlaced == Spec => []IInv
BY InitHolds, TypesKept, PTL DEF Spec

(* Every variable keeps its type and no idle goroutine has a task, whatever *)
(* the requests, failures and stops: in particular nobody but users ever    *)
(* gets into a rank or the member table, and nothing but a team into Redis. *)
THEOREM TeamTypes == Spec => []TypeOK
BY HandlersPlaced, TypeFollows, PTL

-----------------------------------------------------------------------------
(* One team.                                                                *)

(* Request r has found that user u is in no team, and inserts him next.     *)
Inserts(r, u) == pc[r] = "syncMember" /\ Joining(r) /\ task[r].user = u

(* As long as no two requests insert u at once he is in one team at most,   *)
(* and in none while one is about to insert him.                            *)
Single(u) ==
  /\ \A s, t \in TeamsOf(u) : s = t
  /\ \A r \in Reqs : Inserts(r, u) => TeamsOf(u) = {}
  /\ \A r, q \in Reqs : Inserts(r, u) /\ Inserts(q, u) => r = q

SingleInv == \A u \in Users : "both" \notin faults[u] => Single(u)

(* What inserts nobody, and begins no insert, keeps that.                   *)
LEMMA QuietKeeps ==
  ASSUME SingleInv, Grows, UNCHANGED members,
         \A r \in Reqs, u \in Users : Inserts(r, u)' => Inserts(r, u)
  PROVE  SingleInv'
<1> SUFFICES ASSUME NEW u \in Users, "both" \notin faults'[u] PROVE Single(u)'
  BY DEF SingleInv
<1>1. Single(u)
  BY DEF SingleInv, Grows
<1>2. TeamsOf(u)' = TeamsOf(u)
  BY DEF TeamsOf
<1> QED BY <1>1, <1>2 DEF Single

(* A step that does not stop at the insert begins none.                     *)
LEMMA MovesAreQuiet ==
  ASSUME Control, NEW r \in Reqs, MovesTo(r, Labels)
  PROVE  \A q \in Reqs, u \in Users : Inserts(q, u)' => Inserts(q, u)
<1>1. pc'[r] # "syncMember"
  BY DEF MovesTo, Finish, Goto, Labels, Control
<1>2. \A q \in Reqs \ {r} : pc'[q] = pc[q] /\ task'[q] = task[q]
  BY DEF MovesTo, Finish, Goto, Control
<1> QED BY <1>1, <1>2 DEF Inserts, Joining

(* The insert itself, and the delete of a leave.                            *)
LEMMA SyncKeepsSingle ==
  ASSUME IInv, SingleInv, NEW r \in Reqs, SyncMemberDB(r), Grows
  PROVE  SingleInv'
<1> SUFFICES ASSUME NEW u \in Users, "both" \notin faults'[u] PROVE Single(u)'
  BY DEF SingleInv
<1>1. Single(u)
  BY DEF SingleInv, Grows
<1>2. pc[r] = "syncMember" /\ UNCHANGED task /\ pc' = [pc EXCEPT ![r] = "listMember"]
  BY DEF SyncMemberDB, Goto, local
<1>3. \A q \in Reqs : Inserts(q, u)' => q # r /\ Inserts(q, u)
  BY <1>2 DEF Inserts, Joining, IInv, Control
<1>4. CASE Inserts(r, u)
  <2>1. TeamsOf(u) = {} /\ \A q \in Reqs : ~ Inserts(q, u)'
    BY <1>1, <1>3, <1>4 DEF Single
  <2>2. members' = members \cup {<<u, task[r].team>>}
    BY <1>4 DEF SyncMemberDB, Inserts
  <2>3. TeamsOf(u)' \subseteq {task[r].team}
    BY <2>1, <2>2 DEF TeamsOf
  <2> QED BY <2>1, <2>3 DEF Single
<1>5. CASE ~ Inserts(r, u)
  <2>1. TeamsOf(u)' \subseteq TeamsOf(u)
    <3>1. CASE Joining(r)
      <4>1. task[r].user # u
        BY <1>2, <1>5, <3>1 DEF Inserts
      <4>2. members' = members \cup {<<task[r].user, task[r].team>>}
        BY <3>1 DEF SyncMemberDB
      <4> QED BY <4>1, <4>2 DEF TeamsOf
    <3>2. CASE ~ Joining(r)
      BY <3>2 DEF SyncMemberDB, TeamsOf
    <3> QED BY <3>1, <3>2
  <2> QED BY <1>1, <1>3, <2>1 DEF Single
<1> QED BY <1>4, <1>5

(* The look: who is about to insert found no team, and another one who is   *)
(* about to insert the same user is noted.                                  *)
LEMMA LookKeepsSingle ==
  ASSUME IInv, SingleInv, NEW r \in Reqs, SetTeamMember(r), Grows
  PROVE  SingleInv'
<1> SUFFICES ASSUME NEW u \in Users, "both" \notin faults'[u] PROVE Single(u)'
  BY DEF SingleInv
<1>1. Single(u)
  BY DEF SingleInv, Grows
<1>2. PICK next \in AfterLook(r) :
        /\ Joining(r) /\ next = "syncMember" => TeamsOf(task[r].user) = {}
        /\ Note(IF next = "elect" THEN {} ELSE BothInsert(r), "both")
        /\ Goto(r, next)
  BY DEF SetTeamMember
<1>3. pc[r] = "setMember" /\ UNCHANGED <<task, members>> /\ pc' = [pc EXCEPT ![r] = next]
      /\ pc \in [Reqs -> Label] /\ next \in {"elect", "syncMember"}
  BY <1>2 DEF SetTeamMember, Goto, local, memberVars, IInv, Control, AfterLook
<1>4. TeamsOf(u)' = TeamsOf(u)
  BY <1>3 DEF TeamsOf
<1>5. \A q \in Reqs : q # r => (Inserts(q, u)' <=> Inserts(q, u))
  BY <1>3 DEF Inserts, Joining
<1>6. CASE ~ Inserts(r, u)'
  BY <1>1, <1>4, <1>5, <1>6 DEF Single
<1>7. CASE Inserts(r, u)'
  <2>1. Joining(r) /\ task[r].user = u /\ next = "syncMember"
    BY <1>3, <1>7 DEF Inserts, Joining
  <2>2. TeamsOf(u) = {}
    BY <1>2, <2>1
  <2>3. \A q \in Reqs : q # r => ~ Inserts(q, u)
    <3> SUFFICES ASSUME NEW q \in Reqs, q # r, Inserts(q, u) PROVE FALSE
      OBVIOUS
    <3>1. q \in Busy \ {r}
      BY DEF Busy, Inserts
    <3>2. u \in BothInsert(r)
      BY <2>1, <3>1 DEF BothInsert, Inserts
    <3>3. "both" \in faults'[u]
      BY <1>2, <2>1, <3>2 DEF Note
    <3> QED BY <3>3
  <2> QED BY <1>4, <1>5, <2>2, <2>3 DEF Single
<1> QED BY <1>6, <1>7

LEMMA SingleKept == IInv /\ SingleInv /\ [Next]_vars => SingleInv'
<1> SUFFICES ASSUME IInv, SingleInv, [Next]_vars PROVE SingleInv'
  OBVIOUS
<1>1. ASSUME NEW r \in Reqs, Act(r) PROVE SingleInv'
  <2>1. Grows
    BY <1>1, HistoryKept DEF IInv
  <2>2. CASE SetTeamMember(r)
    BY <2>1, <2>2, LookKeepsSingle
  <2>3. CASE SyncMemberDB(r)
    BY <2>1, <2>3, SyncKeepsSingle
  <2>4. CASE ~ SetTeamMember(r) /\ ~ SyncMemberDB(r)
    <3>1. UNCHANGED members
      <4>1. CASE Ask(r) \/ Enter(r)
        BY <4>1 DEF Ask, QueryTeamRedis, QueryTeamMiss, QueryTeamDB, FillTeam, GetTeamMemberSize,
             QueryTeamStats, Enter, UpdateUserSteps, QueryUserStats, UpdateUserRank,
             ModifyActivitySteps, SetActivityMember, memberVars
      <4>2. CASE Move(r)
        BY <2>4, <4>2 DEF Move, UpdateTeamUserRank, ModifyTeamSteps, SetTeamMemberLimit,
             SyncMemberRedis, ElectTeamLeader, SyncTeamRedis, SyncTeamDB, memberVars
      <4>3. CASE Dissolve(r)
        BY <4>3 DEF Dissolve, CheckTeam, LookTeam, FillAgain, DeleteTeam, DeleteFails, DissolveRow,
             RemoveMeta, RemoveUserRank, RemoveTeamSteps, RemoveActivityTeamRank, memberVars
      <4>4. CASE Stat(r)
        BY <4>4 DEF Stat, FindTeam, QueryUserSteps, StoreNewSteps, StatUser, StatSteps,
             StatMember, StatTeam, memberVars
      <4>5. CASE Refuse(r) \/ Stop(r)
        BY <4>5 DEF Refuse, Stop, memberVars
      <4> QED BY <1>1, <4>1, <4>2, <4>3, <4>4, <4>5 DEF Act
    <3>2. \A q \in Reqs, u \in Users : Inserts(q, u)' => Inserts(q, u)
      <4>1. CASE FindTeam(r)
        <5>1. pc'[r] # "syncMember"
          BY <4>1, FindTeamKeepsControl DEF IInv
        <5>2. \A q \in Reqs \ {r} : pc'[q] = pc[q] /\ task'[q] = task[q]
          BY <4>1 DEF FindTeam, Goto, IInv, Control
        <5> QED BY <5>1, <5>2 DEF Inserts, Joining
      <4>2. CASE ~ FindTeam(r)
        <5>1. MovesTo(r, Labels)
          BY <1>1, <2>4, <4>2, AskMoves, EnterMoves, MoveMoves, DissolveMoves, StatMoves, EndMoves
             DEF Act, IInv
        <5> QED BY <5>1, MovesAreQuiet DEF IInv
      <4> QED BY <4>1, <4>2
    <3> QED BY <2>1, <3>1, <3>2, QuietKeeps
  <2> QED BY <2>2, <2>3, <2>4
<1>2. ASSUME NEW r \in Reqs, NEW k \in Requested, Begin(r, k) PROVE SingleInv'
  <2>1. Grows /\ UNCHANGED members
    BY <1>2, HistoryKept DEF IInv, Begin, memberVars
  <2>2. pc'[r] # "syncMember"
    BY <1>2, BeginKeepsControl DEF IInv
  <2>3. \A q \in Reqs \ {r} : pc'[q] = pc[q] /\ task'[q] = task[q]
    BY <1>2 DEF Begin, Goto, IInv, Control
  <2>4. \A q \in Reqs, u \in Users : Inserts(q, u)' => Inserts(q, u)
    BY <2>2, <2>3 DEF Inserts, Joining
  <2> QED BY <2>1, <2>4, QuietKeeps
<1>3. CASE UNCHANGED vars
  BY <1>3 DEF SingleInv, Single, Inserts, Joining, TeamsOf, vars, memberVars, history
<1> QED BY <1>1, <1>2, <1>3, NextActs

(* A user is in one team at most, for any number of users, teams, requests, *)
(* failures and stops, as long as no two requests of his have both looked   *)
(* for his teams before one of them inserts: SetTeamMember's check is       *)
(* enough, the earlier one of joinTeam is not needed for it.                *)
THEOREM OneTeamEach == Spec => []OneTeam
<1>1. Init => SingleInv
  BY DEF Init, SingleInv, Single, Inserts, TeamsOf
<1>2. SingleInv => OneTeam
  <2> SUFFICES ASSUME SingleInv, NEW u \in Users, "both" \notin faults[u]
               PROVE  Cardinality(TeamsOf(u)) <= 1
    BY DEF OneTeam
  <2>1. \A s, t \in TeamsOf(u) : s = t
    BY DEF SingleInv, Single
  <2>2. CASE TeamsOf(u) = {}
    <3>1. Cardinality(TeamsOf(u)) = 0
      BY <2>2, FS_EmptySet, Zenon
    <3> QED BY <3>1
  <2>3. CASE TeamsOf(u) # {}
    <3>1. PICK t \in TeamsOf(u) : TeamsOf(u) = {t}
      BY <2>1, <2>3
    <3>2. Cardinality(TeamsOf(u)) = 1
      BY <3>1, FS_Singleton, Zenon
    <3> QED BY <3>2
  <2> QED BY <2>2, <2>3
<1> QED BY <1>1, <1>2, HandlersPlaced, SingleKept, PTL DEF Spec

-----------------------------------------------------------------------------
(* The rank of a team. A request has put its user into the rank, or taken   *)
(* him out, and has not written the table yet; or it has found the rank     *)
(* empty and is about to remove it.                                         *)

Window == {"modifySteps", "setMember", "syncMember"}
JoinedLabels == Window \cup {"listMember", "elect", "syncTeamRedis", "syncTeamDB", "check"}
PreLabels == {"updateSteps", "enter", "rankUser", "addSteps", "enroll", "rankMember"}
EmptyLabels == {"dissolveRow", "removeMeta", "removeRank"}
EndLabels == EmptyLabels \cup {"look", "fillAgain", "dissolve", "removeSteps", "removeAgain"}

OnTeam(r, t) == task[r].team = t /\ task[r].kind \notin {"updateStats", "queryTeams"}
Mine(r, u, t) == task[r].user = u /\ task[r].team = t
Leaving(r) == task[r].kind = "leaveTeam"

Whole(t) == faults[t] \cap {"overlap", "torn"} = {}
Alone(u) == "overlap" \notin faults[u]

(* Only joins of a team run at once; none of them finds its rank empty,     *)
(* since its user is in it.                                                 *)
TeamInv(t) ==
  Whole(t) =>
    /\ \A r, q \in Reqs : OnTeam(r, t) /\ OnTeam(q, t) /\ r # q => Joining(r) /\ Joining(q)
    /\ \A r \in Reqs : OnTeam(r, t) /\ Joining(r) =>
         /\ pc[r] \notin EndLabels
         /\ pc[r] \in JoinedLabels => task[r].user \in teamRank[t]

AloneInv(u) == Alone(u) => \A r, q \in Reqs : task[r].user = u /\ task[q].user = u => r = q

(* Who is listed in Redis is in the table and in the rank, unless his leave *)
(* is under way; so the workers put nobody into the rank.                   *)
ListedInv(u, t) ==
  <<u, t>> \in listed =>
    /\ \/ u \in teamRank[t]
       \/ \E r \in Reqs : Mine(r, u, t) /\ Leaving(r) /\ pc[r] \in Window \cup {"listMember"}
    /\ \/ <<u, t>> \in members
       \/ \E r \in Reqs : Mine(r, u, t) /\ Leaving(r) /\ pc[r] = "listMember"

PairInv(u, t) ==
  Whole(t) /\ Alone(u) =>
    /\ ListedInv(u, t)
    /\ \A r \in Reqs : Mine(r, u, t) /\ task[r].kind = "updateStats" => u \in teamRank[t]
    /\ \A r \in Reqs : Mine(r, u, t) /\ Joining(r) /\ pc[r] = "listMember" => <<u, t>> \in members
    /\ \A r \in Reqs : OnTeam(r, t) /\ pc[r] \in EmptyLabels => u \notin teamRank[t]

(* The rank and the table agree on who is not between the two.              *)
MemberInv(u, t) ==
  Only(u, {"drift"}) /\ Only(t, {"crowd", "revived", "stale"}) =>
    /\ (\A r \in Reqs : Mine(r, u, t) => pc[r] \notin Window) =>
         (u \in teamRank[t] <=> <<u, t>> \in members)
    /\ \A r \in Reqs : Mine(r, u, t) /\ Leaving(r) /\ pc[r] \in Window => u \notin teamRank[t]

(* A join that has passed the check of the limit finds room.                *)
LimitInv(t) ==
  Only(t, {"revived", "stale", "stop"}) /\ (\A u \in Users : Alone(u)) =>
    /\ Cardinality(teamRank[t]) <= Limit
    /\ \A r, q \in Reqs : OnTeam(r, t) /\ OnTeam(q, t) => r = q
    /\ \A r \in Reqs : OnTeam(r, t) /\ Joining(r) /\ pc[r] \in PreLabels =>
         Cardinality(teamRank[t]) < Limit

RankInv ==
  /\ \A t \in Teams : TeamInv(t) /\ LimitInv(t)
  /\ \A u \in Users : AloneInv(u)
  /\ \A u \in Users, t \in Teams : PairInv(u, t) /\ MemberInv(u, t)

(* From one label to the next, as far as the invariant tells them apart.    *)
Along(k, l) ==
  /\ l \in Window <=> k \in Window
  /\ k # "listMember" /\ l # "listMember"
  /\ l \in JoinedLabels => k \in JoinedLabels
  /\ l \in PreLabels => k \in PreLabels
  /\ l \in EndLabels => k \in EndLabels
  /\ l \in EmptyLabels => k \in EmptyLabels

(* A request that ends between the rank and the list has failed.            *)
Ends(r) ==
  /\ Finish(r)
  /\ pc[r] \in Window \cup {"listMember"} =>
       \A x \in Touches(r) : (IF Leaving(r) THEN "torn" ELSE "stop") \in faults'[x]

(* A step that moves nobody.                                                *)
Plain(r) ==
  /\ UNCHANGED <<teamRank, members, listed>>
  /\ Ends(r) \/ (UNCHANGED task /\ \E l \in Label : Goto(r, l) /\ Along(pc[r], l))

Telling(r) ==
  \/ QueryTeamStats(r) \/ UpdateTeamUserRank(r) \/ SetTeamMember(r) \/ SyncMemberDB(r)
  \/ SyncMemberRedis(r) \/ CheckTeam(r) \/ DeleteTeam(r) \/ RemoveUserRank(r)
  \/ FindTeam(r) \/ StatMember(r)

LEMMA NotedEnd ==
  ASSUME NEW r \in Reqs, NEW f, Note(Touches(r), f)
  PROVE  \A x \in Touches(r) : f \in faults'[x]
BY DEF Note, Touches

LEMMA ActIsPlain ==
  ASSUME Control, NEW r \in Reqs, Act(r), ~ Telling(r)
  PROVE  Plain(r)
<1> USE DEF Telling
<1> DEFINE Moves == UNCHANGED <<teamRank, members, listed>>
                    /\ UNCHANGED task /\ \E l \in Label : Goto(r, l) /\ Along(pc[r], l)
           Stays == UNCHANGED <<teamRank, members, listed>>
                    /\ Finish(r) /\ pc[r] \notin Window \cup {"listMember"}
<1>1. Moves \/ Stays => Plain(r)
  BY DEF Plain, Ends
<1>2. CASE Ask(r)
  <2>1. AfterQuery(r) \in {"checkSize", "checkLimit", "oldSteps", "answer"}
        \/ ~ (QueryTeamRedis(r) \/ FillTeam(r))
    <3>1. pc[r] \in AskLabels => Fits(task[r], pc[r])
      BY DEF Control, AskLabels
    <3> QED BY <3>1 DEF QueryTeamRedis, FillTeam, AfterQuery, Fits, AskLabels
  <2>2. Moves
    BY <1>2, <2>1 DEF Ask, QueryTeamRedis, QueryTeamMiss, QueryTeamDB, FillTeam,
         GetTeamMemberSize, local, rankVars, memberVars, Along, Label, Window, JoinedLabels,
         PreLabels, EndLabels, EmptyLabels
  <2> QED BY <1>1, <2>2
<1>3. CASE Enter(r)
  <2>1. Moves \/ Stays
    BY <1>3 DEF Enter, UpdateUserSteps, QueryUserStats, UpdateUserRank, ModifyActivitySteps,
         SetActivityMember, local, rankVars, memberVars, Along, Label, Window, JoinedLabels,
         PreLabels, EndLabels, EmptyLabels
  <2> QED BY <1>1, <2>1
<1>4. CASE Move(r)
  <2>1. CASE SetTeamMemberLimit(r)
    <3>1. Ends(r)
      <4>1. \A x \in Touches(r) : "stop" \in faults'[x]
        BY <2>1, NotedEnd DEF SetTeamMemberLimit
      <4> QED BY <2>1, <4>1 DEF SetTeamMemberLimit, Ends, Leaving, Joining
    <3> QED BY <2>1, <3>1 DEF SetTeamMemberLimit, Plain, rankVars, memberVars
  <2>2. CASE ~ SetTeamMemberLimit(r)
    <3>1. Moves
      BY <1>4, <2>2 DEF Move, ModifyTeamSteps, ElectTeamLeader, SyncTeamRedis, SyncTeamDB, local,
           rankVars, memberVars, Along, Label, Window, JoinedLabels, PreLabels, EndLabels,
           EmptyLabels
    <3> QED BY <1>1, <3>1
  <2> QED BY <2>1, <2>2
<1>5. CASE Dissolve(r)
  <2>1. Moves \/ Stays
    BY <1>5 DEF Dissolve, LookTeam, FillAgain, AfterCheck, DeleteFails, DissolveRow, RemoveMeta,
         RemoveTeamSteps, EndDelete, RemoveActivityTeamRank, local, rankVars, memberVars, Along,
         Label, Window, JoinedLabels, PreLabels, EndLabels, EmptyLabels
  <2> QED BY <1>1, <2>1
<1>6. CASE Stat(r)
  <2>1. Moves \/ Stays
    BY <1>6 DEF Stat, QueryUserSteps, StoreNewSteps, StatUser, StatSteps, StatTeam, local,
         rankVars, memberVars, Along, Label, Window, JoinedLabels, PreLabels, EndLabels,
         EmptyLabels
  <2> QED BY <1>1, <2>1
<1>7. CASE Refuse(r)
  <2>1. Stays
    BY <1>7 DEF Refuse, rankVars, memberVars, Window
  <2> QED BY <1>1, <2>1
<1>8. CASE Stop(r)
  <2>1. \A x \in Touches(r) : (IF Leaving(r) THEN "torn" ELSE "stop") \in faults'[x]
    BY <1>8, NotedEnd DEF Stop, Stopped, Leaving
  <2> QED BY <1>8, <2>1 DEF Stop, Plain, Ends, rankVars, memberVars
<1> QED BY <1>2, <1>3, <1>4, <1>5, <1>6, <1>7, <1>8 DEF Act

(* A step of a request leaves the others where they are, and its own task,  *)
(* unless it ends or finds its team.                                        *)
LEMMA OthersStay ==
  ASSUME Control, NEW r \in Reqs, Act(r) \/ \E k \in Requested : Begin(r, k)
  PROVE  \A q \in Reqs \ {r} : pc'[q] = pc[q] /\ task'[q] = task[q]
<1>1. CASE Plain(r)
  BY <1>1 DEF Plain, Ends, Finish, Goto, Control
<1>2. CASE Telling(r)
  BY <1>2 DEF Telling, QueryTeamStats, UpdateTeamUserRank, SetTeamMember, SyncMemberDB,
       SyncMemberRedis, CheckTeam, DeleteTeam, EndDelete, RemoveUserRank, FindTeam, StatMember,
       local, Finish, Goto, Control
<1>3. ASSUME NEW k \in Requested, Begin(r, k)
      PROVE  \A q \in Reqs \ {r} : pc'[q] = pc[q] /\ task'[q] = task[q]
  BY <1>3 DEF Begin, Goto, Control
<1> QED BY <1>1, <1>2, <1>3, ActIsPlain

LEMMA TaskStays ==
  ASSUME Control, NEW r \in Reqs, Act(r)
  PROVE  \/ task' = task
         \/ task'[r] = NoTask /\ pc'[r] = "idle"
         \/ /\ FindTeam(r) /\ task[r].kind = "updateStats" /\ pc'[r] = "queryTeam"
            /\ \E t \in Teams : /\ <<task[r].user, t>> \in listed
                                /\ task'[r] = [task[r] EXCEPT !.team = t]
<1>1. CASE Plain(r)
  BY <1>1 DEF Plain, Ends, Finish, Goto, Control
<1>2. CASE FindTeam(r)
  <2>1. pc[r] = "findTeam" /\ task[r].kind = "updateStats"
    BY <1>2 DEF FindTeam, Control, Fits, StatLabels
  <2> QED BY <1>2, <2>1 DEF FindTeam, Goto, Control
<1>3. CASE Telling(r) /\ ~ FindTeam(r)
  BY <1>3 DEF Telling, QueryTeamStats, UpdateTeamUserRank, SetTeamMember, SyncMemberDB,
       SyncMemberRedis, CheckTeam, DeleteTeam, EndDelete, RemoveUserRank, StatMember,
       local, Finish, Goto, Control
<1> QED BY <1>1, <1>2, <1>3, ActIsPlain

(* What a request is about after a step it was about before.                *)
LEMMA TaskBefore ==
  ASSUME Control, NEW r \in Reqs, Act(r), NEW q \in Reqs
  PROVE  /\ \A t \in Teams : OnTeam(q, t)' => OnTeam(q, t) /\ task'[q] = task[q]
         /\ \A u \in Users : task'[q].user = u => task[q].user = u /\ task'[q].kind = task[q].kind
         /\ \A u \in Users, t \in Teams :
              Mine(q, u, t)' => \/ Mine(q, u, t) /\ task'[q] = task[q]
                                \/ /\ FindTeam(r) /\ q = r /\ task[q].kind = "updateStats"
                                   /\ task[q].user = u /\ <<u, t>> \in listed
<1>1. CASE q # r
  <2>1. task'[q] = task[q]
    BY <1>1, OthersStay
  <2> QED BY <2>1 DEF OnTeam, Mine
<1>2. CASE task' = task
  BY <1>2 DEF OnTeam, Mine
<1>3. CASE q = r /\ task'[r] = NoTask
  BY <1>3, ConstantsAssumption DEF OnTeam, Mine, NoTask
<1>4. ASSUME q = r, FindTeam(r), task[r].kind = "updateStats",
             NEW s \in Teams, <<task[r].user, s>> \in listed,
             task'[r] = [task[r] EXCEPT !.team = s]
      PROVE  /\ ~ \E t \in Teams : OnTeam(q, t)'
             /\ task'[q].user = task[q].user /\ task'[q].kind = task[q].kind
             /\ \A u \in Users, t \in Teams : Mine(q, u, t)' => <<u, t>> \in listed
  <2>1. /\ task'[q].user = task[q].user /\ task'[q].kind = "updateStats" /\ task'[q].team = s
    BY <1>4 DEF Control, Task
  <2> QED BY <1>4, <2>1 DEF OnTeam, Mine
<1>5. CASE \E t \in Teams : /\ q = r /\ FindTeam(r) /\ task[r].kind = "updateStats"
                            /\ <<task[r].user, t>> \in listed
                            /\ task'[r] = [task[r] EXCEPT !.team = t]
  BY <1>4, <1>5 DEF Mine
<1> QED BY <1>1, <1>2, <1>3, <1>5, TaskStays

(* A request of a user in a team is no reader's.                            *)
LEMMA UsersAreOnTeam ==
  ASSUME Control, NEW r \in Reqs, NEW u \in Users, NEW t \in Teams, Mine(r, u, t),
         task[r].kind # "updateStats"
  PROVE  OnTeam(r, t)
<1>1. pc[r] # "idle"
  BY ConstantsAssumption DEF Control, Mine, NoTask
<1>2. Fits(task[r], pc[r])
  BY <1>1 DEF Control
<1> QED BY <1>2, ConstantsAssumption DEF Fits, Mine, OnTeam

(* Who gets into a rank and who leaves it.                                  *)
LEMMA RankSteps ==
  ASSUME Control, World, NEW r \in Reqs, Act(r), NEW t \in Teams, NEW u
  PROVE  /\ u \in teamRank'[t] /\ u \notin teamRank[t] =>
              /\ Mine(r, u, t) /\ u \in Users
              /\ \/ OnTeam(r, t) /\ Joining(r) /\ pc[r] = "rankMember" /\ pc'[r] = "modifySteps"
                 \/ task[r].kind = "updateStats"
         /\ u \in teamRank[t] /\ u \notin teamRank'[t] =>
              /\ OnTeam(r, t) /\ task' = task
              /\ \/ /\ Mine(r, u, t) /\ Leaving(r)
                    /\ pc[r] = "rankMember" /\ pc'[r] = "modifySteps"
                 \/ pc[r] = "removeRank" /\ pc'[r] = "removeSteps"
         /\ Mine(r, u, t) /\ pc'[r] = "modifySteps" /\ pc[r] = "rankMember" =>
              (u \in teamRank'[t] <=> Joining(r)) /\ task' = task
<1>1. CASE UpdateTeamUserRank(r)
  <2>1. /\ pc[r] = "rankMember" /\ pc'[r] = "modifySteps" /\ task' = task
        /\ teamRank' = [teamRank EXCEPT ![task[r].team] =
                          IF Joining(r) THEN @ \cup {task[r].user} ELSE @ \ {task[r].user}]
    BY <1>1 DEF UpdateTeamUserRank, Goto, local, Control
  <2>2. /\ task[r].kind \in {"joinTeam", "leaveTeam"}
        /\ task[r].user \in Users /\ task[r].team \in Teams
    BY <2>1 DEF Control, Fits, MoveLabels
  <2> QED BY <2>1, <2>2 DEF World, Mine, OnTeam, Joining, Leaving
<1>2. CASE RemoveUserRank(r)
  <2>1. /\ pc[r] = "removeRank" /\ pc'[r] = "removeSteps" /\ task' = task
        /\ teamRank' = [teamRank EXCEPT ![task[r].team] = {}]
    BY <1>2 DEF RemoveUserRank, Goto, local, Control
  <2>2. task[r].kind \notin {"updateStats", "queryTeams"}
    BY <2>1 DEF Control, Fits, DeleteLabels
  <2> QED BY <2>1, <2>2 DEF World, OnTeam
<1>3. CASE StatMember(r)
  <2>1. /\ pc[r] = "statMember"
        /\ teamRank' = [teamRank EXCEPT ![task[r].team] = @ \cup {task[r].user}]
    BY <1>3 DEF StatMember
  <2>2. task[r].kind = "updateStats" /\ task[r].user \in Users
    BY <2>1 DEF Control, Fits, StatLabels
  <2> QED BY <2>1, <2>2 DEF World, Mine
<1>4. CASE ~ (UpdateTeamUserRank(r) \/ RemoveUserRank(r) \/ StatMember(r))
  <2>1. UNCHANGED teamRank
    <3>1. CASE Plain(r)
      BY <3>1 DEF Plain
    <3>2. CASE Telling(r)
      BY <3>2, <1>4 DEF Telling, QueryTeamStats, SetTeamMember, SyncMemberDB, SyncMemberRedis,
           CheckTeam, DeleteTeam, FindTeam, rankVars
    <3> QED BY <3>1, <3>2, ActIsPlain
  <2>2. ~ (pc[r] = "rankMember" /\ pc'[r] = "modifySteps")
    <3>1. CASE Plain(r)
      BY <3>1 DEF Plain, Ends, Finish, Goto, Along, Control, Window
    <3>2. CASE Telling(r)
      BY <3>2, <1>4 DEF Telling, QueryTeamStats, SetTeamMember, SyncMemberDB, SyncMemberRedis,
           CheckTeam, DeleteTeam, FindTeam
    <3> QED BY <3>1, <3>2, ActIsPlain
  <2> QED BY <2>1, <2>2
<1> QED BY <1>1, <1>2, <1>3, <1>4

(* A step of a request of one kind from one label to the next.              *)
LEMMA LabelSteps ==
  ASSUME Control, NEW r \in Reqs, Act(r), pc'[r] # "idle"
  PROVE  /\ pc'[r] \in EndLabels =>
              \/ pc[r] \in EndLabels
              \/ pc[r] = "check" /\ teamRank[task[r].team] = {}
         /\ pc'[r] \in JoinedLabels => pc[r] \in JoinedLabels \cup {"rankMember"}
         /\ pc'[r] \in EmptyLabels =>
              \/ pc[r] \in EmptyLabels
              \/ pc[r] = "dissolve" /\ teamRank[task[r].team] = {}
         /\ pc'[r] \in PreLabels =>
              \/ pc[r] \in PreLabels
              \/ /\ pc[r] = "checkLimit"
                 /\ Joining(r) => Cardinality(teamRank[task[r].team]) < Limit
<1>1. CASE Plain(r)
  BY <1>1 DEF Plain, Ends, Finish, Goto, Along, Control
<1>2. CASE Telling(r)
  BY <1>2 DEF Telling, QueryTeamStats, UpdateTeamUserRank, SetTeamMember, AfterLook, SyncMemberDB,
       SyncMemberRedis, CheckTeam, DeleteTeam, EndDelete, RemoveUserRank, FindTeam, StatMember,
       Finish, Goto, Control, Window, JoinedLabels, PreLabels, EndLabels, EmptyLabels
<1> QED BY <1>1, <1>2, ActIsPlain

(* What is written of a member, in the table and in Redis, and when.        *)
LEMMA ListSteps ==
  ASSUME Control, World, NEW r \in Reqs, Act(r), NEW t \in Teams, NEW u \in Users
  PROVE  /\ \/ <<u, t>> \in members' <=> <<u, t>> \in members
            \/ Mine(r, u, t) /\ task' = task /\ pc[r] = "syncMember" /\ pc'[r] = "listMember"
         /\ \/ <<u, t>> \in listed' <=> <<u, t>> \in listed
            \/ Mine(r, u, t) /\ task' = task /\ pc[r] = "listMember" /\ pc'[r] = "elect"
         /\ pc'[r] = "listMember" =>
              /\ pc[r] = "syncMember" /\ task' = task
              /\ Mine(r, u, t) => (<<u, t>> \in members' <=> Joining(r))
         /\ pc[r] = "listMember" /\ pc'[r] # "idle" =>
              pc'[r] = "elect" /\ (Mine(r, u, t) => (<<u, t>> \in listed' <=> Joining(r)))
<1> USE DEF Mine
<1>1. CASE SyncMemberDB(r)
  BY <1>1 DEF SyncMemberDB, Goto, local, Control
<1>2. CASE SyncMemberRedis(r)
  BY <1>2 DEF SyncMemberRedis, Goto, local, Control
<1>3. CASE ~ SyncMemberDB(r) /\ ~ SyncMemberRedis(r)
  <2>1. UNCHANGED <<members, listed>> /\ pc'[r] # "listMember"
        /\ (pc[r] = "listMember" => pc'[r] = "idle")
    <3>1. CASE Plain(r)
      BY <3>1 DEF Plain, Ends, Finish, Goto, Along, Control
    <3>2. CASE Telling(r)
      BY <3>2, <1>3 DEF Telling, QueryTeamStats, UpdateTeamUserRank, SetTeamMember, AfterLook,
           CheckTeam, DeleteTeam, EndDelete, RemoveUserRank, FindTeam, StatMember, memberVars,
           Finish, Goto, Control
    <3> QED BY <3>1, <3>2, ActIsPlain
  <2> QED BY <2>1
<1> QED BY <1>1, <1>2, <1>3

(* How a request gets from the rank to the list.                            *)
LEMMA WindowSteps ==
  ASSUME Control, World, NEW r \in Reqs, Act(r), pc[r] \in Window \cup {"listMember"}
  PROVE  \/ pc[r] \in Window /\ pc'[r] \in Window /\ task' = task
         \/ pc'[r] \in {"listMember", "elect"} /\ pc[r] \in {"syncMember", "listMember"}
         \/ /\ pc[r] = "setMember" /\ pc'[r] = "elect"
            /\ Joining(r) <=> <<task[r].user, task[r].team>> \in members
            /\ UNCHANGED members
         \/ \A x \in Touches(r) : (IF Leaving(r) THEN "torn" ELSE "stop") \in faults'[x]
<1>1. CASE Plain(r)
  BY <1>1 DEF Plain, Ends, Goto, Along, Control
<1>2. CASE SetTeamMember(r)
  <2>1. task[r].kind \in {"joinTeam", "leaveTeam"}
    BY <1>2 DEF SetTeamMember, Control, Fits, MoveLabels
  <2> QED BY <1>2, <2>1 DEF SetTeamMember, AfterLook, Joining, local, memberVars, Goto, Control,
                            Window
<1>3. CASE SyncMemberDB(r) \/ SyncMemberRedis(r)
  BY <1>3 DEF SyncMemberDB, SyncMemberRedis, Goto, Control
<1>4. CASE \/ QueryTeamStats(r) \/ UpdateTeamUserRank(r) \/ CheckTeam(r) \/ DeleteTeam(r)
           \/ RemoveUserRank(r) \/ FindTeam(r) \/ StatMember(r)
  BY <1>4 DEF QueryTeamStats, UpdateTeamUserRank, CheckTeam, DeleteTeam, RemoveUserRank,
       FindTeam, StatMember, Window
<1> QED BY <1>1, <1>2, <1>3, <1>4, ActIsPlain DEF Telling

(* Faults stay, so what is undisturbed after a step was so before it.       *)
LEMMA UndisturbedBefore ==
  ASSUME Grows, NEW x \in Users \cup Teams
  PROVE  /\ Whole(x)' => Whole(x)
         /\ Alone(x)' => Alone(x)
         /\ \A F : Only(x, F)' => Only(x, F)
BY DEF Grows, Whole, Alone, Only

(* Whose request ends between the rank and the list is disturbed.           *)
LEMMA BrokenNoted ==
  ASSUME NEW r \in Reqs, NEW u \in Users, NEW t \in Teams, Mine(r, u, t),
         \A x \in Touches(r) : (IF Leaving(r) THEN "torn" ELSE "stop") \in faults'[x]
  PROVE  /\ Leaving(r) => ~ Whole(t)'
         /\ ~ Only(u, {"drift"})' /\ ~ Only(t, {"crowd", "revived", "stale"})'
<1>1. u \in Touches(r) /\ t \in Touches(r)
  BY DEF Touches, Mine
<1> QED BY <1>1 DEF Whole, Only

LEMMA TeamKept ==
  ASSUME IInv, Grows, NEW r \in Reqs, Act(r), NEW t \in Teams, TeamInv(t)
  PROVE  TeamInv(t)'
<1> SUFFICES ASSUME Whole(t)' PROVE TeamInv(t)'
  BY DEF TeamInv
<1> Control /\ World
  BY DEF IInv
<1>1. Whole(t)
  BY UndisturbedBefore
<1>2. \A q \in Reqs : OnTeam(q, t)' => OnTeam(q, t) /\ task'[q] = task[q]
  BY TaskBefore
<1>3. \A a, b \in Reqs : OnTeam(a, t)' /\ OnTeam(b, t)' /\ a # b => Joining(a)' /\ Joining(b)'
  BY <1>1, <1>2 DEF TeamInv, Joining
<1>4. ASSUME NEW q \in Reqs, OnTeam(q, t)', Joining(q)'
      PROVE  pc'[q] \notin EndLabels
             /\ (pc'[q] \in JoinedLabels => task'[q].user \in teamRank'[t])
  <2> DEFINE v == task[q].user
  <2>1. OnTeam(q, t) /\ Joining(q) /\ task'[q] = task[q]
    BY <1>2, <1>4 DEF Joining
  <2>2. pc[q] \notin EndLabels /\ (pc[q] \in JoinedLabels => v \in teamRank[t])
    BY <1>1, <2>1 DEF TeamInv
  <2>3. ASSUME v \in teamRank[t] PROVE v \in teamRank'[t]
    <3> SUFFICES ASSUME v \notin teamRank'[t] PROVE FALSE
      OBVIOUS
    <3>1. OnTeam(r, t) /\ (Leaving(r) \/ pc[r] = "removeRank")
      BY <2>3, RankSteps
    <3>2. Joining(r) => pc[r] \notin EndLabels
      BY <1>1, <3>1 DEF TeamInv
    <3>3. Joining(r)
      BY <1>1, <2>1, <3>1 DEF TeamInv
    <3> QED BY <3>1, <3>2, <3>3 DEF Leaving, Joining, EndLabels, EmptyLabels
  <2>4. CASE q # r
    <3>1. pc'[q] = pc[q]
      BY <2>4, OthersStay
    <3> QED BY <3>1, <2>1, <2>2, <2>3
  <2>5. CASE q = r
    <3>1. CASE pc'[r] = "idle"
      BY <3>1, <2>5 DEF EndLabels, EmptyLabels, JoinedLabels, Window
    <3>2. CASE pc'[r] # "idle"
      <4>1. task[r].team = t /\ task[r].user = v
        BY <2>1, <2>5 DEF OnTeam
      <4>2. pc'[r] \notin EndLabels
        BY <3>2, <4>1, <2>2, <2>5, LabelSteps DEF JoinedLabels
      <4>3. pc'[r] \in JoinedLabels => pc[r] \in JoinedLabels \cup {"rankMember"}
        BY <3>2, LabelSteps
      <4>4. ASSUME pc[r] = "rankMember", pc'[r] \in JoinedLabels PROVE v \in teamRank'[t]
        <5>1. pc'[r] = "modifySteps"
          <6>1. CASE Plain(r)
            BY <6>1, <3>2, <4>4 DEF Plain, Ends, Finish, Goto, Along, Control, JoinedLabels, Window
          <6>2. CASE Telling(r)
            BY <6>2, <4>4 DEF Telling, QueryTeamStats, UpdateTeamUserRank, SetTeamMember,
                 SyncMemberDB, SyncMemberRedis, CheckTeam, DeleteTeam, RemoveUserRank, FindTeam,
                 StatMember, Goto, Control
          <6> QED BY <6>1, <6>2, ActIsPlain
        <5> QED BY <5>1, <4>1, <4>4, <2>1, <2>5, RankSteps DEF Mine
      <4> QED BY <4>2, <4>3, <4>4, <2>1, <2>2, <2>3, <2>5
    <3> QED BY <3>1, <3>2
  <2> QED BY <2>4, <2>5
<1> QED BY <1>3, <1>4 DEF TeamInv

LEMMA AloneKept ==
  ASSUME IInv, Grows, NEW r \in Reqs, Act(r), NEW u \in Users, AloneInv(u)
  PROVE  AloneInv(u)'
<1> SUFFICES ASSUME Alone(u)' PROVE AloneInv(u)'
  BY DEF AloneInv
<1>1. Alone(u)
  BY UndisturbedBefore
<1>2. \A q \in Reqs : task'[q].user = u => task[q].user = u
  BY TaskBefore DEF IInv
<1> QED BY <1>1, <1>2 DEF AloneInv

LEMMA PairKept ==
  ASSUME IInv, Grows, NEW r \in Reqs, Act(r), NEW u \in Users, NEW t \in Teams,
         TeamInv(t), AloneInv(u), PairInv(u, t)
  PROVE  PairInv(u, t)'
<1> SUFFICES ASSUME Whole(t)', Alone(u)' PROVE PairInv(u, t)'
  BY DEF PairInv
<1> Control /\ World
  BY DEF IInv
<1> Whole(t) /\ Alone(u)
  BY UndisturbedBefore
<1>1. \A q \in Reqs : task[q].user = u /\ task[r].user = u => q = r
  BY DEF AloneInv
<1>2. /\ ListedInv(u, t)
      /\ \A q \in Reqs : Mine(q, u, t) /\ task[q].kind = "updateStats" => u \in teamRank[t]
      /\ \A q \in Reqs : Mine(q, u, t) /\ Joining(q) /\ pc[q] = "listMember" =>
           <<u, t>> \in members
      /\ \A q \in Reqs : OnTeam(q, t) /\ pc[q] \in EmptyLabels => u \notin teamRank[t]
  BY DEF PairInv
<1>3. \A q \in Reqs \ {r} : pc'[q] = pc[q] /\ task'[q] = task[q]
  BY OthersStay
<1>4. ASSUME Mine(r, u, t), Leaving(r), pc[r] \in Window, <<u, t>> \in listed
      PROVE  pc'[r] \in Window \cup {"listMember"} /\ task' = task
  <2>1. <<u, t>> \in members
    BY <1>1, <1>2, <1>4 DEF ListedInv, Mine, Window
  <2>2. ~ Joining(r) /\ <<task[r].user, task[r].team>> = <<u, t>>
    BY <1>4 DEF Joining, Leaving, Mine
  <2>3. ~ \A x \in Touches(r) : (IF Leaving(r) THEN "torn" ELSE "stop") \in faults'[x]
    BY <1>4, BrokenNoted
  <2>4. (pc[r] \in Window /\ pc'[r] \in Window /\ task' = task) \/ pc'[r] = "listMember"
        \/ (pc'[r] = "elect" /\ pc[r] \in {"syncMember", "listMember"})
    BY <1>4, <2>1, <2>2, <2>3, WindowSteps
  <2>5. pc'[r] = "elect" => pc[r] # "syncMember"
    <3>1. CASE Plain(r)
      BY <3>1, <1>4 DEF Plain, Ends, Finish, Goto, Along, Control, Window
    <3>2. CASE Telling(r)
      BY <3>2 DEF Telling, QueryTeamStats, UpdateTeamUserRank, SetTeamMember,
           SyncMemberDB, SyncMemberRedis, CheckTeam, DeleteTeam, RemoveUserRank, FindTeam,
           StatMember, Goto, Control
    <3> QED BY <3>1, <3>2, ActIsPlain
  <2> QED BY <1>4, <2>4, <2>5, ListSteps DEF Window
<1>5. ASSUME Mine(r, u, t), Leaving(r), pc[r] = "listMember" PROVE <<u, t>> \notin listed'
  <2>1. ~ Joining(r)
    BY <1>5 DEF Joining, Leaving
  <2>2. pc'[r] # "idle"
    <3>1. ~ \A x \in Touches(r) : (IF Leaving(r) THEN "torn" ELSE "stop") \in faults'[x]
      BY <1>5, BrokenNoted
    <3> QED BY <3>1, <1>5, WindowSteps DEF Window
  <2> QED BY <1>5, <2>1, <2>2, ListSteps
<1>6. ASSUME u \in teamRank[t], u \notin teamRank'[t]
      PROVE  Mine(r, u, t) /\ Leaving(r) /\ pc'[r] = "modifySteps" /\ task' = task
  BY <1>2, <1>6, RankSteps DEF EmptyLabels
<1>7. ASSUME <<u, t>> \in members, <<u, t>> \notin members'
      PROVE  Mine(r, u, t) /\ Leaving(r) /\ pc'[r] = "listMember" /\ task' = task
  <2>1. Mine(r, u, t) /\ task' = task /\ pc[r] = "syncMember" /\ pc'[r] = "listMember"
    BY <1>7, ListSteps
  <2>2. ~ Joining(r)
    BY <1>7, <2>1, ListSteps
  <2>3. task[r].kind \in {"joinTeam", "leaveTeam"}
    BY <2>1 DEF Control, Fits, MoveLabels
  <2> QED BY <2>1, <2>2, <2>3 DEF Joining, Leaving
<1>8. ListedInv(u, t)'
  <2> SUFFICES ASSUME <<u, t>> \in listed' PROVE ListedInv(u, t)'
    BY DEF ListedInv
  <2>1. CASE <<u, t>> \notin listed
    <3>1. Mine(r, u, t) /\ task' = task /\ pc[r] = "listMember" /\ pc'[r] = "elect"
      BY <2>1, ListSteps
    <3>2. Joining(r)
      BY <3>1, ListSteps
    <3>3. u \in teamRank[t] /\ <<u, t>> \in members
      <4>1. OnTeam(r, t) /\ pc[r] \in JoinedLabels
        BY <3>1, <3>2 DEF OnTeam, Mine, Joining, JoinedLabels
      <4> QED BY <3>1, <3>2, <4>1, <1>2 DEF TeamInv, Mine
    <3>4. u \in teamRank'[t] /\ <<u, t>> \in members'
      BY <3>1, <3>3, <1>6, <1>7
    <3> QED BY <3>4 DEF ListedInv
  <2>2. CASE <<u, t>> \in listed
    <3>1. \/ u \in teamRank'[t]
          \/ \E q \in Reqs : /\ Mine(q, u, t)' /\ Leaving(q)'
                             /\ pc'[q] \in Window \cup {"listMember"}
      <4>1. CASE u \in teamRank[t]
        BY <4>1, <1>6 DEF Mine, Leaving, Window
      <4>2. CASE u \notin teamRank[t]
        <5>1. PICK q \in Reqs : Mine(q, u, t) /\ Leaving(q) /\ pc[q] \in Window \cup {"listMember"}
          BY <2>2, <4>2, <1>2 DEF ListedInv
        <5>2. CASE q # r
          BY <5>1, <5>2, <1>3 DEF Mine, Leaving
        <5>3. CASE q = r
          BY <5>1, <5>3, <2>2, <1>4, <1>5 DEF Mine, Leaving
        <5> QED BY <5>2, <5>3
      <4> QED BY <4>1, <4>2
    <3>2. \/ <<u, t>> \in members'
          \/ \E q \in Reqs : Mine(q, u, t)' /\ Leaving(q)' /\ pc'[q] = "listMember"
      <4>1. CASE <<u, t>> \in members
        BY <4>1, <1>7 DEF Mine, Leaving
      <4>2. CASE <<u, t>> \notin members
        <5>1. PICK q \in Reqs : Mine(q, u, t) /\ Leaving(q) /\ pc[q] = "listMember"
          BY <2>2, <4>2, <1>2 DEF ListedInv
        <5>2. q # r
          BY <5>1, <1>5
        <5> QED BY <5>1, <5>2, <1>3 DEF Mine, Leaving
      <4> QED BY <4>1, <4>2
    <3> QED BY <3>1, <3>2 DEF ListedInv
  <2> QED BY <2>1, <2>2
<1>9. ASSUME NEW q \in Reqs, Mine(q, u, t)', task'[q].kind = "updateStats"
      PROVE  u \in teamRank'[t]
  <2>1. task[q].user = u /\ task[q].kind = "updateStats"
    BY <1>9, TaskBefore DEF Mine
  <2>2. u \in teamRank[t]
    <3>1. CASE Mine(q, u, t)
      BY <2>1, <3>1, <1>2
    <3>2. CASE q = r /\ <<u, t>> \in listed
      BY <3>2, <2>1, <1>1, <1>2 DEF ListedInv, Mine, Leaving
    <3> QED BY <1>9, <3>1, <3>2, TaskBefore
  <2> QED BY <2>1, <2>2, <1>1, <1>6 DEF Mine, Leaving
<1>10. ASSUME NEW q \in Reqs, Mine(q, u, t)', Joining(q)', pc'[q] = "listMember"
       PROVE  <<u, t>> \in members'
  <2>1. CASE q # r
    <3>1. Mine(q, u, t) /\ <<u, t>> \in members
      BY <2>1, <1>2, <1>3, <1>10 DEF Mine, Joining
    <3> QED BY <2>1, <3>1, <1>1, <1>7 DEF Mine
  <2>2. CASE q = r
    BY <2>2, <1>10, ListSteps DEF Mine, Joining
  <2> QED BY <2>1, <2>2
<1>11. ASSUME NEW q \in Reqs, OnTeam(q, t)', pc'[q] \in EmptyLabels
       PROVE  u \notin teamRank'[t]
  <2>1. OnTeam(q, t)
    BY <1>11, TaskBefore
  <2>2. u \notin teamRank[t] /\ (q # r => pc[q] \in EmptyLabels)
        /\ (q = r => pc[r] \in EmptyLabels \cup {"dissolve"})
    <3>1. CASE q # r
      BY <3>1, <2>1, <1>2, <1>3, <1>11
    <3>2. CASE q = r
      <4>1. pc'[r] # "idle" /\ task[r].team = t
        BY <3>2, <2>1, <1>11 DEF OnTeam, EmptyLabels
      <4> QED BY <3>2, <4>1, <2>1, <1>2, <1>11, LabelSteps
    <3> QED BY <3>1, <3>2
  <2> SUFFICES ASSUME u \in teamRank'[t] PROVE FALSE
    OBVIOUS
  <2>3. Mine(r, u, t) /\ ~ task[r].kind = "updateStats"
    BY <2>2, <1>2, RankSteps
  <2>4. OnTeam(r, t) /\ Joining(r) /\ pc[r] = "rankMember"
    BY <2>2, <2>3, RankSteps
  <2>5. q # r
    BY <2>2, <2>4 DEF EmptyLabels
  <2>6. Joining(q)
    BY <2>1, <2>4, <2>5 DEF TeamInv
  <2> QED BY <2>1, <2>2, <2>5, <2>6 DEF TeamInv, EndLabels
<1> QED BY <1>8, <1>9, <1>10, <1>11 DEF PairInv

LEMMA MemberKept ==
  ASSUME IInv, Grows, NEW r \in Reqs, Act(r), NEW u \in Users, NEW t \in Teams,
         TeamInv(t), AloneInv(u), PairInv(u, t), MemberInv(u, t)
  PROVE  MemberInv(u, t)'
<1> SUFFICES ASSUME Only(u, {"drift"})', Only(t, {"crowd", "revived", "stale"})' PROVE MemberInv(u, t)'
  BY DEF MemberInv
<1> Control /\ World
  BY DEF IInv
<1> Only(u, {"drift"}) /\ Only(t, {"crowd", "revived", "stale"}) /\ Whole(t) /\ Alone(u)
  BY UndisturbedBefore DEF Only, Whole, Alone
<1>1. \A q \in Reqs : task[q].user = u /\ task[r].user = u => q = r
  BY DEF AloneInv
<1>2. \A q \in Reqs \ {r} : pc'[q] = pc[q] /\ task'[q] = task[q]
  BY OthersStay
<1>3. /\ u \in teamRank'[t] /\ u \notin teamRank[t] =>
           Mine(r, u, t) /\ Joining(r) /\ pc[r] = "rankMember" /\ pc'[r] = "modifySteps"
           /\ task' = task
      /\ u \in teamRank[t] /\ u \notin teamRank'[t] =>
           Mine(r, u, t) /\ Leaving(r) /\ pc[r] = "rankMember" /\ pc'[r] = "modifySteps"
           /\ task' = task
  BY RankSteps DEF PairInv, EmptyLabels
<1>4. \/ <<u, t>> \in members' <=> <<u, t>> \in members
      \/ Mine(r, u, t) /\ pc[r] = "syncMember" /\ pc'[r] = "listMember"
  BY ListSteps
<1>5. ASSUME \A q \in Reqs : Mine(q, u, t)' => pc'[q] \notin Window
      PROVE  u \in teamRank'[t] <=> <<u, t>> \in members'
  <2>1. u \in teamRank'[t] <=> u \in teamRank[t]
    BY <1>3, <1>5 DEF Mine, Window
  <2>2. CASE Mine(r, u, t) /\ pc[r] \in Window
    <3>1. ~ \A x \in Touches(r) : (IF Leaving(r) THEN "torn" ELSE "stop") \in faults'[x]
      BY <2>2, BrokenNoted
    <3>2. task[r].kind \in {"joinTeam", "leaveTeam"} /\ <<task[r].user, task[r].team>> = <<u, t>>
      BY <2>2 DEF Control, Fits, MoveLabels, Window, Mine
    <3>3. u \in teamRank[t] <=> Joining(r)
      <4>1. Joining(r) => u \in teamRank[t]
        BY <2>2 DEF TeamInv, OnTeam, Mine, Joining, JoinedLabels
      <4>2. Leaving(r) => u \notin teamRank[t]
        BY <2>2 DEF MemberInv
      <4> QED BY <3>2, <4>1, <4>2 DEF Joining, Leaving
    <3>4. ~ (pc'[r] \in Window /\ task' = task)
      BY <2>2, <1>5 DEF Mine
    <3>5. CASE pc'[r] = "listMember"
      BY <3>5, <2>1, <2>2, <3>3, ListSteps
    <3>6. CASE pc[r] = "setMember" /\ (Joining(r) <=> <<u, t>> \in members) /\ UNCHANGED members
      BY <3>6, <2>1, <3>3
    <3>7. pc'[r] = "elect" => pc[r] # "syncMember"
      <4>1. CASE Plain(r)
        BY <4>1, <2>2 DEF Plain, Ends, Finish, Goto, Along, Control, Window
      <4>2. CASE Telling(r)
        BY <4>2 DEF Telling, QueryTeamStats, UpdateTeamUserRank, SetTeamMember,
             SyncMemberDB, SyncMemberRedis, CheckTeam, DeleteTeam, RemoveUserRank, FindTeam,
             StatMember, Goto, Control
      <4> QED BY <4>1, <4>2, ActIsPlain
    <3> QED BY <2>2, <3>1, <3>2, <3>4, <3>5, <3>6, <3>7, WindowSteps DEF Window
  <2>3. CASE ~ (Mine(r, u, t) /\ pc[r] \in Window)
    <3>1. \A q \in Reqs : Mine(q, u, t) => pc[q] \notin Window
      BY <2>3, <1>2, <1>5 DEF Mine
    <3>2. u \in teamRank[t] <=> <<u, t>> \in members
      BY <3>1 DEF MemberInv
    <3> QED BY <2>1, <2>3, <3>2, <1>4 DEF Window
  <2> QED BY <2>2, <2>3
<1>6. ASSUME NEW q \in Reqs, Mine(q, u, t)', Leaving(q)', pc'[q] \in Window
      PROVE  u \notin teamRank'[t]
  <2>1. task[q].user = u /\ task[q].kind = "leaveTeam"
    BY <1>6, TaskBefore DEF Mine, Leaving
  <2>2. Mine(q, u, t)
    BY <1>6, <2>1, TaskBefore
  <2>3. CASE q # r
    <3>1. u \notin teamRank[t]
      BY <2>2, <2>3, <1>2, <1>6 DEF MemberInv, Leaving
    <3>2. ~ Mine(r, u, t)
      BY <2>1, <2>3, <1>1 DEF Mine
    <3> QED BY <3>1, <3>2, <1>3
  <2>4. CASE q = r
    <3>1. pc[r] \in Window \cup {"rankMember"}
      <4>1. CASE Plain(r)
        BY <4>1, <2>4, <1>6 DEF Plain, Ends, Finish, Goto, Along, Control, Window
      <4>2. CASE Telling(r)
        BY <4>2, <2>4, <1>6 DEF Telling, QueryTeamStats, UpdateTeamUserRank, SetTeamMember,
             SyncMemberDB, SyncMemberRedis, CheckTeam, DeleteTeam, EndDelete, RemoveUserRank,
             FindTeam, StatMember, Finish, Goto, Control, Window
      <4> QED BY <4>1, <4>2, ActIsPlain
    <3>2. CASE pc[r] \in Window
      <4>1. u \notin teamRank[t]
        BY <3>2, <2>1, <2>2, <2>4 DEF MemberInv, Leaving
      <4> QED BY <3>2, <4>1, <1>3 DEF Window
    <3>3. CASE pc[r] = "rankMember"
      <4>1. pc'[r] = "modifySteps"
        <5>1. CASE Plain(r)
          BY <5>1, <3>3, <2>4, <1>6 DEF Plain, Ends, Finish, Goto, Along, Control, Window
        <5>2. CASE Telling(r)
          BY <5>2, <3>3 DEF Telling, QueryTeamStats, UpdateTeamUserRank, SetTeamMember,
               SyncMemberDB, SyncMemberRedis, CheckTeam, DeleteTeam, RemoveUserRank, FindTeam,
               StatMember, Goto, Control
        <5> QED BY <5>1, <5>2, ActIsPlain
      <4>2. ~ Joining(r)
        BY <2>1, <2>4 DEF Joining
      <4> QED BY <3>3, <4>1, <4>2, <2>2, <2>4, RankSteps
    <3> QED BY <3>1, <3>2, <3>3
  <2> QED BY <2>3, <2>4
<1> QED BY <1>5, <1>6 DEF MemberInv

LEMMA LimitStays ==
  ASSUME IInv, Grows, NEW r \in Reqs, Act(r), NEW t \in Teams, TeamInv(t), LimitInv(t),
         \A u \in Users : PairInv(u, t)
  PROVE  LimitInv(t)'
<1> SUFFICES ASSUME Only(t, {"revived", "stale", "stop"})', \A u \in Users : Alone(u)'
             PROVE  LimitInv(t)'
  BY DEF LimitInv
<1> Control /\ World
  BY DEF IInv
<1>1. Only(t, {"revived", "stale", "stop"}) /\ Whole(t) /\ \A u \in Users : Alone(u)
  BY UndisturbedBefore DEF Only, Whole
<1>2. /\ Cardinality(teamRank[t]) <= Limit
      /\ \A a, b \in Reqs : OnTeam(a, t) /\ OnTeam(b, t) => a = b
      /\ \A q \in Reqs : OnTeam(q, t) /\ Joining(q) /\ pc[q] \in PreLabels =>
           Cardinality(teamRank[t]) < Limit
  BY <1>1 DEF LimitInv
<1>3. \A q \in Reqs : OnTeam(q, t)' => OnTeam(q, t) /\ task'[q] = task[q]
  BY TaskBefore
<1>4. /\ IsFiniteSet(teamRank[t]) /\ IsFiniteSet(teamRank'[t])
      /\ Cardinality(teamRank[t]) \in Nat /\ Cardinality(teamRank'[t]) \in Nat
  <2>1. teamRank[t] \subseteq Users /\ teamRank'[t] \subseteq Users
    BY WorldKept DEF World, IInv
  <2> QED BY <2>1, ConstantsAssumption, FS_Subset, FS_CardinalityType
<1>5. ASSUME NEW u, u \in teamRank'[t], u \notin teamRank[t]
      PROVE  /\ u = task[r].user /\ OnTeam(r, t) /\ Joining(r)
             /\ pc[r] = "rankMember" /\ pc'[r] = "modifySteps"
  <2>1. Mine(r, u, t) /\ u \in Users
    BY <1>5, RankSteps
  <2>2. task[r].kind # "updateStats"
    BY <2>1, <1>1, <1>5 DEF PairInv
  <2> QED BY <2>1, <2>2, <1>5, RankSteps DEF Mine
<1>6. CASE teamRank'[t] \subseteq teamRank[t]
  <2>1. Cardinality(teamRank'[t]) <= Cardinality(teamRank[t])
    BY <1>4, <1>6, FS_Subset
  <2>2. ASSUME NEW q \in Reqs, OnTeam(q, t)', Joining(q)', pc'[q] \in PreLabels
        PROVE  Cardinality(teamRank'[t]) < Limit
    <3>1. OnTeam(q, t) /\ Joining(q)
      BY <2>2, <1>3 DEF Joining
    <3>2. CASE q # r
      <4>1. pc[q] \in PreLabels
        BY <2>2, <3>2, OthersStay
      <4> QED BY <2>1, <3>1, <4>1, <1>2, <1>4, ConstantsAssumption
    <3>3. CASE q = r
      <4>1. pc'[r] # "idle" /\ task[r].team = t
        BY <2>2, <3>1, <3>3 DEF PreLabels, OnTeam
      <4>2. Cardinality(teamRank[t]) < Limit
        BY <2>2, <3>1, <3>3, <4>1, <1>2, LabelSteps
      <4> QED BY <2>1, <4>2, <1>4, ConstantsAssumption
    <3> QED BY <3>2, <3>3
  <2>3. Cardinality(teamRank'[t]) <= Limit
    BY <2>1, <1>2, <1>4, ConstantsAssumption
  <2> QED BY <2>2, <2>3, <1>2, <1>3 DEF LimitInv
<1>7. CASE ~ (teamRank'[t] \subseteq teamRank[t])
  <2>1. /\ OnTeam(r, t) /\ Joining(r) /\ pc[r] = "rankMember" /\ pc'[r] = "modifySteps"
        /\ teamRank'[t] \subseteq teamRank[t] \cup {task[r].user}
    BY <1>5, <1>7
  <2>2. Cardinality(teamRank[t]) < Limit
    BY <2>1, <1>2 DEF PreLabels
  <2>3. Cardinality(teamRank'[t]) <= Cardinality(teamRank[t]) + 1
    <3> DEFINE S == teamRank[t] \cup {task[r].user}
    <3>1. IsFiniteSet(S) /\ (Cardinality(S) = Cardinality(teamRank[t])
                             \/ Cardinality(S) = Cardinality(teamRank[t]) + 1)
      BY <1>4, FS_AddElement
    <3>2. Cardinality(teamRank'[t]) <= Cardinality(S) /\ Cardinality(S) \in Nat
      BY <2>1, <3>1, FS_Subset, FS_CardinalityType
    <3> HIDE DEF S
    <3> QED BY <3>1, <3>2, <1>4
  <2>4. Cardinality(teamRank'[t]) <= Limit
    BY <2>2, <2>3, <1>4, ConstantsAssumption
  <2>5. \A q \in Reqs : OnTeam(q, t)' => q = r
    BY <2>1, <1>2, <1>3
  <2> QED BY <2>1, <2>4, <2>5 DEF LimitInv, PreLabels
<1> QED BY <1>6, <1>7

(* A request that comes for a team or a user somebody is busy with is noted.*)
LEMMA OverlappedHas ==
  ASSUME NEW k, NEW q \in Busy, NEW x,
         \/ x \in {k.user} \cap {task[q].user} \cap Users
         \/ ~ Apart(k, task[q]) /\ x \in {k.team} \cap {task[q].team} \cap Teams
  PROVE  x \in Overlapped(k)
<1> DEFINE O(p) == ({k.user} \cap {task[p].user} \cap Users)
                     \cup IF Apart(k, task[p]) THEN {}
                          ELSE {k.team} \cap {task[p].team} \cap Teams
<1>1. x \in O(q)
  OBVIOUS
<1>2. Overlapped(k) = UNION {O(p) : p \in Busy}
  BY DEF Overlapped
<1> HIDE DEF O
<1> QED BY <1>1, <1>2

LEMMA BeginNotes ==
  ASSUME Control, NEW r \in Reqs, NEW k \in Requested, Begin(r, k), NEW q \in Reqs \ {r}
  PROVE  /\ \A u \in Users : k.user = u /\ task[q].user = u => ~ Alone(u)'
         /\ \A t \in Teams : k.team = t /\ k.kind # "queryTeams" /\ OnTeam(q, t) =>
              /\ (k.kind = "joinTeam" /\ Joining(q)) \/ ~ Whole(t)'
              /\ ~ Only(t, {"revived", "stale", "stop"})'
<1>1. faults' = [x \in Users \cup Teams |->
        faults[x] \cup (IF x \in Overlapped(k) THEN {"overlap"} ELSE {})
                  \cup (IF x \in Crowded(k) THEN {"crowd"} ELSE {})]
  BY DEF Begin
<1>2. task[q] # NoTask => q \in Busy
  BY ControlIsType DEF Busy
<1>3. ASSUME NEW u \in Users, k.user = u, task[q].user = u PROVE ~ Alone(u)'
  <2>1. q \in Busy
    BY <1>2, <1>3, ConstantsAssumption DEF NoTask
  <2>2. u \in Overlapped(k)
    BY <1>3, <2>1, OverlappedHas
  <2> QED BY <1>1, <2>2 DEF Alone
<1>4. ASSUME NEW t \in Teams, k.team = t, k.kind # "queryTeams", OnTeam(q, t)
      PROVE  /\ (k.kind = "joinTeam" /\ Joining(q)) \/ ~ Whole(t)'
             /\ ~ Only(t, {"revived", "stale", "stop"})'
  <2>1. q \in Busy
    BY <1>2, <1>4, ConstantsAssumption DEF NoTask, OnTeam
  <2>2. CASE k.kind = "joinTeam" /\ Joining(q)
    <3>1. t \in Crowded(k)
      BY <1>4, <2>1, <2>2 DEF Crowded, OnTeam
    <3> QED BY <1>1, <2>2, <3>1 DEF Only
  <2>3. CASE ~ (k.kind = "joinTeam" /\ Joining(q))
    <3>1. ~ Apart(k, task[q])
      BY <1>4, <2>3 DEF Apart, OnTeam, Joining
    <3>2. t \in Overlapped(k)
      BY <1>4, <2>1, <3>1, OverlappedHas DEF OnTeam
    <3> QED BY <1>1, <3>2 DEF Only, Whole
  <2> QED BY <2>2, <2>3
<1> QED BY <1>3, <1>4

(* A new request changes no rank and stands at none of the labels.          *)
LEMMA BeginRank ==
  ASSUME IInv, RankInv, Grows, NEW r \in Reqs, NEW k \in Requested, Begin(r, k)
  PROVE  RankInv'
<1> Control
  BY DEF IInv
<1>1. /\ UNCHANGED <<teamRank, members, listed>> /\ task[r] = NoTask
      /\ task'[r] = k /\ pc'[r] = FirstStep(k.kind)
      /\ \A q \in Reqs \ {r} : pc'[q] = pc[q] /\ task'[q] = task[q]
  BY DEF Begin, Goto, Control, rankVars, memberVars
<1>2. /\ k.kind \in Kind /\ (k.team \in Teams => k.kind \notin {"joinActivity", "updateStats"})
      /\ pc'[r] \in {"queryTeam", "updateSteps", "dissolve", "findTeam"}
      /\ pc'[r] = "dissolve" => k.kind = "dissolve"
      /\ pc'[r] = "updateSteps" => k.kind = "joinActivity"
  BY <1>1, ConstantsAssumption DEF Requested, Task, FirstStep, Kind
<1>3. /\ \A t \in Teams : ~ OnTeam(r, t)
      /\ \A u \in Users, t \in Teams : ~ Mine(r, u, t)
  BY <1>1, ConstantsAssumption DEF NoTask, Mine, OnTeam
<1>4. /\ \A q \in Reqs \ {r} : /\ Joining(q)' <=> Joining(q)
                              /\ Leaving(q)' <=> Leaving(q)
      /\ \A q \in Reqs \ {r}, t \in Teams : OnTeam(q, t)' <=> OnTeam(q, t)
      /\ \A q \in Reqs \ {r}, u \in Users, t \in Teams : Mine(q, u, t)' <=> Mine(q, u, t)
  BY <1>1 DEF OnTeam, Mine, Joining, Leaving
<1>5. ASSUME NEW t \in Teams PROVE TeamInv(t)'
  <2> SUFFICES ASSUME Whole(t)' PROVE TeamInv(t)'
    BY DEF TeamInv
  <2>1. Whole(t) /\ TeamInv(t)
    BY UndisturbedBefore DEF RankInv
  <2>2. \A q \in Reqs \ {r} : OnTeam(r, t)' /\ OnTeam(q, t)' => Joining(r)' /\ Joining(q)'
    BY <1>1, <1>4, BeginNotes DEF OnTeam, Joining
  <2>3. OnTeam(r, t)' /\ Joining(r)' => pc'[r] \notin EndLabels /\ pc'[r] \notin JoinedLabels
    BY <1>1, <1>2 DEF Joining, EndLabels, EmptyLabels, JoinedLabels, Window
  <2>4. \A a, b \in Reqs : OnTeam(a, t)' /\ OnTeam(b, t)' /\ a # b => Joining(a)' /\ Joining(b)'
    BY <2>1, <2>2, <1>1 DEF TeamInv, OnTeam, Joining
  <2>5. \A q \in Reqs : OnTeam(q, t)' /\ Joining(q)' =>
          /\ pc'[q] \notin EndLabels
          /\ pc'[q] \in JoinedLabels => task'[q].user \in teamRank'[t]
    BY <2>1, <2>3, <1>1 DEF TeamInv, OnTeam, Joining
  <2> QED BY <2>4, <2>5 DEF TeamInv
<1>6. ASSUME NEW t \in Teams PROVE LimitInv(t)'
  <2> SUFFICES ASSUME Only(t, {"revived", "stale", "stop"})', \A u \in Users : Alone(u)'
               PROVE  LimitInv(t)'
    BY DEF LimitInv
  <2>1. Only(t, {"revived", "stale", "stop"}) /\ (\A u \in Users : Alone(u)) /\ LimitInv(t)
    BY UndisturbedBefore DEF RankInv
  <2>2. \A q \in Reqs \ {r} : ~ (OnTeam(r, t)' /\ OnTeam(q, t)')
    BY <1>1, <1>4, BeginNotes DEF OnTeam
  <2>3. OnTeam(r, t)' /\ Joining(r)' => pc'[r] \notin PreLabels
    BY <1>1, <1>2 DEF Joining, PreLabels
  <2>4. \A a, b \in Reqs : OnTeam(a, t)' /\ OnTeam(b, t)' => a = b
    BY <2>1, <2>2, <1>4 DEF LimitInv
  <2>5. \A q \in Reqs : OnTeam(q, t)' /\ Joining(q)' /\ pc'[q] \in PreLabels =>
          Cardinality(teamRank'[t]) < Limit
    BY <2>1, <2>3, <1>1 DEF LimitInv, OnTeam, Joining
  <2> QED BY <2>1, <2>4, <2>5, <1>1 DEF LimitInv
<1>7. ASSUME NEW u \in Users PROVE AloneInv(u)'
  <2> SUFFICES ASSUME Alone(u)' PROVE AloneInv(u)'
    BY DEF AloneInv
  <2>1. Alone(u) /\ AloneInv(u)
    BY UndisturbedBefore DEF RankInv
  <2>2. \A q \in Reqs \ {r} : ~ (task'[r].user = u /\ task'[q].user = u)
    BY <1>1, BeginNotes
  <2> QED BY <2>1, <2>2, <1>1 DEF AloneInv
<1>8. ASSUME NEW u \in Users, NEW t \in Teams PROVE PairInv(u, t)'
  <2> SUFFICES ASSUME Whole(t)', Alone(u)' PROVE PairInv(u, t)'
    BY DEF PairInv
  <2>1. PairInv(u, t) /\ Whole(t) /\ Alone(u)
    BY UndisturbedBefore DEF RankInv
  <2>2. ListedInv(u, t)'
    <3>1. ListedInv(u, t)
      BY <2>1 DEF PairInv
    <3>2. \A q \in Reqs : Mine(q, u, t) => q # r
      BY <1>3
    <3> QED BY <3>1, <3>2, <1>1, <1>4 DEF ListedInv
  <2>3. \A q \in Reqs : Mine(q, u, t)' /\ task'[q].kind = "updateStats" => u \in teamRank'[t]
    <3>1. ~ (Mine(r, u, t)' /\ task'[r].kind = "updateStats")
      BY <1>1, <1>2 DEF Mine
    <3> QED BY <3>1, <2>1, <1>1, <1>4 DEF PairInv
  <2>4. \A q \in Reqs : Mine(q, u, t)' /\ Joining(q)' /\ pc'[q] = "listMember" =>
          <<u, t>> \in members'
    BY <2>1, <1>1, <1>2 DEF PairInv, Mine, Joining
  <2>5. \A q \in Reqs : OnTeam(q, t)' /\ pc'[q] \in EmptyLabels => u \notin teamRank'[t]
    BY <2>1, <1>1, <1>2, <1>4 DEF PairInv, EmptyLabels
  <2> QED BY <2>2, <2>3, <2>4, <2>5 DEF PairInv
<1>9. ASSUME NEW u \in Users, NEW t \in Teams PROVE MemberInv(u, t)'
  <2> SUFFICES ASSUME Only(u, {"drift"})', Only(t, {"crowd", "revived", "stale"})'
               PROVE  MemberInv(u, t)'
    BY DEF MemberInv
  <2>1. MemberInv(u, t) /\ Only(u, {"drift"}) /\ Only(t, {"crowd", "revived", "stale"})
    BY UndisturbedBefore DEF RankInv
  <2>2. pc'[r] \notin Window
    BY <1>2 DEF Window
  <2>3. \A q \in Reqs : Mine(q, u, t) => q # r
    BY <1>3
  <2>4. ~ (Mine(r, u, t)' /\ pc'[r] \in Window)
    BY <2>2
  <2>5. \A q \in Reqs \ {r} : /\ Mine(q, u, t)' <=> Mine(q, u, t)
                              /\ Leaving(q)' <=> Leaving(q)
                              /\ pc'[q] = pc[q]
    BY <1>1 DEF Mine, Leaving
  <2>6. (\A q \in Reqs : Mine(q, u, t)' => pc'[q] \notin Window) =>
          \A q \in Reqs : Mine(q, u, t) => pc[q] \notin Window
    BY <2>3, <2>5
  <2>7. \A q \in Reqs : Mine(q, u, t)' /\ Leaving(q)' /\ pc'[q] \in Window =>
          Mine(q, u, t) /\ Leaving(q) /\ pc[q] \in Window
    BY <2>2, <2>5
  <2> QED BY <2>1, <2>6, <2>7, <1>1 DEF MemberInv
<1> QED BY <1>5, <1>6, <1>7, <1>8, <1>9 DEF RankInv

LEMMA InitRanked == Init => RankInv
<1> SUFFICES ASSUME Init PROVE RankInv
  OBVIOUS
<1>1. /\ \A r \in Reqs, t \in Teams : ~ OnTeam(r, t)
      /\ \A r \in Reqs, u \in Users : task[r].user # u
      /\ \A r \in Reqs, u \in Users, t \in Teams : ~ Mine(r, u, t)
  BY ConstantsAssumption DEF Init, NoTask, Mine, OnTeam
<1>2. \A t \in Teams : teamRank[t] = {} /\ Cardinality(teamRank[t]) = 0
  BY FS_EmptySet DEF Init
<1>3. members = {} /\ listed = {}
  BY DEF Init
<1>4. \A t \in Teams : TeamInv(t) /\ LimitInv(t)
  BY <1>1, <1>2, ConstantsAssumption DEF TeamInv, LimitInv
<1>5. \A u \in Users : AloneInv(u)
  BY <1>1 DEF AloneInv
<1>6. \A u \in Users, t \in Teams : PairInv(u, t) /\ MemberInv(u, t)
  BY <1>1, <1>2, <1>3 DEF PairInv, ListedInv, MemberInv
<1> QED BY <1>4, <1>5, <1>6 DEF RankInv

LEMMA RankKept == IInv /\ RankInv /\ [Next]_vars => RankInv'
<1> SUFFICES ASSUME IInv, RankInv, [Next]_vars PROVE RankInv'
  OBVIOUS
<1>1. ASSUME NEW r \in Reqs, Act(r) PROVE RankInv'
  <2>1. Grows
    BY <1>1, HistoryKept DEF IInv
  <2>2. \A t \in Teams : TeamInv(t)' /\ LimitInv(t)'
    BY <1>1, <2>1, TeamKept, LimitStays DEF RankInv
  <2>3. \A u \in Users : AloneInv(u)'
    BY <1>1, <2>1, AloneKept DEF RankInv
  <2>4. \A u \in Users, t \in Teams : PairInv(u, t)' /\ MemberInv(u, t)'
    BY <1>1, <2>1, PairKept, MemberKept DEF RankInv
  <2> QED BY <2>2, <2>3, <2>4 DEF RankInv
<1>2. ASSUME NEW r \in Reqs, NEW k \in Requested, Begin(r, k) PROVE RankInv'
  <2>1. Grows
    BY <1>2, HistoryKept DEF IInv
  <2> QED BY <1>2, <2>1, BeginRank
<1>3. CASE UNCHANGED vars
  <2>1. UNCHANGED <<teamRank, members, listed, pc, task, faults>>
    BY <1>3 DEF vars, rankVars, memberVars, history
  <2> QED BY <2>1 DEF RankInv, TeamInv, LimitInv, AloneInv, PairInv, ListedInv, MemberInv, Whole,
                      Alone, Only, OnTeam, Mine, Joining, Leaving
<1> QED BY <1>1, <1>2, <1>3, NextActs

LEMMA RankInvHolds == Spec => []RankInv
BY InitRanked, RankKept, HandlersPlaced, PTL DEF Spec

(* The rank of a team never shows more users than the limit when they join  *)
(* one after the other and no leave has failed, for any numbers of both:    *)
(* new steps put nobody into the rank, since who is listed is in it.        *)
THEOREM LimitHolds == Spec => []LimitKept
<1>1. RankInv => LimitKept
  BY DEF RankInv, LimitInv, LimitKept, Alone
<1> QED BY <1>1, RankInvHolds, PTL

(* The rank of a team has the members of the table and nobody else, once    *)
(* the requests of the user and of the team are over and none was           *)
(* disturbed.                                                               *)
THEOREM RankHasMembers == Spec => []RankIsMembers
<1>1. IInv /\ RankInv => RankIsMembers
  <2> SUFFICES ASSUME IInv, RankInv, NEW u \in Users, NEW t \in Teams, Settled(u),
                      Only(u, {"drift"}), Only(t, {"crowd", "revived", "stale"})
               PROVE  u \in teamRank[t] <=> <<u, t>> \in members
    BY DEF RankIsMembers
  <2>1. \A r \in Reqs : ~ Mine(r, u, t)
    <3> SUFFICES ASSUME NEW r \in Reqs, Mine(r, u, t) PROVE FALSE
      OBVIOUS
    <3>1. u \in Touches(r)
      BY DEF Touches, Mine
    <3>2. task[r] # NoTask
      BY ConstantsAssumption DEF Mine, NoTask
    <3>3. r \in Busy
      BY <3>2, ControlIsType DEF Busy, IInv
    <3> QED BY <3>1, <3>3 DEF Settled
  <2> QED BY <2>1 DEF RankInv, MemberInv
<1> QED BY <1>1, HandlersPlaced, RankInvHolds, PTL

-----------------------------------------------------------------------------
(* A dissolved team. The rank was empty when its row was marked, so nobody  *)
(* runs a request in it but the one that removes it, and who finds no field *)
(* in Redis afterwards reads the row, which revives the team.               *)

CleanLabels == AskLabels \cup DeleteLabels \cup {"removeAgain"}

Quiet(t) == Only(t, {"crowd"}) /\ \A u \in Users : Only(u, {})

DissolvedInv(t) ==
  row[t].status = "dissolved" =>
    /\ teamRank[t] = {}
    /\ \A r \in Reqs : OnTeam(r, t) => pc[r] \in CleanLabels
    /\ meta[t] # Gone => \E r \in Reqs : OnTeam(r, t) /\ ~ Joining(r) /\ pc[r] = "removeMeta"
    /\ teamSteps[t] # 0 =>
         \E r \in Reqs : /\ OnTeam(r, t) /\ ~ Joining(r)
                         /\ pc[r] \in {"removeMeta", "removeRank", "removeSteps"}

CleanInv(t) ==
  Quiet(t) =>
    /\ meta[t] # Gone => meta[t].status = "normal"
    /\ \A r \in Reqs : OnTeam(r, t) /\ pc[r] \notin {"fillTeam", "fillAgain"} =>
         copy[r].status = "normal"
    /\ DissolvedInv(t)

IdleInv == \A r \in Reqs : pc[r] = "idle" => copy[r] = Fresh

LEMMA FirstLabel ==
  ASSUME Control, NEW r \in Reqs, Act(r)
  PROVE  pc[r] # "idle"
BY DEF Act, Ask, QueryTeamRedis, QueryTeamMiss, QueryTeamDB, FillTeam, GetTeamMemberSize,
       QueryTeamStats, Enter, UpdateUserSteps, QueryUserStats, UpdateUserRank,
       ModifyActivitySteps, SetActivityMember, Move, UpdateTeamUserRank, ModifyTeamSteps,
       SetTeamMember, SetTeamMemberLimit, SyncMemberDB, SyncMemberRedis, ElectTeamLeader,
       SyncTeamRedis, SyncTeamDB, Dissolve, CheckTeam, LookTeam, FillAgain, DeleteTeam,
       DeleteFails, DissolveRow, RemoveMeta, RemoveUserRank, RemoveTeamSteps,
       RemoveActivityTeamRank, Stat, FindTeam, QueryUserSteps, StoreNewSteps, StatUser, StatSteps,
       StatMember, StatTeam, Refuse, Stop

LEMMA GoesOn ==
  ASSUME Control, NEW r \in Reqs, Act(r)
  PROVE  Finish(r) \/ (pc[r] # "idle" /\ pc'[r] # "idle")
<1>1. pc[r] # "idle"
  BY FirstLabel
<1>2. CASE SetTeamMember(r)
  BY <1>1, <1>2, SetTeamMemberMoves DEF MovesTo, Goto, Control
<1>3. CASE FindTeam(r)
  BY <1>1, <1>3 DEF FindTeam, Goto, Control
<1>4. CASE ~ SetTeamMember(r) /\ ~ FindTeam(r)
  <2>1. MovesTo(r, Labels)
    BY <1>4, AskMoves, EnterMoves, MoveMoves, DissolveMoves, StatMoves, EndMoves DEF Act
  <2> QED BY <1>1, <2>1 DEF MovesTo, Goto, Control, Labels
<1> QED BY <1>2, <1>3, <1>4

(* A refill puts back what is there, or revives the team, or is noted.      *)
LEMMA FillWrites ==
  ASSUME Control, World, Locals, NEW r \in Reqs, FillTeam(r) \/ FillAgain(r), NEW t \in Teams,
         task[r].team = t
  PROVE  /\ copy[r] \in Team /\ copy[r] # Gone
         /\ \/ copy[r] = meta[t] /\ meta'[t] = meta[t]
            \/ /\ meta[t] = Gone /\ copy[r] = row[t] /\ meta'[t] = copy[r]
               /\ "revived" \in faults'[t]
            \/ /\ meta'[t] \in {meta[t], copy[r]} /\ "stale" \in faults'[t]
<1>1. copy[r] \in Team /\ copy[r] # Gone
  BY ConstantsAssumption DEF Locals
<1>2. PICK written \in BOOLEAN :
        /\ meta' = [meta EXCEPT ![t] = IF written THEN copy[r] ELSE @]
        /\ IF written /\ meta[t] = Gone /\ copy[r] = row[t] THEN Note({t}, "revived")
           ELSE Note(IF copy[r] = meta[t] THEN {} ELSE {t}, "stale")
  BY DEF FillTeam, FillAgain, Refill
<1>3. meta'[t] = IF written THEN copy[r] ELSE meta[t]
  BY <1>2 DEF World
<1> QED BY <1>1, <1>2, <1>3 DEF Note

(* What is written of a team, and when.                                     *)
LEMMA MetaSteps ==
  ASSUME Control, World, Locals, NEW r \in Reqs, Act(r), NEW t \in Teams
  PROVE  \/ meta'[t] = meta[t]
         \/ /\ OnTeam(r, t) /\ task' = task /\ meta'[t] = copy[r]
            /\ pc[r] = "syncTeamRedis" /\ pc'[r] = "syncTeamDB"
         \/ /\ OnTeam(r, t) /\ task' = task /\ meta'[t] = Gone
            /\ pc[r] = "removeMeta" /\ pc'[r] = "removeRank"
         \/ /\ task[r].team = t /\ (FillTeam(r) \/ FillAgain(r)) /\ meta'[t] = copy[r]
            /\ \/ meta[t] = Gone /\ copy[r] = row[t] /\ "revived" \in faults'[t]
               \/ "stale" \in faults'[t]
<1>1. CASE SyncTeamRedis(r)
  <2>1. pc[r] = "syncTeamRedis" /\ task[r].kind \in {"joinTeam", "leaveTeam"}
    BY <1>1 DEF SyncTeamRedis, Control, Fits, MoveLabels
  <2> QED BY <1>1, <2>1 DEF SyncTeamRedis, World, OnTeam, Goto, Control, local
<1>2. CASE RemoveMeta(r)
  <2>1. pc[r] = "removeMeta" /\ task[r].kind \in {"joinTeam", "leaveTeam", "dissolve"}
    BY <1>2 DEF RemoveMeta, Control, Fits, DeleteLabels
  <2> QED BY <1>2, <2>1 DEF RemoveMeta, World, OnTeam, Goto, Control, local
<1>3. CASE FillTeam(r) \/ FillAgain(r)
  <2>1. CASE task[r].team = t
    BY <1>3, <2>1, FillWrites
  <2>2. CASE task[r].team # t
    BY <1>3, <2>2 DEF FillTeam, FillAgain, Refill, World
  <2> QED BY <2>1, <2>2
<1>4. CASE ~ (SyncTeamRedis(r) \/ RemoveMeta(r) \/ FillTeam(r) \/ FillAgain(r))
  <2>1. UNCHANGED meta
    BY <1>4 DEF Act, Ask, QueryTeamRedis, QueryTeamMiss, QueryTeamDB, GetTeamMemberSize,
         QueryTeamStats, Enter, UpdateUserSteps, QueryUserStats, UpdateUserRank,
         ModifyActivitySteps, SetActivityMember, Move, UpdateTeamUserRank, ModifyTeamSteps,
         SetTeamMember, SetTeamMemberLimit, SyncMemberDB, SyncMemberRedis, ElectTeamLeader,
         SyncTeamDB, Dissolve, CheckTeam, LookTeam, DeleteTeam, DeleteFails, DissolveRow,
         RemoveUserRank, RemoveTeamSteps, RemoveActivityTeamRank, Stat, FindTeam, QueryUserSteps,
         StoreNewSteps, StatUser, StatSteps, StatMember, StatTeam, Refuse, Stop, teamVars
  <2> QED BY <2>1
<1> QED BY <1>1, <1>2, <1>3, <1>4

LEMMA RowSteps ==
  ASSUME Control, World, NEW r \in Reqs, Act(r), NEW t \in Teams
  PROVE  \/ row'[t] = row[t]
         \/ /\ OnTeam(r, t) /\ task' = task /\ row'[t] = copy[r]
            /\ pc[r] = "syncTeamDB" /\ pc'[r] = "check"
         \/ /\ OnTeam(r, t) /\ task' = task /\ row'[t] = [row[t] EXCEPT !.status = "dissolved"]
            /\ pc[r] = "dissolveRow" /\ pc'[r] = "removeMeta"
<1>1. CASE SyncTeamDB(r)
  <2>1. pc[r] = "syncTeamDB" /\ task[r].kind \in {"joinTeam", "leaveTeam"}
    BY <1>1 DEF SyncTeamDB, Control, Fits, MoveLabels
  <2> QED BY <1>1, <2>1 DEF SyncTeamDB, World, OnTeam, Goto, Control, local
<1>2. CASE DissolveRow(r)
  <2>1. pc[r] = "dissolveRow" /\ task[r].kind \in {"joinTeam", "leaveTeam", "dissolve"}
    BY <1>2 DEF DissolveRow, Control, Fits, DeleteLabels
  <2>2. row'[t] = row[t]
        \/ (task[r].team = t /\ row'[t] = [row[t] EXCEPT !.status = "dissolved"])
    <3> DEFINE k == task[r].team
               marked(x) == [row[x] EXCEPT !.status = "dissolved"]
    <3>1. row' = [row EXCEPT ![k] = marked(k)]
      BY <1>2 DEF DissolveRow
    <3> SUFFICES row'[t] = row[t] \/ (k = t /\ row'[t] = marked(t))
      OBVIOUS
    <3> HIDE DEF marked
    <3> QED BY <3>1 DEF World
  <2> QED BY <1>2, <2>1, <2>2 DEF DissolveRow, OnTeam, Goto, Control, local
<1>3. CASE ~ (SyncTeamDB(r) \/ DissolveRow(r))
  <2>1. UNCHANGED row
    BY <1>3 DEF Act, Ask, QueryTeamRedis, QueryTeamMiss, QueryTeamDB, FillTeam, GetTeamMemberSize,
         QueryTeamStats, Enter, UpdateUserSteps, QueryUserStats, UpdateUserRank,
         ModifyActivitySteps, SetActivityMember, Move, UpdateTeamUserRank, ModifyTeamSteps,
         SetTeamMember, SetTeamMemberLimit, SyncMemberDB, SyncMemberRedis, ElectTeamLeader,
         SyncTeamRedis, Dissolve, CheckTeam, LookTeam, FillAgain, DeleteTeam, DeleteFails,
         RemoveMeta, RemoveUserRank, RemoveTeamSteps, RemoveActivityTeamRank, Stat, FindTeam,
         QueryUserSteps, StoreNewSteps, StatUser, StatSteps, StatMember, StatTeam, Refuse, Stop,
         teamVars
  <2> QED BY <2>1
<1> QED BY <1>1, <1>2, <1>3

(* What a request holds of its team.                                        *)
LEMMA CopySteps ==
  ASSUME Control, World, Locals, NEW r \in Reqs, Act(r), NEW q \in Reqs
  PROVE  \/ copy'[q] = copy[q] /\ (q # r \/ pc'[r] # "idle")
         \/ q = r /\ pc'[r] = "idle" /\ copy'[r] = Fresh
         \/ /\ q = r /\ task' = task /\ pc[r] = "queryTeam" /\ pc'[r] = AfterQuery(r)
            /\ meta[task[r].team] # Gone /\ copy'[r] = meta[task[r].team]
         \/ /\ q = r /\ task' = task /\ pc[r] = "queryRow" /\ pc'[r] = "fillTeam"
            /\ copy'[r] = row[task[r].team]
         \/ /\ q = r /\ task' = task /\ pc[r] = "elect" /\ pc'[r] = "syncTeamRedis"
            /\ \E l \in Users \cup {NoUser} :
                 /\ copy'[r] = [copy[r] EXCEPT !.leader = l]
                 /\ IF Joining(r) THEN copy[r].leader = NoUser /\ l = task[r].user
                    ELSE /\ copy[r].leader = task[r].user
                         /\ LET others == MembersOf(task[r].team) IN
                            IF others = {} THEN l = NoUser ELSE l \in others
         \/ /\ q = r /\ task' = task /\ pc[r] = "look" /\ pc'[r] = "fillAgain"
            /\ copy'[r] = row[task[r].team]
<1>1. CASE QueryTeamRedis(r) \/ QueryTeamDB(r)
  BY <1>1 DEF QueryTeamRedis, QueryTeamDB, Locals, Goto, Control, AfterQuery
<1>2. CASE ElectTeamLeader(r)
  <2>1. /\ pc[r] = "elect" /\ task' = task /\ task[r].user \in Users
        /\ MembersOf(task[r].team) \subseteq Users
    BY <1>2, HasUserAndTeam DEF ElectTeamLeader, MoveLabels, MembersOf
  <2>2. CASE UNCHANGED copy
    BY <1>2, <2>2 DEF ElectTeamLeader, Goto, Control
  <2>3. CASE ~ UNCHANGED copy
    BY <1>2, <2>1, <2>3 DEF ElectTeamLeader, Goto, Control, Locals
  <2> QED BY <2>2, <2>3
<1>3. CASE LookTeam(r)
  BY <1>3 DEF LookTeam, AfterCheck, Finish, Locals, Goto, Control, local
<1>4. CASE ~ (QueryTeamRedis(r) \/ QueryTeamDB(r) \/ ElectTeamLeader(r) \/ LookTeam(r))
  <2>1. Finish(r) \/ UNCHANGED copy
    BY <1>4 DEF Act, Ask, QueryTeamMiss, FillTeam, GetTeamMemberSize, QueryTeamStats, Enter,
         UpdateUserSteps, QueryUserStats, UpdateUserRank, ModifyActivitySteps, SetActivityMember,
         Move, UpdateTeamUserRank, ModifyTeamSteps, SetTeamMember, SetTeamMemberLimit,
         SyncMemberDB, SyncMemberRedis, SyncTeamRedis, SyncTeamDB, Dissolve, CheckTeam, FillAgain,
         AfterCheck, DeleteTeam, EndDelete, DeleteFails, DissolveRow, RemoveMeta, RemoveUserRank,
         RemoveTeamSteps, RemoveActivityTeamRank, Stat, FindTeam, QueryUserSteps, StoreNewSteps,
         StatUser, StatSteps, StatMember, StatTeam, Refuse, Stop, local
  <2> QED BY <2>1, GoesOn DEF Finish, Goto, Control, Locals
<1> QED BY <1>1, <1>2, <1>3, <1>4

LEMMA TeamStepsSteps ==
  ASSUME Control, World, NEW r \in Reqs, Act(r), NEW t \in Teams
  PROVE  \/ teamSteps'[t] = teamSteps[t]
         \/ /\ OnTeam(r, t) /\ pc[r] = "modifySteps" /\ pc'[r] = "setMember" /\ task' = task
            /\ teamSteps'[t] = IF Joining(r) THEN teamSteps[t] + steps[r]
                               ELSE teamSteps[t] - steps[r]
         \/ /\ task[r].team = t /\ task[r].kind = "updateStats" /\ pc[r] = "statTeam"
            /\ Finish(r) /\ teamSteps'[t] = teamSteps[t] + steps[r]
         \/ OnTeam(r, t) /\ pc[r] \in {"removeSteps", "removeAgain"} /\ teamSteps'[t] = 0
<1>1. CASE ModifyTeamSteps(r)
  <2>1. pc[r] = "modifySteps" /\ task[r].kind \in {"joinTeam", "leaveTeam"}
    BY <1>1 DEF ModifyTeamSteps, Control, Fits, MoveLabels
  <2> QED BY <1>1, <2>1 DEF ModifyTeamSteps, World, OnTeam, Goto, Control, local
<1>2. CASE StatTeam(r)
  <2>1. pc[r] = "statTeam" /\ task[r].kind = "updateStats"
    BY <1>2 DEF StatTeam, Control, Fits, StatLabels
  <2> QED BY <1>2, <2>1 DEF StatTeam, World
<1>3. CASE RemoveTeamSteps(r) \/ RemoveActivityTeamRank(r)
  <2>1. /\ pc[r] \in {"removeSteps", "removeAgain"}
        /\ task[r].kind \in {"joinTeam", "leaveTeam", "dissolve"}
    BY <1>3 DEF RemoveTeamSteps, RemoveActivityTeamRank, Control, Fits, DeleteLabels, MoveLabels
  <2> QED BY <1>3, <2>1 DEF RemoveTeamSteps, RemoveActivityTeamRank, World, OnTeam
<1>4. CASE ~ (ModifyTeamSteps(r) \/ StatTeam(r) \/ RemoveTeamSteps(r) \/ RemoveActivityTeamRank(r))
  <2>1. UNCHANGED teamSteps
    BY <1>4 DEF Act, Ask, QueryTeamRedis, QueryTeamMiss, QueryTeamDB, FillTeam, GetTeamMemberSize,
         QueryTeamStats, Enter, UpdateUserSteps, QueryUserStats, UpdateUserRank,
         ModifyActivitySteps, SetActivityMember, Move, UpdateTeamUserRank, SetTeamMember,
         SetTeamMemberLimit, SyncMemberDB, SyncMemberRedis, ElectTeamLeader, SyncTeamRedis,
         SyncTeamDB, Dissolve, CheckTeam, LookTeam, FillAgain, DeleteTeam, DeleteFails,
         DissolveRow, RemoveMeta, RemoveUserRank, Stat, FindTeam, QueryUserSteps, StoreNewSteps,
         StatUser, StatSteps, StatMember, Refuse, Stop, rankVars
  <2> QED BY <2>1
<1> QED BY <1>1, <1>2, <1>3, <1>4

(* How a request that only asks or removes goes on.                         *)
LEMMA CleanGoesOn ==
  ASSUME Control, NEW r \in Reqs, Act(r), task[r].kind # "updateStats",
         pc[r] \in CleanLabels, ~ Stop(r), ~ DeleteFails(r), ~ FillTeam(r)
  PROVE  \/ pc'[r] \in CleanLabels \cup {"idle"}
         \/ QueryTeamRedis(r)
<1> USE DEF CleanLabels, AskLabels, DeleteLabels
<1>1. CASE Ask(r)
  BY <1>1 DEF Ask, QueryTeamMiss, QueryTeamDB, GetTeamMemberSize, QueryTeamStats, Goto, Control
<1>2. CASE Dissolve(r)
  BY <1>2 DEF Dissolve, CheckTeam, LookTeam, FillAgain, DeleteTeam, EndDelete, DissolveRow,
       RemoveMeta, RemoveUserRank, RemoveTeamSteps, RemoveActivityTeamRank, Finish, Goto, Control
<1>3. CASE Refuse(r)
  BY <1>3 DEF Refuse, Finish, Goto, Control
<1>4. ~ Enter(r) /\ ~ Move(r) /\ ~ Stat(r)
  <2>1. pc[r] # "updateSteps" /\ pc[r] \notin MoveLabels \ {"removeAgain"}
    BY DEF MoveLabels
  <2> QED BY <2>1 DEF Enter, UpdateUserSteps, QueryUserStats, UpdateUserRank,
        ModifyActivitySteps, SetActivityMember, Move, UpdateTeamUserRank, ModifyTeamSteps,
        SetTeamMember, SetTeamMemberLimit, SyncMemberDB, SyncMemberRedis, ElectTeamLeader,
        SyncTeamRedis, SyncTeamDB, Stat, FindTeam, QueryUserSteps, StoreNewSteps, StatUser,
        StatSteps, StatMember, StatTeam
<1> QED BY <1>1, <1>2, <1>3, <1>4 DEF Act

(* The same in a team that is undisturbed.                                  *)
LEMMA CleanSteps ==
  ASSUME Control, World, Locals, NEW r \in Reqs, Act(r), NEW t \in Teams, OnTeam(r, t),
         pc[r] \in CleanLabels, Quiet(t)'
  PROVE  /\ \/ pc'[r] \in CleanLabels \cup {"idle"}
            \/ pc[r] \in {"queryTeam", "fillTeam"} /\ meta[t] # Gone
         /\ pc[r] = "removeMeta" => pc'[r] = "removeRank" /\ meta'[t] = Gone
         /\ pc[r] = "removeRank" => pc'[r] = "removeSteps"
         /\ pc[r] = "removeSteps" => teamSteps'[t] = 0
<1>1. ~ \E f \in {"stop", "torn", "revived", "stale"} : f \in faults'[t]
  BY DEF Quiet, Only
<1>2. t \in Touches(r) /\ task[r].team = t /\ task[r].kind # "updateStats"
  BY DEF Touches, OnTeam
<1>3. ~ Stop(r) /\ ~ DeleteFails(r)
  BY <1>1, <1>2, NotedEnd DEF Stop, DeleteFails, Stopped
<1>4. FillTeam(r) => pc[r] = "fillTeam" /\ meta[t] # Gone
  BY <1>1, <1>2, FillWrites DEF FillTeam
<1>5. \/ pc'[r] \in CleanLabels \cup {"idle"}
      \/ pc[r] \in {"queryTeam", "fillTeam"} /\ meta[t] # Gone
  BY <1>2, <1>3, <1>4, CleanGoesOn DEF QueryTeamRedis
<1>6. /\ pc[r] = "removeMeta" => RemoveMeta(r)
      /\ pc[r] = "removeRank" => RemoveUserRank(r)
      /\ pc[r] = "removeSteps" => RemoveTeamSteps(r)
  <2>1. pc[r] \in {"removeMeta", "removeRank", "removeSteps"} =>
          ~ Ask(r) /\ ~ Enter(r) /\ ~ Move(r) /\ ~ Stat(r) /\ ~ Refuse(r)
    BY DEF Ask, QueryTeamRedis, QueryTeamMiss, QueryTeamDB, FillTeam, GetTeamMemberSize,
        QueryTeamStats, Enter, UpdateUserSteps, QueryUserStats, UpdateUserRank,
        ModifyActivitySteps, SetActivityMember, Move, UpdateTeamUserRank, ModifyTeamSteps,
        SetTeamMember, SetTeamMemberLimit, SyncMemberDB, SyncMemberRedis, ElectTeamLeader,
        SyncTeamRedis, SyncTeamDB, Stat, FindTeam, QueryUserSteps, StoreNewSteps, StatUser,
        StatSteps, StatMember, StatTeam, Refuse
  <2> QED BY <1>3, <2>1 DEF Act, Dissolve, CheckTeam, LookTeam, FillAgain, DeleteTeam, DissolveRow,
        RemoveMeta, RemoveUserRank, RemoveTeamSteps, RemoveActivityTeamRank
<1> QED BY <1>2, <1>5, <1>6 DEF RemoveMeta, RemoveUserRank, RemoveTeamSteps, Goto, Control, World

LEMMA FillSteps ==
  ASSUME Control, NEW r \in Reqs, Act(r), pc[r] \in {"fillTeam", "fillAgain"}
  PROVE  FillTeam(r) \/ FillAgain(r) \/ pc'[r] = "idle"
<1>1. ~ Enter(r) /\ ~ Move(r) /\ ~ Stat(r)
  BY DEF Enter, UpdateUserSteps, QueryUserStats, UpdateUserRank, ModifyActivitySteps,
         SetActivityMember, Move, UpdateTeamUserRank, ModifyTeamSteps, SetTeamMember,
         SetTeamMemberLimit, SyncMemberDB, SyncMemberRedis, ElectTeamLeader, SyncTeamRedis,
         SyncTeamDB, Stat, FindTeam, QueryUserSteps, StoreNewSteps, StatUser, StatSteps,
         StatMember, StatTeam
<1>2. Ask(r) => FillTeam(r)
  BY DEF Ask, QueryTeamRedis, QueryTeamMiss, QueryTeamDB, GetTeamMemberSize, QueryTeamStats
<1>3. Dissolve(r) => FillAgain(r)
  BY DEF Dissolve, CheckTeam, LookTeam, DeleteTeam, DeleteFails, DissolveRow, RemoveMeta,
         RemoveUserRank, RemoveTeamSteps, RemoveActivityTeamRank
<1>4. Refuse(r) \/ Stop(r) => pc'[r] = "idle"
  BY DEF Refuse, Stop, Finish, Goto, Control
<1> QED BY <1>1, <1>2, <1>3, <1>4 DEF Act

(* A dissolved row stays clean, and a row is dissolved only once the rank   *)
(* is empty and nobody else is at work in the team.                         *)
LEMMA CleanKept ==
  ASSUME IInv, RankInv, IdleInv, Grows, NEW r \in Reqs, Act(r), NEW t \in Teams, CleanInv(t)
  PROVE  CleanInv(t)'
<1> SUFFICES ASSUME Quiet(t)' PROVE CleanInv(t)'
  BY DEF CleanInv
<1> Control /\ World /\ Locals
  BY DEF IInv
<1>1. Quiet(t) /\ Whole(t) /\ \A u \in Users : Alone(u)
  BY UndisturbedBefore DEF Quiet, Whole, Alone, Only
<1>2. "revived" \notin faults'[t] /\ "stale" \notin faults'[t]
  BY DEF Quiet, Only
<1>3. \A q \in Reqs : OnTeam(q, t)' => OnTeam(q, t) /\ task'[q] = task[q]
  BY TaskBefore
<1>4. \A q \in Reqs \ {r} : pc'[q] = pc[q] /\ task'[q] = task[q]
  BY OthersStay
<1>5. \A a, b \in Reqs : OnTeam(a, t) /\ OnTeam(b, t) /\ a # b => Joining(a) /\ Joining(b)
  BY <1>1 DEF RankInv, TeamInv
<1>6. \A q \in Reqs : OnTeam(q, t) /\ Joining(q) => pc[q] \notin EndLabels
  BY <1>1 DEF RankInv, TeamInv
<1>7. meta'[t] # Gone => meta'[t].status = "normal"
  <2>1. OnTeam(r, t) /\ pc[r] = "syncTeamRedis" => copy[r].status = "normal"
    BY <1>1 DEF CleanInv
  <2> QED BY <1>1, <1>2, <2>1, MetaSteps DEF CleanInv
<1>8. ASSUME NEW q \in Reqs, OnTeam(q, t)', pc'[q] \notin {"fillTeam", "fillAgain"}
      PROVE  copy'[q].status = "normal"
  <2>1. OnTeam(q, t) /\ task[q].team = t
    BY <1>3, <1>8 DEF OnTeam
  <2>2. CASE copy'[q] = copy[q]
    <3>1. CASE q = r /\ pc[r] \in {"fillTeam", "fillAgain"}
      <4>1. FillTeam(r) \/ FillAgain(r) \/ pc'[r] = "idle"
        BY <3>1, FillSteps
      <4>2. CASE pc'[r] = "idle"
        <5>1. task'[r] = NoTask
          BY <4>2, GoesOn DEF Finish, Control
        <5> QED BY <1>8, <3>1, <5>1, ConstantsAssumption DEF OnTeam, NoTask
      <4>3. CASE FillTeam(r) \/ FillAgain(r)
        <5>1. copy[r] = meta[t] /\ meta[t] # Gone
          BY <1>2, <2>1, <3>1, <4>3, FillWrites
        <5> QED BY <1>1, <2>2, <3>1, <5>1 DEF CleanInv
      <4> QED BY <4>1, <4>2, <4>3
    <3>2. CASE ~ (q = r /\ pc[r] \in {"fillTeam", "fillAgain"})
      BY <1>1, <1>4, <1>8, <2>1, <2>2, <3>2 DEF CleanInv
    <3> QED BY <3>1, <3>2
  <2>3. CASE copy'[q] = Fresh
    BY <2>3 DEF Fresh
  <2>4. CASE meta[t] # Gone /\ copy'[q] = meta[t]
    BY <1>1, <2>4 DEF CleanInv
  <2>5. ASSUME q = r, pc[r] = "elect",
               NEW l \in Users \cup {NoUser}, copy'[r] = [copy[r] EXCEPT !.leader = l]
        PROVE  copy'[q].status = "normal"
    <3>1. copy[r].status = "normal"
      BY <1>1, <2>1, <2>5 DEF CleanInv
    <3> QED BY <2>5, <3>1 DEF Locals, Team
  <2> QED BY <1>8, <2>1, <2>2, <2>3, <2>4, <2>5, CopySteps
<1>9. ASSUME row'[t].status = "dissolved", row[t].status # "dissolved" PROVE DissolvedInv(t)'
  <2>1. /\ OnTeam(r, t) /\ task' = task /\ pc[r] = "dissolveRow" /\ pc'[r] = "removeMeta"
    <3>1. OnTeam(r, t) /\ pc[r] = "syncTeamDB" => copy[r].status = "normal"
      BY <1>1 DEF CleanInv
    <3> QED BY <1>9, <3>1, RowSteps
  <2>2. ~ Joining(r)
    BY <1>6, <2>1 DEF EndLabels, EmptyLabels
  <2>3. \A q \in Reqs : OnTeam(q, t) => q = r
    BY <1>5, <2>1, <2>2
  <2>4. \A u \in Users : u \notin teamRank[t]
    <3> SUFFICES ASSUME NEW u \in Users PROVE u \notin teamRank[t]
      OBVIOUS
    <3>1. PairInv(u, t)
      BY DEF RankInv
    <3> QED BY <1>1, <2>1, <3>1 DEF PairInv, EmptyLabels
  <2>5. \A u : u \notin teamRank'[t]
    <3> SUFFICES ASSUME NEW u, u \in teamRank'[t] PROVE FALSE
      OBVIOUS
    <3>1. u \in teamRank[t] \/ task[r].kind = "updateStats"
      BY <2>1, RankSteps
    <3>2. task[r].kind # "updateStats"
      BY <2>1 DEF OnTeam
    <3> QED BY <2>4, <3>1, <3>2 DEF World
  <2>6. OnTeam(r, t)' /\ ~ Joining(r)'
    BY <2>1, <2>2 DEF OnTeam, Joining
  <2> QED BY <1>3, <2>1, <2>3, <2>5, <2>6 DEF DissolvedInv, CleanLabels, DeleteLabels
<1>10. ASSUME row'[t].status = "dissolved", row[t].status = "dissolved" PROVE DissolvedInv(t)'
  <2>1. DissolvedInv(t)
    BY <1>1 DEF CleanInv
  <2>2. /\ teamRank[t] = {}
        /\ \A q \in Reqs : OnTeam(q, t) => pc[q] \in CleanLabels
    BY <1>10, <2>1 DEF DissolvedInv
  <2>3. \A u \in Users : ~ (Mine(r, u, t) /\ task[r].kind = "updateStats")
    <3> SUFFICES ASSUME NEW u \in Users, Mine(r, u, t), task[r].kind = "updateStats" PROVE FALSE
      OBVIOUS
    <3>1. PairInv(u, t)
      BY DEF RankInv
    <3> QED BY <1>1, <2>2, <3>1 DEF PairInv
  <2>4. teamRank'[t] = {}
    <3> SUFFICES ASSUME NEW u, u \in teamRank'[t] PROVE FALSE
      OBVIOUS
    <3>1. u \in Users /\ Mine(r, u, t) /\ OnTeam(r, t) /\ pc[r] = "rankMember"
      BY <2>2, <2>3, RankSteps
    <3> QED BY <2>2, <3>1 DEF CleanLabels, AskLabels, DeleteLabels
  <2>5. OnTeam(r, t) => ~ (pc[r] \in {"queryTeam", "fillTeam"} /\ meta[t] # Gone)
    <3> SUFFICES ASSUME OnTeam(r, t), pc[r] \in {"queryTeam", "fillTeam"}, meta[t] # Gone PROVE FALSE
      OBVIOUS
    <3>1. PICK q \in Reqs : OnTeam(q, t) /\ ~ Joining(q) /\ pc[q] = "removeMeta"
      BY <1>10, <2>1 DEF DissolvedInv
    <3> QED BY <1>5, <3>1
  <2>6. ASSUME NEW q \in Reqs, OnTeam(q, t)' PROVE pc'[q] \in CleanLabels
    <3>1. OnTeam(q, t) /\ pc[q] \in CleanLabels
      BY <1>3, <2>2, <2>6
    <3>2. CASE q # r
      BY <1>4, <3>1, <3>2
    <3>3. CASE q = r
      <4>1. pc'[r] \in CleanLabels \cup {"idle"}
        BY <2>5, <3>1, <3>3, CleanSteps
      <4>2. pc'[r] # "idle"
        <5> SUFFICES ASSUME pc'[r] = "idle" PROVE FALSE
          OBVIOUS
        <5>1. task'[r] = NoTask
          BY GoesOn DEF Finish, Control
        <5> QED BY <2>6, <3>3, <5>1, ConstantsAssumption DEF OnTeam, NoTask
      <4> QED BY <3>3, <4>1, <4>2
    <3> QED BY <3>2, <3>3
  <2>7. ASSUME meta'[t] # Gone
        PROVE  \E q \in Reqs : OnTeam(q, t)' /\ ~ Joining(q)' /\ pc'[q] = "removeMeta"
    <3>1. meta[t] # Gone
      <4>1. ~ (OnTeam(r, t) /\ pc[r] = "syncTeamRedis")
        BY <2>2 DEF CleanLabels, AskLabels, DeleteLabels
      <4> QED BY <1>2, <2>7, <4>1, MetaSteps
    <3>2. PICK q \in Reqs : OnTeam(q, t) /\ ~ Joining(q) /\ pc[q] = "removeMeta"
      BY <1>10, <2>1, <3>1 DEF DissolvedInv
    <3>3. q # r
      BY <2>2, <2>7, <3>2, CleanSteps
    <3> QED BY <1>4, <3>2, <3>3 DEF OnTeam, Joining
  <2>8. ASSUME teamSteps'[t] # 0
        PROVE  \E q \in Reqs : /\ OnTeam(q, t)' /\ ~ Joining(q)'
                               /\ pc'[q] \in {"removeMeta", "removeRank", "removeSteps"}
    <3>1. teamSteps[t] # 0
      <4>1. ~ (OnTeam(r, t) /\ pc[r] = "modifySteps")
        BY <2>2 DEF CleanLabels, AskLabels, DeleteLabels
      <4>2. ~ (task[r].team = t /\ task[r].kind = "updateStats" /\ pc[r] = "statTeam")
        <5>1. pc[r] = "statTeam" => task[r].user \in Users
          BY DEF Control, Fits, StatLabels
        <5> QED BY <2>3, <5>1 DEF Mine
      <4> QED BY <2>8, <4>1, <4>2, TeamStepsSteps
    <3>2. PICK q \in Reqs : /\ OnTeam(q, t) /\ ~ Joining(q)
                            /\ pc[q] \in {"removeMeta", "removeRank", "removeSteps"}
      BY <1>10, <2>1, <3>1 DEF DissolvedInv
    <3>3. CASE q # r
      BY <1>4, <3>2, <3>3 DEF OnTeam, Joining
    <3>4. CASE q = r
      <4>1. pc'[r] \in {"removeMeta", "removeRank", "removeSteps"}
        BY <2>2, <2>8, <3>2, <3>4, CleanSteps
      <4>2. task'[r] = task[r]
        BY <4>1, TaskStays, <3>2, <3>4 DEF OnTeam
      <4> QED BY <3>2, <3>4, <4>1, <4>2 DEF OnTeam, Joining
    <3> QED BY <3>3, <3>4
  <2> QED BY <2>4, <2>6, <2>7, <2>8 DEF DissolvedInv
<1>11. DissolvedInv(t)'
  BY <1>9, <1>10 DEF DissolvedInv
<1> QED BY <1>7, <1>8, <1>11 DEF CleanInv

(* A new request has read nothing yet and comes to a team like any other.   *)
LEMMA BeginClean ==
  ASSUME IInv, RankInv, IdleInv, Grows, NEW r \in Reqs, NEW k \in Requested, Begin(r, k),
         NEW t \in Teams, CleanInv(t)
  PROVE  CleanInv(t)'
<1> SUFFICES ASSUME Quiet(t)' PROVE CleanInv(t)'
  BY DEF CleanInv
<1> Control
  BY DEF IInv
<1>1. /\ UNCHANGED <<meta, row, teamRank, teamSteps, copy>> /\ task[r] = NoTask /\ pc[r] = "idle"
      /\ task'[r] = k /\ pc'[r] = FirstStep(k.kind) /\ copy[r] = Fresh
      /\ \A q \in Reqs \ {r} : pc'[q] = pc[q] /\ task'[q] = task[q]
  BY DEF Begin, Goto, Control, teamVars, rankVars, IdleInv
<1>2. Quiet(t) /\ CleanInv(t)
  BY UndisturbedBefore DEF Quiet
<1>3. ~ OnTeam(r, t)
  BY <1>1, ConstantsAssumption DEF NoTask, OnTeam
<1>4. k.kind \in Kind /\ (k.team \in Teams => k.kind \notin {"joinActivity", "updateStats"})
  BY ConstantsAssumption DEF Requested, Task
<1>5. k.team \in Teams => FirstStep(k.kind) \in {"queryTeam", "dissolve"}
  BY <1>4 DEF FirstStep, Kind
<1>6. meta'[t] # Gone => meta'[t].status = "normal"
  BY <1>1, <1>2 DEF CleanInv
<1>7. \A q \in Reqs : OnTeam(q, t)' /\ pc'[q] \notin {"fillTeam", "fillAgain"} =>
        copy'[q].status = "normal"
  BY <1>1, <1>2 DEF CleanInv, OnTeam, Fresh
<1>8. ASSUME row'[t].status = "dissolved" PROVE DissolvedInv(t)'
  <2>1. row[t].status = "dissolved" /\ DissolvedInv(t)
    BY <1>1, <1>2, <1>8 DEF CleanInv
  <2>2. \A q \in Reqs : OnTeam(q, t)' => pc'[q] \in CleanLabels
    BY <1>1, <1>5, <2>1 DEF DissolvedInv, OnTeam, CleanLabels, AskLabels, DeleteLabels
  <2>3. meta'[t] # Gone =>
          \E q \in Reqs : OnTeam(q, t)' /\ ~ Joining(q)' /\ pc'[q] = "removeMeta"
    BY <1>1, <2>1 DEF DissolvedInv, OnTeam, Joining
  <2>4. teamSteps'[t] # 0 =>
          \E q \in Reqs : /\ OnTeam(q, t)' /\ ~ Joining(q)'
                          /\ pc'[q] \in {"removeMeta", "removeRank", "removeSteps"}
    BY <1>1, <2>1 DEF DissolvedInv, OnTeam, Joining
  <2> QED BY <1>1, <2>1, <2>2, <2>3, <2>4 DEF DissolvedInv
<1> QED BY <1>6, <1>7, <1>8 DEF CleanInv, DissolvedInv

LEMMA IdleKept == IInv /\ IdleInv /\ [Next]_vars => IdleInv'
<1> SUFFICES ASSUME IInv, IdleInv, [Next]_vars PROVE IdleInv'
  OBVIOUS
<1> Control /\ World /\ Locals
  BY DEF IInv
<1>1. ASSUME NEW r \in Reqs, Act(r) PROVE IdleInv'
  <2> SUFFICES ASSUME NEW q \in Reqs, pc'[q] = "idle" PROVE copy'[q] = Fresh
    BY DEF IdleInv
  <2>1. CASE q # r
    BY <1>1, <2>1, OthersStay, CopySteps DEF IdleInv
  <2>2. CASE q = r
    BY <1>1, <2>2, GoesOn DEF Finish, Locals
  <2> QED BY <2>1, <2>2
<1>2. ASSUME NEW r \in Reqs, NEW k \in Requested, Begin(r, k) PROVE IdleInv'
  BY <1>2 DEF Begin, Goto, Control, FirstStep, Kind, Requested, Task, IdleInv
<1>3. CASE UNCHANGED vars
  BY <1>3 DEF vars, IdleInv
<1> QED BY <1>1, <1>2, <1>3, NextActs

CleanTeams == IdleInv /\ \A t \in Teams : CleanInv(t)

LEMMA InitClean == Init => CleanTeams
<1> SUFFICES ASSUME Init PROVE CleanTeams
  OBVIOUS
<1>1. IdleInv
  BY DEF Init, IdleInv
<1>2. ASSUME NEW t \in Teams PROVE CleanInv(t)
  <2>1. \A r \in Reqs : ~ OnTeam(r, t)
    BY ConstantsAssumption DEF Init, NoTask, OnTeam
  <2> QED BY <2>1 DEF Init, Fresh, CleanInv, DissolvedInv
<1> QED BY <1>1, <1>2 DEF CleanTeams

LEMMA CleanTeamsKept == IInv /\ RankInv /\ CleanTeams /\ [Next]_vars => CleanTeams'
<1> SUFFICES ASSUME IInv, RankInv, CleanTeams, [Next]_vars PROVE CleanTeams'
  OBVIOUS
<1>1. IdleInv'
  BY IdleKept DEF CleanTeams
<1>2. ASSUME NEW r \in Reqs, Act(r) \/ \E k \in Requested : Begin(r, k), NEW t \in Teams
      PROVE  CleanInv(t)'
  <2>1. Grows
    BY <1>2, HistoryKept DEF IInv
  <2> QED BY <1>2, <2>1, CleanKept, BeginClean DEF CleanTeams
<1>3. ASSUME UNCHANGED vars, NEW t \in Teams PROVE CleanInv(t)'
  <2>1. UNCHANGED <<teamRank, teamSteps, meta, row, pc, task, copy, faults>>
    BY <1>3 DEF vars, rankVars, teamVars, history
  <2> QED BY <2>1 DEF CleanTeams, CleanInv, DissolvedInv, Quiet, Only, OnTeam, Joining
<1> QED BY <1>1, <1>2, <1>3, NextActs DEF CleanTeams

LEMMA CleanTeamsHold == Spec => []CleanTeams
BY InitClean, CleanTeamsKept, HandlersPlaced, RankInvHolds, PTL DEF Spec

(* A dissolved team has left nothing behind, for any numbers of users and   *)
(* requests: the checks of its rank see everybody, since nobody else is at  *)
(* work in the team when its row is marked. This is so unless it was        *)
(* refilled since, requests met or stopped, or steps drifted.               *)
THEOREM DissolvedLeavesNothing == Spec => []DissolvedIsClean
<1>1. IInv /\ RankInv /\ CleanTeams => DissolvedIsClean
  <2> SUFFICES ASSUME IInv, RankInv, CleanTeams, NEW t \in Teams, row[t].status = "dissolved",
                      Settled(t), Quiet(t)
               PROVE  meta[t] = Gone /\ teamRank[t] = {} /\ MembersOf(t) = {} /\ teamSteps[t] = 0
    BY DEF DissolvedIsClean, Quiet
  <2>1. \A r \in Reqs : task[r].team # t
    <3> SUFFICES ASSUME NEW r \in Reqs, task[r].team = t PROVE FALSE
      OBVIOUS
    <3>1. t \in Touches(r) /\ task[r] # NoTask
      BY ConstantsAssumption DEF Touches, NoTask
    <3>2. r \in Busy
      BY <3>1, ControlIsType DEF Busy, IInv
    <3> QED BY <3>1, <3>2 DEF Settled
  <2>2. DissolvedInv(t)
    BY DEF CleanTeams, CleanInv
  <2>3. meta[t] = Gone /\ teamRank[t] = {} /\ teamSteps[t] = 0
    BY <2>1, <2>2 DEF DissolvedInv, OnTeam
  <2>4. ASSUME NEW u \in Users, <<u, t>> \in members PROVE FALSE
    <3>1. MemberInv(u, t) /\ Only(u, {"drift"}) /\ Only(t, {"crowd", "revived", "stale"})
      BY DEF RankInv, Quiet, Only
    <3> QED BY <2>1, <2>3, <2>4, <3>1 DEF MemberInv, Mine
  <2> QED BY <2>3, <2>4 DEF MembersOf
<1> QED BY <1>1, HandlersPlaced, RankInvHolds, CleanTeamsHold, PTL

-----------------------------------------------------------------------------
(* The leader. A request decides by the copy of the team it has read, which *)
(* is still the field in Redis if it runs alone; joins that run at once     *)
(* only ever put one of the members in the place of nobody.                 *)

ReadLabels == {"checkSize", "checkLimit", "listMember", "elect"} \cup PreLabels \cup Window
LeadLabels == {"listMember", "elect", "syncTeamRedis"}

Steady(t) ==
  (Only(t, {"crowd"}) \/ Only(t, {"revived"})) /\ \A u \in Users : Only(u, {"drift"})
Lone(t) == "crowd" \notin faults[t]

GoneInv(t) ==
  meta[t] = Gone =>
    /\ teamRank[t] = {} /\ MembersOf(t) = {}
    /\ \A r \in Reqs : OnTeam(r, t) => pc[r] \in CleanLabels

LeadInv(t) ==
  meta[t] # Gone =>
    /\ \/ meta[t].leader \in MembersOf(t) \cup {NoUser}
       \/ \E r \in Reqs : /\ OnTeam(r, t) /\ Leaving(r) /\ task[r].user = meta[t].leader
                          /\ pc[r] \in LeadLabels
    /\ \/ meta[t].leader # NoUser
       \/ MembersOf(t) = {}
       \/ \E r \in Reqs : OnTeam(r, t) /\ Joining(r) /\ pc[r] \in LeadLabels

CopyInv(t) ==
  \A r \in Reqs : OnTeam(r, t) =>
    /\ Joining(r) /\ pc[r] \in ReadLabels /\ meta[t] # Gone /\ meta[t].leader = NoUser =>
         copy[r].leader = NoUser
    /\ Joining(r) /\ pc[r] \in {"syncTeamRedis", "syncTeamDB"} => copy[r].leader = task[r].user
    /\ Leaving(r) /\ pc[r] \in {"syncTeamRedis", "syncTeamDB"} =>
         copy[r].leader \in IF MembersOf(t) = {} THEN {NoUser} ELSE MembersOf(t)
    /\ (Leaving(r) \/ Lone(t)) /\ pc[r] \in ReadLabels \cup {"syncTeamDB"} => copy[r] = meta[t]

RowInv(t) ==
  Lone(t) =>
    /\ \/ meta[t] \in {Gone, row[t]}
       \/ \E r \in Reqs : OnTeam(r, t) /\ pc[r] \in {"syncTeamDB", "removeMeta"}
    /\ (meta[t] = Gone \/ \E r \in Reqs : OnTeam(r, t) /\ pc[r] = "removeMeta") =>
         row[t].leader = NoUser

LeaderInv(t) == Steady(t) => GoneInv(t) /\ LeadInv(t) /\ CopyInv(t) /\ RowInv(t)

(* What the rank tells of a team that nobody has disturbed.                 *)
LEMMA SteadyFacts ==
  ASSUME IInv, RankInv, NEW t \in Teams, Steady(t)
  PROVE  /\ \A a, b \in Reqs : OnTeam(a, t) /\ OnTeam(b, t) /\ a # b => Joining(a) /\ Joining(b)
         /\ Lone(t) => \A a, b \in Reqs : OnTeam(a, t) /\ OnTeam(b, t) => a = b
         /\ \A r \in Reqs : OnTeam(r, t) /\ Joining(r) => pc[r] \notin EndLabels
         /\ \A r \in Reqs : task[r].team = t /\ task[r].kind = "updateStats" => teamRank[t] # {}
         /\ \A r \in Reqs : OnTeam(r, t) /\ pc[r] \in EmptyLabels =>
              teamRank[t] = {} /\ MembersOf(t) = {}
         /\ \A r \in Reqs :
              OnTeam(r, t) /\ Joining(r) /\ pc[r] \in LeadLabels \cup {"syncTeamDB"} =>
                task[r].user \in MembersOf(t)
<1> Control /\ World
  BY DEF IInv
<1>1. /\ Whole(t) /\ Only(t, {"crowd", "revived", "stale"})
      /\ \A u \in Users : Alone(u) /\ Only(u, {"drift"})
  BY DEF Steady, Whole, Alone, Only
<1>2. /\ TeamInv(t) /\ LimitInv(t) /\ \A u \in Users : AloneInv(u)
      /\ \A u \in Users : PairInv(u, t) /\ MemberInv(u, t)
  BY DEF RankInv
<1>3. \A a, b \in Reqs : OnTeam(a, t) /\ OnTeam(b, t) /\ a # b => Joining(a) /\ Joining(b)
  BY <1>1, <1>2 DEF TeamInv
<1>4. Lone(t) => \A a, b \in Reqs : OnTeam(a, t) /\ OnTeam(b, t) => a = b
  <2>1. Lone(t) => Only(t, {"revived", "stale", "stop"})
    BY DEF Steady, Lone, Only
  <2> QED BY <1>1, <1>2, <2>1 DEF LimitInv
<1>5. \A r \in Reqs : OnTeam(r, t) /\ Joining(r) => pc[r] \notin EndLabels
  BY <1>1, <1>2 DEF TeamInv
<1>6. \A r \in Reqs : task[r].team = t /\ task[r].kind = "updateStats" => teamRank[t] # {}
  <2> SUFFICES ASSUME NEW r \in Reqs, task[r].team = t, task[r].kind = "updateStats"
               PROVE  teamRank[t] # {}
    OBVIOUS
  <2>1. task[r] # NoTask
    BY DEF NoTask
  <2>2. task[r].user \in Users
    BY <2>1 DEF Control, Fits
  <2>3. task[r].user \in teamRank[t]
    BY <1>1, <1>2, <2>2 DEF PairInv, Mine
  <2> QED BY <2>3
<1>7. ASSUME NEW r \in Reqs, OnTeam(r, t), pc[r] \in EmptyLabels
      PROVE  teamRank[t] = {} /\ MembersOf(t) = {}
  <2>1. \A u \in Users : u \notin teamRank[t]
    BY <1>1, <1>2, <1>7 DEF PairInv
  <2>2. teamRank[t] = {}
    BY <2>1 DEF World
  <2>3. ~ Joining(r)
    BY <1>5, <1>7 DEF EndLabels
  <2>4. ASSUME NEW u \in Users, NEW q \in Reqs, Mine(q, u, t) PROVE pc[q] \notin Window
    <3>1. task[q].kind = "updateStats" => teamRank[t] # {}
      BY <1>6, <2>4 DEF Mine
    <3>2. OnTeam(q, t)
      BY <2>2, <2>4, <3>1, UsersAreOnTeam
    <3>3. q = r
      BY <1>3, <1>7, <2>3, <3>2
    <3> QED BY <1>7, <3>3 DEF EmptyLabels, Window
  <2>5. \A u \in Users : <<u, t>> \notin members
    BY <1>1, <1>2, <2>1, <2>4 DEF MemberInv
  <2> QED BY <2>2, <2>5 DEF MembersOf
<1>8. ASSUME NEW r \in Reqs, OnTeam(r, t), Joining(r), pc[r] \in LeadLabels \cup {"syncTeamDB"}
      PROVE  task[r].user \in MembersOf(t)
  <2> DEFINE u == task[r].user
  <2>1. u \in Users /\ u \in teamRank[t] /\ Mine(r, u, t)
    <3>1. pc[r] \in JoinedLabels
      BY <1>8 DEF LeadLabels, JoinedLabels
    <3> QED BY <1>1, <1>2, <1>8, <3>1 DEF TeamInv, World, Mine, OnTeam
  <2>2. \A q \in Reqs : Mine(q, u, t) => q = r
    BY <1>1, <1>2, <2>1 DEF AloneInv, Mine
  <2>3. pc[r] \notin Window
    BY <1>8 DEF LeadLabels, Window
  <2>4. <<u, t>> \in members
    BY <1>1, <1>2, <2>1, <2>2, <2>3 DEF MemberInv
  <2> QED BY <2>1, <2>4 DEF MembersOf
<1> QED BY <1>3, <1>4, <1>5, <1>6, <1>7, <1>8

(* Which action a request takes, by where it is and where it gets.          *)
LEMMA LabelTells ==
  ASSUME Control, NEW r \in Reqs, Act(r), ~ Stop(r), ~ DeleteFails(r)
  PROVE  /\ pc[r] = "listMember" => SyncMemberRedis(r)
         /\ pc[r] = "elect" => ElectTeamLeader(r)
         /\ pc[r] = "syncTeamRedis" => SyncTeamRedis(r)
         /\ pc[r] = "syncTeamDB" => SyncTeamDB(r)
         /\ pc[r] = "dissolveRow" => DissolveRow(r)
         /\ pc[r] = "removeMeta" => RemoveMeta(r)
         /\ pc'[r] = "listMember" => SyncMemberDB(r)
         /\ pc'[r] = "elect" => SetTeamMember(r) \/ SyncMemberRedis(r)
         /\ pc'[r] = "syncTeamRedis" => ElectTeamLeader(r)
         /\ pc'[r] = "syncTeamDB" => SyncTeamRedis(r)
         /\ pc'[r] = "removeMeta" => DissolveRow(r)
         /\ pc'[r] \in ReadLabels => \/ pc[r] \in ReadLabels
                                     \/ QueryTeamRedis(r) \/ FillTeam(r)
<1> USE DEF ReadLabels, PreLabels, Window
<1>1. CASE Ask(r)
  <2>1. AfterQuery(r) \in {"checkSize", "checkLimit", "oldSteps", "answer"}
        \/ ~ (QueryTeamRedis(r) \/ FillTeam(r))
    <3>1. pc[r] \in AskLabels => Fits(task[r], pc[r])
      BY DEF Control, AskLabels
    <3> QED BY <3>1 DEF QueryTeamRedis, FillTeam, AfterQuery, Fits, AskLabels
  <2> QED BY <1>1, <2>1 DEF Ask, QueryTeamRedis, QueryTeamMiss, QueryTeamDB, FillTeam,
        GetTeamMemberSize, QueryTeamStats, Goto, Control
<1>2. CASE Enter(r)
  BY <1>2 DEF Enter, UpdateUserSteps, QueryUserStats, UpdateUserRank, ModifyActivitySteps,
       SetActivityMember, Finish, Goto, Control
<1>3. CASE Move(r)
  BY <1>3 DEF Move, UpdateTeamUserRank, ModifyTeamSteps, SetTeamMember, AfterLook,
       SetTeamMemberLimit, SyncMemberDB, SyncMemberRedis, ElectTeamLeader, SyncTeamRedis,
       SyncTeamDB, Finish, Goto, Control
<1>4. CASE Dissolve(r)
  BY <1>4 DEF Dissolve, CheckTeam, LookTeam, FillAgain, AfterCheck, DeleteTeam, EndDelete,
       DissolveRow, RemoveMeta, RemoveUserRank, RemoveTeamSteps, RemoveActivityTeamRank, Finish,
       Goto, Control
<1>5. CASE Stat(r)
  BY <1>5 DEF Stat, FindTeam, QueryUserSteps, StoreNewSteps, StatUser, StatSteps, StatMember,
       StatTeam, Finish, Goto, Control
<1>6. CASE Refuse(r)
  BY <1>6 DEF Refuse, Finish, Goto, Control
<1> QED BY <1>1, <1>2, <1>3, <1>4, <1>5, <1>6 DEF Act

(* A request that fails in a team disturbs it.                              *)
LEMMA SteadyGoesOn ==
  ASSUME NEW r \in Reqs, NEW t \in Teams, task[r].team = t, Steady(t)'
  PROVE  ~ Stop(r) /\ ~ DeleteFails(r)
<1>1. "stop" \notin faults'[t] /\ "torn" \notin faults'[t]
  BY DEF Steady, Only
<1>2. t \in Touches(r)
  BY DEF Touches
<1> QED BY <1>1, <1>2, NotedEnd DEF Stop, DeleteFails, Stopped

(* What happens to the members of a team.                                   *)
LEMMA MemberSteps ==
  ASSUME Control, World, NEW r \in Reqs, Act(r), NEW t \in Teams
  PROVE  \/ MembersOf(t)' = MembersOf(t)
         \/ /\ SyncMemberDB(r) /\ OnTeam(r, t) /\ task' = task /\ task[r].user \in Users
            /\ pc[r] = "syncMember" /\ pc'[r] = "listMember"
            /\ \/ Joining(r) /\ MembersOf(t)' = MembersOf(t) \cup {task[r].user}
               \/ Leaving(r) /\ MembersOf(t)' = MembersOf(t) \ {task[r].user}
<1>1. CASE SyncMemberDB(r) /\ task[r].team = t
  <2>1. /\ pc[r] = "syncMember" /\ pc'[r] = "listMember" /\ task' = task
        /\ members' = IF Joining(r) THEN members \cup {<<task[r].user, t>>}
                      ELSE members \ {<<task[r].user, t>>}
    BY <1>1 DEF SyncMemberDB, Goto, Control, local
  <2>2. /\ task[r].kind \in {"joinTeam", "leaveTeam"} /\ task[r].user \in Users
    BY <2>1 DEF Control, Fits, MoveLabels
  <2> QED BY <1>1, <2>1, <2>2 DEF MembersOf, OnTeam, Joining, Leaving
<1>2. CASE SyncMemberDB(r) /\ task[r].team # t
  BY <1>2 DEF SyncMemberDB, MembersOf
<1>3. CASE ~ SyncMemberDB(r)
  <2>1. UNCHANGED members
    <3>1. CASE Plain(r)
      BY <3>1 DEF Plain
    <3>2. CASE Telling(r)
      BY <1>3, <3>2 DEF Telling, QueryTeamStats, UpdateTeamUserRank, SetTeamMember,
           SyncMemberRedis, CheckTeam, DeleteTeam, RemoveUserRank, FindTeam, StatMember, memberVars
    <3> QED BY <3>1, <3>2, ActIsPlain
  <2> QED BY <2>1 DEF MembersOf
<1> QED BY <1>1, <1>2, <1>3

(* The field of an undisturbed team, and who may write it.                  *)
LEMMA SteadyMeta ==
  ASSUME IInv, RankInv, Grows, NEW r \in Reqs, Act(r), NEW t \in Teams, Steady(t), Steady(t)'
  PROVE  \/ meta'[t] = meta[t] /\ ~ (OnTeam(r, t) /\ pc[r] \in {"syncTeamRedis", "removeMeta"})
         \/ /\ OnTeam(r, t) /\ task' = task /\ meta'[t] = copy[r]
            /\ pc[r] = "syncTeamRedis" /\ pc'[r] = "syncTeamDB"
         \/ /\ OnTeam(r, t) /\ task' = task /\ meta'[t] = Gone /\ ~ Joining(r)
            /\ pc[r] = "removeMeta" /\ pc'[r] = "removeRank"
         \/ /\ task[r].team = t /\ Lone(t)' /\ (FillTeam(r) \/ FillAgain(r))
            /\ meta[t] = Gone /\ meta'[t] = copy[r] /\ copy[r] = row[t]
<1> Control /\ World /\ Locals
  BY DEF IInv
<1>1. ASSUME OnTeam(r, t), pc[r] = "syncTeamRedis"
      PROVE  task' = task /\ meta'[t] = copy[r] /\ pc'[r] = "syncTeamDB"
  <2>1. SyncTeamRedis(r) /\ task[r].team = t
    BY <1>1, LabelTells, SteadyGoesOn DEF OnTeam
  <2> QED BY <2>1 DEF SyncTeamRedis, World, Goto, Control, local
<1>2. ASSUME OnTeam(r, t), pc[r] = "removeMeta"
      PROVE  task' = task /\ meta'[t] = Gone /\ ~ Joining(r) /\ pc'[r] = "removeRank"
  <2>1. RemoveMeta(r) /\ task[r].team = t
    BY <1>2, LabelTells, SteadyGoesOn DEF OnTeam
  <2>2. ~ Joining(r)
    BY <1>2, SteadyFacts DEF EndLabels, EmptyLabels
  <2> QED BY <2>1, <2>2 DEF RemoveMeta, World, Goto, Control, local
<1>3. "stale" \notin faults'[t] /\ ("revived" \in faults'[t] => Lone(t)')
  BY DEF Steady, Only, Lone
<1> QED BY <1>1, <1>2, <1>3, MetaSteps

LEMMA GoneKept ==
  ASSUME IInv, RankInv, Grows, NEW r \in Reqs, Act(r), NEW t \in Teams, Steady(t), Steady(t)',
         GoneInv(t)
  PROVE  GoneInv(t)'
<1> SUFFICES ASSUME meta'[t] = Gone
             PROVE  /\ teamRank'[t] = {} /\ MembersOf(t)' = {}
                    /\ \A q \in Reqs : OnTeam(q, t)' => pc'[q] \in CleanLabels
  BY DEF GoneInv
<1> Control /\ World /\ Locals
  BY DEF IInv
<1>1. \A q \in Reqs : OnTeam(q, t)' => OnTeam(q, t) /\ task'[q] = task[q]
  BY TaskBefore
<1>2. \A q \in Reqs \ {r} : pc'[q] = pc[q] /\ task'[q] = task[q]
  BY OthersStay
<1>3. \A q \in Reqs : copy[q] # Gone
  BY ConstantsAssumption DEF Locals
<1>4. CASE meta[t] = Gone
  <2>1. /\ teamRank[t] = {} /\ MembersOf(t) = {}
        /\ \A q \in Reqs : OnTeam(q, t) => pc[q] \in CleanLabels
    BY <1>4 DEF GoneInv
  <2>2. teamRank'[t] = {}
    <3> SUFFICES ASSUME NEW u, u \in teamRank'[t] PROVE FALSE
      OBVIOUS
    <3>1. (OnTeam(r, t) /\ pc[r] = "rankMember")
          \/ (task[r].team = t /\ task[r].kind = "updateStats")
      BY <2>1, RankSteps DEF Mine
    <3>2. ~ (OnTeam(r, t) /\ pc[r] = "rankMember")
      BY <2>1 DEF CleanLabels, AskLabels, DeleteLabels
    <3> QED BY <2>1, <3>1, <3>2, SteadyFacts
  <2>3. MembersOf(t)' = {}
    <3>1. ~ (OnTeam(r, t) /\ pc[r] = "syncMember")
      BY <2>1 DEF CleanLabels, AskLabels, DeleteLabels
    <3> QED BY <2>1, <3>1, MemberSteps
  <2>4. ASSUME NEW q \in Reqs, OnTeam(q, t)' PROVE pc'[q] \in CleanLabels
    <3>1. OnTeam(q, t) /\ pc[q] \in CleanLabels
      BY <1>1, <2>1, <2>4
    <3>2. CASE q # r
      BY <1>2, <3>1, <3>2
    <3>3. CASE q = r
      <4>1. ~ Stop(r) /\ ~ DeleteFails(r) /\ task[r].team = t
        BY <3>1, <3>3, SteadyGoesOn DEF OnTeam
      <4>2. ~ FillTeam(r) /\ ~ QueryTeamRedis(r)
        <5>1. "stale" \notin faults'[t]
          BY DEF Steady, Only
        <5> QED BY <1>4, <4>1, <5>1, FillWrites DEF QueryTeamRedis
      <4>3. pc'[r] # "idle"
        <5> SUFFICES ASSUME pc'[r] = "idle" PROVE FALSE
          OBVIOUS
        <5>1. task'[r] = NoTask
          BY GoesOn DEF Finish, Control
        <5> QED BY <2>4, <3>3, <5>1, ConstantsAssumption DEF OnTeam, NoTask
      <4>4. pc'[r] \in CleanLabels \cup {"idle"}
        BY <3>1, <3>3, <4>1, <4>2, CleanGoesOn DEF OnTeam
      <4> QED BY <3>3, <4>3, <4>4
    <3> QED BY <3>2, <3>3
  <2> QED BY <2>2, <2>3, <2>4
<1>5. CASE meta[t] # Gone
  <2>1. /\ OnTeam(r, t) /\ task' = task /\ ~ Joining(r)
        /\ pc[r] = "removeMeta" /\ pc'[r] = "removeRank"
    BY <1>3, <1>5, SteadyMeta
  <2>2. teamRank[t] = {} /\ MembersOf(t) = {} /\ \A q \in Reqs : OnTeam(q, t) => q = r
    BY <2>1, SteadyFacts DEF EmptyLabels
  <2>3. teamRank'[t] = {}
    <3> SUFFICES ASSUME NEW u, u \in teamRank'[t] PROVE FALSE
      OBVIOUS
    <3>1. pc[r] = "rankMember" \/ task[r].kind = "updateStats"
      BY <2>2, RankSteps
    <3> QED BY <2>1, <3>1 DEF OnTeam
  <2>4. MembersOf(t)' = {}
    BY <2>1, <2>2, MemberSteps
  <2> QED BY <1>1, <2>1, <2>2, <2>3, <2>4 DEF CleanLabels, DeleteLabels
<1> QED BY <1>4, <1>5

LEMMA ElectWrites ==
  ASSUME Control, World, Locals, NEW r \in Reqs, ElectTeamLeader(r), pc'[r] = "syncTeamRedis"
  PROVE  \E l \in Users \cup {NoUser} :
           /\ copy'[r] = [copy[r] EXCEPT !.leader = l]
           /\ IF Joining(r) THEN l = task[r].user
              ELSE LET others == MembersOf(task[r].team) IN
                   IF others = {} THEN l = NoUser ELSE l \in others
<1>1. pc[r] = "elect" /\ task[r].user \in Users /\ MembersOf(task[r].team) \subseteq Users
  BY HasUserAndTeam DEF ElectTeamLeader, MoveLabels, MembersOf
<1>2. ~ Goto(r, "check")
  BY DEF Goto, Control
<1> QED BY <1>1, <1>2 DEF ElectTeamLeader, Locals

LEMMA LeadKept ==
  ASSUME IInv, RankInv, Grows, NEW r \in Reqs, Act(r), NEW t \in Teams, Steady(t), Steady(t)',
         GoneInv(t), LeadInv(t), CopyInv(t), RowInv(t)
  PROVE  LeadInv(t)'
<1> Control /\ World /\ Locals
  BY DEF IInv
<1> SUFFICES ASSUME meta'[t] # Gone PROVE LeadInv(t)'
  BY DEF LeadInv
<1> DEFINE l == meta'[t].leader
<1>1. \A q \in Reqs \ {r} : pc'[q] = pc[q] /\ task'[q] = task[q]
  BY OthersStay
<1>2. NoUser \notin MembersOf(t)
  BY ConstantsAssumption DEF MembersOf
<1>3. CASE OnTeam(r, t) /\ pc[r] = "syncTeamRedis" /\ meta'[t] = copy[r]
  <2>1. MembersOf(t)' = MembersOf(t)
    BY <1>3, MemberSteps
  <2>2. task[r].kind \in {"joinTeam", "leaveTeam"} /\ task[r].user \in Users
    BY <1>3 DEF Control, Fits, MoveLabels
  <2>3. CASE Joining(r)
    <3>1. copy[r].leader = task[r].user /\ task[r].user \in MembersOf(t)
      BY <1>3, <2>3, SteadyFacts DEF CopyInv, LeadLabels
    <3> QED BY <1>2, <1>3, <2>1, <3>1 DEF LeadInv
  <2>4. CASE Leaving(r)
    <3>1. copy[r].leader \in IF MembersOf(t) = {} THEN {NoUser} ELSE MembersOf(t)
      BY <1>3, <2>4 DEF CopyInv
    <3> QED BY <1>2, <1>3, <2>1, <3>1 DEF LeadInv
  <2> QED BY <2>2, <2>3, <2>4 DEF Joining, Leaving
<1>4. CASE /\ FillTeam(r) \/ FillAgain(r)
           /\ meta[t] = Gone /\ meta'[t] = copy[r] /\ copy[r] = row[t] /\ Lone(t)'
  <2>1. row[t].leader = NoUser /\ MembersOf(t) = {}
    BY <1>4 DEF GoneInv, RowInv, Lone, Grows
  <2>2. MembersOf(t)' = {}
    BY <1>4, <2>1, MemberSteps DEF FillTeam, FillAgain
  <2> QED BY <1>4, <2>1, <2>2 DEF LeadInv
<1>5. CASE meta'[t] = meta[t] /\ ~ (OnTeam(r, t) /\ pc[r] = "syncTeamRedis")
  <2>1. LeadInv(t) /\ meta[t] # Gone
    BY <1>5
  <2>2. ASSUME OnTeam(r, t), Leaving(r), task[r].user = l, pc[r] \in LeadLabels
        PROVE  OnTeam(r, t)' /\ Leaving(r)' /\ task'[r].user = l /\ pc'[r] \in LeadLabels
    <3>1. ~ Stop(r) /\ ~ DeleteFails(r) /\ task[r].team = t /\ ~ Joining(r)
      BY <2>2, SteadyGoesOn DEF OnTeam, Joining, Leaving
    <3>2. CASE pc[r] = "listMember"
      <4>1. SyncMemberRedis(r)
        BY <3>1, <3>2, LabelTells
      <4> QED BY <2>2, <4>1 DEF SyncMemberRedis, local, Goto, Control, OnTeam, Leaving, LeadLabels
    <3>3. CASE pc[r] = "elect"
      <4>1. ElectTeamLeader(r)
        BY <3>1, <3>3, LabelTells
      <4>2. copy[r] = meta[t]
        BY <2>2, <3>3 DEF CopyInv, ReadLabels
      <4>3. copy[r].leader = task[r].user
        BY <1>5, <2>2, <4>2
      <4>4. Goto(r, "syncTeamRedis") /\ UNCHANGED task
        BY <3>1, <4>1, <4>3 DEF ElectTeamLeader
      <4> QED BY <2>2, <4>4 DEF Goto, Control, OnTeam, Leaving, LeadLabels
    <3> QED BY <1>5, <2>2, <3>2, <3>3 DEF LeadLabels
  <2>3. ASSUME l = NoUser, OnTeam(r, t), Joining(r), pc[r] \in LeadLabels
        PROVE  OnTeam(r, t)' /\ Joining(r)' /\ pc'[r] \in LeadLabels
    <3>1. ~ Stop(r) /\ ~ DeleteFails(r) /\ task[r].team = t
      BY <2>3, SteadyGoesOn DEF OnTeam
    <3>2. CASE pc[r] = "listMember"
      <4>1. SyncMemberRedis(r)
        BY <3>1, <3>2, LabelTells
      <4> QED BY <2>3, <4>1 DEF SyncMemberRedis, local, Goto, Control, OnTeam, Joining, LeadLabels
    <3>3. CASE pc[r] = "elect"
      <4>1. ElectTeamLeader(r)
        BY <3>1, <3>3, LabelTells
      <4>2. copy[r].leader = NoUser
        BY <1>5, <2>1, <2>3, <3>3 DEF CopyInv, ReadLabels
      <4>3. Goto(r, "syncTeamRedis") /\ UNCHANGED task
        BY <2>3, <4>1, <4>2 DEF ElectTeamLeader
      <4> QED BY <2>3, <4>3 DEF Goto, Control, OnTeam, Joining, LeadLabels
    <3> QED BY <1>5, <2>3, <3>2, <3>3 DEF LeadLabels
  <2>4. \/ l \in (MembersOf(t)' \cup {NoUser})
        \/ \E q \in Reqs : /\ OnTeam(q, t)' /\ Leaving(q)' /\ task'[q].user = l
                           /\ pc'[q] \in LeadLabels
    <3>1. CASE l \in MembersOf(t) /\ l \notin MembersOf(t)'
      <4>1. /\ OnTeam(r, t) /\ task' = task /\ pc'[r] = "listMember"
            /\ Leaving(r) /\ l = task[r].user
        BY <3>1, MemberSteps
      <4> QED BY <4>1 DEF OnTeam, Leaving, LeadLabels
    <3>2. CASE l \in MembersOf(t)' \cup {NoUser}
      BY <3>2
    <3>3. CASE \E q \in Reqs : /\ OnTeam(q, t) /\ Leaving(q) /\ task[q].user = l
                               /\ pc[q] \in LeadLabels
      <4>1. PICK q \in Reqs : /\ OnTeam(q, t) /\ Leaving(q) /\ task[q].user = l
                              /\ pc[q] \in LeadLabels
        BY <3>3
      <4>2. CASE q = r
        BY <2>2, <4>1, <4>2
      <4>3. CASE q # r
        <5>1. pc'[q] = pc[q] /\ task'[q] = task[q]
          BY <1>1, <4>3
        <5>2. OnTeam(q, t)' /\ Leaving(q)' /\ task'[q].user = l /\ pc'[q] \in LeadLabels
          BY <4>1, <5>1 DEF OnTeam, Leaving
        <5> QED BY <5>2
      <4> QED BY <4>2, <4>3
    <3> QED BY <1>5, <2>1, <3>1, <3>2, <3>3 DEF LeadInv
  <2>5. \/ l # NoUser
        \/ MembersOf(t)' = {}
        \/ \E q \in Reqs : OnTeam(q, t)' /\ Joining(q)' /\ pc'[q] \in LeadLabels
    <3> SUFFICES ASSUME l = NoUser, MembersOf(t)' # {}
                 PROVE  \E q \in Reqs : OnTeam(q, t)' /\ Joining(q)' /\ pc'[q] \in LeadLabels
      OBVIOUS
    <3>1. CASE MembersOf(t) = {}
      <4>1. OnTeam(r, t) /\ Joining(r) /\ task' = task /\ pc'[r] = "listMember"
        BY <3>1, MemberSteps
      <4> QED BY <4>1 DEF OnTeam, Joining, LeadLabels
    <3>2. CASE MembersOf(t) # {}
      <4>1. PICK q \in Reqs : OnTeam(q, t) /\ Joining(q) /\ pc[q] \in LeadLabels
        BY <1>5, <2>1, <3>2 DEF LeadInv
      <4>2. CASE q = r
        BY <2>3, <4>1, <4>2
      <4>3. CASE q # r
        <5>1. pc'[q] = pc[q] /\ task'[q] = task[q]
          BY <1>1, <4>3
        <5>2. OnTeam(q, t)' /\ Joining(q)' /\ pc'[q] \in LeadLabels
          BY <4>1, <5>1 DEF OnTeam, Joining
        <5> QED BY <5>2
      <4> QED BY <4>2, <4>3
    <3> QED BY <3>1, <3>2
  <2> QED BY <2>4, <2>5 DEF LeadInv
<1> QED BY <1>3, <1>4, <1>5, SteadyMeta

LEMMA CopyKept ==
  ASSUME IInv, RankInv, Grows, NEW r \in Reqs, Act(r), NEW t \in Teams, Steady(t), Steady(t)',
         GoneInv(t), CopyInv(t)
  PROVE  CopyInv(t)'
<1> Control /\ World /\ Locals
  BY DEF IInv
<1> SUFFICES ASSUME NEW q \in Reqs, OnTeam(q, t)'
             PROVE  /\ (/\ Joining(q) /\ pc[q] \in ReadLabels
                        /\ meta[t] # Gone /\ meta[t].leader = NoUser)' =>
                         copy'[q].leader = NoUser
                    /\ (Joining(q) /\ pc[q] \in {"syncTeamRedis", "syncTeamDB"})' =>
                         copy'[q].leader = task'[q].user
                    /\ (Leaving(q) /\ pc[q] \in {"syncTeamRedis", "syncTeamDB"})' =>
                         copy'[q].leader \in IF MembersOf(t)' = {} THEN {NoUser} ELSE MembersOf(t)'
                    /\ (/\ Leaving(q) \/ Lone(t)
                        /\ pc[q] \in ReadLabels \cup {"syncTeamDB"})' =>
                         copy'[q] = meta'[t]
  BY DEF CopyInv
<1>1. /\ OnTeam(q, t) /\ task'[q] = task[q] /\ task[q].team = t
      /\ (Joining(q)' <=> Joining(q)) /\ (Leaving(q)' <=> Leaving(q))
  BY TaskBefore DEF OnTeam, Joining, Leaving
<1>2. Lone(t)' => Lone(t)
  BY DEF Lone, Grows
<1>3. /\ Joining(q) /\ pc[q] \in ReadLabels /\ meta[t] # Gone /\ meta[t].leader = NoUser =>
           copy[q].leader = NoUser
      /\ Joining(q) /\ pc[q] \in {"syncTeamRedis", "syncTeamDB"} => copy[q].leader = task[q].user
      /\ Leaving(q) /\ pc[q] \in {"syncTeamRedis", "syncTeamDB"} =>
           copy[q].leader \in IF MembersOf(t) = {} THEN {NoUser} ELSE MembersOf(t)
      /\ (Leaving(q) \/ Lone(t)) /\ pc[q] \in ReadLabels \cup {"syncTeamDB"} => copy[q] = meta[t]
  BY <1>1 DEF CopyInv
<1>4. CASE q # r
  <2>1. pc'[q] = pc[q] /\ copy'[q] = copy[q]
    BY <1>4, OthersStay, CopySteps
  <2>2. Leaving(q) \/ Lone(t) => ~ OnTeam(r, t)
    BY <1>1, <1>4, SteadyFacts DEF Leaving, Joining
  <2>3. CASE meta[t] = Gone
    <3>1. pc[q] \in CleanLabels
      BY <1>1, <2>3 DEF GoneInv
    <3>2. pc'[q] \notin ReadLabels \cup {"syncTeamRedis", "syncTeamDB"}
      BY <2>1, <3>1 DEF CleanLabels, AskLabels, DeleteLabels, ReadLabels, PreLabels, Window
    <3> QED BY <3>2
  <2>4. CASE meta[t] # Gone
    <3>1. Leaving(q) \/ Lone(t)' => meta'[t] = meta[t] /\ MembersOf(t)' = MembersOf(t)
      BY <1>2, <2>2, <2>4, SteadyMeta, MemberSteps
    <3>2. ASSUME Joining(q), meta'[t] # Gone, meta'[t].leader = NoUser
          PROVE  meta[t].leader = NoUser
      <4>1. ~ (OnTeam(r, t) /\ pc[r] = "syncTeamRedis" /\ meta'[t] = copy[r])
        <5> SUFFICES ASSUME OnTeam(r, t), pc[r] = "syncTeamRedis", meta'[t] = copy[r] PROVE FALSE
          OBVIOUS
        <5>1. Joining(r)
          BY <1>1, <1>4, SteadyFacts
        <5>2. copy[r].leader = task[r].user /\ task[r].user \in Users
          BY <5>1 DEF CopyInv, Control, Fits, MoveLabels
        <5> QED BY <3>2, <5>2, ConstantsAssumption
      <4> QED BY <2>4, <3>2, <4>1, SteadyMeta
    <3> QED BY <1>1, <1>2, <1>3, <2>1, <2>4, <3>1, <3>2
  <2> QED BY <2>3, <2>4
<1>5. CASE q = r
  <2>1. ~ Stop(r) /\ ~ DeleteFails(r)
    BY <1>1, <1>5, SteadyGoesOn
  <2>2. CASE pc'[r] = "syncTeamRedis"
    <3>1. ElectTeamLeader(r) /\ pc[r] = "elect"
      BY <2>1, <2>2, LabelTells DEF ElectTeamLeader
    <3>2. PICK l \in Users \cup {NoUser} :
            /\ copy'[r] = [copy[r] EXCEPT !.leader = l]
            /\ IF Joining(r) THEN l = task[r].user
               ELSE LET others == MembersOf(t) IN IF others = {} THEN l = NoUser ELSE l \in others
      BY <1>1, <1>5, <2>2, <3>1, CopySteps, ElectWrites
    <3>3. copy'[r].leader = l
      BY <3>2 DEF Locals, Team
    <3>4. MembersOf(t)' = MembersOf(t)
      BY <3>1, MemberSteps
    <3> QED BY <1>1, <1>5, <2>2, <3>2, <3>3, <3>4
            DEF ReadLabels, PreLabels, Window, Joining, Leaving
  <2>3. CASE pc'[r] = "syncTeamDB"
    <3>1. SyncTeamRedis(r) /\ pc[r] = "syncTeamRedis"
      BY <2>1, <2>3, LabelTells DEF SyncTeamRedis
    <3>2. copy'[r] = copy[r] /\ meta'[t] = copy[r]
      BY <1>1, <1>5, <3>1 DEF SyncTeamRedis, local, World
    <3>3. MembersOf(t)' = MembersOf(t)
      BY <3>1, MemberSteps
    <3> QED BY <1>1, <1>3, <1>5, <2>3, <3>1, <3>2, <3>3 DEF ReadLabels, PreLabels, Window
  <2>4. CASE pc'[r] \in ReadLabels
    <3>1. pc'[r] \notin {"syncTeamRedis", "syncTeamDB", "fillTeam", "fillAgain", "idle"}
      BY <2>4 DEF ReadLabels, PreLabels, Window
    <3>2. CASE pc[r] \in ReadLabels
      <4>1. pc[r] \notin {"queryTeam", "queryRow", "look", "syncTeamRedis", "removeMeta",
                          "fillTeam", "fillAgain"}
        BY <3>2 DEF ReadLabels, PreLabels, Window
      <4>2. copy'[r] = copy[r]
        BY <3>1, <4>1, CopySteps
      <4>3. meta'[t] = meta[t]
        BY <4>1, SteadyMeta DEF FillTeam, FillAgain
      <4> QED BY <1>1, <1>2, <1>3, <1>5, <3>1, <3>2, <4>2, <4>3
    <3>3. CASE QueryTeamRedis(r)
      <4>1. copy'[r] = meta[t] /\ meta'[t] = meta[t]
        BY <1>1, <1>5, <3>3 DEF QueryTeamRedis, Locals, teamVars
      <4> QED BY <1>5, <3>1, <4>1
    <3>4. CASE FillTeam(r)
      <4>1. "stale" \notin faults'[t] /\ copy'[r] = copy[r]
        BY <3>4 DEF Steady, Only, FillTeam, local
      <4>2. copy'[r] = meta'[t] /\ meta'[t] # Gone
        BY <1>1, <1>5, <3>4, <4>1, FillWrites
      <4> QED BY <1>5, <3>1, <4>2
    <3> QED BY <2>1, <2>4, <3>2, <3>3, <3>4, LabelTells
  <2>5. CASE pc'[r] \notin ReadLabels \cup {"syncTeamRedis", "syncTeamDB"}
    BY <1>5, <2>5
  <2> QED BY <2>2, <2>3, <2>4, <2>5
<1> QED BY <1>4, <1>5

LEMMA RowKept ==
  ASSUME IInv, RankInv, Grows, NEW r \in Reqs, Act(r), NEW t \in Teams, Steady(t), Steady(t)',
         GoneInv(t), LeadInv(t), CopyInv(t), RowInv(t)
  PROVE  RowInv(t)'
<1> Control /\ World /\ Locals
  BY DEF IInv
<1> SUFFICES ASSUME Lone(t)' PROVE RowInv(t)'
  BY DEF RowInv
<1>1. Lone(t)
  BY DEF Lone, Grows
<1>2. \A q \in Reqs \ {r} : pc'[q] = pc[q] /\ task'[q] = task[q]
  BY OthersStay
<1>3. /\ meta[t] \in {Gone, row[t]}
         \/ \E q \in Reqs : OnTeam(q, t) /\ pc[q] \in {"syncTeamDB", "removeMeta"}
      /\ (meta[t] = Gone \/ \E q \in Reqs : OnTeam(q, t) /\ pc[q] = "removeMeta") =>
           row[t].leader = NoUser
  BY <1>1 DEF RowInv
<1>4. \A a, b \in Reqs : OnTeam(a, t) /\ OnTeam(b, t) => a = b
  BY <1>1, SteadyFacts
<1>5. \A q \in Reqs : OnTeam(q, t)' => OnTeam(q, t)
  BY TaskBefore
<1>6. OnTeam(r, t) => ~ Stop(r) /\ ~ DeleteFails(r)
  BY SteadyGoesOn DEF OnTeam
<1>7. CASE OnTeam(r, t) /\ pc[r] = "dissolveRow"
  <2>1. DissolveRow(r) /\ task[r].team = t
    BY <1>6, <1>7, LabelTells DEF OnTeam
  <2>2. /\ OnTeam(r, t)' /\ pc'[r] = "removeMeta" /\ meta'[t] = meta[t]
    BY <1>7, <2>1 DEF DissolveRow, Goto, Control, local, OnTeam
  <2>3. row'[t].leader = row[t].leader
    BY <2>1 DEF DissolveRow, World, Team
  <2>4. row[t].leader = NoUser
    <3>1. MembersOf(t) = {}
      BY <1>7, SteadyFacts DEF EmptyLabels
    <3>2. \A q \in Reqs : OnTeam(q, t) => pc[q] = "dissolveRow"
      BY <1>4, <1>7
    <3>3. meta[t] \in {Gone, row[t]}
      BY <1>3, <3>2
    <3>4. meta[t] # Gone => meta[t].leader = NoUser
      BY <3>1, <3>2 DEF LeadInv, LeadLabels
    <3> QED BY <1>3, <3>3, <3>4
  <2> QED BY <2>2, <2>3, <2>4 DEF RowInv
<1>8. CASE OnTeam(r, t) /\ pc[r] = "syncTeamDB"
  <2>1. SyncTeamDB(r) /\ task[r].team = t
    BY <1>6, <1>8, LabelTells DEF OnTeam
  <2>2. row'[t] = copy[r] /\ meta'[t] = meta[t] /\ pc'[r] = "check"
    BY <2>1 DEF SyncTeamDB, World, Goto, Control
  <2>3. copy[r] = meta[t]
    BY <1>1, <1>8 DEF CopyInv
  <2>4. meta[t] # Gone
    BY <1>8 DEF GoneInv, CleanLabels, AskLabels, DeleteLabels
  <2>5. \A q \in Reqs : OnTeam(q, t)' => pc'[q] = "check"
    BY <1>4, <1>5, <1>8, <2>2
  <2> QED BY <2>2, <2>3, <2>4, <2>5 DEF RowInv
<1>9. CASE OnTeam(r, t) /\ pc[r] = "syncTeamRedis"
  <2>1. OnTeam(r, t) /\ task' = task /\ meta'[t] = copy[r] /\ pc'[r] = "syncTeamDB"
    BY <1>9, SteadyMeta DEF FillTeam, FillAgain
  <2>2. OnTeam(r, t)' /\ \A q \in Reqs : OnTeam(q, t)' => pc'[q] = "syncTeamDB"
    BY <1>4, <1>5, <2>1 DEF OnTeam
  <2>3. meta'[t] # Gone
    BY <2>1, ConstantsAssumption DEF Locals
  <2> QED BY <2>1, <2>2, <2>3 DEF RowInv
<1>10. CASE OnTeam(r, t) /\ pc[r] = "removeMeta"
  <2>1. meta'[t] = Gone /\ row'[t] = row[t]
    BY <1>10, SteadyMeta, RowSteps DEF FillTeam, FillAgain
  <2> QED BY <1>3, <1>10, <2>1 DEF RowInv
<1>11. CASE /\ FillTeam(r) \/ FillAgain(r)
            /\ meta[t] = Gone /\ meta'[t] = copy[r] /\ copy[r] = row[t]
  <2>1. row'[t] = row[t]
    BY <1>11 DEF FillTeam, FillAgain
  <2> QED BY <1>3, <1>11, <2>1 DEF RowInv
<1>12. CASE /\ meta'[t] = meta[t]
            /\ ~ (OnTeam(r, t)
                    /\ pc[r] \in {"dissolveRow", "syncTeamDB", "syncTeamRedis", "removeMeta"})
  <2>1. row'[t] = row[t]
    BY <1>12, RowSteps
  <2>2. ASSUME NEW q \in Reqs, OnTeam(q, t), pc[q] \in {"syncTeamDB", "removeMeta"}
        PROVE  OnTeam(q, t)' /\ pc'[q] = pc[q]
    <3>1. q # r
      BY <1>12, <2>2
    <3> QED BY <1>2, <2>2, <3>1 DEF OnTeam
  <2>3. ASSUME NEW q \in Reqs, OnTeam(q, t)', pc'[q] = "removeMeta"
        PROVE  OnTeam(q, t) /\ pc[q] = "removeMeta"
    <3>1. OnTeam(q, t)
      BY <1>5, <2>3
    <3>2. q # r
      <4> SUFFICES ASSUME q = r PROVE FALSE
        OBVIOUS
      <4>1. DissolveRow(r)
        BY <1>6, <2>3, <3>1, LabelTells
      <4> QED BY <1>12, <3>1, <4>1 DEF DissolveRow
    <3> QED BY <1>2, <2>3, <3>1, <3>2
  <2> QED BY <1>3, <1>12, <2>1, <2>2, <2>3 DEF RowInv
<1> QED BY <1>7, <1>8, <1>9, <1>10, <1>11, <1>12, SteadyMeta

LEMMA LeaderKept ==
  ASSUME IInv, RankInv, Grows, NEW r \in Reqs, Act(r), NEW t \in Teams, LeaderInv(t)
  PROVE  LeaderInv(t)'
<1> SUFFICES ASSUME Steady(t)' PROVE LeaderInv(t)'
  BY DEF LeaderInv
<1>1. Steady(t)
  BY UndisturbedBefore DEF Steady
<1>2. GoneInv(t) /\ LeadInv(t) /\ CopyInv(t) /\ RowInv(t)
  BY <1>1 DEF LeaderInv
<1> QED BY <1>1, <1>2, GoneKept, LeadKept, CopyKept, RowKept DEF LeaderInv

(* A new request has read nothing and written nothing yet.                  *)
LEMMA BeginLeader ==
  ASSUME IInv, RankInv, Grows, NEW r \in Reqs, NEW k \in Requested, Begin(r, k), NEW t \in Teams,
         LeaderInv(t)
  PROVE  LeaderInv(t)'
<1> SUFFICES ASSUME Steady(t)' PROVE LeaderInv(t)'
  BY DEF LeaderInv
<1> Control
  BY DEF IInv
<1>1. /\ UNCHANGED <<meta, row, teamRank, members, copy>> /\ task[r] = NoTask
      /\ pc'[r] = FirstStep(k.kind) /\ task'[r] = k
      /\ \A q \in Reqs \ {r} : pc'[q] = pc[q] /\ task'[q] = task[q]
  BY DEF Begin, Goto, Control, teamVars, rankVars, memberVars
<1>2. Steady(t) /\ LeaderInv(t) /\ (Lone(t)' => Lone(t))
  BY UndisturbedBefore DEF Steady, Lone, Grows
<1>3. ~ OnTeam(r, t)
  BY <1>1, ConstantsAssumption DEF NoTask, OnTeam
<1>4. k.kind \in Kind /\ (k.team \in Teams => k.kind \notin {"joinActivity", "updateStats"})
  BY ConstantsAssumption DEF Requested, Task
<1>5. task'[r].team = t => pc'[r] \in {"queryTeam", "dissolve"}
  BY <1>1, <1>4 DEF FirstStep, Kind
<1>6. MembersOf(t)' = MembersOf(t)
  BY <1>1 DEF MembersOf
<1>7. GoneInv(t)'
  BY <1>1, <1>2, <1>5, <1>6 DEF LeaderInv, GoneInv, OnTeam, CleanLabels, AskLabels, DeleteLabels
<1>9. LeadInv(t)'
  BY <1>1, <1>2, <1>3, <1>6 DEF LeaderInv, LeadInv, OnTeam, Joining, Leaving
<1>10. CopyInv(t)'
  <2> SUFFICES ASSUME NEW q \in Reqs, OnTeam(q, t)'
               PROVE  /\ (/\ Joining(q) /\ pc[q] \in ReadLabels
                          /\ meta[t] # Gone /\ meta[t].leader = NoUser)' =>
                           copy'[q].leader = NoUser
                      /\ (Joining(q) /\ pc[q] \in {"syncTeamRedis", "syncTeamDB"})' =>
                           copy'[q].leader = task'[q].user
                      /\ (Leaving(q) /\ pc[q] \in {"syncTeamRedis", "syncTeamDB"})' =>
                           copy'[q].leader \in
                             IF MembersOf(t)' = {} THEN {NoUser} ELSE MembersOf(t)'
                      /\ (/\ Leaving(q) \/ Lone(t)
                          /\ pc[q] \in ReadLabels \cup {"syncTeamDB"})' =>
                           copy'[q] = meta'[t]
    BY DEF CopyInv
  <2>1. CASE q = r
    <3>1. pc'[q] \notin ReadLabels \cup {"syncTeamRedis", "syncTeamDB"}
      BY <1>5, <2>1 DEF OnTeam, ReadLabels, PreLabels, Window
    <3> QED BY <3>1
  <2>2. CASE q # r
    <3>1. pc'[q] = pc[q] /\ task'[q] = task[q] /\ OnTeam(q, t)
      BY <1>1, <2>2 DEF OnTeam
    <3>2. CopyInv(t)
      BY <1>2 DEF LeaderInv
    <3>3. /\ Joining(q) /\ pc[q] \in ReadLabels /\ meta[t] # Gone /\ meta[t].leader = NoUser =>
               copy[q].leader = NoUser
          /\ Joining(q) /\ pc[q] \in {"syncTeamRedis", "syncTeamDB"} =>
               copy[q].leader = task[q].user
          /\ Leaving(q) /\ pc[q] \in {"syncTeamRedis", "syncTeamDB"} =>
               copy[q].leader \in IF MembersOf(t) = {} THEN {NoUser} ELSE MembersOf(t)
          /\ (Leaving(q) \/ Lone(t)) /\ pc[q] \in ReadLabels \cup {"syncTeamDB"} =>
               copy[q] = meta[t]
      BY <3>1, <3>2 DEF CopyInv
    <3>4. (Joining(q)' <=> Joining(q)) /\ (Leaving(q)' <=> Leaving(q))
      BY <3>1 DEF Joining, Leaving
    <3>5. copy' = copy /\ meta' = meta
      BY <1>1
    <3> QED BY <1>2, <1>6, <3>1, <3>3, <3>4, <3>5
  <2> QED BY <2>1, <2>2
<1>11. RowInv(t)'
  <2>1. RowInv(t)
    BY <1>2 DEF LeaderInv
  <2>2. \A q \in Reqs : OnTeam(q, t) => OnTeam(q, t)' /\ pc'[q] = pc[q]
    BY <1>1, <1>3 DEF OnTeam
  <2>3. \A q \in Reqs : OnTeam(q, t)' /\ pc'[q] = "removeMeta" => OnTeam(q, t) /\ pc[q] = "removeMeta"
    BY <1>1, <1>5 DEF OnTeam
  <2> QED BY <1>1, <1>2, <2>1, <2>2, <2>3 DEF RowInv
<1> QED BY <1>7, <1>9, <1>10, <1>11 DEF LeaderInv

LEMMA LeaderInvHolds == Spec => [](\A t \in Teams : LeaderInv(t))
<1> DEFINE Leaders == \A t \in Teams : LeaderInv(t)
<1>1. Init => Leaders
  <2> SUFFICES ASSUME Init, NEW t \in Teams PROVE LeaderInv(t)
    OBVIOUS
  <2>1. \A r \in Reqs : task[r].team # t
    BY ConstantsAssumption DEF Init, NoTask
  <2>2. meta[t] = Fresh /\ row[t] = Fresh /\ MembersOf(t) = {} /\ Fresh # Gone
    BY ConstantsAssumption DEF Init, MembersOf, Fresh, Team
  <2> QED BY <2>1, <2>2 DEF LeaderInv, GoneInv, LeadInv, CopyInv, RowInv, OnTeam, Fresh
<1>2. IInv /\ RankInv /\ Leaders /\ [Next]_vars => Leaders'
  <2> SUFFICES ASSUME IInv, RankInv, Leaders, [Next]_vars PROVE Leaders'
    OBVIOUS
  <2>1. ASSUME NEW r \in Reqs, Act(r) \/ \E k \in Requested : Begin(r, k), NEW t \in Teams
        PROVE  LeaderInv(t)'
    <3>1. Grows
      BY <2>1, HistoryKept DEF IInv
    <3> QED BY <2>1, <3>1, LeaderKept, BeginLeader
  <2>2. ASSUME UNCHANGED vars, NEW t \in Teams PROVE LeaderInv(t)'
    <3>1. UNCHANGED <<teamRank, members, meta, row, pc, task, copy, faults>>
      BY <2>2 DEF vars, rankVars, teamVars, memberVars, history
    <3> SUFFICES ASSUME Steady(t)' PROVE LeaderInv(t)'
      BY DEF LeaderInv
    <3>2. LeaderInv(t) /\ Steady(t)
      BY <3>1 DEF Steady, Only
    <3>3. GoneInv(t)'
      BY <3>1, <3>2 DEF LeaderInv, GoneInv, MembersOf, OnTeam
    <3>5. LeadInv(t)'
      BY <3>1, <3>2 DEF LeaderInv, LeadInv, MembersOf, OnTeam, Joining, Leaving
    <3>6. CopyInv(t)'
      BY <3>1, <3>2 DEF LeaderInv, CopyInv, MembersOf, OnTeam, Joining, Leaving, Lone
    <3>7. RowInv(t)'
      BY <3>1, <3>2 DEF LeaderInv, RowInv, OnTeam, Lone
    <3> QED BY <3>3, <3>5, <3>6, <3>7 DEF LeaderInv
  <2> QED BY <2>1, <2>2, NextActs
<1> QED BY <1>1, <1>2, HandlersPlaced, RankInvHolds, PTL DEF Spec

(* A team has one of its members as the leader and an empty one has none,   *)
(* for any numbers of users, requests and errors of Redis, as long as no    *)
(* refill was stale; Redis and the table agree on it unless several users   *)
(* joined at once.                                                          *)
THEOREM LeadersBelong == Spec => []LeaderIsMember
<1>1. IInv /\ (\A t \in Teams : LeaderInv(t)) => LeaderIsMember
  <2> SUFFICES ASSUME IInv, NEW t \in Teams, LeaderInv(t), Settled(t), Steady(t), meta[t] # Gone
               PROVE  /\ meta[t].leader \in IF MembersOf(t) = {} THEN {NoUser} ELSE MembersOf(t)
                      /\ "crowd" \notin faults[t] => meta[t] = row[t]
    BY DEF LeaderIsMember, Steady
  <2>1. \A r \in Reqs : ~ OnTeam(r, t)
    <3> SUFFICES ASSUME NEW r \in Reqs, task[r].team = t PROVE FALSE
      BY DEF OnTeam
    <3>1. t \in Touches(r) /\ task[r] # NoTask
      BY ConstantsAssumption DEF Touches, NoTask
    <3>2. r \in Busy
      BY <3>1, ControlIsType DEF Busy, IInv
    <3> QED BY <3>1, <3>2 DEF Settled
  <2>2. NoUser \notin MembersOf(t)
    BY ConstantsAssumption DEF MembersOf
  <2>3. LeadInv(t) /\ RowInv(t)
    BY DEF LeaderInv
  <2> QED BY <2>1, <2>2, <2>3 DEF LeadInv, RowInv, Lone
<1> QED BY <1>1, HandlersPlaced, LeaderInvHolds, PTL

-----------------------------------------------------------------------------
(* Sums. Each user has a share in the sum of a team, and one in the sum of  *)
(* the activity: his steps, unless the request he has under way has only    *)
(* done the one of two writes. A user whose requests run one at a time and  *)
(* to their end meets in each of them what it relies on.                    *)

BringLabels == {"enter", "rankUser", "addSteps", "enroll", "rankMember"}
DueLabels == {"statUser", "statSteps", "statMember", "statTeam"}

Relies(r, u) ==
  /\ Joining(r) /\ pc[r] \in {"checkLimit", "updateSteps"} \cup BringLabels \cup Window =>
       \A t \in Teams : <<u, t>> \notin members
  /\ Leaving(r) /\ pc[r] \in BringLabels \cup Window => <<u, task[r].team>> \in members
  /\ pc[r] \in BringLabels \cup {"modifySteps"} => steps[r] = stored[u]
  /\ pc[r] = "rankUser" => u \notin inRank
  /\ pc[r] \in {"addSteps", "enroll"} => u \in inRank
  /\ pc[r] = "listMember" => (<<u, task[r].team>> \in members <=> Joining(r))
  /\ task[r].kind = "updateStats" /\ pc[r] # "findTeam" =>
       u \in inRank /\ \A t \in Teams : <<u, t>> \in members <=> task[r].team = t
  /\ pc[r] = "findTeam" => task[r].team = NoTeam
  /\ pc[r] = "newSteps" => steps[r] = stored[u]
  /\ pc[r] \in DueLabels => steps[r] \in 0 .. stored[u]

Orderly(u) ==
  Only(u, {}) =>
    /\ u \in enrolled => u \in inRank
    /\ \A t \in Teams : \/ <<u, t>> \in listed <=> <<u, t>> \in members
                        \/ \E r \in Reqs : Mine(r, u, t) /\ pc[r] = "listMember"
    /\ \A r \in Reqs : task[r].user = u => Relies(r, u)

(* Who removes a team found its rank empty, and so it stays.                *)
RemovalInv(u, t) ==
  Whole(t) /\ Alone(u) =>
    \A r \in Reqs : OnTeam(r, t) /\ pc[r] \in EndLabels /\ (pc[r] = "dissolve" => Leaving(r)) =>
      u \notin teamRank[t]

(* Which labels lead to those of a removal.                                 *)
LEMMA RemovalSteps ==
  ASSUME Control, NEW r \in Reqs, Act(r), pc'[r] \in EndLabels,
         pc'[r] = "dissolve" => Leaving(r)
  PROVE  \/ pc[r] \in EndLabels /\ (pc[r] = "dissolve" => Leaving(r))
         \/ teamRank[task[r].team] = {}
         \/ Joining(r)
<1> SUFFICES ASSUME pc[r] = "dissolve", ~ Leaving(r), ~ Joining(r), teamRank[task[r].team] # {}
             PROVE  FALSE
  BY LabelSteps DEF EndLabels, EmptyLabels
<1>1. task[r].kind = "dissolve"
  BY DEF Control, Fits, DeleteLabels, Joining, Leaving
<1>2. pc'[r] = "idle"
  <2>1. CASE DeleteTeam(r)
    BY <1>1, <2>1 DEF DeleteTeam, EndDelete, Checking, Finish, Goto, Control
  <2>2. CASE Refuse(r)
    BY <2>2 DEF Refuse, Finish, Goto, Control
  <2>3. ~ Ask(r) /\ ~ Enter(r) /\ ~ Move(r) /\ ~ Stat(r) /\ ~ Stop(r)
    BY DEF Ask, QueryTeamRedis, QueryTeamMiss, QueryTeamDB, FillTeam, GetTeamMemberSize,
        QueryTeamStats, Enter, UpdateUserSteps, QueryUserStats, UpdateUserRank,
        ModifyActivitySteps, SetActivityMember, Move, UpdateTeamUserRank, ModifyTeamSteps,
        SetTeamMember, SetTeamMemberLimit, SyncMemberDB, SyncMemberRedis, ElectTeamLeader,
        SyncTeamRedis, SyncTeamDB, Stat, FindTeam, QueryUserSteps, StoreNewSteps, StatUser,
        StatSteps, StatMember, StatTeam, Stop
  <2>4. Dissolve(r) => DeleteTeam(r)
    BY <1>1 DEF Dissolve, CheckTeam, LookTeam, FillAgain, DeleteFails, Checking, DissolveRow,
        RemoveMeta, RemoveUserRank, RemoveTeamSteps, RemoveActivityTeamRank
  <2> QED BY <2>1, <2>2, <2>3, <2>4 DEF Act
<1> QED BY <1>2 DEF EndLabels, EmptyLabels

LEMMA RemovalKept ==
  ASSUME IInv, RankInv, Grows, NEW r \in Reqs, Act(r), NEW u \in Users, NEW t \in Teams,
         RemovalInv(u, t)
  PROVE  RemovalInv(u, t)'
<1> SUFFICES ASSUME Whole(t)', Alone(u)', NEW q \in Reqs, OnTeam(q, t)', pc'[q] \in EndLabels,
                    pc'[q] = "dissolve" => Leaving(q)'
             PROVE  u \notin teamRank'[t]
  BY DEF RemovalInv
<1> Control /\ World
  BY DEF IInv
<1>1. Whole(t) /\ Alone(u)
  BY UndisturbedBefore
<1>2. OnTeam(q, t) /\ task'[q] = task[q] /\ (Leaving(q)' <=> Leaving(q)) /\ task[q].team = t
  BY TaskBefore DEF Leaving, OnTeam
<1>3. ~ Joining(q) \/ pc[q] \notin EndLabels
  BY <1>1, <1>2 DEF RankInv, TeamInv
<1>4. ~ Joining(q)
  <2>1. TeamInv(t)'
    BY TeamKept DEF RankInv
  <2> QED BY <1>2, <2>1 DEF TeamInv, Joining
<1>5. u \notin teamRank[t]
  <2>1. CASE pc[q] \in EndLabels /\ (pc[q] = "dissolve" => Leaving(q))
    BY <1>1, <1>2, <2>1 DEF RemovalInv
  <2>2. CASE q # r
    BY <1>2, <2>1, <2>2, OthersStay
  <2>3. CASE q = r
    BY <1>2, <1>4, <2>1, <2>3, RemovalSteps
  <2> QED BY <2>2, <2>3
<1> SUFFICES ASSUME u \in teamRank'[t] PROVE FALSE
  OBVIOUS
<1>6. \/ OnTeam(r, t) /\ Joining(r)
      \/ Mine(r, u, t) /\ task[r].kind = "updateStats"
  BY <1>5, RankSteps
<1>7. OnTeam(r, t) => q = r
  BY <1>1, <1>2, <1>4 DEF RankInv, TeamInv
<1>8. PairInv(u, t)
  BY DEF RankInv
<1> QED BY <1>1, <1>4, <1>5, <1>6, <1>7, <1>8 DEF PairInv

(* What a request writes of other users and in other requests.              *)
LEMMA UserSteps ==
  ASSUME Control, World, Locals, NEW r \in Reqs, Act(r)
  PROVE  /\ \A u \in Users \ {task[r].user} :
              /\ stored'[u] = stored[u] /\ (u \in inRank' <=> u \in inRank)
              /\ u \in enrolled' <=> u \in enrolled
         /\ \A q \in Reqs \ {r} : steps'[q] = steps[q]
         /\ inRank \subseteq inRank' /\ (enrolled' = enrolled \/ pc[r] = "enroll")
<1>1. CASE UNCHANGED <<stored, inRank, enrolled, steps>>
  BY <1>1
<1>2. CASE UNCHANGED <<stored, inRank, enrolled>> /\ Finish(r)
  BY <1>2 DEF Finish, Locals
<1>3. ASSUME NEW n, UpdateUserSteps(r, n) \/ StoreNewSteps(r, n)
      PROVE  /\ UNCHANGED <<inRank, enrolled>> /\ stored' = [stored EXCEPT ![task[r].user] = n]
             /\ \A q \in Reqs \ {r} : steps'[q] = steps[q]
  BY <1>3 DEF UpdateUserSteps, StoreNewSteps, activityVars, Locals
<1>4. CASE QueryUserSteps(r)
  BY <1>4 DEF QueryUserSteps, activityVars, Locals
<1>5. CASE UpdateUserRank(r) \/ StatUser(r)
  BY <1>5 DEF UpdateUserRank, StatUser, local
<1>6. CASE SetActivityMember(r)
  BY <1>6 DEF SetActivityMember, local, Finish, Locals
<1>7. \/ UNCHANGED <<stored, inRank, enrolled, steps>>
      \/ UNCHANGED <<stored, inRank, enrolled>> /\ Finish(r)
      \/ \E n \in 0 .. MaxSteps : UpdateUserSteps(r, n) \/ StoreNewSteps(r, n)
      \/ QueryUserSteps(r) \/ UpdateUserRank(r) \/ StatUser(r) \/ SetActivityMember(r)
  <2>1. CASE Ask(r) \/ Move(r)
    BY <2>1 DEF Ask, QueryTeamRedis, QueryTeamMiss, QueryTeamDB, FillTeam, GetTeamMemberSize,
       QueryTeamStats, Move, UpdateTeamUserRank, ModifyTeamSteps, SetTeamMember,
       SetTeamMemberLimit, SyncMemberDB, SyncMemberRedis, ElectTeamLeader, SyncTeamRedis,
       SyncTeamDB, activityVars, local
  <2>2. CASE Dissolve(r) \/ Refuse(r) \/ Stop(r)
    BY <2>2 DEF Dissolve, CheckTeam, LookTeam, FillAgain, AfterCheck, DeleteTeam, EndDelete,
       DeleteFails, DissolveRow, RemoveMeta, RemoveUserRank, RemoveTeamSteps,
       RemoveActivityTeamRank, Refuse, Stop, activityVars, local
  <2>3. CASE Enter(r)
    BY <2>3 DEF Enter, QueryUserStats, ModifyActivitySteps, activityVars, local
  <2>4. CASE Stat(r)
    BY <2>4 DEF Stat, FindTeam, StatSteps, StatMember, StatTeam, activityVars, local
  <2> QED BY <2>1, <2>2, <2>3, <2>4 DEF Act
<1> QED BY <1>1, <1>2, <1>3, <1>4, <1>5, <1>6, <1>7 DEF World

LEMMA OrderlyOther ==
  ASSUME IInv, Grows, NEW r \in Reqs, Act(r), NEW u \in Users, task[r].user # u, Orderly(u)
  PROVE  Orderly(u)'
<1> SUFFICES ASSUME Only(u, {})' PROVE Orderly(u)'
  BY DEF Orderly
<1> Control /\ World /\ Locals
  BY DEF IInv
<1>1. Only(u, {})
  BY UndisturbedBefore
<1>2. \A q \in Reqs : task'[q].user = u => q # r
  BY TaskBefore
<1>3. \A q \in Reqs \ {r} : pc'[q] = pc[q] /\ task'[q] = task[q] /\ steps'[q] = steps[q]
  BY OthersStay, UserSteps
<1>4. /\ stored'[u] = stored[u] /\ (u \in inRank' <=> u \in inRank)
      /\ u \in enrolled' <=> u \in enrolled
  BY UserSteps
<1>5. \A t \in Teams : /\ <<u, t>> \in members' <=> <<u, t>> \in members
                       /\ <<u, t>> \in listed' <=> <<u, t>> \in listed
  BY ListSteps DEF Mine
<1>6. ASSUME NEW q \in Reqs, task'[q].user = u PROVE Relies(q, u)'
  <2>1. Relies(q, u) /\ pc'[q] = pc[q] /\ task'[q] = task[q] /\ steps'[q] = steps[q]
    BY <1>1, <1>2, <1>3, <1>6 DEF Orderly
  <2>2. (Joining(q)' <=> Joining(q)) /\ (Leaving(q)' <=> Leaving(q))
    BY <2>1 DEF Joining, Leaving
  <2>3. Leaving(q) /\ pc[q] \in BringLabels \cup Window => task[q].team \in Teams
    BY DEF Control, Fits, Leaving, BringLabels, Window
  <2>4. pc[q] = "listMember" => task[q].team \in Teams
    BY DEF Control, Fits, MoveLabels
  <2> QED BY <1>4, <1>5, <2>1, <2>2, <2>3, <2>4 DEF Relies
<1>7. \A t \in Teams : \/ <<u, t>> \in listed' <=> <<u, t>> \in members'
                       \/ \E q \in Reqs : Mine(q, u, t)' /\ pc'[q] = "listMember"
  <2> SUFFICES ASSUME NEW t \in Teams, ~ (<<u, t>> \in listed <=> <<u, t>> \in members)
               PROVE  \E q \in Reqs : Mine(q, u, t)' /\ pc'[q] = "listMember"
    BY <1>5
  <2>1. PICK q \in Reqs : Mine(q, u, t) /\ pc[q] = "listMember"
    BY <1>1 DEF Orderly
  <2>2. q # r
    BY <2>1 DEF Mine
  <2> QED BY <1>3, <2>1, <2>2 DEF Mine
<1> QED BY <1>1, <1>4, <1>6, <1>7 DEF Orderly

LEMMA ReliesAsk ==
  ASSUME IInv, NEW r \in Reqs, Ask(r), NEW u \in Users, task[r].user = u, Relies(r, u)
  PROVE  Relies(r, u)'
<1> Control
  BY DEF IInv
<1>1. /\ UNCHANGED <<task, steps, stored, inRank, members>>
      /\ \/ pc'[r] \in {"checkSize", "checkLimit", "oldSteps", "answer"} /\ pc'[r] = AfterQuery(r)
         \/ pc'[r] \in {"queryRow", "fillTeam"}
         \/ pc'[r] = "checkLimit" /\ TeamsOf(u) = {}
         \/ pc[r] = "checkLimit" /\ pc'[r] = "updateSteps"
      /\ pc[r] # "findTeam"
  <2>1. pc[r] \in AskLabels => AfterQuery(r) \in {"checkSize", "checkLimit", "oldSteps", "answer"}
    BY DEF Control, Fits, AfterQuery, AskLabels
  <2> QED BY <2>1 DEF Ask, QueryTeamRedis, QueryTeamMiss, QueryTeamDB, FillTeam,
            GetTeamMemberSize, QueryTeamStats, local, activityVars, memberVars, Goto, Control,
            AskLabels
<1>2. task[r].kind \in {"joinTeam", "leaveTeam"} => pc'[r] # "oldSteps"
  BY <1>1 DEF AfterQuery
<1>3. Joining(r) /\ pc'[r] \in {"checkLimit", "updateSteps"} => \A t \in Teams : <<u, t>> \notin members
  <2>1. Joining(r) => AfterQuery(r) = "checkSize"
    BY DEF AfterQuery, Joining
  <2> QED BY <1>1, <2>1 DEF Relies, TeamsOf
<1> QED BY <1>1, <1>3 DEF Relies, Joining, Leaving, BringLabels, Window, DueLabels

LEMMA ReliesEnter ==
  ASSUME IInv, NEW r \in Reqs, Enter(r), NEW u \in Users, task[r].user = u, Relies(r, u),
         Only(u, {})', pc'[r] # "idle"
  PROVE  Relies(r, u)'
<1> USE DEF Relies, Joining, Leaving, BringLabels, Window, DueLabels
<1> Control /\ World /\ Locals
  BY DEF IInv
<1>1. ASSUME NEW n \in 0 .. MaxSteps, UpdateUserSteps(r, n) PROVE Relies(r, u)'
  <2>1. /\ pc[r] = "updateSteps" /\ task' = task /\ stored'[u] = n /\ steps'[r] = n
        /\ UNCHANGED <<inRank, members>>
        /\ pc'[r] = IF task[r].kind = "joinActivity" THEN "rankUser" ELSE "enter"
    BY <1>1 DEF UpdateUserSteps, activityVars, memberVars, Goto, Control, World, Locals
  <2>2. task[r].kind \in {"joinTeam", "leaveTeam", "joinActivity"}
        /\ (task[r].kind # "joinActivity" => task[r].team \in Teams)
    BY <2>1 DEF Control, Fits, EnterLabels
  <2>3. /\ task[r].kind = "leaveTeam" => task[r].team \in TeamsOf(u)
        /\ task[r].kind = "joinActivity" => u \notin inRank
    BY <1>1 DEF UpdateUserSteps, Note, Only
  <2> QED BY <2>1, <2>2, <2>3 DEF TeamsOf
<1>2. CASE QueryUserStats(r)
  BY <1>2 DEF QueryUserStats, local, activityVars, memberVars, Goto, Control
<1>3. CASE UpdateUserRank(r)
  BY <1>3 DEF UpdateUserRank, local, memberVars, Goto, Control
<1>4. CASE ModifyActivitySteps(r)
  BY <1>4 DEF ModifyActivitySteps, local, memberVars, Goto, Control
<1>5. CASE SetActivityMember(r)
  BY <1>5 DEF SetActivityMember, local, memberVars, Goto, Control, Finish
<1> QED BY <1>1, <1>2, <1>3, <1>4, <1>5 DEF Enter

LEMMA ReliesMove ==
  ASSUME IInv, NEW r \in Reqs, Move(r), NEW u \in Users, task[r].user = u, Relies(r, u),
         pc'[r] # "idle"
  PROVE  Relies(r, u)'
<1> USE DEF Relies, Joining, Leaving, BringLabels, Window, DueLabels
<1> Control /\ World /\ Locals
  BY DEF IInv
<1>1. task[r].kind \in {"joinTeam", "leaveTeam"} /\ task[r].team \in Teams
  BY DEF Control, Fits, MoveLabels, Move, UpdateTeamUserRank, ModifyTeamSteps, SetTeamMember,
      SetTeamMemberLimit, SyncMemberDB, SyncMemberRedis, ElectTeamLeader, SyncTeamRedis, SyncTeamDB
<1>2. CASE UpdateTeamUserRank(r) \/ ModifyTeamSteps(r)
  BY <1>1, <1>2 DEF UpdateTeamUserRank, ModifyTeamSteps, local, activityVars, memberVars, Goto,
                    Control
<1>3. CASE SetTeamMember(r)
  BY <1>1, <1>3 DEF SetTeamMember, AfterLook, local, activityVars, memberVars, Goto, Control
<1>4. CASE SyncMemberDB(r)
  BY <1>1, <1>4 DEF SyncMemberDB, local, activityVars, Goto, Control
<1>5. CASE SyncMemberRedis(r) \/ SyncTeamRedis(r) \/ SyncTeamDB(r)
  BY <1>1, <1>5 DEF SyncMemberRedis, SyncTeamRedis, SyncTeamDB, local, activityVars, memberVars,
                    Goto, Control
<1>6. CASE ElectTeamLeader(r)
  <2>1. task' = task /\ pc'[r] \in {"check", "syncTeamRedis"}
    BY <1>6 DEF ElectTeamLeader, Goto, Control
  <2> QED BY <1>1, <2>1
<1>7. CASE SetTeamMemberLimit(r)
  BY <1>7 DEF SetTeamMemberLimit, Finish, Goto, Control
<1> QED BY <1>2, <1>3, <1>4, <1>5, <1>6, <1>7 DEF Move

LEMMA ReliesDissolve ==
  ASSUME IInv, NEW r \in Reqs, Dissolve(r), NEW u \in Users, task[r].user = u, pc'[r] # "idle"
  PROVE  Relies(r, u)'
<1> Control
  BY DEF IInv
<1>1. task[r].kind \in {"joinTeam", "leaveTeam", "dissolve"}
  BY DEF Control, Fits, MoveLabels, DeleteLabels, Dissolve, CheckTeam, LookTeam, FillAgain,
      DeleteTeam, DeleteFails, DissolveRow, RemoveMeta, RemoveUserRank, RemoveTeamSteps,
      RemoveActivityTeamRank
<1>2. task' = task /\ pc'[r] \in EndLabels
  BY DEF Dissolve, CheckTeam, LookTeam, FillAgain, AfterCheck, DeleteTeam, EndDelete, DeleteFails,
      DissolveRow, RemoveMeta, RemoveUserRank, RemoveTeamSteps, RemoveActivityTeamRank, local,
      Finish, Goto, Control, EndLabels, EmptyLabels
<1> QED BY <1>1, <1>2 DEF Relies, Joining, Leaving, BringLabels, Window, DueLabels, EndLabels,
          EmptyLabels

(* Unless it is noted a worker stores no fewer steps than it has read.      *)
LEMMA NewStepsGrow ==
  ASSUME IInv, NEW r \in Reqs, NEW n \in 0 .. MaxSteps, StoreNewSteps(r, n), NEW u \in Users,
         task[r].user = u, Only(u, {})'
  PROVE  n >= steps[r] /\ steps'[r] = n - steps[r]
<1>1. "drift" \notin faults'[u]
  BY DEF Only
<1>2. ~ (n < steps[r])
  BY <1>1 DEF StoreNewSteps, Note
<1>3. n \in Int /\ steps[r] \in Int /\ steps \in [Reqs -> Int]
  BY ConstantsAssumption DEF IInv, Locals
<1>4. steps'[r] = n - steps[r]
  BY <1>2, <1>3 DEF StoreNewSteps
<1> QED BY <1>2, <1>3, <1>4

(* The steps of a worker, given the team that the user's list shows him.    *)
LEMMA ReliesStat ==
  ASSUME IInv, NEW r \in Reqs, Stat(r), NEW u \in Users, task[r].user = u, Relies(r, u), Only(u, {})',
         u \in enrolled => u \in inRank, pc'[r] # "idle",
         \A s, t \in Teams : <<u, s>> \in members /\ <<u, t>> \in members => s = t,
         pc[r] # "listMember" =>
           \A t \in Teams : <<u, t>> \in listed <=> <<u, t>> \in members
  PROVE  Relies(r, u)'
<1> USE DEF Relies, Joining, Leaving, BringLabels, Window, DueLabels
<1> Control /\ World /\ Locals
  BY DEF IInv
<1>1. task[r].kind = "updateStats"
  BY DEF Control, Fits, StatLabels, Stat, FindTeam, QueryUserSteps, StoreNewSteps, StatUser,
      StatSteps, StatMember, StatTeam
<1>2. CASE FindTeam(r)
  <2>1. /\ pc[r] = "findTeam" /\ u \in inRank /\ UNCHANGED <<inRank, members>>
        /\ pc'[r] \in {"queryTeam", "oldSteps"}
    BY <1>2 DEF FindTeam, activityVars, memberVars, Goto, Control
  <2>3. task'[r].kind = "updateStats"
    <3>1. pc'[r] # "idle" /\ (task' = task => task'[r] = task[r])
      OBVIOUS
    <3>2. \A t \in Teams : task'[r] = [task[r] EXCEPT !.team = t] => task'[r].kind = "updateStats"
      BY <1>1 DEF Control, Task
    <3> QED BY <1>1, <1>2, <3>1, <3>2, TaskStays DEF Act, Stat
  <2>2. \A t \in Teams : <<u, t>> \in members <=> task'[r].team = t
    <3>1. CASE \E t \in Teams : <<u, t>> \in listed /\ task' = [task EXCEPT ![r].team = t]
      <4>1. PICK t \in Teams : <<u, t>> \in listed /\ task' = [task EXCEPT ![r].team = t]
        BY <3>1
      <4>2. <<u, t>> \in members /\ task'[r].team = t
        BY <2>1, <4>1 DEF Control, Task
      <4> QED BY <4>2
    <3>2. CASE (\A t \in Teams : <<u, t>> \notin listed) /\ UNCHANGED task
      <4>1. task[r].team \notin Teams
        BY <2>1, ConstantsAssumption
      <4> QED BY <2>1, <3>2, <4>1
    <3> QED BY <1>2, <3>1, <3>2 DEF FindTeam
  <2> QED BY <2>1, <2>2, <2>3
<1>3. CASE QueryUserSteps(r)
  BY <1>1, <1>3 DEF QueryUserSteps, activityVars, memberVars, Goto, Control, Locals
<1>4. ASSUME NEW n \in 0 .. MaxSteps, StoreNewSteps(r, n) PROVE Relies(r, u)'
  <2>1. /\ pc[r] = "newSteps" /\ pc'[r] = "statUser" /\ task' = task /\ stored'[u] = n
        /\ UNCHANGED <<inRank, members>>
    BY <1>4 DEF StoreNewSteps, activityVars, memberVars, Goto, Control, World
  <2>2. steps[r] = stored[u] /\ u \in inRank
        /\ \A t \in Teams : <<u, t>> \in members <=> task[r].team = t
    BY <1>1, <2>1
  <2>3. n >= stored[u] /\ steps'[r] = n - stored[u]
    BY <1>4, <2>2, NewStepsGrow
  <2>4. n - stored[u] \in 0 .. n
    BY <2>3, ConstantsAssumption DEF World
  <2> QED BY <1>1, <2>1, <2>2, <2>3, <2>4
<1>5. CASE StatUser(r)
  BY <1>1, <1>5 DEF StatUser, local, memberVars, Goto, Control
<1>6. CASE StatSteps(r)
  <2>1. ~ Finish(r)
    BY DEF Finish, Goto, Control
  <2> QED BY <1>1, <1>6, <2>1 DEF StatSteps, local, memberVars, Goto, Control
<1>7. CASE StatMember(r)
  BY <1>1, <1>7 DEF StatMember, local, activityVars, memberVars, Goto, Control
<1>8. CASE StatTeam(r)
  BY <1>8 DEF StatTeam, Finish, Goto, Control
<1> QED BY <1>2, <1>3, <1>4, <1>5, <1>6, <1>7, <1>8 DEF Stat

LEMMA OrderlyOwn ==
  ASSUME IInv, RankInv, SingleInv, Grows, NEW r \in Reqs, Act(r), NEW u \in Users,
         task[r].user = u, Orderly(u)
  PROVE  Orderly(u)'
<1> SUFFICES ASSUME Only(u, {})' PROVE Orderly(u)'
  BY DEF Orderly
<1> Control /\ World /\ Locals
  BY DEF IInv
<1>1. /\ Alone(u) /\ Relies(r, u) /\ (u \in enrolled => u \in inRank)
      /\ \A t \in Teams : \/ <<u, t>> \in listed <=> <<u, t>> \in members
                          \/ \E q \in Reqs : Mine(q, u, t) /\ pc[q] = "listMember"
      /\ Only(u, {})
  BY UndisturbedBefore DEF Orderly, Alone, Only
<1>2. \A q \in Reqs : task[q].user = u => q = r
  BY <1>1 DEF RankInv, AloneInv
<1>3. \A q \in Reqs : task'[q].user = u => q = r
  BY <1>2, TaskBefore
<1>4. ~ Stop(r) /\ ~ SetTeamMemberLimit(r)
  <2>1. u \in Touches(r)
    BY DEF Touches
  <2> QED BY <2>1, NotedEnd DEF Stop, SetTeamMemberLimit, Only
<1>5. \A s, t \in Teams : <<u, s>> \in members /\ <<u, t>> \in members => s = t
  <2>1. Single(u)
    BY <1>1 DEF SingleInv, Only
  <2> QED BY <2>1 DEF Single, TeamsOf
<1>6. pc[r] # "listMember" => \A t \in Teams : <<u, t>> \in listed <=> <<u, t>> \in members
  BY <1>1, <1>2 DEF Mine
<1>7. pc'[r] # "idle" => Relies(r, u)'
  BY <1>1, <1>4, <1>5, <1>6, ReliesAsk, ReliesEnter, ReliesMove, ReliesDissolve, ReliesStat
     DEF Act, Refuse, Finish, Goto, Control
<1>8. u \in enrolled' => u \in inRank'
  <2>1. inRank \subseteq inRank' /\ (enrolled' = enrolled \/ pc[r] = "enroll")
    BY UserSteps
  <2> QED BY <1>1, <2>1 DEF Relies
<1>9. ASSUME NEW t \in Teams
      PROVE  \/ <<u, t>> \in listed' <=> <<u, t>> \in members'
             \/ \E q \in Reqs : Mine(q, u, t)' /\ pc'[q] = "listMember"
  <2>1. CASE pc'[r] = "listMember"
    <3>1. pc[r] = "syncMember" /\ task' = task
      BY <2>1, ListSteps
    <3>2. CASE Mine(r, u, t)
      BY <2>1, <3>1, <3>2 DEF Mine
    <3>3. CASE ~ Mine(r, u, t)
      BY <1>6, <3>1, <3>3, ListSteps
    <3> QED BY <3>2, <3>3
  <2>2. CASE pc[r] = "listMember" /\ pc'[r] # "listMember"
    <3>1. pc'[r] # "idle"
      <4>1. ~ Finish(r)
        <5>1. ~ Refuse(r) /\ ~ Ask(r) /\ ~ Enter(r) /\ ~ Dissolve(r) /\ ~ Stat(r)
          BY <2>2 DEF Refuse, Ask, QueryTeamRedis, QueryTeamMiss, QueryTeamDB, FillTeam,
             GetTeamMemberSize, QueryTeamStats, Enter, UpdateUserSteps, QueryUserStats,
             UpdateUserRank, ModifyActivitySteps, SetActivityMember, Dissolve, CheckTeam, LookTeam,
             FillAgain, DeleteTeam, DeleteFails, DissolveRow, RemoveMeta, RemoveUserRank,
             RemoveTeamSteps, RemoveActivityTeamRank, Stat, FindTeam, QueryUserSteps,
             StoreNewSteps, StatUser, StatSteps, StatMember, StatTeam
        <5>2. SyncMemberRedis(r)
          BY <1>4, <2>2, <5>1 DEF Act, Move, UpdateTeamUserRank, ModifyTeamSteps, SetTeamMember,
             SyncMemberDB, ElectTeamLeader, SyncTeamRedis, SyncTeamDB
        <5> QED BY <5>2 DEF SyncMemberRedis, Finish, Goto, Control
      <4> QED BY <4>1, GoesOn
    <3>2. <<u, t>> \in members' <=> <<u, t>> \in members
      BY <2>2, ListSteps
    <3>3. CASE Mine(r, u, t)
      BY <1>1, <2>2, <3>1, <3>2, <3>3, ListSteps DEF Mine, Relies
    <3>4. CASE ~ Mine(r, u, t)
      <4>1. <<u, t>> \in listed <=> <<u, t>> \in members
        BY <1>1, <1>2, <3>4 DEF Mine
      <4> QED BY <3>2, <3>4, <4>1, ListSteps
    <3> QED BY <3>3, <3>4
  <2>3. CASE pc[r] # "listMember" /\ pc'[r] # "listMember"
    BY <1>6, <2>3, ListSteps
  <2> QED BY <2>1, <2>2, <2>3
<1>10. \A q \in Reqs : task'[q].user = u => Relies(q, u)'
  <2>1. pc'[r] = "idle" => task'[r].user # u
    BY GoesOn, ConstantsAssumption DEF Finish, Control, NoTask
  <2>2. \A q \in Reqs : task'[q].user = u => q = r /\ Relies(r, u)'
    BY <1>3, <1>7, <2>1
  <2> QED BY <2>2
<1> QED BY <1>8, <1>9, <1>10 DEF Orderly

LEMMA OrderlyBegin ==
  ASSUME IInv, RankInv, Grows, NEW r \in Reqs, NEW k \in Requested, Begin(r, k), NEW u \in Users,
         Orderly(u)
  PROVE  Orderly(u)'
<1> SUFFICES ASSUME Only(u, {})' PROVE Orderly(u)'
  BY DEF Orderly
<1> Control
  BY DEF IInv
<1>1. /\ UNCHANGED <<stored, inRank, enrolled, members, listed, steps>> /\ task[r] = NoTask
      /\ task'[r] = k /\ pc'[r] = FirstStep(k.kind) /\ pc[r] = "idle"
      /\ \A q \in Reqs \ {r} : pc'[q] = pc[q] /\ task'[q] = task[q]
  BY DEF Begin, Goto, Control, activityVars, memberVars
<1>2. Only(u, {}) /\ Orderly(u)
  BY UndisturbedBefore
<1>3. /\ k.kind = "updateStats" => k.team = NoTeam
      /\ k.kind \in Kind
      /\ FirstStep(k.kind) \in {"queryTeam", "updateSteps", "dissolve", "findTeam"}
      /\ FirstStep(k.kind) = "updateSteps" => k.kind = "joinActivity"
      /\ FirstStep(k.kind) = "findTeam" <=> k.kind = "updateStats"
  BY DEF Requested, Task, FirstStep, Kind
<1>4. ASSUME NEW q \in Reqs, task'[q].user = u PROVE Relies(q, u)'
  <2>1. CASE q = r
    BY <1>1, <1>3, <2>1 DEF Relies, Joining, Leaving, BringLabels, Window, DueLabels
  <2>2. CASE q # r
    <3>1. Relies(q, u) /\ pc'[q] = pc[q] /\ task'[q] = task[q]
      BY <1>1, <1>2, <1>4, <2>2 DEF Orderly
    <3> QED BY <1>1, <3>1 DEF Relies, Joining, Leaving
  <2> QED BY <2>1, <2>2
<1>5. ASSUME NEW t \in Teams
      PROVE  \/ <<u, t>> \in listed' <=> <<u, t>> \in members'
             \/ \E q \in Reqs : Mine(q, u, t)' /\ pc'[q] = "listMember"
  BY <1>1, <1>2 DEF Orderly, Mine
<1> QED BY <1>1, <1>2, <1>4, <1>5 DEF Orderly

LEMMA RemovalBegin ==
  ASSUME IInv, Grows, NEW r \in Reqs, NEW k \in Requested, Begin(r, k), NEW u \in Users,
         NEW t \in Teams, RemovalInv(u, t)
  PROVE  RemovalInv(u, t)'
<1> SUFFICES ASSUME Whole(t)', Alone(u)' PROVE RemovalInv(u, t)'
  BY DEF RemovalInv
<1> Control
  BY DEF IInv
<1>1. /\ UNCHANGED teamRank /\ task'[r] = k /\ pc'[r] = FirstStep(k.kind)
      /\ \A q \in Reqs \ {r} : pc'[q] = pc[q] /\ task'[q] = task[q]
  BY DEF Begin, Goto, Control, rankVars
<1>2. Whole(t) /\ Alone(u)
  BY UndisturbedBefore
<1>3. /\ FirstStep(k.kind) \in {"queryTeam", "updateSteps", "dissolve", "findTeam"}
      /\ FirstStep(k.kind) = "dissolve" => k.kind # "leaveTeam"
  BY DEF Requested, Task, FirstStep, Kind
<1> QED BY <1>1, <1>2, <1>3 DEF RemovalInv, OnTeam, Leaving, EndLabels, EmptyLabels

OrderInv ==
  /\ \A u \in Users : Orderly(u)
  /\ \A u \in Users, t \in Teams : RemovalInv(u, t)

LEMMA InitOrder == Init => OrderInv
<1> SUFFICES ASSUME Init PROVE OrderInv
  OBVIOUS
<1>1. \A r \in Reqs, u \in Users : task[r].user # u
  BY ConstantsAssumption DEF Init, NoTask
<1> QED BY <1>1 DEF Init, OrderInv, Orderly, RemovalInv

LEMMA OrderKept == IInv /\ RankInv /\ SingleInv /\ OrderInv /\ [Next]_vars => OrderInv'
<1> SUFFICES ASSUME IInv, RankInv, SingleInv, OrderInv, [Next]_vars PROVE OrderInv'
  OBVIOUS
<1>1. ASSUME NEW r \in Reqs, Act(r) PROVE OrderInv'
  <2>1. Grows
    BY <1>1, HistoryKept DEF IInv
  <2>2. \A u \in Users : Orderly(u)'
    BY <1>1, <2>1, OrderlyOwn, OrderlyOther DEF OrderInv
  <2>3. \A u \in Users, t \in Teams : RemovalInv(u, t)'
    BY <1>1, <2>1, RemovalKept DEF OrderInv
  <2> QED BY <2>2, <2>3 DEF OrderInv
<1>2. ASSUME NEW r \in Reqs, NEW k \in Requested, Begin(r, k) PROVE OrderInv'
  <2>1. Grows
    BY <1>2, HistoryKept DEF IInv
  <2>2. \A u \in Users : Orderly(u)'
    BY <1>2, <2>1, OrderlyBegin DEF OrderInv
  <2>3. \A u \in Users, t \in Teams : RemovalInv(u, t)'
    BY <1>2, <2>1, RemovalBegin DEF OrderInv
  <2> QED BY <2>2, <2>3 DEF OrderInv
<1>3. CASE UNCHANGED vars
  <2>1. UNCHANGED <<stored, inRank, enrolled, members, listed, teamRank, pc, task, steps, faults>>
    BY <1>3 DEF vars, activityVars, rankVars, memberVars, history
  <2>2. \A u \in Users : Orderly(u)'
    BY <2>1 DEF OrderInv, Orderly, Relies, Only, Mine, Joining, Leaving
  <2>3. \A u \in Users, t \in Teams : RemovalInv(u, t)'
    BY <2>1 DEF OrderInv, RemovalInv, Whole, Alone, OnTeam, Leaving
  <2> QED BY <2>2, <2>3 DEF OrderInv
<1> QED BY <1>1, <1>2, <1>3, NextActs

(* Between the write of the sum and that of the table, or that of the       *)
(* user's steps and that of the sum, a request is due to change the share   *)
(* of its user in a team; so it is with the sum of the activity.            *)
Between(r, t) == task[r].team = t /\ pc[r] \in {"setMember", "syncMember"} \cup DueLabels
Due(r, u) == CASE pc[r] \in DueLabels -> stored[u] - steps[r]
               [] pc[r] \notin DueLabels -> IF Joining(r) THEN stored[u] ELSE 0

Share(u, t, n) ==
  /\ n \in Nat
  /\ \A r \in Reqs : task[r].user = u /\ Between(r, t) => n = Due(r, u)
  /\ (\A r \in Reqs : ~ (task[r].user = u /\ Between(r, t))) =>
       n = IF <<u, t>> \in members THEN stored[u] ELSE 0

Counting(r) == pc[r] \in {"addSteps", "statUser", "statSteps"}
RankShare(u, n) ==
  /\ n \in Nat
  /\ \A r \in Reqs : task[r].user = u /\ Counting(r) =>
       n = IF pc[r] = "addSteps" THEN 0 ELSE stored[u] - steps[r]
  /\ (\A r \in Reqs : ~ (task[r].user = u /\ Counting(r))) =>
       n = IF u \in inRank THEN stored[u] ELSE 0

TeamSum(t) ==
  \E w \in [Users -> Nat] :
    teamSteps[t] = SumFunctionOnSet(w, Users) /\ \A u \in Users : Share(u, t, w[u])
RankSum ==
  \E w \in [Users -> Nat] :
    actSteps = SumFunctionOnSet(w, Users) /\ \A u \in Users : RankShare(u, w[u])

SumInv ==
  (\A u \in Users : Only(u, {})) =>
    RankSum /\ \A t \in Teams : Only(t, {"crowd", "revived", "stale"}) => TeamSum(t)

(* The share of a user whose only request is r.                             *)
Worth(r, u, t) ==
  IF Between(r, t) THEN Due(r, u) ELSE IF <<u, t>> \in members THEN stored[u] ELSE 0
RankWorth(r, u) ==
  IF Counting(r) THEN IF pc[r] = "addSteps" THEN 0 ELSE stored[u] - steps[r]
  ELSE IF u \in inRank THEN stored[u] ELSE 0

(* A step that writes neither steps nor members nor sums.                   *)
Idles(r) ==
  /\ UNCHANGED <<stored, members, teamSteps>>
  /\ pc[r] \notin {"setMember", "syncMember"} \cup DueLabels
  /\ pc'[r] \notin {"setMember", "syncMember"} \cup DueLabels

LEMMA IdlesWorth ==
  ASSUME NEW r \in Reqs, Idles(r), NEW u \in Users, NEW t \in Teams, World
  PROVE  teamSteps'[t] = teamSteps[t] /\ Worth(r, u, t)' = Worth(r, u, t)
BY DEF Idles, Worth, Between

(* What a request writes into the sum of a team is what the share of its    *)
(* user changes by; but who removes a team sets its sum to 0.               *)
LEMMA OwnWorth ==
  ASSUME IInv, NEW r \in Reqs, Act(r), NEW u \in Users, task[r].user = u, Relies(r, u),
         Only(u, {})', NEW t \in Teams, Worth(r, u, t) \in Nat
  PROVE  \/ /\ Worth(r, u, t)' \in Nat
            /\ teamSteps'[t] + Worth(r, u, t) = teamSteps[t] + Worth(r, u, t)'
         \/ /\ OnTeam(r, t) /\ pc[r] \in {"removeSteps", "removeAgain"}
            /\ teamSteps'[t] = 0 /\ Worth(r, u, t)' = Worth(r, u, t)
<1> Control /\ World /\ Locals
  BY DEF IInv
<1>1. teamSteps[t] \in Int /\ stored[u] \in Nat /\ steps[r] \in Int
  BY DEF World, Locals
<1>2. CASE Idles(r)
  BY <1>1, <1>2, IdlesWorth
<1>3. ~ Stop(r) /\ ~ SetTeamMemberLimit(r)
  <2>1. u \in Touches(r)
    BY DEF Touches
  <2> QED BY <2>1, NotedEnd DEF Stop, SetTeamMemberLimit, Only
<1>4. Ask(r) \/ Refuse(r) => Idles(r)
  <2>1. pc[r] \in AskLabels => AfterQuery(r) \in {"checkSize", "checkLimit", "oldSteps", "answer"}
    BY DEF Control, Fits, AfterQuery, AskLabels
  <2>2. CASE Ask(r)
    BY <2>1, <2>2 DEF Ask, QueryTeamRedis, QueryTeamMiss, QueryTeamDB, FillTeam, GetTeamMemberSize,
       QueryTeamStats, rankVars, memberVars, Goto, Control, Idles, DueLabels, AskLabels
  <2>3. CASE Refuse(r)
    BY <2>3 DEF Refuse, rankVars, memberVars, Finish, Goto, Control, Idles, DueLabels
  <2> QED BY <2>2, <2>3
<1>5. ASSUME NEW n \in 0 .. MaxSteps, UpdateUserSteps(r, n)
      PROVE  Worth(r, u, t)' = Worth(r, u, t) /\ teamSteps'[t] = teamSteps[t]
  <2>1. /\ pc[r] = "updateSteps" /\ pc'[r] \in {"rankUser", "enter"} /\ UNCHANGED <<members, teamSteps>>
        /\ stored'[u] = n
    BY <1>5 DEF UpdateUserSteps, rankVars, memberVars, Goto, Control, World
  <2>2. <<u, t>> \in members => stored[u] = n
    BY <1>5 DEF UpdateUserSteps, Note, Only, TeamsOf
  <2> QED BY <2>1, <2>2 DEF Worth, Between, DueLabels
<1>6. CASE Enter(r) /\ ~ \E n \in 0 .. MaxSteps : UpdateUserSteps(r, n)
  <2>1. Idles(r)
    BY <1>6 DEF Enter, QueryUserStats, UpdateUserRank, ModifyActivitySteps, SetActivityMember,
       rankVars, memberVars, Finish, Goto, Control, Idles, DueLabels
  <2> QED BY <1>2, <2>1
<1>7. CASE Dissolve(r)
  <2>1. CASE RemoveTeamSteps(r) \/ RemoveActivityTeamRank(r)
    <3>1. /\ pc[r] \in {"removeSteps", "removeAgain"}
          /\ task[r].kind \in {"joinTeam", "leaveTeam", "dissolve"}
          /\ pc'[r] \in {"idle", "removeAgain"} /\ UNCHANGED <<stored, members>>
          /\ teamSteps' = [teamSteps EXCEPT ![task[r].team] = 0]
      BY <2>1 DEF RemoveTeamSteps, RemoveActivityTeamRank, Control, Fits, DeleteLabels, MoveLabels,
         memberVars, EndDelete, Finish, Goto
    <3>2. Worth(r, u, t)' = Worth(r, u, t)
      BY <3>1 DEF Worth, Between, DueLabels
    <3> QED BY <1>1, <3>1, <3>2 DEF OnTeam, World
  <2>2. CASE ~ (RemoveTeamSteps(r) \/ RemoveActivityTeamRank(r))
    <3>1. Idles(r)
      BY <1>7, <2>2 DEF Dissolve, CheckTeam, LookTeam, FillAgain, AfterCheck, DeleteTeam, EndDelete,
         DeleteFails, DissolveRow, RemoveMeta, RemoveUserRank, rankVars, memberVars, Finish, Goto,
         Control, Idles, DueLabels
    <3> QED BY <1>2, <3>1
  <2> QED BY <2>1, <2>2
<1>8. CASE Move(r)
  <2>1. task[r].kind \in {"joinTeam", "leaveTeam"} /\ task[r].team \in Teams
    BY <1>8 DEF Control, Fits, MoveLabels, Move, UpdateTeamUserRank, ModifyTeamSteps, SetTeamMember,
        SetTeamMemberLimit, SyncMemberDB, SyncMemberRedis, ElectTeamLeader, SyncTeamRedis,
        SyncTeamDB
  <2>2. CASE ModifyTeamSteps(r)
    <3>1. /\ pc[r] = "modifySteps" /\ pc'[r] = "setMember" /\ UNCHANGED <<stored, members, task>>
          /\ teamSteps' = [teamSteps EXCEPT ![task[r].team] =
                             IF Joining(r) THEN @ + steps[r] ELSE @ - steps[r]]
      BY <2>2 DEF ModifyTeamSteps, local, memberVars, Goto, Control
    <3>2. steps[r] = stored[u] /\ (<<u, task[r].team>> \in members <=> ~ Joining(r))
      BY <2>1, <3>1 DEF Relies, Window, Joining, Leaving
    <3>3. CASE task[r].team = t
      <4>1. teamSteps'[t] = IF Joining(r) THEN teamSteps[t] + stored[u] ELSE teamSteps[t] - stored[u]
        BY <3>1, <3>2, <3>3 DEF World
      <4>2. Worth(r, u, t) = IF Joining(r) THEN 0 ELSE stored[u]
        BY <3>1, <3>2, <3>3 DEF Worth, Between, DueLabels
      <4>3. Worth(r, u, t)' = IF Joining(r) THEN stored[u] ELSE 0
        BY <3>1, <3>3 DEF Worth, Between, Due, Joining, DueLabels
      <4> QED BY <1>1, <4>1, <4>2, <4>3
    <3>4. CASE task[r].team # t
      <4>1. teamSteps'[t] = teamSteps[t] /\ Worth(r, u, t)' = Worth(r, u, t)
        BY <3>1, <3>4 DEF Worth, Between, World
      <4> QED BY <1>1, <4>1
    <3> QED BY <3>3, <3>4
  <2>3. CASE SetTeamMember(r)
    <3>1. /\ pc[r] = "setMember" /\ UNCHANGED <<stored, members, task, teamSteps>>
          /\ pc'[r] \in {"syncMember", "elect"}
          /\ pc'[r] = "elect" => (<<u, task[r].team>> \in members <=> Joining(r))
      BY <2>1, <2>3 DEF SetTeamMember, AfterLook, local, rankVars, memberVars, Goto, Control, Joining
    <3>2. <<u, task[r].team>> \in members <=> ~ Joining(r)
      BY <2>1, <3>1 DEF Relies, Window, Joining, Leaving
    <3>3. pc'[r] = "syncMember"
      BY <3>1, <3>2
    <3>4. Worth(r, u, t)' = Worth(r, u, t)
      BY <3>1, <3>3 DEF Worth, Between, Due, Joining, DueLabels
    <3> QED BY <1>1, <3>1, <3>4
  <2>4. CASE SyncMemberDB(r)
    <3>1. /\ pc[r] = "syncMember" /\ pc'[r] = "listMember" /\ UNCHANGED <<stored, task, teamSteps>>
          /\ <<u, t>> \in members' <=> IF task[r].team = t THEN Joining(r) ELSE <<u, t>> \in members
      BY <2>4 DEF SyncMemberDB, local, rankVars, Goto, Control
    <3>2. Worth(r, u, t)' = Worth(r, u, t)
      BY <3>1 DEF Worth, Between, Due, DueLabels
    <3> QED BY <1>1, <3>1, <3>2
  <2>5. CASE ~ (ModifyTeamSteps(r) \/ SetTeamMember(r) \/ SyncMemberDB(r))
    <3>1. Idles(r)
      BY <1>3, <1>8, <2>5 DEF Move, UpdateTeamUserRank, SyncMemberRedis, ElectTeamLeader,
         SyncTeamRedis, SyncTeamDB, rankVars, memberVars, Goto, Control, Idles, DueLabels
    <3> QED BY <1>2, <3>1
  <2> QED BY <2>2, <2>3, <2>4, <2>5
<1>9. CASE Stat(r)
  <2>1. task[r].kind = "updateStats"
    BY <1>9 DEF Control, Fits, StatLabels, Stat, FindTeam, QueryUserSteps, StoreNewSteps, StatUser,
        StatSteps, StatMember, StatTeam
  <2>2. pc[r] # "findTeam" => (<<u, t>> \in members <=> task[r].team = t)
    BY <2>1 DEF Relies
  <2>3. CASE FindTeam(r) \/ QueryUserSteps(r)
    <3>1. Idles(r)
      BY <2>3 DEF FindTeam, QueryUserSteps, rankVars, memberVars, Goto, Control, Idles, DueLabels
    <3> QED BY <1>2, <3>1
  <2>4. ASSUME NEW n \in 0 .. MaxSteps, StoreNewSteps(r, n)
        PROVE  Worth(r, u, t)' = Worth(r, u, t) /\ teamSteps'[t] = teamSteps[t]
    <3>1. /\ pc[r] = "newSteps" /\ pc'[r] = "statUser" /\ task' = task /\ stored'[u] = n
          /\ steps'[r] = n - steps[r] /\ UNCHANGED <<members, teamSteps>>
      BY <2>4, NewStepsGrow DEF StoreNewSteps, rankVars, memberVars, Goto, Control, World
    <3>2. stored'[u] - steps'[r] = stored[u]
      BY <1>1, <3>1 DEF Relies
    <3> QED BY <2>2, <3>1, <3>2 DEF Worth, Between, Due, DueLabels
  <2>5. CASE StatUser(r) \/ StatSteps(r) \/ StatMember(r)
    <3>1. /\ pc[r] \in {"statUser", "statSteps", "statMember"} /\ UNCHANGED <<stored, members, teamSteps>>
          /\ \/ pc'[r] \in DueLabels /\ UNCHANGED <<task, steps>>
             \/ task[r].team = NoTeam /\ pc'[r] = "idle"
      BY <2>5 DEF StatUser, StatSteps, StatMember, local, rankVars, memberVars, Finish, Goto,
         Control, DueLabels
    <3>2. Worth(r, u, t)' = Worth(r, u, t)
      BY <2>2, <3>1, ConstantsAssumption DEF Worth, Between, Due, DueLabels
    <3> QED BY <1>1, <3>1, <3>2
  <2>6. CASE StatTeam(r)
    <3>1. /\ pc[r] = "statTeam" /\ pc'[r] = "idle" /\ UNCHANGED <<stored, members>>
          /\ teamSteps' = [teamSteps EXCEPT ![task[r].team] = @ + steps[r]]
      BY <2>6 DEF StatTeam, memberVars, Finish, Goto, Control
    <3>2. Worth(r, u, t) = IF task[r].team = t THEN stored[u] - steps[r] ELSE 0
      BY <2>2, <3>1 DEF Worth, Between, Due, DueLabels
    <3>3. Worth(r, u, t)' = IF task[r].team = t THEN stored[u] ELSE 0
      BY <2>2, <3>1 DEF Worth, Between, DueLabels
    <3>4. teamSteps'[t] = IF task[r].team = t THEN teamSteps[t] + steps[r] ELSE teamSteps[t]
      BY <3>1 DEF World
    <3> QED BY <1>1, <3>2, <3>3, <3>4
  <2> QED BY <1>1, <1>9, <2>3, <2>4, <2>5, <2>6 DEF Stat
<1> QED BY <1>1, <1>2, <1>3, <1>4, <1>5, <1>6, <1>7, <1>8, <1>9 DEF Act

(* The same of the sum of the activity.                                     *)
RankIdles(r) ==
  /\ UNCHANGED <<stored, inRank, actSteps>>
  /\ pc[r] \notin {"addSteps", "statUser", "statSteps"}
  /\ pc'[r] \notin {"addSteps", "statUser", "statSteps"}

LEMMA OwnRankWorth ==
  ASSUME IInv, NEW r \in Reqs, Act(r), NEW u \in Users, task[r].user = u, Relies(r, u),
         Only(u, {})', RankWorth(r, u) \in Nat
  PROVE  /\ RankWorth(r, u)' \in Nat
         /\ actSteps' + RankWorth(r, u) = actSteps + RankWorth(r, u)'
<1> Control /\ World /\ Locals
  BY DEF IInv
<1>1. actSteps \in Int /\ stored[u] \in Nat /\ steps[r] \in Int
  BY DEF World, Locals
<1>2. CASE RankIdles(r)
  <2>1. actSteps' = actSteps /\ RankWorth(r, u)' = RankWorth(r, u)
    BY <1>2 DEF RankIdles, RankWorth, Counting
  <2> QED BY <1>1, <2>1
<1>3. Ask(r) \/ Refuse(r) \/ Stop(r) => RankIdles(r)
  <2>1. pc[r] \in AskLabels => AfterQuery(r) \in {"checkSize", "checkLimit", "oldSteps", "answer"}
    BY DEF Control, Fits, AfterQuery, AskLabels
  <2>2. CASE Ask(r)
    BY <2>1, <2>2 DEF Ask, QueryTeamRedis, QueryTeamMiss, QueryTeamDB, FillTeam, GetTeamMemberSize,
       QueryTeamStats, activityVars, Goto, Control, RankIdles, AskLabels
  <2>3. CASE Refuse(r)
    BY <2>3 DEF Refuse, activityVars, Finish, Goto, Control, RankIdles
  <2>4. CASE Stop(r)
    <3>1. u \in Touches(r)
      BY DEF Touches
    <3> QED BY <2>4, <3>1, NotedEnd DEF Stop, Only
  <2> QED BY <2>2, <2>3, <2>4
<1>4. ASSUME NEW n \in 0 .. MaxSteps, UpdateUserSteps(r, n)
      PROVE  RankWorth(r, u)' = RankWorth(r, u) /\ actSteps' = actSteps
  <2>1. /\ pc[r] = "updateSteps" /\ pc'[r] \in {"rankUser", "enter"} /\ UNCHANGED <<inRank, actSteps>>
        /\ stored'[u] = n
    BY <1>4 DEF UpdateUserSteps, activityVars, Goto, Control, World
  <2>2. u \in inRank => stored[u] = n
    BY <1>4 DEF UpdateUserSteps, Note, Only
  <2> QED BY <2>1, <2>2 DEF RankWorth, Counting
<1>5. CASE UpdateUserRank(r)
  <2>1. /\ pc[r] = "rankUser" /\ pc'[r] = "addSteps" /\ UNCHANGED <<stored, actSteps>>
    BY <1>5 DEF UpdateUserRank, Goto, Control
  <2>2. RankWorth(r, u) = 0 /\ RankWorth(r, u)' = 0
    BY <2>1 DEF RankWorth, Counting, Relies
  <2> QED BY <1>1, <2>1, <2>2
<1>6. CASE ModifyActivitySteps(r)
  <2>1. /\ pc[r] = "addSteps" /\ pc'[r] = "enroll" /\ UNCHANGED <<stored, inRank>>
        /\ actSteps' = actSteps + steps[r]
    BY <1>6 DEF ModifyActivitySteps, Goto, Control
  <2>2. RankWorth(r, u) = 0 /\ RankWorth(r, u)' = stored[u] /\ steps[r] = stored[u]
    BY <2>1 DEF RankWorth, Counting, Relies, BringLabels
  <2> QED BY <1>1, <2>1, <2>2
<1>7. CASE Enter(r) /\ ~ UpdateUserRank(r) /\ ~ ModifyActivitySteps(r)
            /\ ~ \E n \in 0 .. MaxSteps : UpdateUserSteps(r, n)
  <2>1. CASE QueryUserStats(r)
    <3>1. pc[r] = "enter" /\ UNCHANGED <<stored, inRank, actSteps>>
          /\ pc'[r] \in {"rankUser", "rankMember"}
      BY <2>1 DEF QueryUserStats, activityVars, Goto, Control
    <3> QED BY <1>2, <3>1 DEF RankIdles
  <2>2. CASE SetActivityMember(r)
    <3>1. RankIdles(r)
      BY <2>2 DEF SetActivityMember, Finish, Goto, Control, RankIdles
    <3> QED BY <1>2, <3>1
  <2> QED BY <1>7, <2>1, <2>2 DEF Enter
<1>8. Move(r) \/ Dissolve(r) => RankIdles(r)
  <2>1. CASE UpdateTeamUserRank(r) \/ ModifyTeamSteps(r) \/ SyncMemberDB(r) \/ SyncMemberRedis(r)
              \/ SyncTeamRedis(r) \/ SyncTeamDB(r)
    BY <2>1 DEF UpdateTeamUserRank, ModifyTeamSteps, SyncMemberDB, SyncMemberRedis, SyncTeamRedis,
       SyncTeamDB, activityVars, Goto, Control, RankIdles
  <2>2. CASE SetTeamMember(r)
    <3>1. pc'[r] \in {"elect", "syncMember"}
      BY <2>2 DEF SetTeamMember, AfterLook, Goto, Control
    <3> QED BY <2>2, <3>1 DEF SetTeamMember, activityVars, RankIdles
  <2>3. CASE SetTeamMemberLimit(r)
    BY <2>3 DEF SetTeamMemberLimit, activityVars, Finish, Goto, Control, RankIdles
  <2>4. CASE ElectTeamLeader(r)
    <3>1. pc'[r] \in {"check", "syncTeamRedis"}
      BY <2>4 DEF ElectTeamLeader, Goto, Control
    <3> QED BY <2>4, <3>1 DEF ElectTeamLeader, activityVars, RankIdles
  <2>5. CASE Dissolve(r)
    <3>1. pc[r] \in EndLabels \cup {"check"} /\ UNCHANGED <<stored, inRank, actSteps>>
      BY <2>5 DEF Dissolve, CheckTeam, LookTeam, FillAgain, DeleteTeam, DeleteFails, DissolveRow,
         RemoveMeta, RemoveUserRank, RemoveTeamSteps, RemoveActivityTeamRank, activityVars,
         EndLabels, EmptyLabels
    <3>2. pc'[r] \in EndLabels \cup {"idle"}
      BY <2>5 DEF Dissolve, CheckTeam, LookTeam, FillAgain, AfterCheck, DeleteTeam, EndDelete,
         DeleteFails, DissolveRow, RemoveMeta, RemoveUserRank, RemoveTeamSteps,
         RemoveActivityTeamRank, Finish, Goto, Control, EndLabels, EmptyLabels
    <3> QED BY <3>1, <3>2 DEF RankIdles, EndLabels, EmptyLabels
  <2> QED BY <2>1, <2>2, <2>3, <2>4, <2>5 DEF Move
<1>9. CASE Stat(r)
  <2>1. task[r].kind = "updateStats"
    BY <1>9 DEF Control, Fits, StatLabels, Stat, FindTeam, QueryUserSteps, StoreNewSteps, StatUser,
        StatSteps, StatMember, StatTeam
  <2>2. pc[r] # "findTeam" => u \in inRank
    BY <2>1 DEF Relies
  <2>3. CASE FindTeam(r) \/ QueryUserSteps(r) \/ StatMember(r) \/ StatTeam(r)
    <3>1. RankIdles(r)
      BY <2>3 DEF FindTeam, QueryUserSteps, StatMember, StatTeam, activityVars, Finish, Goto,
         Control, RankIdles
    <3> QED BY <1>2, <3>1
  <2>4. ASSUME NEW n \in 0 .. MaxSteps, StoreNewSteps(r, n)
        PROVE  RankWorth(r, u)' = RankWorth(r, u) /\ actSteps' = actSteps
    <3>1. /\ pc[r] = "newSteps" /\ pc'[r] = "statUser" /\ stored'[u] = n
          /\ steps'[r] = n - steps[r] /\ UNCHANGED <<inRank, actSteps>>
      BY <2>4, NewStepsGrow DEF StoreNewSteps, activityVars, Goto, Control, World
    <3>2. stored'[u] - steps'[r] = stored[u]
      BY <1>1, <3>1 DEF Relies
    <3> QED BY <2>2, <3>1, <3>2 DEF RankWorth, Counting
  <2>5. CASE StatUser(r)
    <3>1. /\ pc[r] = "statUser" /\ pc'[r] = "statSteps" /\ UNCHANGED <<stored, actSteps, steps>>
      BY <2>5 DEF StatUser, local, Goto, Control
    <3>2. RankWorth(r, u)' = RankWorth(r, u)
      BY <3>1 DEF RankWorth, Counting
    <3> QED BY <1>1, <3>1, <3>2
  <2>6. CASE StatSteps(r)
    <3>1. /\ pc[r] = "statSteps" /\ pc'[r] \in {"idle", "statMember"} /\ UNCHANGED <<stored, inRank>>
          /\ actSteps' = actSteps + steps[r]
      BY <2>6 DEF StatSteps, Finish, Goto, Control
    <3>2. RankWorth(r, u) = stored[u] - steps[r] /\ RankWorth(r, u)' = stored[u]
      BY <2>2, <3>1 DEF RankWorth, Counting
    <3> QED BY <1>1, <3>1, <3>2
  <2> QED BY <1>1, <1>9, <2>3, <2>4, <2>5, <2>6 DEF Stat
<1> QED BY <1>1, <1>2, <1>3, <1>4, <1>5, <1>6, <1>7, <1>8, <1>9 DEF Act, Enter

(* The shares of the other users are as they were.                          *)
LEMMA ShareOther ==
  ASSUME IInv, NEW r \in Reqs, Act(r), NEW u \in Users, task[r].user # u, NEW n
  PROVE  /\ \A t \in Teams : Share(u, t, n) => Share(u, t, n)'
         /\ RankShare(u, n) => RankShare(u, n)'
<1> Control /\ World /\ Locals
  BY DEF IInv
<1>1. \A q \in Reqs : task'[q].user = u => q # r
  BY TaskBefore
<1>2. \A q \in Reqs \ {r} : pc'[q] = pc[q] /\ task'[q] = task[q] /\ steps'[q] = steps[q]
  BY OthersStay, UserSteps
<1>3. stored'[u] = stored[u] /\ (u \in inRank' <=> u \in inRank)
  BY UserSteps
<1>4. \A t \in Teams : <<u, t>> \in members' <=> <<u, t>> \in members
  BY ListSteps DEF Mine
<1>5. \A q \in Reqs : task'[q].user = u <=> task[q].user = u /\ q # r
  BY <1>1, <1>2
<1>6. \A q \in Reqs : task'[q].user = u =>
        /\ Counting(q)' <=> Counting(q)
        /\ pc'[q] = pc[q] /\ steps'[q] = steps[q]
        /\ Due(q, u)' = Due(q, u)
        /\ \A t \in Teams : Between(q, t)' <=> Between(q, t)
  BY <1>2, <1>3, <1>5 DEF Counting, Due, Between, Joining
<1>7. ASSUME NEW t \in Teams, Share(u, t, n) PROVE Share(u, t, n)'
  <2>1. \A q \in Reqs : task'[q].user = u /\ Between(q, t)' => n = Due(q, u)'
    BY <1>5, <1>6, <1>7 DEF Share
  <2>2. (\A q \in Reqs : ~ (task'[q].user = u /\ Between(q, t)')) =>
          n = IF <<u, t>> \in members' THEN stored'[u] ELSE 0
    BY <1>3, <1>4, <1>5, <1>6, <1>7 DEF Share
  <2> QED BY <1>7, <2>1, <2>2 DEF Share
<1>8. ASSUME RankShare(u, n) PROVE RankShare(u, n)'
  BY <1>3, <1>5, <1>6, <1>8 DEF RankShare
<1> QED BY <1>7, <1>8

(* That of the user whose only request r is.                                *)
LEMMA ShareIsWorth ==
  ASSUME NEW r \in Reqs, NEW u, task[r].user = u, \A q \in Reqs : task[q].user = u => q = r, NEW n
  PROVE  /\ \A t \in Teams : Share(u, t, n) <=> n \in Nat /\ n = Worth(r, u, t)
         /\ RankShare(u, n) <=> n \in Nat /\ n = RankWorth(r, u)
BY DEF Share, Worth, RankShare, RankWorth

LEMMA ShareWillBeWorth ==
  ASSUME Control, NEW r \in Reqs, Act(r), NEW u \in Users, task[r].user = u,
         \A q \in Reqs : task[q].user = u => q = r, NEW n
  PROVE  /\ \A t \in Teams : n \in Nat /\ n = Worth(r, u, t)' => Share(u, t, n)'
         /\ n \in Nat /\ n = RankWorth(r, u)' => RankShare(u, n)'
<1>1. \A q \in Reqs : task'[q].user = u => q = r
  BY TaskBefore
<1>2. task'[r].user = u \/ pc'[r] = "idle"
  <2>1. \A t \in Teams : task'[r] = [task[r] EXCEPT !.team = t] => task'[r].user = u
    BY DEF Control, Task
  <2> QED BY <2>1, TaskStays
<1> QED BY <1>1, <1>2 DEF Share, Worth, RankShare, RankWorth, Between, Counting, DueLabels

(* Nobody has steps in a team that is removed.                              *)
LEMMA NothingRemoved ==
  ASSUME IInv, RankInv, OrderInv, NEW u \in Users, NEW t \in Teams, Only(u, {}),
         Only(t, {"crowd", "revived", "stale"}), NEW r \in Reqs, OnTeam(r, t),
         pc[r] \in {"removeSteps", "removeAgain"}, NEW n, Share(u, t, n)
  PROVE  n = 0
<1>1. Whole(t) /\ Alone(u) /\ Only(u, {"drift"})
  BY DEF Whole, Alone, Only
<1>2. u \notin teamRank[t]
  BY <1>1 DEF OrderInv, RemovalInv, EndLabels
<1>3. \A q \in Reqs : Mine(q, u, t) => q = r
  <2>1. ~ Joining(r) /\ \A q \in Reqs : OnTeam(q, t) /\ q # r => Joining(r)
    BY <1>1 DEF RankInv, TeamInv, EndLabels
  <2>2. \A q \in Reqs : Mine(q, u, t) => task[q].kind # "updateStats"
    BY <1>1, <1>2 DEF RankInv, PairInv
  <2> QED BY <2>1, <2>2, UsersAreOnTeam DEF IInv
<1>4. <<u, t>> \notin members
  BY <1>1, <1>2, <1>3 DEF RankInv, MemberInv, Window
<1>5. \A q \in Reqs : ~ (task[q].user = u /\ Between(q, t))
  BY <1>3 DEF Between, Mine, DueLabels
<1> QED BY <1>4, <1>5 DEF Share

LEMMA TeamSumKept ==
  ASSUME IInv, RankInv, OrderInv, Grows, NEW r \in Reqs, Act(r), \A u \in Users : Only(u, {})',
         NEW t \in Teams, Only(t, {"crowd", "revived", "stale"})', TeamSum(t)
  PROVE  TeamSum(t)'
<1> Control /\ World /\ Locals
  BY DEF IInv
<1>1. PICK w \in [Users -> Nat] : /\ teamSteps[t] = SumFunctionOnSet(w, Users)
                                  /\ \A u \in Users : Share(u, t, w[u])
  BY DEF TeamSum
<1>2. Only(t, {"crowd", "revived", "stale"}) /\ \A u \in Users : Only(u, {})
  BY UndisturbedBefore
<1>3. IsFiniteSet(Users)
  BY ConstantsAssumption
<1>4. ASSUME OnTeam(r, t), pc[r] \in {"removeSteps", "removeAgain"}
      PROVE  SumFunctionOnSet(w, Users) = 0
  <2>1. \A u \in Users : w[u] = 0
    BY <1>1, <1>2, <1>4, NothingRemoved
  <2>2. SumFunctionOnSet(w, Users) = SumFunctionOnSet(w, {})
    BY <1>3, <2>1, SumOnly
  <2> QED BY <2>2, SumEmpty
<1>5. CASE task[r].user \notin Users
  <2>1. \A u \in Users : Share(u, t, w[u])'
    <3> SUFFICES ASSUME NEW u \in Users PROVE Share(u, t, w[u])'
      OBVIOUS
    <3> QED BY <1>1, <1>5, ShareOther
  <2>2. task[r].kind \in {"dissolve", "queryTeams"}
    BY <1>5, FirstLabel DEF Control, Fits
  <2>3. \/ teamSteps'[t] = teamSteps[t]
        \/ OnTeam(r, t) /\ pc[r] \in {"removeSteps", "removeAgain"} /\ teamSteps'[t] = 0
    <3>1. pc[r] # "modifySteps"
      BY <2>2 DEF Control, Fits, MoveLabels
    <3> QED BY <2>2, <3>1, TeamStepsSteps
  <2> QED BY <1>1, <1>4, <2>1, <2>3 DEF TeamSum
<1>6. ASSUME NEW u \in Users, task[r].user = u PROVE TeamSum(t)'
  <2>1. /\ Alone(u) /\ Relies(r, u)
    BY <1>2, <1>6 DEF OrderInv, Orderly, Alone, Only
  <2>2. \A q \in Reqs : task[q].user = u => q = r
    BY <1>6, <2>1 DEF RankInv, AloneInv
  <2>3. w[u] = Worth(r, u, t) /\ w[u] \in Nat
    BY <1>1, <1>6, <2>2, ShareIsWorth
  <2>4. \A v \in Users \ {u} : Share(v, t, w[v])'
    <3> SUFFICES ASSUME NEW v \in Users \ {u} PROVE Share(v, t, w[v])'
      OBVIOUS
    <3> QED BY <1>1, <1>6, ShareOther
  <2>0. PICK k : k = Worth(r, u, t)'
    OBVIOUS
  <2> DEFINE x == [w EXCEPT ![u] = k]
  <2>5. \/ /\ Worth(r, u, t)' \in Nat
           /\ teamSteps'[t] + w[u] = teamSteps[t] + Worth(r, u, t)'
        \/ /\ OnTeam(r, t) /\ pc[r] \in {"removeSteps", "removeAgain"}
           /\ teamSteps'[t] = 0 /\ Worth(r, u, t)' = w[u]
    BY <1>6, <2>1, <2>3, OwnWorth
  <2>6. x \in [Users -> Nat] /\ x[u] = k /\ \A v \in Users \ {u} : x[v] = w[v]
    BY <2>0, <2>3, <2>5
  <2>7. Share(u, t, x[u])'
    BY <1>6, <2>0, <2>2, <2>6, ShareWillBeWorth
  <2> HIDE DEF x
  <2>8. SumFunctionOnSet(x, Users) + w[u] = SumFunctionOnSet(w, Users) + x[u]
    BY <1>3, <2>6, SumChange
  <2>9. SumFunctionOnSet(x, Users) \in Nat /\ SumFunctionOnSet(w, Users) \in Nat
    BY <1>3, <2>6, SumIsNat
  <2>10. teamSteps'[t] = SumFunctionOnSet(x, Users)
    <3>1. teamSteps'[t] \in Int
      BY WorldKept DEF World
    <3> QED BY <1>1, <1>4, <2>0, <2>3, <2>5, <2>6, <2>8, <2>9, <3>1
  <2>11. \A v \in Users : Share(v, t, x[v])'
    <3> SUFFICES ASSUME NEW v \in Users PROVE Share(v, t, x[v])'
      OBVIOUS
    <3>1. CASE v = u
      BY <2>7, <3>1
    <3>2. CASE v # u
      <4>1. x[v] = w[v]
        BY <2>6, <3>2
      <4>2. Share(v, t, w[v])'
        BY <2>4, <3>2
      <4> QED BY <4>1, <4>2
    <3> QED BY <3>1, <3>2
  <2> QED BY <2>6, <2>10, <2>11 DEF TeamSum
<1> QED BY <1>5, <1>6

LEMMA RankSumKept ==
  ASSUME IInv, RankInv, OrderInv, Grows, NEW r \in Reqs, Act(r), \A u \in Users : Only(u, {})',
         RankSum
  PROVE  RankSum'
<1> Control /\ World /\ Locals
  BY DEF IInv
<1>1. PICK w \in [Users -> Nat] : /\ actSteps = SumFunctionOnSet(w, Users)
                                  /\ \A u \in Users : RankShare(u, w[u])
  BY DEF RankSum
<1>2. \A u \in Users : Only(u, {})
  BY UndisturbedBefore
<1>3. IsFiniteSet(Users)
  BY ConstantsAssumption
<1>4. CASE task[r].user \notin Users
  <2>1. \A u \in Users : RankShare(u, w[u])'
    <3> SUFFICES ASSUME NEW u \in Users PROVE RankShare(u, w[u])'
      OBVIOUS
    <3> QED BY <1>1, <1>4, ShareOther
  <2>2. pc[r] \in DeleteLabels \cup AskLabels \cup {"answer"}
    <3>1. task[r].kind \in {"dissolve", "queryTeams"} /\ Fits(task[r], pc[r]) /\ pc[r] \in Label
      BY <1>4, FirstLabel DEF Control, Fits
    <3> QED BY <3>1, FirstLabel DEF Fits, Label, AskLabels, EnterLabels, MoveLabels, StatLabels,
          DeleteLabels
  <2>3. actSteps' = actSteps
    BY <2>2 DEF AskLabels, Act, Ask, QueryTeamRedis, QueryTeamMiss, QueryTeamDB, FillTeam, GetTeamMemberSize,
       QueryTeamStats, Enter, UpdateUserSteps, QueryUserStats, UpdateUserRank,
       ModifyActivitySteps, SetActivityMember, Move, UpdateTeamUserRank, ModifyTeamSteps,
       SetTeamMember, SetTeamMemberLimit, SyncMemberDB, SyncMemberRedis, ElectTeamLeader,
       SyncTeamRedis, SyncTeamDB, Dissolve, CheckTeam, LookTeam, FillAgain, DeleteTeam,
       DeleteFails, DissolveRow, RemoveMeta, RemoveUserRank, RemoveTeamSteps,
       RemoveActivityTeamRank, Stat, FindTeam, QueryUserSteps, StoreNewSteps, StatUser, StatSteps,
       StatMember, StatTeam, Refuse, Stop, activityVars, DeleteLabels
  <2> QED BY <1>1, <2>1, <2>3 DEF RankSum
<1>5. ASSUME NEW u \in Users, task[r].user = u PROVE RankSum'
  <2>1. /\ Alone(u) /\ Relies(r, u)
    BY <1>2, <1>5 DEF OrderInv, Orderly, Alone, Only
  <2>2. \A q \in Reqs : task[q].user = u => q = r
    BY <1>5, <2>1 DEF RankInv, AloneInv
  <2>3. w[u] = RankWorth(r, u) /\ w[u] \in Nat
    BY <1>1, <1>5, <2>2, ShareIsWorth
  <2>4. \A v \in Users \ {u} : RankShare(v, w[v])'
    <3> SUFFICES ASSUME NEW v \in Users \ {u} PROVE RankShare(v, w[v])'
      OBVIOUS
    <3> QED BY <1>1, <1>5, ShareOther
  <2>5. PICK k : k = RankWorth(r, u)'
    OBVIOUS
  <2> DEFINE x == [w EXCEPT ![u] = k]
  <2>6. RankWorth(r, u)' \in Nat /\ actSteps' + w[u] = actSteps + RankWorth(r, u)'
    BY <1>5, <2>1, <2>3, OwnRankWorth
  <2>7. x \in [Users -> Nat] /\ x[u] = k /\ \A v \in Users \ {u} : x[v] = w[v]
    BY <2>5, <2>6
  <2>8. RankShare(u, x[u])'
    BY <1>5, <2>2, <2>5, <2>7, ShareWillBeWorth
  <2> HIDE DEF x
  <2>9. SumFunctionOnSet(x, Users) + w[u] = SumFunctionOnSet(w, Users) + x[u]
    BY <1>3, <2>7, SumChange
  <2>10. SumFunctionOnSet(x, Users) \in Nat /\ SumFunctionOnSet(w, Users) \in Nat
    BY <1>3, <2>7, SumIsNat
  <2>11. actSteps' = SumFunctionOnSet(x, Users)
    <3>1. actSteps' \in Int
      BY WorldKept DEF World
    <3> QED BY <1>1, <2>3, <2>5, <2>6, <2>7, <2>9, <2>10, <3>1
  <2>12. \A v \in Users : RankShare(v, x[v])'
    <3> SUFFICES ASSUME NEW v \in Users PROVE RankShare(v, x[v])'
      OBVIOUS
    <3>1. CASE v = u
      BY <2>8, <3>1
    <3>2. CASE v # u
      <4>1. x[v] = w[v]
        BY <2>7, <3>2
      <4>2. RankShare(v, w[v])'
        BY <2>4, <3>2
      <4> QED BY <4>1, <4>2
    <3> QED BY <3>1, <3>2
  <2> QED BY <2>7, <2>11, <2>12 DEF RankSum
<1> QED BY <1>4, <1>5

(* A new request is at no place where a share is between two values.        *)
LEMMA SumBegin ==
  ASSUME IInv, Grows, NEW r \in Reqs, NEW k \in Requested, Begin(r, k), SumInv
  PROVE  SumInv'
<1> Control
  BY DEF IInv
<1>1. UNCHANGED <<stored, inRank, actSteps, members, teamSteps, steps>> /\ pc[r] = "idle"
  BY DEF Begin, activityVars, rankVars, memberVars
<1>2. /\ pc'[r] \in {"queryTeam", "updateSteps", "dissolve", "findTeam"}
      /\ \A q \in Reqs \ {r} : pc'[q] = pc[q] /\ task'[q] = task[q]
  BY DEF Begin, Goto, Control, Requested, Task, FirstStep, Kind
<1>3. \A q \in Reqs :
        /\ Counting(q)' <=> Counting(q)
        /\ Counting(q) => pc'[q] = pc[q] /\ task'[q] = task[q]
        /\ \A t \in Teams : Between(q, t)' <=> Between(q, t)
        /\ \A t \in Teams, u \in Users :
             Between(q, t) => task'[q] = task[q] /\ Due(q, u)' = Due(q, u)
  <2> SUFFICES ASSUME NEW q \in Reqs
               PROVE  /\ Counting(q)' <=> Counting(q)
                      /\ Counting(q) => pc'[q] = pc[q] /\ task'[q] = task[q]
                      /\ \A t \in Teams : Between(q, t)' <=> Between(q, t)
                      /\ \A t \in Teams, u \in Users :
                           Between(q, t) => task'[q] = task[q] /\ Due(q, u)' = Due(q, u)
    OBVIOUS
  <2>1. CASE q = r
    BY <1>1, <1>2, <2>1 DEF Counting, Between, DueLabels
  <2>2. CASE q # r
    BY <1>1, <1>2, <2>2 DEF Counting, Between, Due, Joining
  <2> QED BY <2>1, <2>2
<1>4. ASSUME NEW u \in Users, NEW t \in Teams, NEW n, Share(u, t, n) PROVE Share(u, t, n)'
  BY <1>1, <1>3, <1>4 DEF Share
<1>5. ASSUME NEW u \in Users, NEW n, RankShare(u, n) PROVE RankShare(u, n)'
  BY <1>1, <1>3, <1>5 DEF RankShare
<1> SUFFICES ASSUME \A u \in Users : Only(u, {})'
             PROVE  RankSum' /\ \A t \in Teams : Only(t, {"crowd", "revived", "stale"})' => TeamSum(t)'
  BY DEF SumInv
<1>6. \A u \in Users : Only(u, {})
  BY UndisturbedBefore
<1>7. RankSum'
  <2>1. PICK w \in [Users -> Nat] : /\ actSteps = SumFunctionOnSet(w, Users)
                                    /\ \A u \in Users : RankShare(u, w[u])
    BY <1>6 DEF SumInv, RankSum
  <2>2. \A u \in Users : RankShare(u, w[u])'
    <3> SUFFICES ASSUME NEW u \in Users PROVE RankShare(u, w[u])'
      OBVIOUS
    <3> QED BY <1>5, <2>1
  <2> QED BY <1>1, <2>1, <2>2 DEF RankSum
<1>8. ASSUME NEW t \in Teams, Only(t, {"crowd", "revived", "stale"})' PROVE TeamSum(t)'
  <2>1. Only(t, {"crowd", "revived", "stale"})
    BY <1>8, UndisturbedBefore
  <2>2. PICK w \in [Users -> Nat] : /\ teamSteps[t] = SumFunctionOnSet(w, Users)
                                    /\ \A u \in Users : Share(u, t, w[u])
    BY <1>6, <2>1 DEF SumInv, TeamSum
  <2>3. \A u \in Users : Share(u, t, w[u])'
    <3> SUFFICES ASSUME NEW u \in Users PROVE Share(u, t, w[u])'
      OBVIOUS
    <3> QED BY <1>4, <2>2
  <2> QED BY <1>1, <2>2, <2>3 DEF TeamSum
<1> QED BY <1>7, <1>8

LEMMA InitSum == Init => SumInv
<1> SUFFICES ASSUME Init PROVE SumInv
  OBVIOUS
<1> DEFINE w == [u \in Users |-> 0]
<1>1. w \in [Users -> Nat] /\ \A u \in Users : w[u] = 0
  OBVIOUS
<1>2. SumFunctionOnSet(w, Users) = 0
  <2> HIDE DEF w
  <2>1. SumFunctionOnSet(w, Users) = SumFunctionOnSet(w, {})
    BY <1>1, SumOnly, ConstantsAssumption
  <2> QED BY <2>1, SumEmpty
<1> HIDE DEF w
<1>3. \A r \in Reqs : pc[r] = "idle"
  BY DEF Init
<1>4. RankSum
  BY <1>1, <1>2, <1>3 DEF Init, RankSum, RankShare, Counting
<1>5. ASSUME NEW t \in Teams PROVE TeamSum(t)
  BY <1>1, <1>2, <1>3 DEF Init, TeamSum, Share, Between, DueLabels
<1> QED BY <1>4, <1>5 DEF SumInv

LEMMA SumKept == IInv /\ RankInv /\ OrderInv /\ SumInv /\ [Next]_vars => SumInv'
<1> SUFFICES ASSUME IInv, RankInv, OrderInv, SumInv, [Next]_vars PROVE SumInv'
  OBVIOUS
<1>1. ASSUME NEW r \in Reqs, Act(r) PROVE SumInv'
  <2>1. Grows
    BY <1>1, HistoryKept DEF IInv
  <2> SUFFICES ASSUME \A u \in Users : Only(u, {})'
               PROVE  RankSum' /\ \A t \in Teams : Only(t, {"crowd", "revived", "stale"})' => TeamSum(t)'
    BY DEF SumInv
  <2>2. \A u \in Users : Only(u, {})
    BY <2>1, UndisturbedBefore
  <2>3. RankSum'
    BY <1>1, <2>1, <2>2, RankSumKept DEF SumInv
  <2>4. ASSUME NEW t \in Teams, Only(t, {"crowd", "revived", "stale"})' PROVE TeamSum(t)'
    <3>1. Only(t, {"crowd", "revived", "stale"})
      BY <2>1, <2>4, UndisturbedBefore
    <3> QED BY <1>1, <2>1, <2>2, <2>4, <3>1, TeamSumKept DEF SumInv
  <2> QED BY <2>3, <2>4
<1>2. ASSUME NEW r \in Reqs, NEW k \in Requested, Begin(r, k) PROVE SumInv'
  <2>1. Grows
    BY <1>2, HistoryKept DEF IInv
  <2> QED BY <1>2, <2>1, SumBegin
<1>3. CASE UNCHANGED vars
  <2>1. UNCHANGED <<stored, inRank, actSteps, members, teamSteps, pc, task, steps, faults>>
    BY <1>3 DEF vars, activityVars, rankVars, memberVars, history
  <2>2. (\A u \in Users : Only(u, {}))' <=> \A u \in Users : Only(u, {})
    BY <2>1 DEF Only
  <2>3. RankSum' <=> RankSum
    BY <2>1 DEF RankSum, RankShare, Counting
  <2>4. \A t \in Teams : /\ TeamSum(t)' <=> TeamSum(t)
                         /\ Only(t, {"crowd", "revived", "stale"})'
                              <=> Only(t, {"crowd", "revived", "stale"})
    BY <2>1 DEF TeamSum, Share, Between, Due, Joining, Only
  <2> QED BY <2>2, <2>3, <2>4 DEF SumInv
<1> QED BY <1>1, <1>2, <1>3, NextActs

(* The sums add up: whenever no request is under way, the steps of a team   *)
(* in the rank of the activity are those of its members, and the activity's *)
(* those of the users in its rank, for any number of users, teams, joins,   *)
(* leaves and new steps of any size, as long as the requests of each user   *)
(* come one after the other and run to their end, and nobody has fewer      *)
(* steps than before or leaves with others than were counted.               *)
THEOREM SumsAddUp == Spec => []StepsAddUp
<1>1. Init => RankInv /\ SingleInv
  BY InitRanked DEF Init, SingleInv, Single, Inserts, TeamsOf
<1>2. IInv /\ SumInv => StepsAddUp
  <2> SUFFICES ASSUME IInv, SumInv, Busy = {}, \A u \in Users : Only(u, {})
               PROVE  /\ \A t \in Teams : Only(t, {"crowd", "revived", "stale"}) =>
                           teamSteps[t] = SumFunctionOnSet(stored, MembersOf(t))
                      /\ actSteps = SumFunctionOnSet(stored, inRank)
    BY DEF StepsAddUp
  <2>1. IsFiniteSet(Users) /\ \A r \in Reqs : pc[r] = "idle"
    BY ConstantsAssumption DEF Busy
  <2>2. ASSUME NEW t \in Teams, Only(t, {"crowd", "revived", "stale"})
        PROVE  teamSteps[t] = SumFunctionOnSet(stored, MembersOf(t))
    <3>1. PICK w \in [Users -> Nat] : /\ teamSteps[t] = SumFunctionOnSet(w, Users)
                                      /\ \A u \in Users : Share(u, t, w[u])
      BY <2>2 DEF SumInv, TeamSum
    <3>2. \A u \in Users : w[u] \in Nat /\ w[u] = IF u \in MembersOf(t) THEN stored[u] ELSE 0
      BY <2>1, <3>1 DEF Share, Between, DueLabels, MembersOf
    <3>3. MembersOf(t) \subseteq Users
      BY DEF MembersOf
    <3> QED BY <2>1, <3>1, <3>2, <3>3, SumOnly
  <2>3. actSteps = SumFunctionOnSet(stored, inRank)
    <3>1. PICK w \in [Users -> Nat] : /\ actSteps = SumFunctionOnSet(w, Users)
                                      /\ \A u \in Users : RankShare(u, w[u])
      BY DEF SumInv, RankSum
    <3>2. \A u \in Users : w[u] \in Nat /\ w[u] = IF u \in inRank THEN stored[u] ELSE 0
      BY <2>1, <3>1 DEF RankShare, Counting
    <3>3. inRank \subseteq Users
      BY DEF IInv, World
    <3> QED BY <2>1, <3>1, <3>2, <3>3, SumOnly
  <2> QED BY <2>2, <2>3
<1> QED BY <1>1, <1>2, HandlersPlaced, RankKept, SingleKept, InitOrder, OrderKept, InitSum, SumKept,
          PTL DEF Spec
=============================================================================
