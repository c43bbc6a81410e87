--------------------------- MODULE ActivityProofs ---------------------------
(* What holds of an activity for any users, teams, requests, edits, times   *)
(* and bounds: its types, and the three safety properties, each from an     *)
(* invariant of its own that says where every request and the copying       *)
(* process may be with what.                                                *)
EXTENDS Activity, TLAPS

-----------------------------------------------------------------------------
(* The types, in four parts.                                                *)

World ==
  /\ now \in Time /\ type \in {"platform", "mobile"}
  /\ teamOf \in [Users -> Teams \cup {NoTeam}] /\ focus \in Focuses
  /\ row \in Config /\ snapshot \in {0, 1} /\ meta \in Config \cup {Gone}

Boards ==
  /\ walked \in [Users -> 0 .. MaxSteps] /\ stored \in [Users -> 0 .. MaxSteps]
  /\ userRank \in [Users -> 0 .. MaxSteps] /\ inTeam \in [Users -> 0 .. MaxSteps]
  /\ teamRank \in [Teams -> Int]

Labels == {"idle", "queryRedis", "queryDB", "refill", "fetched", "syncRedis",
           "syncDB", "expire", "userRank", "inTeam", "teamRank"}
Unread == {"idle", "queryRedis", "queryDB"}

Requests ==
  /\ pc \in [Reqs -> Labels] /\ task \in [Reqs -> Task] /\ at \in [Reqs -> Time]
  /\ cfg \in [Reqs -> Config \cup {Gone}]
  /\ \A r \in Reqs : cfg[r] = Gone <=> pc[r] \in Unread
  /\ steps \in [Reqs -> [total : 0 .. MaxSteps, delta : Int]]

Stages == {"asleep", "fetchUsers", "users", "fetchTeams", "teams", "fetchMembers",
           "members", "mark"}

Copies ==
  /\ copier \in Stages
  /\ info \in [end : Time, early : BOOLEAN, teams : SUBSET Teams]
  /\ copier \in {"users", "members"} =>
       DOMAIN ranks \subseteq Users /\ \A u \in DOMAIN ranks : ranks[u] \in Nat
  /\ copier = "teams" =>
       DOMAIN ranks \subseteq Teams /\ \A t \in DOMAIN ranks : ranks[t] \in Int
  /\ history \in [users : [Users -> Nat \cup {Gone}], teams : [Teams -> Int \cup {Gone}],
                  members : [Users -> Nat \cup {Gone}]]

(* The type invariant is the four parts together.                           *)
LEMMA TypesAreParts == TypeOK <=> World /\ Boards /\ Requests /\ Copies
BY DEF TypeOK, World, Boards, Requests, Copies, Labels, Unread, Stages

(* Times are integers, an edit ends after it starts, and a configuration is *)
(* never mistaken for a missing one.                                        *)
LEMMA ConfigFacts ==
  /\ Gone \notin Config
  /\ \A p \in Edits \cup {Period} : p[1] \in Time /\ p[2] \in Time /\ p[1] < p[2]
  /\ Time \subseteq Int
<1>1. Gone \notin Config
  BY ConstantsAssumption DEF Config, Time
<1>2. Time \subseteq Int
  BY ConstantsAssumption DEF Time
<1>3. \A p \in Edits \cup {Period} : p[1] \in Time /\ p[2] \in Time /\ p[1] < p[2]
  BY ConstantsAssumption
<1> QED BY <1>1, <1>2, <1>3

(* What a request carries, by its kind.                                     *)
LEMMA TaskFacts ==
  ASSUME NEW k \in Task
  PROVE  /\ k.kind \in {"query", "delete", "stats", "update", "status"}
         /\ k.kind = "stats" => k.user \in Users
         /\ k.kind = "update" => k.period \in Edits
         /\ k.kind = "status" => k.status \in Status
BY ConstantsAssumption DEF Task

(* The parts hold in the beginning.                                         *)
LEMMA InitTypes == Init => World /\ Boards /\ Requests /\ Copies
<1> SUFFICES ASSUME Init PROVE World /\ Boards /\ Requests /\ Copies
  OBVIOUS
<1>1. Created \in Config /\ 0 \in Time
  BY ConfigFacts, ConstantsAssumption DEF Created, Config, Status, Time
<1>2. World
  BY <1>1 DEF Init, World
<1>3. Boards
  BY ConstantsAssumption DEF Init, Boards
<1>4. Requests
  <2>1. [kind |-> "query"] \in Task
    BY DEF Task
  <2>2. NoSteps \in [total : 0 .. MaxSteps, delta : Int]
    BY ConstantsAssumption DEF NoSteps
  <2> QED BY <1>1, <2>1, <2>2 DEF Init, Requests, Labels, Unread
<1>5. Copies
  <2>1. NoInfo \in [end : Time, early : BOOLEAN, teams : SUBSET Teams]
    BY <1>1 DEF NoInfo
  <2> QED BY <2>1 DEF Init, Copies, Stages
<1> QED BY <1>2, <1>3, <1>4, <1>5

(* A status that is answered is one.                                        *)
LEMMA StatusType ==
  ASSUME NEW c \in Config
  PROVE  FillActivityStatus(c) \in Status
BY DEF FillActivityStatus, Config, Status

(* An update makes a configuration.                                         *)
LEMMA ModifiedType ==
  ASSUME NEW c \in Config, NEW start \in Time, NEW end \in Time
  PROVE  Modified(c, start, end) \in Config
BY StatusType DEF Modified, Config, Status

-----------------------------------------------------------------------------
(* Every step keeps the four parts. Steps that a part does not see are      *)
(* taken together.                                                          *)

LEMMA WorldStep == World /\ Requests /\ [Next]_vars => World'
<1> SUFFICES ASSUME World, Requests, [Next]_vars PROVE World'
  OBVIOUS
<1>1. CASE UNCHANGED <<settings, configs>>
  BY <1>1 DEF World, settings, configs
<1>2. CASE Tick
  BY <1>2, ConstantsAssumption DEF Tick, World, configs, Time
<1>3. CASE LoseMeta
  BY <1>3 DEF LoseMeta, World, settings
<1>4. ASSUME NEW r \in Reqs, Refill(r) \/ SyncActivityRedis(r) PROVE World'
  <2>1. meta' = cfg[r] /\ cfg[r] \in Config /\ UNCHANGED <<settings, row, snapshot>>
    BY <1>4 DEF Refill, SyncActivityRedis, Requests, Unread
  <2> QED BY <2>1 DEF World, settings
<1>5. ASSUME NEW r \in Reqs, SyncActivityDB(r) PROVE World'
  <2>1. row' = cfg[r] /\ cfg[r] \in Config /\ UNCHANGED <<settings, meta, snapshot>>
    BY <1>5 DEF SyncActivityDB, Requests, Unread
  <2> QED BY <2>1 DEF World, settings
<1>6. ASSUME NEW r \in Reqs, DeleteActivity(r) PROVE World'
  <2>1. row' = [row EXCEPT !.status = "stop"] /\ UNCHANGED <<settings, meta, snapshot>>
    BY <1>6 DEF DeleteActivity
  <2>2. row' \in Config
    BY <2>1 DEF World, Config, Status
  <2> QED BY <2>1, <2>2 DEF World, settings
<1>7. ASSUME NEW r \in Reqs, DeleteActivityRelativeRedis(r) PROVE World'
  BY <1>7 DEF DeleteActivityRelativeRedis, World, settings
<1>8. CASE UpdateSnapshotDb
  BY <1>8 DEF UpdateSnapshotDb, World, settings
<1>9. ASSUME NEW r \in Reqs, Handle(r) PROVE World'
  BY <1>1, <1>4, <1>5, <1>6, <1>7, <1>9
     DEF Handle, QueryRedisHit, QueryRedisMiss, QueryDB, RefillFails, AnswerQuery, UpdateActivity,
         UpdateActivityStatus, Refuse, Stop, UpdateUserSteps, SkipStats, UpdateUserRank,
         UpdateTeamUserRank, ModifyTeamSteps, configs
<1>10. CASE Snapshot
  BY <1>1, <1>8, <1>10
     DEF Snapshot, QuerySnapshotActivity, FetchActivityUserRank, FetchActivityTeamRank, Fetch,
         FetchTeamUserRank, Dump, SnapshotFails, SnapTeamUserRankFails
<1>11. ASSUME NEW r \in Reqs, NEW k \in Requested, Begin(r, k) PROVE World'
  BY <1>1, <1>11 DEF Begin
<1>12. ASSUME NEW u \in Users, Walk(u) PROVE World'
  BY <1>1, <1>12 DEF Walk
<1>13. CASE UNCHANGED vars
  BY <1>1, <1>13 DEF vars
<1> QED BY <1>2, <1>3, <1>9, <1>10, <1>11, <1>12, <1>13 DEF Next

(* Adding to the steps of a team, whether it is known or not.               *)
LEMMA Added ==
  ASSUME NEW f \in [Teams -> Int], NEW t, NEW d \in Int
  PROVE  [f EXCEPT ![t] = f[t] + d] \in [Teams -> Int]
<1>1. CASE t \in Teams
  <2>1. f[t] + d \in Int
    BY <1>1
  <2> QED BY <2>1
<1>2. CASE t \notin Teams
  <2>1. [f EXCEPT ![t] = f[t] + d] = f
    BY <1>2
  <2> QED BY <2>1
<1> QED BY <1>1, <1>2

(* The steps and the ranks.                                                 *)
LEMMA BoardsStep == Boards /\ Requests /\ [Next]_vars => Boards'
<1> SUFFICES ASSUME Boards, Requests, [Next]_vars PROVE Boards'
  OBVIOUS
<1>1. CASE UNCHANGED <<userSteps, boards>>
  BY <1>1 DEF Boards, userSteps, boards
<1>2. ASSUME NEW u \in Users, Walk(u) PROVE Boards'
  BY <1>2, ConstantsAssumption DEF Walk, Boards, boards
<1>3. ASSUME NEW r \in Reqs, UpdateUserSteps(r) PROVE Boards'
  <2>1. task[r].user \in Users
    BY <1>3, TaskFacts DEF UpdateUserSteps, Requests
  <2>2. walked[task[r].user] \in 0 .. MaxSteps
    BY <2>1 DEF Boards
  <2>3. stored' = [stored EXCEPT ![task[r].user] = walked[task[r].user]]
        /\ UNCHANGED <<walked, boards>>
    BY <1>3 DEF UpdateUserSteps
  <2> QED BY <2>2, <2>3 DEF Boards, boards
<1>4. ASSUME NEW r \in Reqs, UpdateUserRank(r) \/ UpdateTeamUserRank(r) PROVE Boards'
  <2>1. steps[r].total \in 0 .. MaxSteps
    BY DEF Requests
  <2> QED BY <1>4, <2>1 DEF UpdateUserRank, UpdateTeamUserRank, Boards, userSteps
<1>5. ASSUME NEW r \in Reqs, ModifyTeamSteps(r) PROVE Boards'
  <2>1. steps[r].delta \in Int
    BY DEF Requests
  <2>2. teamRank' = [teamRank EXCEPT ![Team(r)] = teamRank[Team(r)] + steps[r].delta]
    BY <1>5 DEF ModifyTeamSteps, Boards
  <2>3. teamRank \in [Teams -> Int]
    BY DEF Boards
  <2>4. teamRank' \in [Teams -> Int]
    BY <2>1, <2>2, <2>3, Added
  <2> QED BY <1>5, <2>4 DEF ModifyTeamSteps, Boards, userSteps
<1>6. ASSUME NEW r \in Reqs, Handle(r) PROVE Boards'
  BY <1>1, <1>3, <1>4, <1>5, <1>6
     DEF Handle, QueryRedisHit, QueryRedisMiss, QueryDB, Refill, RefillFails, AnswerQuery,
         UpdateActivity, UpdateActivityStatus, Refuse, SyncActivityRedis, SyncActivityDB,
         DeleteActivity, DeleteActivityRelativeRedis, Stop, SkipStats
<1>7. CASE Tick \/ LoseMeta \/ Snapshot
  BY <1>1, <1>7
     DEF Tick, LoseMeta, Snapshot, QuerySnapshotActivity, FetchActivityUserRank,
         FetchActivityTeamRank, Fetch, FetchTeamUserRank, Dump, SnapshotFails,
         SnapTeamUserRankFails, UpdateSnapshotDb
<1>8. ASSUME NEW r \in Reqs, NEW k \in Requested, Begin(r, k) PROVE Boards'
  BY <1>1, <1>8 DEF Begin
<1>9. CASE UNCHANGED vars
  BY <1>1, <1>9 DEF vars
<1> QED BY <1>2, <1>6, <1>7, <1>8, <1>9 DEF Next

(* What a request is after a step that gives it a new configuration.        *)
LEMMA CfgMoves ==
  ASSUME Requests, NEW r \in Reqs, NEW label \in Labels \ Unread, NEW c \in Config,
         pc' = [pc EXCEPT ![r] = label], cfg' = [cfg EXCEPT ![r] = c],
         UNCHANGED <<task, at, steps>>
  PROVE  Requests'
BY ConfigFacts DEF Requests, Labels, Unread

(* ... that only moves it on, ...                                           *)
LEMMA Moves ==
  ASSUME Requests, NEW r \in Reqs, NEW label \in Labels, pc[r] \in Unread <=> label \in Unread,
         pc' = [pc EXCEPT ![r] = label], UNCHANGED local
  PROVE  Requests'
BY DEF Requests, Labels, Unread, local

(* ... or that ends it.                                                     *)
LEMMA Finished ==
  ASSUME Requests, NEW r \in Reqs, Finish(r)
  PROVE  Requests'
<1>1. [kind |-> "query"] \in Task /\ 0 \in Time /\ NoSteps \in [total : 0 .. MaxSteps, delta : Int]
  BY ConstantsAssumption DEF Task, Time, NoSteps
<1> QED BY <1>1, ConfigFacts DEF Finish, Goto, Requests, Labels, Unread

(* The requests.                                                            *)
LEMMA RequestsStep == World /\ Boards /\ Requests /\ [Next]_vars => Requests'
<1> SUFFICES ASSUME World, Boards, Requests, [Next]_vars PROVE Requests'
  OBVIOUS
<1>1. CASE UNCHANGED <<pc, local>>
  BY <1>1 DEF Requests, local
<1>2. ASSUME NEW r \in Reqs, NEW k \in Requested, Begin(r, k) PROVE Requests'
  <2>1. k \in Task
    BY DEF Requested
  <2>2. IF k.kind \in {"stats", "update"} THEN now \in Time ELSE 0 \in Time
    BY ConstantsAssumption DEF World, Time
  <2> QED BY <1>2, <2>1, <2>2, ConstantsAssumption DEF Begin, Goto, Requests, World, Labels, Unread, Time
<1>3. ASSUME NEW r \in Reqs, QueryRedisHit(r) PROVE Requests'
  <2>1. meta \in Config
    BY <1>3 DEF QueryRedisHit, World
  <2> QED BY <1>3, <2>1, CfgMoves DEF QueryRedisHit, Goto, Labels, Unread
<1>4. ASSUME NEW r \in Reqs, QueryDB(r) PROVE Requests'
  <2>1. [row EXCEPT !.named = FALSE] \in Config
    BY DEF World, Config
  <2> QED BY <1>4, <2>1, CfgMoves DEF QueryDB, Goto, Labels, Unread
<1>5. ASSUME NEW r \in Reqs, UpdateActivity(r) PROVE Requests'
  <2> DEFINE p == task[r].period
  <2>1. p[1] \in Time /\ p[2] \in Time
    BY <1>5, TaskFacts, ConfigFacts DEF UpdateActivity, Requests
  <2>2. cfg[r] \in Config
    BY <1>5 DEF UpdateActivity, Requests, Unread
  <2>3. Modified(cfg[r], p[1], p[2]) \in Config
    BY <2>1, <2>2, ModifiedType
  <2>4. cfg' = [cfg EXCEPT ![r] = Modified(cfg[r], p[1], p[2])]
    BY <1>5 DEF UpdateActivity, Requests
  <2> QED BY <1>5, <2>3, <2>4, CfgMoves DEF UpdateActivity, Goto, Labels, Unread
<1>6. ASSUME NEW r \in Reqs, UpdateActivityStatus(r) PROVE Requests'
  <2> DEFINE c == [cfg[r] EXCEPT !.status = task[r].status]
  <2>1. task[r].status \in Status
    BY <1>6, TaskFacts DEF UpdateActivityStatus, Requests
  <2>2. cfg[r] \in Config
    BY <1>6 DEF UpdateActivityStatus, Requests, Unread
  <2>3. c \in Config
    BY <2>1, <2>2 DEF Config
  <2>4. cfg' = [cfg EXCEPT ![r] = c]
    BY <1>6 DEF UpdateActivityStatus, Requests
  <2> QED BY <1>6, <2>3, <2>4, CfgMoves DEF UpdateActivityStatus, Goto, Labels, Unread
<1>7. ASSUME NEW r \in Reqs,
             \/ QueryRedisMiss(r) \/ Refill(r) \/ RefillFails(r) \/ SyncActivityRedis(r)
             \/ DeleteActivity(r) \/ UpdateTeamUserRank(r)
      PROVE  Requests'
  BY <1>7, Moves
     DEF QueryRedisMiss, Refill, RefillFails, SyncActivityRedis, DeleteActivity,
         UpdateTeamUserRank, Goto, Labels, Unread, local
<1>8. ASSUME NEW r \in Reqs,
             \/ AnswerQuery(r) \/ Refuse(r) \/ SyncActivityDB(r) \/ Stop(r) \/ SkipStats(r)
             \/ DeleteActivityRelativeRedis(r) \/ ModifyTeamSteps(r)
      PROVE  Requests'
  BY <1>8, Finished
     DEF AnswerQuery, Refuse, SyncActivityDB, Stop, SkipStats, DeleteActivityRelativeRedis,
         ModifyTeamSteps
<1>9. ASSUME NEW r \in Reqs, UpdateUserRank(r) PROVE Requests'
  <2>1. CASE Team(r) = NoTeam
    BY <1>9, <2>1, Finished DEF UpdateUserRank
  <2>2. CASE Team(r) # NoTeam
    BY <1>9, <2>2, Moves DEF UpdateUserRank, Goto, Labels, Unread, local
  <2> QED BY <2>1, <2>2
<1>10. ASSUME NEW r \in Reqs, UpdateUserSteps(r) PROVE Requests'
  <2> DEFINE u == task[r].user
             d == IF walked[u] < stored[u] THEN 0 ELSE walked[u] - stored[u]
             s == [total |-> walked[u], delta |-> d]
  <2>1. u \in Users
    BY <1>10, TaskFacts DEF UpdateUserSteps, Requests
  <2>2. walked[u] \in 0 .. MaxSteps /\ stored[u] \in 0 .. MaxSteps
    BY <2>1 DEF Boards
  <2>3. s \in [total : 0 .. MaxSteps, delta : Int]
    BY <2>2, ConstantsAssumption
  <2>4. /\ pc[r] = "fetched" /\ pc' = [pc EXCEPT ![r] = "userRank"]
        /\ steps' = [steps EXCEPT ![r] = s] /\ UNCHANGED <<task, at, cfg>>
    BY <1>10 DEF UpdateUserSteps, Goto
  <2> HIDE DEF s
  <2> QED BY <2>3, <2>4 DEF Requests, Labels, Unread
<1>11. ASSUME NEW r \in Reqs, Handle(r) PROVE Requests'
  BY <1>3, <1>4, <1>5, <1>6, <1>7, <1>8, <1>9, <1>10, <1>11 DEF Handle
<1>12. CASE Tick \/ LoseMeta \/ Snapshot
  BY <1>1, <1>12
     DEF Tick, LoseMeta, Snapshot, QuerySnapshotActivity, FetchActivityUserRank,
         FetchActivityTeamRank, Fetch, FetchTeamUserRank, Dump, SnapshotFails,
         SnapTeamUserRankFails, UpdateSnapshotDb
<1>13. ASSUME NEW u \in Users, Walk(u) PROVE Requests'
  BY <1>1, <1>13 DEF Walk
<1>14. CASE UNCHANGED vars
  BY <1>1, <1>14 DEF vars
<1> QED BY <1>2, <1>11, <1>12, <1>13, <1>14 DEF Next

(* The copies.                                                              *)
LEMMA CopiesStep == World /\ Boards /\ Copies /\ [Next]_vars => Copies'
<1> SUFFICES ASSUME World, Boards, Copies, [Next]_vars PROVE Copies'
  OBVIOUS
<1>1. CASE UNCHANGED copying
  BY <1>1 DEF Copies, copying
<1>2. CASE QuerySnapshotActivity
  <2>1. row.end \in Time /\ (now < row.end) \in BOOLEAN
    BY DEF World, Config
  <2>2. [end |-> row.end, early |-> now < row.end, teams |-> {}]
          \in [end : Time, early : BOOLEAN, teams : SUBSET Teams]
    BY <2>1
  <2> QED BY <1>2, <2>2 DEF QuerySnapshotActivity, Copies, Stages
<1>3. CASE FetchActivityUserRank
  <2>1. ranks' = userRank /\ copier' = "users" /\ UNCHANGED <<info, history>>
    BY <1>3 DEF FetchActivityUserRank, Fetch
  <2>2. DOMAIN userRank = Users /\ \A u \in Users : userRank[u] \in Nat
    BY ConstantsAssumption DEF Boards
  <2> QED BY <2>1, <2>2 DEF Copies, Stages
<1>4. CASE FetchActivityTeamRank
  <2>1. /\ ranks' = [t \in TeamsInUse |-> teamRank[t]]
        /\ copier' = IF TeamsInUse = {} THEN "mark" ELSE "teams"
        /\ info' = [info EXCEPT !.teams = TeamsInUse] /\ UNCHANGED history
    BY <1>4 DEF FetchActivityTeamRank, Fetch
  <2>2. TeamsInUse \subseteq Teams /\ \A t \in Teams : teamRank[t] \in Int
    BY DEF TeamsInUse, Boards
  <2>3. info' \in [end : Time, early : BOOLEAN, teams : SUBSET Teams]
    BY <2>1, <2>2 DEF Copies
  <2> QED BY <2>1, <2>2, <2>3 DEF Copies, Stages
<1>5. ASSUME NEW t \in Teams, FetchTeamUserRank(t) PROVE Copies'
  <2>1. /\ ranks' = [u \in Members(t) |-> inTeam[u]] /\ copier' = "members"
        /\ info' = [info EXCEPT !.teams = @ \ {t}] /\ UNCHANGED history
    BY <1>5 DEF FetchTeamUserRank, Fetch
  <2>2. Members(t) \subseteq Users /\ \A u \in Users : inTeam[u] \in Nat
    BY ConstantsAssumption DEF Members, Boards
  <2>3. info' \in [end : Time, early : BOOLEAN, teams : SUBSET Teams]
    BY <2>1 DEF Copies
  <2> QED BY <2>1, <2>2, <2>3 DEF Copies, Stages
<1>6. ASSUME NEW x \in Users \cup Teams, Dump(x) PROVE Copies'
  <2>1. copier \in {"users", "teams", "members"}
    BY <1>6 DEF Dump, Copies
  <2>2. /\ x \in DOMAIN ranks
        /\ history' = [history EXCEPT ![copier][x] = ranks[x]]
        /\ DOMAIN ranks' = DOMAIN ranks \ {x}
        /\ \A y \in DOMAIN ranks' : ranks'[y] = ranks[y]
        /\ copier' = IF DOMAIN ranks = {x} THEN Following ELSE copier
        /\ UNCHANGED info
    BY <1>6 DEF Dump
  <2>3. Following \in {"fetchTeams", "mark", "fetchMembers"}
    BY DEF Following
  <2>4. history' \in [users : [Users -> Nat \cup {Gone}], teams : [Teams -> Int \cup {Gone}],
                      members : [Users -> Nat \cup {Gone}]]
    <3>1. CASE copier = "users"
      <4>1. ranks[x] \in Nat
        BY <2>2, <3>1 DEF Copies
      <4>2. history' = [history EXCEPT !.users = [history.users EXCEPT ![x] = ranks[x]]]
        BY <2>2, <3>1 DEF Copies
      <4>3. [history.users EXCEPT ![x] = ranks[x]] \in [Users -> Nat \cup {Gone}]
        BY <4>1 DEF Copies
      <4> QED BY <4>2, <4>3 DEF Copies
    <3>2. CASE copier = "teams"
      <4>1. ranks[x] \in Int
        BY <2>2, <3>2 DEF Copies
      <4>2. history' = [history EXCEPT !.teams = [history.teams EXCEPT ![x] = ranks[x]]]
        BY <2>2, <3>2 DEF Copies
      <4>3. [history.teams EXCEPT ![x] = ranks[x]] \in [Teams -> Int \cup {Gone}]
        BY <4>1 DEF Copies
      <4> QED BY <4>2, <4>3 DEF Copies
    <3>3. CASE copier = "members"
      <4>1. ranks[x] \in Nat
        BY <2>2, <3>3 DEF Copies
      <4>2. history' = [history EXCEPT !.members = [history.members EXCEPT ![x] = ranks[x]]]
        BY <2>2, <3>3 DEF Copies
      <4>3. [history.members EXCEPT ![x] = ranks[x]] \in [Users -> Nat \cup {Gone}]
        BY <4>1 DEF Copies
      <4> QED BY <4>2, <4>3 DEF Copies
    <3> QED BY <2>1, <3>1, <3>2, <3>3
  <2> QED BY <2>1, <2>2, <2>3, <2>4 DEF Copies, Stages
<1>7. CASE SnapshotFails \/ UpdateSnapshotDb
  <2>1. copier' = "asleep" /\ info' = NoInfo /\ UNCHANGED history
    BY <1>7 DEF SnapshotFails, UpdateSnapshotDb, Sleep
  <2>2. NoInfo \in [end : Time, early : BOOLEAN, teams : SUBSET Teams]
    BY ConstantsAssumption DEF NoInfo, Time
  <2> QED BY <2>1, <2>2 DEF Copies, Stages
<1>8. CASE SnapTeamUserRankFails
  <2>1. copier' \in {"mark", "fetchMembers", "fetchTeams"}
    BY <1>8 DEF SnapTeamUserRankFails, Following
  <2>2. info' \in [end : Time, early : BOOLEAN, teams : SUBSET Teams] /\ UNCHANGED history
    BY <1>8 DEF SnapTeamUserRankFails, Copies
  <2> QED BY <2>1, <2>2 DEF Copies, Stages
<1>9. CASE Snapshot
  BY <1>2, <1>3, <1>4, <1>5, <1>6, <1>7, <1>8, <1>9 DEF Snapshot
<1>10. ASSUME NEW r \in Reqs, Handle(r) PROVE Copies'
  BY <1>1, <1>10
     DEF Handle, QueryRedisHit, QueryRedisMiss, QueryDB, Refill, RefillFails, AnswerQuery,
         UpdateActivity, UpdateActivityStatus, Refuse, SyncActivityRedis, SyncActivityDB,
         DeleteActivity, DeleteActivityRelativeRedis, Stop, UpdateUserSteps, SkipStats,
         UpdateUserRank, UpdateTeamUserRank, ModifyTeamSteps
<1>11. CASE Tick \/ LoseMeta
  BY <1>1, <1>11 DEF Tick, LoseMeta
<1>12. ASSUME NEW r \in Reqs, NEW k \in Requested, Begin(r, k) PROVE Copies'
  BY <1>1, <1>12 DEF Begin
<1>13. ASSUME NEW u \in Users, Walk(u) PROVE Copies'
  BY <1>1, <1>13 DEF Walk
<1>14. CASE UNCHANGED vars
  BY <1>1, <1>14 DEF vars
<1> QED BY <1>9, <1>10, <1>11, <1>12, <1>13, <1>14 DEF Next

(* All of them.                                                             *)
LEMMA TypesStep == TypeOK /\ [Next]_vars => TypeOK'
<1> SUFFICES ASSUME TypeOK, [Next]_vars PROVE TypeOK'
  OBVIOUS
<1>1. World /\ Boards /\ Requests /\ Copies
  BY TypesAreParts
<1>2. World' /\ Boards' /\ Requests' /\ Copies'
  BY <1>1, WorldStep, BoardsStep, RequestsStep, CopiesStep
<1>3. (World /\ Boards /\ Requests /\ Copies)' => TypeOK'
  BY TypesAreParts, PTL
<1> QED BY <1>2, <1>3

(* The configuration, the ranks, the requests and the copies stay what      *)
(* activity.go and snapshot.go take them for.                               *)
THEOREM ActivityTypes == Spec => []TypeOK
<1>1. Init => TypeOK
  BY InitTypes, TypesAreParts
<1> QED BY <1>1, TypesStep, PTL DEF Spec

-----------------------------------------------------------------------------
(* What a step leaves alone.                                                *)

(* What has happened is not forgotten, and the clock does not go back.      *)
LEMMA Onwards ==
  ASSUME TypeOK, [Next]_vars
  PROVE  faults \subseteq faults' /\ now' >= now /\ UNCHANGED <<type, teamOf>>
<1>0. now \in Int /\ now >= now
  BY ConfigFacts DEF TypeOK
<1>1. CASE UNCHANGED vars
  BY <1>0, <1>1 DEF vars, settings
<1>2. CASE Tick \/ LoseMeta \/ \E u \in Users : Walk(u)
  BY <1>0, <1>2 DEF Tick, LoseMeta, Walk, settings
<1>3. ASSUME NEW r \in Reqs, NEW k \in Requested, Begin(r, k)
      PROVE  faults \subseteq faults' /\ UNCHANGED settings
  BY <1>3 DEF Begin, Note
<1>4. ASSUME NEW r \in Reqs, Handle(r) PROVE faults \subseteq faults' /\ UNCHANGED settings
  BY <1>4
     DEF Handle, QueryRedisHit, QueryRedisMiss, QueryDB, Refill, RefillFails, AnswerQuery,
         UpdateActivity, UpdateActivityStatus, Refuse, SyncActivityRedis, SyncActivityDB,
         DeleteActivity, DeleteActivityRelativeRedis, Stop, UpdateUserSteps, SkipStats,
         UpdateUserRank, UpdateTeamUserRank, ModifyTeamSteps, Note
<1>5. CASE Snapshot
  <2>1. faults \subseteq faults' /\ UNCHANGED settings
    BY <1>5
       DEF Snapshot, QuerySnapshotActivity, FetchActivityUserRank, FetchActivityTeamRank, Fetch,
           FetchTeamUserRank, Dump, SnapshotFails, SnapTeamUserRankFails, UpdateSnapshotDb, Note
  <2> QED BY <1>0, <2>1 DEF settings
<1> QED BY <1>0, <1>1, <1>2, <1>3, <1>4, <1>5 DEF Next, settings

(* A step of a request leaves the others alone, and its task while it lasts. *)
Others(r) ==
  /\ \A q \in Reqs \ {r} : pc'[q] = pc[q] /\ task'[q] = task[q] /\ cfg'[q] = cfg[q]
  /\ pc'[r] # "idle" => task'[r] = task[r]

(* That is what every step of a request is like.                            *)
LEMMA HandleAlone ==
  ASSUME Requests, NEW r \in Reqs, Handle(r)
  PROVE  Others(r)
<1>1. CASE Finish(r)
  BY <1>1 DEF Finish, Goto, Requests, Others
<1>2. CASE UNCHANGED local /\ \E l \in Labels : Goto(r, l)
  BY <1>2 DEF Goto, Requests, Others, local
<1>4. ASSUME QueryRedisHit(r) \/ QueryDB(r) \/ UpdateActivity(r) \/ UpdateActivityStatus(r)
             \/ UpdateUserSteps(r)
      PROVE  Others(r)
  BY <1>4
     DEF QueryRedisHit, QueryDB, UpdateActivity, UpdateActivityStatus, UpdateUserSteps, Goto,
         Requests, Others
<1>5. ASSUME UpdateUserRank(r) PROVE Others(r)
  BY <1>1, <1>2, <1>5 DEF UpdateUserRank, Labels
<1> QED
  BY <1>1, <1>2, <1>4, <1>5
     DEF Handle, QueryRedisMiss, Refill, RefillFails, AnswerQuery,
         Refuse, SyncActivityRedis, SyncActivityDB, DeleteActivity,
         DeleteActivityRelativeRedis, Stop, SkipStats,
         UpdateTeamUserRank, ModifyTeamSteps, Labels

-----------------------------------------------------------------------------
(* The configuration in Redis and the one in the table. As long as requests *)
(* did not race, there is one editor at a time and nobody but him refills;  *)
(* what is being refilled is what the table holds; and the two differ only  *)
(* while an editor is between them.                                         *)

Raceless == faults \cap {"overlap", "refill", "stop"} = {}
SameAs(c) == c.status = row.status /\ c.start = row.start /\ c.end = row.end
Editor(r) == pc[r] # "idle" /\ task[r].kind \in Editing

Placed == \A r \in Reqs : pc[r] \in {"syncRedis", "syncDB", "expire"} => task[r].kind \in Editing

Alone ==
  /\ \A r, q \in Reqs : Editor(r) /\ Editor(q) => r = q
  /\ \A r, q \in Reqs : Editor(r) /\ pc[q] = "refill" => r = q

Fresh ==
  /\ \A r \in Reqs : pc[r] = "refill" => SameAs(cfg[r])
  /\ \A r \in Reqs : pc[r] = "syncDB" => meta \in {Gone, cfg[r]}
  /\ (\A r \in Reqs : pc[r] \notin {"syncDB", "expire"}) => meta = Gone \/ SameAs(meta)

ConfigsInv == TypeOK /\ Placed /\ (Raceless => Alone /\ Fresh)

(* Equal but for the name of the organisation.                              *)
LEMMA SameIsEqual ==
  ASSUME row \in Config, NEW c \in Config
  PROVE  SameAs(c) <=> [c EXCEPT !.named = row.named] = row
<1> DEFINE d == [c EXCEPT !.named = row.named]
<1>1. d \in Config /\ d.status = c.status /\ d.start = c.start /\ d.end = c.end /\ d.named = row.named
  BY DEF Config
<1>2. d = row <=> d.status = row.status /\ d.start = row.start /\ d.end = row.end /\ d.named = row.named
  BY <1>1 DEF Config
<1> QED BY <1>1, <1>2 DEF SameAs

(* The two ways to say who edits.                                           *)
LEMMA EditorsAre == \A r \in Reqs : r \in Editors <=> Editor(r)
BY DEF Editors, Busy, Editor

(* It holds in the beginning.                                               *)
LEMMA ConfigsInit == Init => ConfigsInv
<1> SUFFICES ASSUME Init PROVE ConfigsInv
  OBVIOUS
<1>1. TypeOK
  BY InitTypes, TypesAreParts
<1>2. \A r \in Reqs : pc[r] = "idle"
  BY DEF Init
<1>3. meta = row
  BY DEF Init
<1> QED BY <1>1, <1>2, <1>3 DEF ConfigsInv, Placed, Alone, Fresh, Editor, SameAs

(* A request goes on, or ends, without touching the configuration.          *)
LEMMA ConfigsSame ==
  ASSUME ConfigsInv, faults \subseteq faults', NEW r \in Reqs, Others(r), UNCHANGED <<row, meta>>,
         pc[r] # "idle",
         pc'[r] \notin {"refill", "syncDB", "expire"},
         pc'[r] = "syncRedis" => task[r].kind \in Editing,
         pc[r] \in {"syncDB", "expire"} => "stop" \in faults'
  PROVE  Placed' /\ (Raceless' => Alone' /\ Fresh')
<1>1. Placed'
  BY DEF ConfigsInv, Placed, Others
<1>2. ASSUME Raceless' PROVE Alone /\ Fresh /\ pc[r] \notin {"syncDB", "expire"}
  BY <1>2 DEF ConfigsInv, Raceless
<1>3. \A q \in Reqs : Editor(q)' => Editor(q)
  BY DEF Editor, Others
<1>4. \A q \in Reqs : pc'[q] = "refill" => pc[q] = "refill"
  BY DEF Others
<1>5. ASSUME Raceless' PROVE Alone'
  BY <1>2, <1>3, <1>4, <1>5 DEF Alone
<1>6. ASSUME Raceless' PROVE Fresh'
  <2>1. \A q \in Reqs : pc'[q] = "refill" => SameAs(cfg[q])'
    BY <1>2, <1>6 DEF Fresh, Others, SameAs
  <2>2. \A q \in Reqs : pc'[q] = "syncDB" => meta' \in {Gone, cfg'[q]}
    BY <1>2, <1>6 DEF Fresh, Others
  <2>3. (\A q \in Reqs : pc'[q] \notin {"syncDB", "expire"}) => meta' = Gone \/ SameAs(meta)'
    BY <1>2, <1>6 DEF Fresh, Others, SameAs
  <2> QED BY <2>1, <2>2, <2>3 DEF Fresh, SameAs
<1> QED BY <1>1, <1>5, <1>6

(* Nothing that the invariant speaks of changes.                            *)
LEMMA ConfigsAside ==
  ASSUME ConfigsInv, faults \subseteq faults', UNCHANGED <<row, pc, local>>, meta' \in {meta, Gone}
  PROVE  Placed' /\ (Raceless' => Alone' /\ Fresh')
<1>1. Placed'
  BY DEF ConfigsInv, Placed, local
<1>2. ASSUME Raceless' PROVE Alone /\ Fresh
  BY <1>2 DEF ConfigsInv, Raceless
<1>3. ASSUME Raceless' PROVE Alone' /\ Fresh'
  BY <1>2, <1>3 DEF Alone, Editor, Fresh, SameAs, local
<1> QED BY <1>1, <1>3

(* An edit that begins finds no other, and nobody who refills.              *)
LEMMA ConfigsBegin ==
  ASSUME ConfigsInv, NEW r \in Reqs, NEW k \in Requested, Begin(r, k)
  PROVE  Placed' /\ (Raceless' => Alone' /\ Fresh')
<1>1. /\ pc[r] = "idle" /\ pc' = [pc EXCEPT ![r] = "queryRedis"]
      /\ task' = [task EXCEPT ![r] = k] /\ UNCHANGED <<row, meta, cfg>>
      /\ faults' = faults \cup Raced(k.kind)
  BY DEF Begin, Goto, Note, configs
<1>2. pc \in [Reqs -> Labels] /\ task \in [Reqs -> Task]
  BY TypesAreParts DEF ConfigsInv, Requests
<1>3. Placed'
  BY <1>1, <1>2 DEF ConfigsInv, Placed
<1>4. ASSUME Raceless' PROVE Alone /\ Fresh
  BY <1>1, <1>4 DEF ConfigsInv, Raceless
<1>5. ASSUME Raceless', k.kind \in Editing
      PROVE  \A q \in Reqs : ~Editor(q) /\ pc[q] # "refill"
  <2>1. Editors = {} /\ ~\E q \in Busy : pc[q] = "refill"
    BY <1>1, <1>5 DEF Raceless, Raced
  <2> QED BY <2>1, EditorsAre DEF Busy
<1>6. \A q \in Reqs \ {r} : (Editor(q)' <=> Editor(q)) /\ pc'[q] = pc[q]
  BY <1>1, <1>2 DEF Editor
<1>7. pc'[r] = "queryRedis" /\ (Editor(r)' <=> k.kind \in Editing)
  BY <1>1, <1>2 DEF Editor
<1>8. ASSUME Raceless' PROVE Alone'
  BY <1>4, <1>5, <1>6, <1>7, <1>8 DEF Alone
<1>9. ASSUME Raceless' PROVE Fresh'
  BY <1>1, <1>4, <1>6, <1>7, <1>9 DEF Fresh, SameAs
<1> QED BY <1>3, <1>8, <1>9

(* What the table holds is read to be put into Redis.                       *)
LEMMA ConfigsQueryDB ==
  ASSUME ConfigsInv, NEW r \in Reqs, Others(r), QueryDB(r)
  PROVE  Placed' /\ (Raceless' => Alone' /\ Fresh')
<1>1. /\ pc[r] = "queryDB" /\ pc'[r] = "refill"
      /\ SameAs(cfg[r])' /\ UNCHANGED <<row, meta, task>>
      /\ faults' = faults \cup (IF Editors \ {r} = {} THEN {} ELSE {"refill"})
  <2>1. cfg' = [cfg EXCEPT ![r] = [row EXCEPT !.named = FALSE]] /\ UNCHANGED <<row, meta, task>>
        /\ pc[r] = "queryDB" /\ Goto(r, "refill")
        /\ Note(IF Editors \ {r} = {} THEN {} ELSE {"refill"})
    BY DEF QueryDB, configs
  <2>2. World /\ Requests
    BY TypesAreParts DEF ConfigsInv
  <2>3. pc'[r] = "refill" /\ cfg'[r] = [row EXCEPT !.named = FALSE]
    BY <2>1, <2>2 DEF Goto, Requests
  <2>4. SameAs(cfg[r])'
    BY <2>1, <2>2, <2>3 DEF SameAs, World, Config
  <2> QED BY <2>1, <2>3, <2>4 DEF Note
<1>2. Placed'
  BY <1>1 DEF ConfigsInv, Placed, Others
<1>3. ASSUME Raceless' PROVE Alone /\ Fresh /\ \A q \in Reqs : Editor(q) => q = r
  <2>1. Editors \ {r} = {} /\ Raceless
    BY <1>1, <1>3 DEF Raceless
  <2> QED BY <2>1, EditorsAre DEF ConfigsInv
<1>4. \A q \in Reqs : Editor(q)' <=> Editor(q)
  BY <1>1 DEF Editor, Others
<1>5. ASSUME Raceless' PROVE Alone'
  BY <1>1, <1>3, <1>4, <1>5 DEF Alone, Others
<1>6. ASSUME Raceless' PROVE Fresh'
  BY <1>1, <1>3, <1>6 DEF Fresh, SameAs, Others
<1> QED BY <1>2, <1>5, <1>6

(* The reader puts it into Redis: no editor is at work but himself.         *)
LEMMA ConfigsRefill ==
  ASSUME ConfigsInv, NEW r \in Reqs, Others(r), Refill(r)
  PROVE  Placed' /\ (Raceless' => Alone' /\ Fresh')
<1>1. /\ pc[r] = "refill" /\ pc'[r] = "fetched" /\ meta' = cfg[r]
      /\ UNCHANGED <<row, task, cfg, faults>>
  <2>1. Requests
    BY TypesAreParts DEF ConfigsInv
  <2> QED BY <2>1 DEF Refill, Goto, Requests, local
<1>2. Placed'
  BY <1>1 DEF ConfigsInv, Placed, Others
<1>3. ASSUME Raceless' PROVE Alone /\ Fresh
  BY <1>1, <1>3 DEF ConfigsInv, Raceless
<1>4. \A q \in Reqs : Editor(q)' <=> Editor(q)
  BY <1>1 DEF Editor, Others
<1>5. ASSUME Raceless' PROVE Alone'
  BY <1>1, <1>3, <1>4, <1>5 DEF Alone, Others
<1>6. ASSUME Raceless' PROVE \A q \in Reqs : pc[q] \notin {"syncDB"}
  BY <1>1, <1>3, <1>6 DEF Alone, Editor, ConfigsInv, Placed
<1>7. ASSUME Raceless' PROVE Fresh'
  BY <1>1, <1>3, <1>6, <1>7 DEF Fresh, SameAs, Others
<1> QED BY <1>2, <1>5, <1>7

(* The steps of an editor between Redis and the table.                      *)
LEMMA ConfigsSync ==
  ASSUME ConfigsInv, NEW r \in Reqs, Others(r),
         \/ SyncActivityRedis(r) \/ SyncActivityDB(r)
         \/ DeleteActivity(r) \/ DeleteActivityRelativeRedis(r)
  PROVE  Placed' /\ (Raceless' => Alone' /\ Fresh')
<1>1. World /\ Requests
  BY TypesAreParts DEF ConfigsInv
<1>2. /\ Editor(r) /\ faults \subseteq faults'
      /\ \/ pc[r] = "syncRedis" /\ pc'[r] = "syncDB" /\ meta' = cfg[r] /\ cfg'[r] = cfg[r] /\ row' = row
         \/ pc[r] = "syncDB" /\ pc'[r] = "idle" /\ row' = cfg[r] /\ meta' = meta
         \/ pc[r] = "fetched" /\ pc'[r] = "expire" /\ meta' = meta
         \/ pc[r] = "expire" /\ pc'[r] = "idle" /\ meta' = Gone /\ row' = row
  <2>1. CASE SyncActivityRedis(r)
    BY <1>1, <2>1 DEF SyncActivityRedis, Goto, Requests, local, Editor, ConfigsInv, Placed
  <2>2. CASE SyncActivityDB(r)
    BY <1>1, <2>2 DEF SyncActivityDB, Finish, Goto, Note, Requests, Editor, ConfigsInv, Placed
  <2>3. CASE DeleteActivity(r)
    BY <1>1, <2>3 DEF DeleteActivity, Goto, Note, Requests, Editor, Editing
  <2>4. CASE DeleteActivityRelativeRedis(r)
    BY <1>1, <2>4 DEF DeleteActivityRelativeRedis, Finish, Goto, Requests, Editor, ConfigsInv, Placed
  <2> QED BY <2>1, <2>2, <2>3, <2>4
<1>3. Placed'
  BY <1>2 DEF ConfigsInv, Placed, Others, Editor
<1>4. ASSUME Raceless' PROVE Alone /\ Fresh
  BY <1>2, <1>4 DEF ConfigsInv, Raceless
<1>5. \A q \in Reqs : (Editor(q)' => Editor(q)) /\ (pc'[q] = "refill" => pc[q] = "refill")
  BY <1>2 DEF Editor, Others
<1>6. ASSUME Raceless' PROVE Alone'
  BY <1>4, <1>5, <1>6 DEF Alone
<1>7. ASSUME Raceless'
      PROVE  \A q \in Reqs \ {r} : pc'[q] \notin {"refill", "syncDB", "expire"}
  BY <1>2, <1>4, <1>7 DEF Alone, Others, ConfigsInv, Placed, Editor
<1>8. ASSUME Raceless' PROVE Fresh'
  <2>1. \A q \in Reqs : pc'[q] # "refill"
    BY <1>2, <1>7, <1>8
  <2>2. \A q \in Reqs : pc'[q] = "syncDB" => meta' \in {Gone, cfg'[q]}
    BY <1>2, <1>7, <1>8
  <2>3. (\A q \in Reqs : pc'[q] \notin {"syncDB", "expire"}) => meta' = Gone \/ SameAs(meta)'
    BY <1>2, <1>4, <1>8 DEF Fresh, SameAs
  <2> QED BY <2>1, <2>2, <2>3 DEF Fresh
<1> QED BY <1>3, <1>6, <1>8

(* Every step keeps it.                                                     *)
LEMMA ConfigsStep == ConfigsInv /\ [Next]_vars => ConfigsInv'
<1> SUFFICES ASSUME ConfigsInv, [Next]_vars PROVE ConfigsInv'
  OBVIOUS
<1> DEFINE Goal == Placed' /\ (Raceless' => Alone' /\ Fresh')
<1>1. TypeOK /\ TypeOK' /\ faults \subseteq faults' /\ World /\ Requests
  BY TypesStep, TypesAreParts, Onwards DEF ConfigsInv
<1>2. ASSUME NEW r \in Reqs, Handle(r) PROVE Goal
  <2>1. Others(r)
    BY <1>1, <1>2, HandleAlone
  <2>2. CASE QueryDB(r) \/ Refill(r)
    BY <2>1, <2>2, ConfigsQueryDB, ConfigsRefill
  <2>3. CASE \/ SyncActivityRedis(r) \/ SyncActivityDB(r)
             \/ DeleteActivity(r) \/ DeleteActivityRelativeRedis(r)
    BY <2>1, <2>3, ConfigsSync
  <2>4. CASE Stop(r)
    <3>1. /\ pc[r] # "idle" /\ pc'[r] = "idle" /\ UNCHANGED <<row, meta>>
          /\ pc[r] \in {"syncDB", "expire"} => "stop" \in faults'
      BY <1>1, <2>4 DEF Stop, Finish, Goto, Note, Requests, configs
    <3> QED BY <1>1, <2>1, <3>1, ConfigsSame
  <2>5. CASE \/ QueryRedisHit(r) \/ QueryRedisMiss(r) \/ RefillFails(r) \/ AnswerQuery(r)
             \/ UpdateActivity(r) \/ UpdateActivityStatus(r) \/ Refuse(r) \/ UpdateUserSteps(r)
             \/ SkipStats(r) \/ UpdateUserRank(r) \/ UpdateTeamUserRank(r) \/ ModifyTeamSteps(r)
    <3>1. /\ pc[r] \notin {"idle", "syncDB", "expire"} /\ UNCHANGED <<row, meta>>
          /\ pc'[r] \in {"fetched", "queryDB", "idle", "syncRedis", "userRank", "inTeam", "teamRank"}
          /\ pc'[r] = "syncRedis" => task[r].kind \in Editing
      BY <1>1, <2>5
         DEF QueryRedisHit, QueryRedisMiss, RefillFails, AnswerQuery, UpdateActivity,
             UpdateActivityStatus, Refuse, UpdateUserSteps, SkipStats, UpdateUserRank,
             UpdateTeamUserRank, ModifyTeamSteps, Finish, Goto, Requests, configs, Editing
    <3> QED BY <1>1, <2>1, <3>1, ConfigsSame
  <2> QED BY <1>2, <2>2, <2>3, <2>4, <2>5 DEF Handle
<1>3. ASSUME NEW r \in Reqs, NEW k \in Requested, Begin(r, k) PROVE Goal
  BY <1>3, ConfigsBegin
<1>4. ASSUME UNCHANGED vars \/ Tick \/ LoseMeta \/ (\E u \in Users : Walk(u)) \/ Snapshot
      PROVE  Goal
  <2>1. CASE UNCHANGED <<configs, pc, local>>
    BY <1>1, <2>1, ConfigsAside DEF configs
  <2>2. CASE LoseMeta
    <3>1. UNCHANGED <<row, pc, local>> /\ meta' = Gone
      BY <2>2 DEF LoseMeta
    <3> QED BY <1>1, <3>1, ConfigsAside
  <2>3. CASE UpdateSnapshotDb
    <3>1. UNCHANGED <<row, pc, local, meta>>
      BY <2>3 DEF UpdateSnapshotDb
    <3> QED BY <1>1, <3>1, ConfigsAside
  <2>4. CASE Snapshot
    BY <2>1, <2>3, <2>4
       DEF Snapshot, QuerySnapshotActivity, FetchActivityUserRank, FetchActivityTeamRank, Fetch,
           FetchTeamUserRank, Dump, SnapshotFails, SnapTeamUserRankFails
  <2>5. CASE UNCHANGED vars \/ Tick \/ \E u \in Users : Walk(u)
    BY <2>1, <2>5 DEF vars, Tick, Walk
  <2> QED BY <1>4, <2>2, <2>4, <2>5
<1> QED BY <1>1, <1>2, <1>3, <1>4 DEF Next, ConfigsInv

(* A configuration in Redis is the one of the table, but for the name of    *)
(* the organisation, as long as no edit overlapped another edit or a refill *)
(* or stopped half way between Redis and the table (activity.go, fetch-     *)
(* Activity, UpdateActivity, DeleteActivity).                               *)
THEOREM ActivityConfigs == Spec => []ConfigsAgree
<1>1. ConfigsInv => ConfigsAgree
  <2> SUFFICES ASSUME ConfigsInv, Quiet, Raceless, meta # Gone
               PROVE  [meta EXCEPT !.named = row.named] = row
    BY DEF ConfigsAgree, Raceless
  <2>1. \A r \in Reqs : pc[r] \notin {"syncDB", "expire"}
    BY EditorsAre DEF Quiet, ConfigsInv, Placed, Editor
  <2>2. SameAs(meta) /\ row \in Config /\ meta \in Config
    BY <2>1 DEF ConfigsInv, Fresh, TypeOK
  <2> QED BY <2>2, SameIsEqual
<1> QED BY <1>1, ConfigsInit, ConfigsStep, PTL DEF Spec

-----------------------------------------------------------------------------
(* The status. What the table holds, and what an editor is going to store,  *)
(* is "stop" once the activity was deleted, and never "expired" before the  *)
(* end.                                                                     *)

Orderly == Raceless /\ faults \cap {"manual", "postponed"} = {}

Sound(c) ==
  /\ c.start < c.end
  /\ IF "deleted" \in faults THEN c.status = "stop"
     ELSE c.status \in {"draft", "ready", "running"} \/ (c.status = "expired" /\ c.end <= now)

Holding == {"refill", "fetched", "syncRedis", "syncDB"}

SoundStatus ==
  /\ Sound(row)
  /\ \A r \in Reqs : Editor(r) /\ pc[r] \in Holding => Sound(cfg[r])

StatusInv == ConfigsInv /\ (Orderly => SoundStatus)

(* It holds in the beginning.                                               *)
LEMMA StatusInit == Init => StatusInv
<1> SUFFICES ASSUME Init PROVE StatusInv
  OBVIOUS
<1>1. Created.start < Created.end /\ Created.status \in {"draft", "ready", "running"}
  BY ConfigFacts DEF Created
<1>2. Sound(row)
  BY <1>1 DEF Init, Sound
<1> QED BY <1>2, ConfigsInit DEF Init, StatusInv, SoundStatus, Editor

(* Time does not make it wrong.                                             *)
LEMMA SoundLater ==
  ASSUME NEW c \in Config, Sound(c), now \in Int, now' \in Int, now' >= now,
         "deleted" \in faults' <=> "deleted" \in faults
  PROVE  Sound(c)'
<1>1. c.end \in Int
  BY ConfigFacts DEF Config
<1>2. c.end <= now => c.end <= now'
  BY <1>1
<1> QED BY <1>2 DEF Sound

(* Nor does an update.                                                      *)
LEMMA SoundModified ==
  ASSUME TypeOK, NEW r \in Reqs, UpdateActivity(r), Sound(cfg[r]), cfg[r] \in Config,
         "postponed" \notin faults'
  PROVE  Sound(Modified(cfg[r], task[r].period[1], task[r].period[2]))
<1> DEFINE c == cfg[r]
           start == task[r].period[1]
           end == task[r].period[2]
           d == Modified(c, start, end)
<1>1. MayModify(r) /\ ~Postponed(c, start)
  BY DEF UpdateActivity, Note
<1>2. start \in Int /\ end \in Int /\ start < end /\ now \in Int
  BY TaskFacts, ConfigFacts DEF UpdateActivity, TypeOK
<1>3. /\ d.start = start /\ d.end = end
      /\ d.status = IF FillActivityStatus(c) = "expired" /\ end > now /\ start < now
                    THEN "running" ELSE FillActivityStatus(c)
  BY DEF Modified, Config
<1>4. FillActivityStatus(c) = "expired" => end >= now /\ start < now
  BY <1>1, <1>2 DEF MayModify, Postponed
<1>5. IF "deleted" \in faults THEN FillActivityStatus(c) = "stop"
      ELSE FillActivityStatus(c) \in {"draft", "ready", "running", "expired"}
  BY DEF Sound, FillActivityStatus
<1> HIDE DEF c, start, end, d
<1>6. Sound(d)
  BY <1>2, <1>3, <1>4, <1>5 DEF Sound
<1> QED BY <1>6 DEF c, start, end, d

(* A step of a request that keeps the table and leaves the request with     *)
(* what it had, or with what is sound.                                      *)
LEMMA StatusHandled ==
  ASSUME StatusInv, TypeOK', Orderly, SoundStatus, NEW r \in Reqs, Others(r), UNCHANGED <<row, now>>,
         pc[r] # "idle",
         "deleted" \in faults' <=> "deleted" \in faults,
         Editor(r) /\ pc'[r] \in Holding => Sound(cfg'[r])
  PROVE  SoundStatus'
<1>1. Sound(row)'
  BY DEF SoundStatus, Sound
<1>2. ASSUME NEW q \in Reqs, Editor(q)', pc'[q] \in Holding PROVE Sound(cfg[q])'
  <2>1. CASE q = r
    BY <1>2, <2>1 DEF Editor, Others, Sound
  <2>2. CASE q # r
    BY <1>2, <2>2 DEF SoundStatus, Editor, Others, Sound
  <2> QED BY <2>1, <2>2
<1> QED BY <1>1, <1>2 DEF SoundStatus

(* Every step keeps it.                                                     *)
LEMMA StatusStep == StatusInv /\ [Next]_vars => StatusInv'
<1> SUFFICES ASSUME StatusInv, [Next]_vars, Orderly' PROVE SoundStatus'
  BY ConfigsStep DEF StatusInv
<1>1. /\ TypeOK /\ TypeOK' /\ ConfigsInv /\ World /\ Requests
      /\ faults \subseteq faults' /\ now' >= now
  BY TypesStep, TypesAreParts, Onwards DEF StatusInv, ConfigsInv
<1>2. Raceless /\ Orderly /\ SoundStatus /\ Alone /\ Fresh
  BY <1>1 DEF Orderly, Raceless, StatusInv, ConfigsInv
<1>3. ASSUME UNCHANGED <<row, pc, local>>, "deleted" \in faults' <=> "deleted" \in faults
      PROVE  SoundStatus'
  <2>1. now \in Int /\ now' \in Int /\ row \in Config /\ row' = row
        /\ \A r \in Reqs : pc[r] \in Holding => cfg[r] \in Config
    BY <1>1, <1>3, ConfigFacts DEF TypeOK, Holding
  <2>2. Sound(row)'
    <3>1. ASSUME NEW c \in Config, Sound(c) PROVE Sound(c)'
      BY <1>1, <1>3, <2>1, <3>1, SoundLater
    <3>2. Sound(row)
      BY <1>2 DEF SoundStatus
    <3> QED BY <2>1, <3>1, <3>2 DEF Sound
  <2>3. ASSUME NEW r \in Reqs, Editor(r)', pc'[r] \in Holding PROVE Sound(cfg[r])'
    <3>1. Editor(r) /\ pc[r] \in Holding /\ cfg'[r] = cfg[r] /\ cfg[r] \in Config
      BY <1>3, <2>1, <2>3 DEF Editor, local
    <3>2. Sound(cfg[r])
      BY <1>2, <3>1 DEF SoundStatus
    <3>3. ASSUME NEW c \in Config, Sound(c) PROVE Sound(c)'
      BY <1>1, <1>3, <2>1, <3>3, SoundLater
    <3> QED BY <3>1, <3>2, <3>3 DEF Sound
  <2> QED BY <2>2, <2>3 DEF SoundStatus
<1>4. ASSUME NEW r \in Reqs, NEW k \in Requested, Begin(r, k) PROVE SoundStatus'
  <2>1. /\ pc' = [pc EXCEPT ![r] = "queryRedis"] /\ task' = [task EXCEPT ![r] = k]
        /\ UNCHANGED <<row, now, cfg>> /\ faults' = faults \cup Raced(k.kind)
    BY <1>4 DEF Begin, Goto, Note, configs, settings
  <2>2. "deleted" \in faults' <=> "deleted" \in faults
    BY <2>1 DEF Raced
  <2>3. Sound(row)'
    BY <1>2, <2>1, <2>2 DEF SoundStatus, Sound
  <2>4. ASSUME NEW q \in Reqs, Editor(q)', pc'[q] \in Holding PROVE Sound(cfg[q])'
    <3>1. q # r
      BY <1>1, <2>1, <2>4 DEF Requests, Holding
    <3> QED BY <1>1, <1>2, <2>1, <2>2, <2>4, <3>1 DEF Requests, Editor, SoundStatus, Sound
  <2> QED BY <2>3, <2>4 DEF SoundStatus
<1>5. ASSUME NEW r \in Reqs, Handle(r) PROVE SoundStatus'
  <2>1. Others(r) /\ UNCHANGED now
    <3>1. UNCHANGED settings
      BY <1>5
         DEF Handle, QueryRedisHit, QueryRedisMiss, QueryDB, Refill, RefillFails, AnswerQuery,
             UpdateActivity, UpdateActivityStatus, Refuse, SyncActivityRedis, SyncActivityDB,
             DeleteActivity, DeleteActivityRelativeRedis, Stop, UpdateUserSteps, SkipStats,
             UpdateUserRank, UpdateTeamUserRank, ModifyTeamSteps
    <3> QED BY <1>1, <1>5, <3>1, HandleAlone DEF settings
  <2>2. CASE QueryRedisHit(r)
    <3>1. /\ pc[r] = "queryRedis" /\ meta # Gone /\ cfg'[r] = meta /\ UNCHANGED <<row, faults>>
      BY <1>1, <2>2 DEF QueryRedisHit, Requests, configs
    <3>2. Editor(r) => \A q \in Reqs : pc[q] \notin {"syncDB", "expire"}
      BY <1>1, <1>2, <3>1 DEF Alone, ConfigsInv, Placed, Editor
    <3>3. Editor(r) => Sound(meta)
      BY <1>2, <3>1, <3>2 DEF Fresh, SameAs, SoundStatus, Sound
    <3> QED BY <1>1, <1>2, <2>1, <3>1, <3>3, StatusHandled DEF Sound
  <2>3. CASE QueryDB(r)
    <3>1. /\ pc[r] = "queryDB" /\ UNCHANGED row /\ faults \subseteq faults'
          /\ cfg'[r] = [row EXCEPT !.named = FALSE]
          /\ ("deleted" \in faults' <=> "deleted" \in faults)
      BY <1>1, <2>3 DEF QueryDB, Note, Requests, configs
    <3>2. Sound(cfg'[r])
      BY <1>1, <1>2, <3>1 DEF SoundStatus, Sound, World, Config
    <3> QED BY <1>1, <1>2, <2>1, <3>1, <3>2, StatusHandled DEF Sound
  <2>4. CASE UpdateActivity(r)
    <3>1. /\ pc[r] = "fetched" /\ UNCHANGED row /\ "postponed" \notin faults'
          /\ cfg'[r] = Modified(cfg[r], task[r].period[1], task[r].period[2])
          /\ task[r].kind = "update" /\ ("deleted" \in faults' <=> "deleted" \in faults)
      BY <1>1, <2>4 DEF UpdateActivity, Note, Requests, configs, Orderly
    <3>2. Sound(cfg[r]) /\ cfg[r] \in Config
      BY <1>1, <1>2, <3>1 DEF SoundStatus, Editor, Editing, Holding, TypeOK
    <3>3. Sound(cfg'[r])
      BY <1>1, <2>4, <3>1, <3>2, SoundModified
    <3> QED BY <1>1, <1>2, <2>1, <3>1, <3>3, StatusHandled DEF Sound
  <2>5. CASE UpdateActivityStatus(r)
    BY <2>5 DEF UpdateActivityStatus, Note, Orderly
  <2>6. CASE SyncActivityDB(r)
    <3>1. /\ pc[r] = "syncDB" /\ pc'[r] = "idle" /\ row' = cfg[r] /\ Editor(r)
          /\ ("deleted" \in faults' <=> "deleted" \in faults)
      BY <1>1, <2>6 DEF SyncActivityDB, Finish, Goto, Note, Requests, Editor, ConfigsInv, Placed
    <3>2. Sound(row)'
      BY <1>2, <2>1, <3>1 DEF SoundStatus, Holding, Sound
    <3>3. ASSUME NEW q \in Reqs, Editor(q)', pc'[q] \in Holding PROVE Sound(cfg[q])'
      BY <1>2, <2>1, <3>1, <3>3 DEF SoundStatus, Sound, Editor, Others
    <3> QED BY <3>2, <3>3 DEF SoundStatus
  <2>7. CASE DeleteActivity(r)
    <3>1. /\ pc[r] = "fetched" /\ pc'[r] = "expire" /\ Editor(r)
          /\ "deleted" \in faults' /\ row' = [row EXCEPT !.status = "stop"]
      BY <1>1, <2>7 DEF DeleteActivity, Goto, Note, Requests, Editor, Editing
    <3>2. Sound(row)'
      BY <1>1, <1>2, <3>1 DEF SoundStatus, Sound, World, Config
    <3>3. ASSUME NEW q \in Reqs, Editor(q)', pc'[q] \in Holding PROVE FALSE
      BY <1>2, <2>1, <3>1, <3>3 DEF Alone, Editor, Others, Holding
    <3> QED BY <3>2, <3>3 DEF SoundStatus
  <2>8. CASE Refill(r) \/ RefillFails(r) \/ SyncActivityRedis(r)
    <3>1. /\ pc[r] \in Holding /\ UNCHANGED <<row, cfg, task>> /\ pc[r] # "idle" /\ UNCHANGED faults
      BY <2>8 DEF Refill, RefillFails, SyncActivityRedis, local, configs, Holding
    <3> QED BY <1>1, <1>2, <2>1, <3>1, StatusHandled DEF SoundStatus, Sound
  <2>9. CASE \/ QueryRedisMiss(r) \/ AnswerQuery(r) \/ Refuse(r) \/ UpdateUserSteps(r)
             \/ SkipStats(r) \/ UpdateUserRank(r) \/ UpdateTeamUserRank(r) \/ ModifyTeamSteps(r)
             \/ DeleteActivityRelativeRedis(r) \/ Stop(r)
    <3>1. /\ pc[r] # "idle" /\ pc'[r] \notin Holding /\ UNCHANGED row
          /\ ("deleted" \in faults' <=> "deleted" \in faults)
      BY <1>1, <2>9
         DEF QueryRedisMiss, AnswerQuery, Refuse, UpdateUserSteps, SkipStats, UpdateUserRank,
             UpdateTeamUserRank, ModifyTeamSteps, DeleteActivityRelativeRedis, Stop, Finish, Goto,
             Note, Late, Requests, configs, Holding
    <3> QED BY <1>1, <1>2, <2>1, <3>1, StatusHandled
  <2> QED BY <1>5, <2>2, <2>3, <2>4, <2>5, <2>6, <2>7, <2>8, <2>9 DEF Handle
<1>6. CASE Snapshot
  <2>1. CASE UpdateSnapshotDb
    <3>1. UNCHANGED <<row, pc, local>> /\ ("deleted" \in faults' <=> "deleted" \in faults)
      BY <2>1 DEF UpdateSnapshotDb, Note
    <3> QED BY <1>3, <3>1
  <2>2. CASE SnapTeamUserRankFails
    <3>1. UNCHANGED <<row, pc, local>> /\ ("deleted" \in faults' <=> "deleted" \in faults)
      BY <2>2 DEF SnapTeamUserRankFails, Note, configs
    <3> QED BY <1>3, <3>1
  <2>3. CASE UNCHANGED <<configs, pc, local, faults>>
    BY <1>3, <2>3 DEF configs
  <2> QED
    BY <1>6, <2>1, <2>2, <2>3
       DEF Snapshot, QuerySnapshotActivity, FetchActivityUserRank, FetchActivityTeamRank, Fetch,
           FetchTeamUserRank, Dump, SnapshotFails
<1>7. CASE UNCHANGED vars \/ Tick \/ LoseMeta \/ \E u \in Users : Walk(u)
  <2>1. UNCHANGED <<row, pc, local, faults>>
    BY <1>7 DEF vars, Tick, LoseMeta, Walk, configs
  <2> QED BY <1>3, <2>1
<1> QED BY <1>4, <1>5, <1>6, <1>7 DEF Next

(* The status that is answered is the one of the clock, and "stop" once the *)
(* activity was deleted, unless requests raced, a state was set by hand or  *)
(* an activity that had ended was postponed (activity.go, fillActivity-     *)
(* Status, modifyActivityMobile, modifyActivityPlatform).                   *)
THEOREM ActivityStatus == Spec => []StatusByClock
<1>1. StatusInv => StatusByClock
  <2> SUFFICES ASSUME StatusInv, Orderly, Quiet, NEW c \in {row, meta} \ {Gone}
               PROVE  LET answer == FillActivityStatus(c)
                      IN  IF "deleted" \in faults THEN answer = "stop"
                          ELSE /\ c.start <= now /\ now < c.end => answer \in {"running", "draft"}
                               /\ c.end < now => answer \in {"expired", "draft"}
    BY DEF StatusByClock, Orderly, Raceless
  <2>1. ConfigsInv /\ SoundStatus /\ Raceless
    BY DEF StatusInv, Orderly
  <2>2. \A r \in Reqs : pc[r] \notin {"syncDB", "expire"}
    BY <2>1, EditorsAre DEF Quiet, ConfigsInv, Placed, Editor
  <2>3. Sound(c) /\ c \in Config
    BY <2>1, <2>2 DEF ConfigsInv, Fresh, SameAs, SoundStatus, Sound, TypeOK
  <2>4. c.start \in Int /\ c.end \in Int /\ now \in Int
    BY <2>1, <2>3, ConfigFacts DEF Config, ConfigsInv, TypeOK
  <2> QED BY <2>3, <2>4 DEF Sound, FillActivityStatus
<1> QED BY <1>1, StatusInit, StatusStep, PTL DEF Spec

-----------------------------------------------------------------------------
(* The copies. A copy that began after the end, and that nothing disturbed, *)
(* is of ranks that do not change any more: each place is still to be       *)
(* fetched, has been fetched as it is, or is in the history as it is.       *)

Undisturbed == faults \cap {"straddle", "late", "extended", "skipped"} = {}
ToFetch == {"fetchUsers", "users", "fetchTeams"}

Stage ==
  /\ snapshot = 1 => copier = "asleep"
  /\ copier = "mark" => info.teams = {}
  /\ copier = "teams" => info.teams = TeamsInUse

Ended ==
  /\ snapshot = 1 => now >= row.end
  /\ copier # "asleep" => info.end = row.end /\ (info.early \/ now >= row.end)

Pending ==
  /\ copier = "users" => \A u \in DOMAIN ranks : ranks[u] = userRank[u]
  /\ copier = "teams" => \A t \in DOMAIN ranks : ranks[t] = teamRank[t]
  /\ copier = "members" => \A u \in DOMAIN ranks : ranks[u] = inTeam[u]

UserWritten(u) ==
  \/ copier = "fetchUsers"
  \/ copier = "users" /\ u \in DOMAIN ranks
  \/ history.users[u] = userRank[u]
TeamWritten(t) ==
  \/ copier \in ToFetch
  \/ copier = "teams" /\ t \in DOMAIN ranks
  \/ history.teams[t] = teamRank[t]
MemberWritten(t, u) ==
  \/ copier \in ToFetch \/ t \in info.teams
  \/ copier = "members" /\ u \in DOMAIN ranks
  \/ history.members[u] = inTeam[u]

Written ==
  /\ \A u \in Users : UserWritten(u)
  /\ \A t \in TeamsInUse : TeamWritten(t)
  /\ \A t \in Teams : \A u \in Members(t) : MemberWritten(t, u)

CopyInv ==
  /\ TypeOK /\ Stage /\ FinalRanks
  /\ Undisturbed => Ended /\ (copier # "asleep" /\ ~info.early => Pending /\ Written)

(* It holds in the beginning.                                               *)
LEMMA CopyInit == Init => CopyInv
<1> SUFFICES ASSUME Init PROVE CopyInv
  OBVIOUS
<1>1. TypeOK
  BY InitTypes, TypesAreParts
<1>2. snapshot = 0 /\ copier = "asleep"
  BY DEF Init
<1> QED BY <1>1, <1>2 DEF CopyInv, Stage, FinalRanks, Ended

(* Nobody changes his team.                                                 *)
LEMMA TeamsSame ==
  ASSUME UNCHANGED teamOf
  PROVE  UNCHANGED TeamsInUse /\ \A t : UNCHANGED Members(t)
BY DEF TeamsInUse, Members

(* A step that changes neither the ranks nor the copies nor the end.        *)
LEMMA CopyAside ==
  ASSUME CopyInv, TypeOK', faults \subseteq faults', now' >= now,
         UNCHANGED <<teamOf, snapshot, boards, copying>>, row'.end = row.end
  PROVE  CopyInv'
<1>1. UNCHANGED <<copier, info, ranks, history, userRank, teamRank, inTeam>>
  BY DEF copying, boards
<1>2. Undisturbed' => Undisturbed
  BY DEF Undisturbed
<1>3. Stage'
  BY <1>1, TeamsSame DEF CopyInv, Stage
<1>4. FinalRanks'
  BY <1>1, <1>2, TeamsSame DEF CopyInv, FinalRanks, Undisturbed
<1>5. ASSUME Ended PROVE Ended'
  <2>1. now \in Int /\ now' \in Int /\ row.end \in Int
    BY ConfigFacts DEF CopyInv, TypeOK, Config
  <2> QED BY <1>1, <1>5, <2>1 DEF Ended
<1>6. Pending => Pending'
  BY <1>1 DEF Pending
<1>7. Written => Written'
  BY <1>1, TeamsSame DEF Written, UserWritten, TeamWritten, MemberWritten
<1> QED BY <1>1, <1>2, <1>3, <1>4, <1>5, <1>6, <1>7 DEF CopyInv

(* A rank changes: after the end, a copy that is being made or was made is  *)
(* disturbed by it.                                                         *)
LEMMA CopyLate ==
  ASSUME CopyInv, TypeOK', faults' = faults \cup Late,
         UNCHANGED <<now, teamOf, snapshot, copying, row>>
  PROVE  CopyInv'
<1>1. UNCHANGED <<copier, info, ranks, history>>
  BY DEF copying
<1>2. ASSUME Undisturbed'
      PROVE  /\ Undisturbed /\ Ended
             /\ ~(now >= row.end /\ (copier # "asleep" \/ snapshot = 1))
  BY <1>2 DEF Undisturbed, Late, CopyInv
<1>3. Stage'
  BY <1>1, TeamsSame DEF CopyInv, Stage
<1>4. ASSUME Undisturbed' PROVE snapshot # 1 /\ (copier # "asleep" => info.early) /\ Ended'
  BY <1>1, <1>2, <1>4 DEF Ended
<1>5. FinalRanks'
  BY <1>4 DEF FinalRanks, Undisturbed
<1> QED BY <1>1, <1>3, <1>4, <1>5 DEF CopyInv

(* The end is moved.                                                        *)
LEMMA CopyMoved ==
  ASSUME CopyInv, TypeOK', NEW r \in Reqs, SyncActivityDB(r)
  PROVE  CopyInv'
<1>1. /\ UNCHANGED <<now, teamOf, snapshot, boards, copying>> /\ row' = cfg[r]
      /\ faults' = faults \cup (IF cfg[r].end # row.end /\ (copier # "asleep" \/ snapshot = 1)
                               THEN {"extended"} ELSE {})
  BY DEF SyncActivityDB, settings, Note
<1>2. CASE row'.end = row.end
  <2>1. now' >= now
    BY <1>1, ConfigFacts DEF CopyInv, TypeOK
  <2> QED BY <1>1, <1>2, <2>1, CopyAside
<1>3. CASE row'.end # row.end
  <2>1. UNCHANGED <<copier, info, ranks, history, userRank, teamRank, inTeam>>
    BY <1>1 DEF copying, boards
  <2>2. ASSUME Undisturbed' PROVE copier = "asleep" /\ snapshot # 1
    BY <1>1, <1>3, <2>2 DEF Undisturbed
  <2>3. Stage'
    BY <1>1, <2>1, TeamsSame DEF CopyInv, Stage
  <2>4. FinalRanks'
    BY <1>1, <2>2 DEF FinalRanks, Undisturbed
  <2> QED BY <1>1, <2>1, <2>2, <2>3, <2>4 DEF CopyInv, Ended
<1> QED BY <1>2, <1>3

(* A step of a copy that goes on: what has been written stays, and what is  *)
(* new is what the ranks hold.                                              *)
LEMMA CopyGoesOn ==
  ASSUME CopyInv, TypeOK', copier # "asleep", copier' # "asleep", Stage',
         UNCHANGED <<now, teamOf, row, snapshot, boards, faults>>,
         info'.end = info.end, info'.early = info.early,
         Pending /\ Written => Pending' /\ Written'
  PROVE  CopyInv'
<1>1. Undisturbed' <=> Undisturbed
  BY DEF Undisturbed
<1>2. FinalRanks'
  BY DEF CopyInv, Stage, FinalRanks
<1>3. Ended => Ended'
  BY DEF Ended
<1> QED BY <1>1, <1>2, <1>3 DEF CopyInv

(* A rank is fetched as it is.                                              *)
LEMMA CopyFetches ==
  ASSUME CopyInv, TypeOK',
         \/ FetchActivityUserRank \/ FetchActivityTeamRank \/ \E t \in Teams : FetchTeamUserRank(t)
  PROVE  CopyInv'
<1> USE TeamsSame
<1>1. UNCHANGED <<now, teamOf, row, snapshot, boards, faults, history, userRank, teamRank, inTeam>>
  BY DEF FetchActivityUserRank, FetchActivityTeamRank, FetchTeamUserRank, Fetch, settings, configs, boards
<1>2. CASE FetchActivityUserRank
  <2>1. copier = "fetchUsers" /\ copier' = "users" /\ ranks' = userRank /\ UNCHANGED info
    BY <1>2 DEF FetchActivityUserRank, Fetch
  <2>2. DOMAIN userRank = Users
    BY DEF CopyInv, TypeOK
  <2>3. Pending' /\ Written'
    BY <1>1, <2>1, <2>2 DEF Pending, Written, UserWritten, TeamWritten, MemberWritten, ToFetch
  <2>4. Stage'
    BY <1>1, <2>1 DEF CopyInv, Stage
  <2> QED BY <1>1, <2>1, <2>3, <2>4, CopyGoesOn
<1>3. CASE FetchActivityTeamRank
  <2>1. /\ copier = "fetchTeams" /\ copier' = IF TeamsInUse = {} THEN "mark" ELSE "teams"
        /\ ranks' = [t \in TeamsInUse |-> teamRank[t]]
        /\ info' = [info EXCEPT !.teams = TeamsInUse]
    BY <1>3 DEF FetchActivityTeamRank, Fetch
  <2>2. info'.teams = TeamsInUse /\ info'.end = info.end /\ info'.early = info.early
    BY <2>1 DEF CopyInv, TypeOK
  <2>3. \A t \in Teams : \A u \in Members(t) : t \in TeamsInUse
    BY DEF Members, TeamsInUse
  <2>4. Pending'
    BY <1>1, <2>1 DEF Pending
  <2>5. Written => Written'
    BY <1>1, <2>1, <2>2, <2>3 DEF Written, UserWritten, TeamWritten, MemberWritten, ToFetch
  <2>6. Stage'
    BY <1>1, <2>1, <2>2 DEF CopyInv, Stage
  <2> QED BY <1>1, <2>1, <2>2, <2>4, <2>5, <2>6, CopyGoesOn
<1>4. ASSUME NEW t \in Teams, FetchTeamUserRank(t) PROVE CopyInv'
  <2>1. /\ copier = "fetchMembers" /\ copier' = "members"
        /\ ranks' = [u \in Members(t) |-> inTeam[u]]
        /\ info' = [info EXCEPT !.teams = @ \ {t}]
    BY <1>4 DEF FetchTeamUserRank, Fetch
  <2>2. info'.teams = info.teams \ {t} /\ info'.end = info.end /\ info'.early = info.early
    BY <2>1 DEF CopyInv, TypeOK
  <2>3. Pending'
    BY <1>1, <2>1 DEF Pending
  <2>4. Written => Written'
    BY <1>1, <2>1, <2>2 DEF Written, UserWritten, TeamWritten, MemberWritten, ToFetch
  <2>5. Stage'
    BY <1>1, <2>1 DEF CopyInv, Stage
  <2> QED BY <1>1, <2>1, <2>2, <2>3, <2>4, <2>5, CopyGoesOn
<1> QED BY <1>2, <1>3, <1>4

(* A place of it is written.                                                *)
LEMMA CopyDumps ==
  ASSUME CopyInv, TypeOK', NEW x \in Users \cup Teams, Dump(x)
  PROVE  CopyInv'
<1> USE TeamsSame
<1>1. /\ copier \in {"users", "teams", "members"} /\ x \in DOMAIN ranks
      /\ history' = [history EXCEPT ![copier][x] = ranks[x]]
      /\ DOMAIN ranks' = DOMAIN ranks \ {x}
      /\ \A y \in DOMAIN ranks' : ranks'[y] = ranks[y]
      /\ copier' = IF DOMAIN ranks = {x} THEN Following ELSE copier
      /\ UNCHANGED <<now, teamOf, row, snapshot, boards, info, faults, userRank, teamRank, inTeam>>
  BY DEF Dump, CopyInv, TypeOK, settings, configs, boards
<1>2. Following = IF copier = "users" THEN "fetchTeams"
                  ELSE IF info.teams = {} THEN "mark" ELSE "fetchMembers"
  BY DEF Following
<1>3. Stage'
  BY <1>1, <1>2 DEF CopyInv, Stage
<1>4. CASE copier = "users"
  <2>1. /\ history'.teams = history.teams /\ history'.members = history.members
        /\ x \in Users /\ history'.users = [history.users EXCEPT ![x] = ranks[x]]
    BY <1>1, <1>4 DEF CopyInv, TypeOK
  <2>2. Pending => Pending'
    BY <1>1, <1>2, <1>4 DEF Pending
  <2>3. ASSUME Pending, Written, NEW u \in Users PROVE UserWritten(u)'
    <3>1. CASE u = x
      BY <1>1, <1>4, <2>1, <2>3, <3>1 DEF Pending, UserWritten, CopyInv, TypeOK
    <3>2. CASE u # x
      BY <1>1, <1>4, <2>1, <2>3, <3>2 DEF Written, UserWritten, CopyInv, TypeOK
    <3> QED BY <3>1, <3>2
  <2>4. copier' \in ToFetch
    BY <1>1, <1>2, <1>4 DEF ToFetch
  <2>5. Pending /\ Written => Written'
    BY <1>1, <2>3, <2>4 DEF Written, TeamWritten, MemberWritten
  <2> QED BY <1>1, <1>2, <1>3, <1>4, <2>2, <2>5, CopyGoesOn
<1>5. CASE copier = "teams"
  <2>1. /\ history'.users = history.users /\ history'.members = history.members
        /\ x \in Teams /\ history'.teams = [history.teams EXCEPT ![x] = ranks[x]]
    BY <1>1, <1>5 DEF CopyInv, TypeOK
  <2>2. Pending => Pending'
    BY <1>1, <1>2, <1>5 DEF Pending
  <2>3. ASSUME Pending, Written, NEW t \in TeamsInUse PROVE TeamWritten(t)'
    <3>1. CASE t = x
      BY <1>1, <1>5, <2>1, <2>3, <3>1 DEF Pending, TeamWritten, CopyInv, TypeOK
    <3>2. CASE t # x
      BY <1>1, <1>5, <2>1, <2>3, <3>2 DEF Written, TeamWritten, CopyInv, TypeOK, ToFetch
    <3> QED BY <3>1, <3>2
  <2>4. ASSUME Written, NEW u \in Users PROVE UserWritten(u)'
    BY <1>1, <1>5, <2>1, <2>4 DEF Written, UserWritten
  <2>5. ASSUME NEW t \in Teams, NEW u \in Members(t) PROVE MemberWritten(t, u)'
    <3>1. t \in info.teams
      BY <1>5, <2>5 DEF CopyInv, Stage, TeamsInUse, Members
    <3> QED BY <1>1, <3>1 DEF MemberWritten
  <2>6. Pending /\ Written => Written'
    BY <1>1, <2>3, <2>4, <2>5 DEF Written
  <2> QED BY <1>1, <1>2, <1>3, <1>5, <2>2, <2>6, CopyGoesOn
<1>6. CASE copier = "members"
  <2>1. /\ history'.users = history.users /\ history'.teams = history.teams
        /\ x \in Users /\ history'.members = [history.members EXCEPT ![x] = ranks[x]]
    BY <1>1, <1>6 DEF CopyInv, TypeOK
  <2>2. Pending => Pending'
    BY <1>1, <1>2, <1>6 DEF Pending
  <2>3. ASSUME Pending, Written, NEW t \in Teams, NEW u \in Members(t) PROVE MemberWritten(t, u)'
    <3>0. u \in Users
      BY <2>3 DEF Members
    <3>1. CASE u = x
      BY <1>1, <1>6, <2>1, <2>3, <3>1 DEF Pending, MemberWritten, CopyInv, TypeOK
    <3>2. CASE u # x
      BY <1>1, <1>6, <2>1, <2>3, <3>0, <3>2 DEF Written, MemberWritten, CopyInv, TypeOK, ToFetch
    <3> QED BY <3>1, <3>2
  <2>4. ASSUME Written, NEW u \in Users PROVE UserWritten(u)'
    BY <1>1, <1>6, <2>1, <2>4 DEF Written, UserWritten
  <2>5. ASSUME Written, NEW t \in TeamsInUse PROVE TeamWritten(t)'
    BY <1>1, <1>6, <2>1, <2>5 DEF Written, TeamWritten, ToFetch
  <2>6. Pending /\ Written => Written'
    BY <1>1, <2>3, <2>4, <2>5 DEF Written
  <2> QED BY <1>1, <1>2, <1>3, <1>6, <2>2, <2>6, CopyGoesOn
<1> QED BY <1>1, <1>4, <1>5, <1>6

(* The activity is marked when its time is over; nothing is left to copy.   *)
LEMMA CopyMarks ==
  ASSUME CopyInv, TypeOK', UpdateSnapshotDb
  PROVE  CopyInv'
<1>1. /\ copier = "mark" /\ copier' = "asleep"
      /\ UNCHANGED <<now, teamOf, row, history, userRank, teamRank, inTeam>>
      /\ \/ UNCHANGED <<snapshot, faults>>
         \/ /\ now >= info.end /\ snapshot' = 1
            /\ faults' = faults \cup (IF info.early THEN {"straddle"} ELSE {})
  <2>1. now \in Int /\ info.end \in Int
    BY ConfigFacts DEF CopyInv, TypeOK
  <2> QED BY <2>1 DEF UpdateSnapshotDb, Note, Sleep, settings, boards
<1>2. Undisturbed' => Undisturbed /\ Ended
  BY <1>1 DEF Undisturbed, CopyInv
<1>3. Stage'
  BY <1>1 DEF Stage
<1>4. ASSUME Undisturbed' PROVE Ended'
  BY <1>1, <1>2, <1>4 DEF Ended
<1>5. ASSUME Undisturbed', snapshot' = 1
      PROVE  /\ history.users = userRank
             /\ \A t \in TeamsInUse : history.teams[t] = teamRank[t]
             /\ \A t \in Teams : \A u \in Members(t) : history.members[u] = inTeam[u]
  <2>1. snapshot # 1
    BY <1>1 DEF CopyInv, Stage
  <2>2. ~info.early
    BY <1>1, <1>5, <2>1 DEF Undisturbed
  <2>3. Written /\ info.teams = {}
    BY <1>1, <1>2, <1>5, <2>2 DEF CopyInv, Stage
  <2>4. \A u \in Users : history.users[u] = userRank[u]
    BY <1>1, <2>3 DEF Written, UserWritten
  <2>5. history.users = userRank
    <3>1. userRank \in [Users -> 0 .. MaxSteps] /\ history.users \in [Users -> Nat \cup {Gone}]
      BY DEF CopyInv, TypeOK
    <3> QED BY <2>4, <3>1
  <2> QED BY <1>1, <2>3, <2>5 DEF Written, TeamWritten, MemberWritten, ToFetch
<1>6. FinalRanks'
  BY <1>1, <1>5, TeamsSame DEF FinalRanks, Undisturbed
<1> QED BY <1>1, <1>3, <1>4, <1>6 DEF CopyInv

(* Every step of the copying process.                                       *)
LEMMA CopySnapshot ==
  ASSUME CopyInv, TypeOK', Snapshot
  PROVE  CopyInv'
<1>1. CASE QuerySnapshotActivity
  <2>1. /\ snapshot = 0 /\ copier' = "fetchUsers"
        /\ info' = [end |-> row.end, early |-> now < row.end, teams |-> {}]
        /\ UNCHANGED <<now, row, snapshot, faults>>
    BY <1>1 DEF QuerySnapshotActivity, settings, configs
  <2>2. now \in Int /\ row.end \in Int
    BY ConfigFacts DEF CopyInv, TypeOK, Config
  <2>3. info'.end = row'.end /\ (info'.early <=> now < row.end)
    BY <2>1
  <2>4. Ended'
    BY <2>1, <2>2, <2>3 DEF Ended
  <2>5. Stage' /\ FinalRanks'
    BY <2>1 DEF Stage, FinalRanks
  <2>6. Pending'
    BY <2>1 DEF Pending
  <2>7. Written'
    BY <2>1 DEF Written, UserWritten, TeamWritten, MemberWritten, ToFetch
  <2> QED BY <2>4, <2>5, <2>6, <2>7 DEF CopyInv
<1>2. CASE SnapshotFails
  <2>1. snapshot # 1 /\ copier' = "asleep" /\ UNCHANGED snapshot
    BY <1>2 DEF SnapshotFails, Sleep, configs, CopyInv, Stage
  <2> QED BY <2>1 DEF CopyInv, Stage, Ended, FinalRanks
<1>3. CASE SnapTeamUserRankFails
  <2>1. /\ copier # "asleep" /\ UNCHANGED snapshot /\ "skipped" \in faults'
        /\ copier' # "teams" /\ (copier' = "mark" => info'.teams = {})
    BY <1>3 DEF SnapTeamUserRankFails, Note, Following, configs, CopyInv, TypeOK
  <2>2. Stage'
    BY <2>1 DEF CopyInv, Stage
  <2> QED BY <2>1, <2>2 DEF CopyInv, Undisturbed, FinalRanks
<1> QED BY <1>1, <1>2, <1>3, CopyFetches, CopyDumps, CopyMarks DEF Snapshot

(* Every step keeps it.                                                     *)
LEMMA CopyStep == CopyInv /\ [Next]_vars => CopyInv'
<1> SUFFICES ASSUME CopyInv, [Next]_vars PROVE CopyInv'
  OBVIOUS
<1>1. TypeOK /\ TypeOK' /\ faults \subseteq faults' /\ now' >= now /\ UNCHANGED teamOf
  BY TypesStep, Onwards DEF CopyInv
<1>2. CASE Snapshot
  BY <1>1, <1>2, CopySnapshot
<1>3. CASE UNCHANGED <<snapshot, boards, copying, row>>
  BY <1>1, <1>3, CopyAside
<1>4. CASE UNCHANGED vars \/ Tick \/ LoseMeta \/ \E u \in Users : Walk(u)
  BY <1>3, <1>4 DEF vars, Tick, LoseMeta, Walk, configs
<1>5. ASSUME NEW r \in Reqs, NEW k \in Requested, Begin(r, k) PROVE CopyInv'
  BY <1>3, <1>5 DEF Begin, configs
<1>6. ASSUME NEW r \in Reqs, Handle(r) PROVE CopyInv'
  <2>1. CASE SyncActivityDB(r)
    BY <1>1, <2>1, CopyMoved
  <2>2. CASE DeleteActivity(r)
    <3>1. /\ UNCHANGED <<snapshot, boards, copying>> /\ row' = [row EXCEPT !.status = "stop"]
      BY <2>2 DEF DeleteActivity
    <3>2. row'.end = row.end
      BY <1>1, <3>1 DEF TypeOK, Config
    <3> QED BY <1>1, <3>1, <3>2, CopyAside
  <2>3. CASE UpdateUserRank(r) \/ UpdateTeamUserRank(r) \/ ModifyTeamSteps(r)
    <3>1. faults' = faults \cup Late /\ UNCHANGED <<now, teamOf, snapshot, copying, row>>
      BY <2>3 DEF UpdateUserRank, UpdateTeamUserRank, ModifyTeamSteps, Note, settings, configs
    <3> QED BY <1>1, <3>1, CopyLate
  <2>4. CASE \/ QueryRedisHit(r) \/ QueryRedisMiss(r) \/ QueryDB(r) \/ Refill(r) \/ RefillFails(r)
             \/ AnswerQuery(r) \/ UpdateActivity(r) \/ UpdateActivityStatus(r) \/ Refuse(r)
             \/ SyncActivityRedis(r) \/ DeleteActivityRelativeRedis(r) \/ Stop(r)
             \/ UpdateUserSteps(r) \/ SkipStats(r)
    BY <1>3, <2>4
       DEF QueryRedisHit, QueryRedisMiss, QueryDB, Refill, RefillFails, AnswerQuery, UpdateActivity,
           UpdateActivityStatus, Refuse, SyncActivityRedis, DeleteActivityRelativeRedis, Stop,
           UpdateUserSteps, SkipStats, configs
  <2> QED BY <1>6, <2>1, <2>2, <2>3, <2>4 DEF Handle
<1> QED BY <1>2, <1>4, <1>5, <1>6 DEF Next

(* The copy of an activity that is marked after its end is that of its      *)
(* ranks, unless it began before the end, a request that was on its way     *)
(* changed a rank, the end was moved or an error was dropped (snapshot.go,  *)
(* Snapshot and what it calls).                                             *)
THEOREM ActivityFinalRanks == Spec => []FinalRanks
<1>1. CopyInv => FinalRanks
  BY DEF CopyInv
<1> QED BY <1>1, CopyInit, CopyStep, PTL DEF Spec

=============================================================================
