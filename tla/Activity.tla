------------------------------ MODULE Activity ------------------------------
(* One activity: its configuration, kept in Redis and in t_activity_info,   *)
(* its status, which is derived from the clock whenever it is read, and the *)
(* process that copies its ranks from Redis to the history tables, again    *)
(* and again until the activity has ended. Requests change the              *)
(* configuration, stop the activity, refill a lost copy of the              *)
(* configuration and bring new steps into the ranks, call by call.          *)
EXTENDS Integers, FiniteSets

CONSTANTS Users, Teams,
          NoTeam,        \* the team of a user without one
          Gone,          \* a field that is not in Redis, a row that is not in the table
          Reqs,          \* request goroutines and workers of the delay set
          Edits,         \* the periods <<start, end>> that updates ask for
          Statuses,      \* the states that UpdateActivityState asks for
          Focuses,       \* "all", or only "edits" or only "ranks" (bound)
          Period,        \* the period the activity is created with
          Day,           \* the hours a day has, as far as told apart
          MaxTime,       \* the last hour (bound)
          MaxSteps,      \* what a user can walk (bound)
          MaxRequests,   \* requests altogether (bound)
          MaxFails       \* failed calls and crashes altogether (bound)

Status == {"draft", "ready", "running", "expired", "stop", "suspend"}
Time == 0 .. MaxTime

ASSUME ConstantsAssumption ==
  /\ NoTeam \notin Teams /\ Users # {} /\ IsFiniteSet(Users) /\ IsFiniteSet(Teams)
  /\ Edits \cup {Period} \subseteq {p \in Time \X Time : p[1] < p[2]}
  /\ Statuses \subseteq Status /\ Focuses \subseteq {"all", "edits", "ranks"}
  /\ Day \in Nat \ {0} /\ MaxTime \in Nat /\ MaxSteps \in Nat
  /\ MaxRequests \in Nat /\ MaxFails \in Nat
  /\ Gone \notin [status : Status, start : Time, end : Time, named : BOOLEAN] \cup Nat

VARIABLES
  now,       \* the clock
  type,      \* "platform" or "mobile": who created the activity
  teamOf,    \* the team each user is in
  focus,     \* what happens to the activity: everything, or not the copies of its
             \* ranks, or only moves of its end, its steps and those copies, with
             \* one request at a time (bound)
  row,       \* the row of t_activity_info
  snapshot,  \* its column f_snapshot
  meta,      \* the configuration in Redis
  walked,    \* the steps each user has brought, as stepmgr counts them
  stored,    \* the steps activitymgr has stored for him
  userRank,  \* the step rank of the activity
  teamRank,  \* the team rank of the activity
  inTeam,    \* the rank of each user within his team
  pc,        \* pc[r]: where request r is
  task,      \* task[r]: what it does
  at,        \* at[r]: the time it read when it began
  cfg,       \* cfg[r]: the configuration it works on
  steps,     \* steps[r]: the steps of the user, and by how much they grew
  copier,    \* where the copying process is
  info,      \* the activity as it has read it, and the teams it has not copied
  ranks,     \* the rank it has fetched and not yet written
  history,   \* the history tables: one per rank
  counts,    \* how many requests and failures there have been
  faults     \* what has happened so far that the properties tell apart (history)

settings == <<now, type, teamOf, focus>>
configs == <<row, snapshot, meta>>
userSteps == <<walked, stored>>
boards == <<userRank, teamRank, inTeam>>
local == <<task, at, cfg, steps>>
copying == <<copier, info, ranks, history>>
vars == <<settings, configs, userSteps, boards, pc, local, copying, counts, faults>>

Config == [status : Status, start : Time, end : Time, named : BOOLEAN]
TeamsInUse == {t \in Teams : \E u \in Users : teamOf[u] = t}
Members(t) == {u \in Users : teamOf[u] = t}

Task == [kind : {"query", "delete"}] \cup [kind : {"stats"}, user : Users]
          \cup [kind : {"update"}, period : Edits] \cup [kind : {"status"}, status : Statuses]
Requested ==
  {k \in Task : CASE focus = "all" -> TRUE
                  [] focus = "edits" -> k.kind # "stats"
                  [] focus = "ranks" -> \/ k.kind = "stats"
                                        \/ k.kind = "update" /\ k.period[1] = Period[1]}
Editing == {"update", "status", "delete"}
Busy == {r \in Reqs : pc[r] # "idle"}
Editors == {r \in Busy : task[r].kind \in Editing}
NoInfo == [end |-> 0, early |-> FALSE, teams |-> {}]
NoSteps == [total |-> 0, delta |-> 0]

(* makeActivity: only an activity created on a phone has to be paid first.  *)
Created == [status |-> IF type = "mobile" THEN "draft" ELSE "ready",
            start |-> Period[1], end |-> Period[2], named |-> TRUE]

Init ==
  /\ now = 0 /\ type \in {"platform", "mobile"}
  /\ teamOf \in [Users -> Teams \cup {NoTeam}]
  /\ focus \in Focuses /\ (focus = "ranks" => type = "platform")
  /\ row = Created /\ snapshot = 0 /\ meta = Created
  /\ walked = [u \in Users |-> 0] /\ stored = walked
  /\ userRank = walked /\ teamRank = [t \in Teams |-> 0] /\ inTeam = walked
  /\ pc = [r \in Reqs |-> "idle"] /\ task = [r \in Reqs |-> [kind |-> "query"]]
  /\ at = [r \in Reqs |-> 0] /\ cfg = [r \in Reqs |-> Gone]
  /\ steps = [r \in Reqs |-> NoSteps]
  /\ copier = "asleep" /\ info = NoInfo /\ ranks = <<>>
  /\ history = [users |-> [u \in Users |-> Gone], teams |-> [t \in Teams |-> Gone],
                members |-> [u \in Users |-> Gone]]
  /\ counts = [requests |-> 0, fails |-> 0]
  /\ faults = {}

Goto(r, label) == pc' = [pc EXCEPT ![r] = label]
Note(fs) == faults' = faults \cup fs
MayFail == counts.fails < MaxFails
Failing == MayFail /\ counts' = [counts EXCEPT !.fails = @ + 1]

(* Mutant: the goroutine keeps the configuration it has read. *)
Finish_KeepsConfig(r) ==
  /\ Goto(r, "idle")
  /\ task' = [task EXCEPT ![r] = [kind |-> "query"]]
  /\ at' = [at EXCEPT ![r] = 0]
  /\ steps' = [steps EXCEPT ![r] = NoSteps]
  /\ UNCHANGED cfg

(* The request is over and its goroutine free. *)
Finish(r) ==
  /\ Goto(r, "idle")
  /\ task' = [task EXCEPT ![r] = [kind |-> "query"]]
  /\ at' = [at EXCEPT ![r] = 0]
  /\ cfg' = [cfg EXCEPT ![r] = Gone]
  /\ steps' = [steps EXCEPT ![r] = NoSteps]

-----------------------------------------------------------------------------
(* The environment.                                                         *)

Tick ==
  /\ now < MaxTime
  /\ now' = now + 1
  /\ UNCHANGED <<type, teamOf, focus, configs, userSteps, boards, pc, local, copying, counts, faults>>

(* The steps of the days of the activity: a report may also be smaller than *)
(* the one before.                                                          *)
Walk(u) ==
  /\ focus # "edits" /\ row.start <= now /\ now <= row.end
  /\ \E n \in (0 .. MaxSteps) \ {walked[u]} : walked' = [walked EXCEPT ![u] = n]
  /\ UNCHANGED <<settings, configs, stored, boards, pc, local, copying, counts, faults>>

(* Redis loses the configuration. *)
LoseMeta ==
  /\ focus # "ranks" /\ meta # Gone /\ Failing
  /\ meta' = Gone
  /\ UNCHANGED <<settings, row, snapshot, userSteps, boards, pc, local, copying, faults>>

-----------------------------------------------------------------------------
(* Reading the configuration.                                               *)

(* Two edits that overlap, and an edit that begins while a reader is about  *)
(* to refill what it has read, are told apart. *)
Raced(kind) ==
  IF kind \in Editing
  THEN (IF Editors # {} THEN {"overlap"} ELSE {})
         \cup (IF \E q \in Busy : pc[q] = "refill" THEN {"refill"} ELSE {})
  ELSE {}

Begin(r, k) ==
  /\ pc[r] = "idle" /\ counts.requests < MaxRequests
  /\ focus = "ranks" => r = CHOOSE q \in Reqs : TRUE
  /\ counts' = [counts EXCEPT !.requests = @ + 1]
  /\ task' = [task EXCEPT ![r] = k]
  /\ at' = [at EXCEPT ![r] = IF k.kind \in {"stats", "update"} THEN now ELSE 0]
  /\ Goto(r, "queryRedis")
  /\ Note(Raced(k.kind))
  /\ UNCHANGED <<settings, configs, userSteps, boards, cfg, steps, copying>>

QueryRedisHit(r) ==
  /\ pc[r] = "queryRedis" /\ meta # Gone
  /\ cfg' = [cfg EXCEPT ![r] = meta]
  /\ Goto(r, "fetched")
  /\ UNCHANGED <<settings, configs, userSteps, boards, task, at, steps, copying, counts, faults>>

(* Nothing there, or Redis does not answer: the table is asked. *)
QueryRedisMiss(r) ==
  /\ pc[r] = "queryRedis"
  /\ IF meta = Gone THEN UNCHANGED counts ELSE focus # "ranks" /\ Failing
  /\ Goto(r, "queryDB")
  /\ UNCHANGED <<settings, configs, userSteps, boards, local, copying, faults>>

(* The statement does not select the name and the logo of the organisation. *)
QueryDB(r) ==
  /\ pc[r] = "queryDB"
  /\ cfg' = [cfg EXCEPT ![r] = [row EXCEPT !.named = FALSE]]
  /\ Goto(r, "refill")
  /\ Note(IF Editors \ {r} = {} THEN {} ELSE {"refill"})
  /\ UNCHANGED <<settings, configs, userSteps, boards, task, at, steps, copying, counts>>

Refill(r) ==
  /\ pc[r] = "refill"
  /\ meta' = cfg[r]
  /\ Goto(r, "fetched")
  /\ UNCHANGED <<settings, row, snapshot, userSteps, boards, local, copying, counts, faults>>

RefillFails(r) ==
  /\ pc[r] = "refill" /\ Failing
  /\ Goto(r, "fetched")
  /\ UNCHANGED <<settings, configs, userSteps, boards, local, copying, faults>>

(* The status as it is answered. *)
FillActivityStatus(c) ==
  IF c.status \in {"draft", "expired", "stop", "suspend"} THEN c.status
  ELSE IF c.start > now THEN "ready"
  ELSE IF c.end < now THEN "expired" ELSE "running"

AnswerQuery(r) ==
  /\ pc[r] = "fetched" /\ task[r].kind = "query"
  /\ Finish(r)
  /\ UNCHANGED <<settings, configs, userSteps, boards, copying, counts, faults>>

-----------------------------------------------------------------------------
(* Changing the configuration.                                              *)

(* The checks of UpdateActivity before it changes anything. *)
MayModify(r) ==
  LET start == task[r].period[1]
      end == task[r].period[2]
  IN \/ end >= now /\ (type = "mobile" => at[r] <= cfg[r].start \/ start = cfg[r].start)
     \/ type = "mobile" /\ FillActivityStatus(cfg[r]) \in {"draft", "ready"}

(* Mutant: an activity that has ended stays so when its end is moved. *)
Modified_Expired(c, start, end) ==
  [c EXCEPT !.start = start, !.end = end, !.status = FillActivityStatus(c)]

(* modifyActivityMobile and modifyActivityPlatform: the new period, and an  *)
(* activity that had ended runs again.                                      *)
Modified(c, start, end) ==
  LET status == FillActivityStatus(c)
  IN [c EXCEPT !.start = start, !.end = end,
               !.status = IF status = "expired" /\ end > now /\ start < now
                          THEN "running" ELSE status]

(* An activity that had ended and is to start later stays ended for good. *)
Postponed(c, start) == FillActivityStatus(c) = "expired" /\ start >= now

UpdateActivity(r) ==
  /\ pc[r] = "fetched" /\ task[r].kind = "update" /\ MayModify(r)
  /\ cfg' = [cfg EXCEPT ![r] = Modified(@, task[r].period[1], task[r].period[2])]
  /\ Goto(r, "syncRedis")
  /\ Note(IF Postponed(cfg[r], task[r].period[1]) THEN {"postponed"} ELSE {})
  /\ UNCHANGED <<settings, configs, userSteps, boards, task, at, steps, copying, counts>>

UpdateActivityStatus(r) ==
  /\ pc[r] = "fetched" /\ task[r].kind = "status"
  /\ cfg' = [cfg EXCEPT ![r].status = task[r].status]
  /\ Goto(r, "syncRedis")
  /\ Note({"manual"})
  /\ UNCHANGED <<settings, configs, userSteps, boards, task, at, steps, copying, counts>>

(* An activity of a phone is deleted while it is a draft, and none that has *)
(* a team.                                                                  *)
MayDelete(r) ==
  /\ type = "mobile" => FillActivityStatus(cfg[r]) = "draft"
  /\ TeamsInUse = {}

(* The checks fail, or it is not the creator who asks. *)
Refuse(r) ==
  /\ pc[r] = "fetched" /\ task[r].kind \in {"update", "delete"}
  /\ Finish(r)
  /\ UNCHANGED <<settings, configs, userSteps, boards, copying, counts, faults>>

SyncActivityRedis(r) ==
  /\ pc[r] = "syncRedis"
  /\ meta' = cfg[r]
  /\ Goto(r, "syncDB")
  /\ UNCHANGED <<settings, row, snapshot, userSteps, boards, local, copying, counts, faults>>

(* Moving the end while or after the ranks are copied leaves f_snapshot. *)
SyncActivityDB(r) ==
  /\ pc[r] = "syncDB"
  /\ row' = cfg[r]
  /\ Note(IF cfg[r].end # row.end /\ (copier # "asleep" \/ snapshot = 1)
          THEN {"extended"} ELSE {})
  /\ Finish(r)
  /\ UNCHANGED <<settings, snapshot, meta, userSteps, boards, copying, counts>>

DeleteActivity(r) ==
  /\ pc[r] = "fetched" /\ task[r].kind = "delete" /\ MayDelete(r)
  /\ row' = [row EXCEPT !.status = "stop"]
  /\ Goto(r, "expire")
  /\ Note({"deleted"})
  /\ UNCHANGED <<settings, snapshot, meta, userSteps, boards, local, copying, counts>>

(* Mutant: the configuration stays in Redis. *)
DeleteActivityRelativeRedis_Kept(r) ==
  /\ pc[r] = "expire"
  /\ Finish(r)
  /\ UNCHANGED <<settings, configs, userSteps, boards, copying, counts, faults>>

DeleteActivityRelativeRedis(r) ==
  /\ pc[r] = "expire"
  /\ meta' = Gone
  /\ Finish(r)
  /\ UNCHANGED <<settings, row, snapshot, userSteps, boards, copying, counts, faults>>

(* A call fails or the process stops: nothing is undone. *)
Stop(r) ==
  /\ pc[r] # "idle" /\ Failing
  /\ Finish(r)
  /\ Note(IF pc[r] \in {"syncDB", "expire"} THEN {"stop"} ELSE {})
  /\ UNCHANGED <<settings, configs, userSteps, boards, copying>>

-----------------------------------------------------------------------------
(* New steps in the ranks: updateActivityRankStats.                         *)

InPeriod(r) == cfg[r].start <= at[r] /\ at[r] <= cfg[r].end
Team(r) == teamOf[task[r].user]

(* A rank that changes once the end has come, when the copy is being made   *)
(* or was made.                                                             *)
Late == IF now >= row.end /\ (copier # "asleep" \/ snapshot = 1) THEN {"late"} ELSE {}

(* Fewer steps than before go to the ranks, but are not taken off the sums. *)
UpdateUserSteps(r) ==
  /\ pc[r] = "fetched" /\ task[r].kind = "stats" /\ InPeriod(r)
  /\ LET u == task[r].user
         delta == IF walked[u] < stored[u] THEN 0 ELSE walked[u] - stored[u]
     IN /\ steps' = [steps EXCEPT ![r] = [total |-> walked[u], delta |-> delta]]
        /\ stored' = [stored EXCEPT ![u] = walked[u]]
  /\ Goto(r, "userRank")
  /\ UNCHANGED <<settings, configs, walked, boards, task, at, cfg, copying, counts, faults>>

SkipStats(r) ==
  /\ pc[r] = "fetched" /\ task[r].kind = "stats" /\ ~InPeriod(r)
  /\ Finish(r)
  /\ UNCHANGED <<settings, configs, userSteps, boards, copying, counts, faults>>

UpdateUserRank(r) ==
  /\ pc[r] = "userRank"
  /\ userRank' = [userRank EXCEPT ![task[r].user] = steps[r].total]
  /\ Note(Late)
  /\ IF Team(r) = NoTeam THEN Finish(r) ELSE Goto(r, "inTeam") /\ UNCHANGED local
  /\ UNCHANGED <<settings, configs, userSteps, teamRank, inTeam, copying, counts>>

UpdateTeamUserRank(r) ==
  /\ pc[r] = "inTeam"
  /\ inTeam' = [inTeam EXCEPT ![task[r].user] = steps[r].total]
  /\ Note(Late)
  /\ Goto(r, "teamRank")
  /\ UNCHANGED <<settings, configs, userSteps, userRank, teamRank, local, copying, counts>>

ModifyTeamSteps(r) ==
  /\ pc[r] = "teamRank"
  /\ teamRank' = [teamRank EXCEPT ![Team(r)] = @ + steps[r].delta]
  /\ Note(Late)
  /\ Finish(r)
  /\ UNCHANGED <<settings, configs, userSteps, userRank, inTeam, copying, counts>>

-----------------------------------------------------------------------------
(* Copying the ranks: the loop of Snapshot, which one process runs.         *)

(* Mutant: an activity that has ended is not looked at any more. *)
QuerySnapshotActivity_Running ==
  /\ focus # "edits" /\ copier = "asleep"
  /\ row.start <= now /\ row.end >= now /\ snapshot = 0
  /\ info' = [end |-> row.end, early |-> now < row.end, teams |-> {}]
  /\ copier' = "fetchUsers"
  /\ UNCHANGED <<settings, configs, userSteps, boards, pc, local, ranks, history, counts, faults>>

(* Activities that have started, ended less than a day ago and are not      *)
(* marked. *)
QuerySnapshotActivity ==
  /\ focus # "edits" /\ copier = "asleep"
  /\ row.start <= now /\ row.end >= now - Day /\ snapshot = 0
  /\ info' = [end |-> row.end, early |-> now < row.end, teams |-> {}]
  /\ copier' = "fetchUsers"
  /\ UNCHANGED <<settings, configs, userSteps, boards, pc, local, ranks, history, counts, faults>>

(* One command fetches a rank. *)
Fetch(rank, label) ==
  /\ ranks' = rank
  /\ copier' = label
  /\ UNCHANGED <<settings, configs, userSteps, boards, pc, local, history, counts, faults>>

FetchActivityUserRank ==
  copier = "fetchUsers" /\ Fetch(userRank, "users") /\ UNCHANGED info
FetchActivityTeamRank ==
  /\ copier = "fetchTeams"
  /\ Fetch([t \in TeamsInUse |-> teamRank[t]], IF TeamsInUse = {} THEN "mark" ELSE "teams")
  /\ info' = [info EXCEPT !.teams = TeamsInUse]
FetchTeamUserRank(t) ==
  /\ copier = "fetchMembers" /\ t \in info.teams
  /\ Fetch([u \in Members(t) |-> inTeam[u]], "members")
  /\ info' = [info EXCEPT !.teams = @ \ {t}]

(* What follows when a rank is written. *)
Following ==
  IF copier = "users" THEN "fetchTeams"
  ELSE IF info.teams = {} THEN "mark" ELSE "fetchMembers"

(* Mutant: the row of the last place is not written. *)
Dump_Short(x) ==
  /\ copier \in DOMAIN history /\ x \in DOMAIN ranks
  /\ ranks' = [y \in DOMAIN ranks \ {x} |-> ranks[y]]
  /\ IF DOMAIN ranks = {x} THEN copier' = Following /\ UNCHANGED history
     ELSE /\ history' = [history EXCEPT ![copier][x] = ranks[x]]
          /\ UNCHANGED copier
  /\ UNCHANGED <<settings, configs, userSteps, boards, pc, local, info, counts, faults>>

(* A statement writes a row of the rank, in the order of a Go map. *)
Dump(x) ==
  /\ copier \in DOMAIN history /\ x \in DOMAIN ranks
  /\ history' = [history EXCEPT ![copier][x] = ranks[x]]
  /\ ranks' = [y \in DOMAIN ranks \ {x} |-> ranks[y]]
  /\ copier' = IF DOMAIN ranks = {x} THEN Following ELSE copier
  /\ UNCHANGED <<settings, configs, userSteps, boards, pc, local, info, counts, faults>>

Sleep == copier' = "asleep" /\ info' = NoInfo /\ ranks' = <<>>

(* A call for the ranks of the activity fails, or the process stops: the    *)
(* activity has to wait for the next round. *)
SnapshotFails ==
  /\ copier # "asleep" /\ Failing
  /\ Sleep
  /\ UNCHANGED <<settings, configs, userSteps, boards, pc, local, history, faults>>

(* A call for the members of a team fails: the error is dropped, and so is  *)
(* what is left of the team. *)
SnapTeamUserRankFails ==
  /\ \/ /\ copier = "fetchMembers"
        /\ \E t \in info.teams :
             /\ info' = [info EXCEPT !.teams = @ \ {t}]
             /\ copier' = IF info.teams = {t} THEN "mark" ELSE copier
     \/ copier = "members" /\ copier' = Following /\ UNCHANGED info
  /\ Failing
  /\ ranks' = <<>>
  /\ Note({"skipped"})
  /\ UNCHANGED <<settings, configs, userSteps, boards, pc, local, history>>

(* The mark depends on the time it is now, not on the time the copy began. *)
UpdateSnapshotDb ==
  /\ copier = "mark"
  /\ IF now < info.end THEN UNCHANGED <<snapshot, faults>>
     ELSE /\ snapshot' = 1
          /\ Note(IF info.early THEN {"straddle"} ELSE {})
  /\ Sleep
  /\ UNCHANGED <<settings, row, meta, userSteps, boards, pc, local, history, counts>>

-----------------------------------------------------------------------------
Handle(r) ==
  \/ QueryRedisHit(r) \/ QueryRedisMiss(r) \/ QueryDB(r) \/ Refill(r) \/ RefillFails(r)
  \/ AnswerQuery(r)
  \/ UpdateActivity(r) \/ UpdateActivityStatus(r) \/ Refuse(r)
  \/ SyncActivityRedis(r) \/ SyncActivityDB(r)
  \/ DeleteActivity(r) \/ DeleteActivityRelativeRedis(r) \/ Stop(r)
  \/ UpdateUserSteps(r) \/ SkipStats(r)
  \/ UpdateUserRank(r) \/ UpdateTeamUserRank(r) \/ ModifyTeamSteps(r)

Snapshot ==
  \/ QuerySnapshotActivity \/ FetchActivityUserRank \/ FetchActivityTeamRank
  \/ \E t \in Teams : FetchTeamUserRank(t)
  \/ \E x \in Users \cup Teams : Dump(x)
  \/ SnapshotFails \/ SnapTeamUserRankFails \/ UpdateSnapshotDb

Next ==
  \/ Tick \/ LoseMeta \/ \E u \in Users : Walk(u)
  \/ \E r \in Reqs : (\E k \in Requested : Begin(r, k)) \/ Handle(r)
  \/ Snapshot

Spec == Init /\ [][Next]_vars

(* The copying process is never stopped for good: Snapshot loops for ever,  *)
(* and a process that dies is started again.                                *)
FairSpec == Spec /\ WF_vars(Snapshot)

-----------------------------------------------------------------------------
(* The type invariant: the configuration, the ranks, the requests and the   *)
(* copies stay what activity.go and snapshot.go take them for.              *)
TypeOK ==
  /\ now \in Time /\ type \in {"platform", "mobile"}
  /\ teamOf \in [Users -> Teams \cup {NoTeam}] /\ focus \in Focuses
  /\ row \in Config /\ snapshot \in {0, 1} /\ meta \in Config \cup {Gone}
  /\ walked \in [Users -> 0 .. MaxSteps] /\ stored \in [Users -> 0 .. MaxSteps]
  /\ userRank \in [Users -> 0 .. MaxSteps] /\ inTeam \in [Users -> 0 .. MaxSteps]
  /\ teamRank \in [Teams -> Int]
  /\ pc \in [Reqs -> {"idle", "queryRedis", "queryDB", "refill", "fetched", "syncRedis",
                      "syncDB", "expire", "userRank", "inTeam", "teamRank"}]
  /\ task \in [Reqs -> Task] /\ at \in [Reqs -> Time]
  /\ cfg \in [Reqs -> Config \cup {Gone}]
  /\ \A r \in Reqs : cfg[r] = Gone <=> pc[r] \in {"idle", "queryRedis", "queryDB"}
  /\ steps \in [Reqs -> [total : 0 .. MaxSteps, delta : Int]]
  /\ copier \in {"asleep", "fetchUsers", "users", "fetchTeams", "teams", "fetchMembers",
                 "members", "mark"}
  /\ info \in [end : Time, early : BOOLEAN, teams : SUBSET Teams]
  /\ copier \in {"users", "members"} =>
       DOMAIN ranks \subseteq Users /\ \A u \in DOMAIN ranks : ranks[u] \in Nat
  /\ copier = "teams" =>
       DOMAIN ranks \subseteq Teams /\ \A t \in DOMAIN ranks : ranks[t] \in Int
  /\ history \in [users : [Users -> Nat \cup {Gone}], teams : [Teams -> Int \cup {Gone}],
                  members : [Users -> Nat \cup {Gone}]]

Quiet == Editors = {} /\ \A r \in Reqs : pc[r] # "refill"

(* A configuration in Redis is the one of the table, but for the name of    *)
(* the organisation, which a refill does not read (queryActivityDB), as     *)
(* long as no edit overlapped another edit or a refill, or stopped half way *)
(* between Redis and the table.                                             *)
ConfigsAgree ==
  Quiet /\ faults \cap {"overlap", "refill", "stop"} = {} =>
    meta = Gone \/ [meta EXCEPT !.named = row.named] = row

(* The status that is answered is the one of the clock, and stopped once    *)
(* the activity was deleted, whatever was stored with earlier updates       *)
(* (fillActivityStatus keeps EXPIRED for ever, and updates store what it    *)
(* returned); a state set by hand is left alone, and an activity that had   *)
(* ended and was to start again later is the exception (modifyActivity-     *)
(* Platform).                                                               *)
StatusByClock ==
  faults \cap {"overlap", "refill", "stop", "manual", "postponed"} = {} /\ Quiet =>
    \A c \in {row, meta} \ {Gone} :
      LET answer == FillActivityStatus(c)
      IN IF "deleted" \in faults THEN answer = "stop"
         ELSE /\ c.start <= now /\ now < c.end => answer \in {"running", "draft"}
              /\ c.end < now => answer \in {"expired", "draft"}

(* The copy of an activity that is marked as copied after its end is that   *)
(* of its ranks, unless the copy began before the end, a request that began *)
(* before the end changed a rank while or after it was copied, the end was  *)
(* moved since, or the error of a team's members was dropped.               *)
FinalRanks ==
  snapshot = 1 /\ faults \cap {"straddle", "late", "extended", "skipped"} = {} =>
    /\ history.users = userRank
    /\ \A t \in TeamsInUse : history.teams[t] = teamRank[t]
    /\ \A t \in Teams : \A u \in Members(t) : history.members[u] = inTeam[u]

(* An activity that has ended is marked as copied, unless its end is moved  *)
(* or the copying process misses the whole day it has for that.             *)
EventuallyMarked ==
  (focus # "edits" /\ snapshot = 0 /\ row.start <= now /\ row.end <= now)
    ~> (snapshot = 1 \/ row.end > now \/ row.start > now \/ row.end < now - Day)
=============================================================================
