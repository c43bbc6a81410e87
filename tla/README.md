# TLA+ project for yqz (一起走)

yqz is a walk-and-donate service: users bring their daily steps, join
activities and teams, and have their steps *matched* by a company, which pays a
small fund for each user, activity and day. It is a set of Go services over
Redis and a MySQL-compatible database, with no transactions between them. This
directory models the parts of it whose correctness depends on the order in
which requests, workers, caches and tables meet.

- `src/yqz`: the services `fundmgr` (matches), `stepmgr` (steps) and
  `activitymgr` (activities, teams, members), and the common libraries.
- `src/donate_steps`: the older HTTP front end, a client of the services.
- `src/yqz/docs/gongyi_yqz.sql`: the schema. Several packages that the code
  imports are not in the repository (`fundmgr/activity`, `fundmgr/coupons`,
  `activitymgr/client`, `stepmgr/pk`, `cacheclient`); they are known only by
  how they are called.

## 1. Inventory

| Component | State it keeps | Operations | Hard behaviour | What makes it correct | Module |
|---|---|---|---|---|---|
| Donation match (`fundmgr/handler/handler.go`, `match/match.go`) | Redis hash of the last match and totals per user and activity; Redis summary hash per user; `t_user_match_record`, `t_user_match_status` | `UserMatch`, `GetUserTodayMatch`, `GetUserMatchRecordByOffset` | no lock per user: two requests interleave between any two calls; failures between charge, insert and counters; lost hashes; midnight between two clock reads; retries that meet the duplicate key | a company's payment is booked once; one record per user, activity and day; answers and caches name booked records; totals are what the records add up to | `UserMatch`, `MatchLedger` |
| Match rules (`match.go` `GenerateMatchFund`) | none | draws the fund by four rules, clamps it to what remains, anti-black filter | boundaries and the width of the arithmetic | the fund never exceeds what remains, nor is less than nothing | `MatchFund` |
| Match rank (`match/rank.go`) | Redis sorted set per activity | ZADD after a match, read, recovery from the table | recovery page by page and member by member while matches go on; the rank may be lost at any time; only an empty rank asks for recovery | never ahead of the table; exact when undisturbed; what is asked for comes back | `MatchRank` |
| Recovery queue (`match/recover.go`, the same scripts in `stepmgr/steps`) | Redis list and set | push, pop (scripts), worker loop | several readers and workers; an element whose recovery fails is gone | the set holds what the list holds, once | `RecoverQueue` |
| Company rank (`match/company.go`) | `t_company_match_stat`, sorted set, totals hash, date of the last snapshot, leader key | hourly worker with a leader lease, daily snapshot | several instances; a stop between two steps; records that arrive after their day was summed | the table and the rank add up to the records of the days before the snapshot | `CompanyRank` |
| Teams, members and their handlers (`activitymgr/team`, `member`, `handler`) | `t_team`, `t_team_member`, the team in Redis, ranks and sums in Redis | join, leave, join the activity, elect a leader, dissolve, add newly reported steps | ranks and sums move before the table; check-then-act on limits and on emptiness; the leader is elected on an old copy of the team; a request may stop anywhere | a user is in one team; the rank of a team is its members; sums are the steps of members; a team has a leader who is a member; a dissolved team leaves nothing behind | `TeamMembership` |
| Step store and delay set (`stepmgr/steps`) | Redis hash of a month's steps per user, `t_step`, two queues | set steps (cache, queue, workers), get steps, recovery of a lost hash | several workers drain one queue; the recovery reads the table while reports are still queued; failed batches; a lost hash at any time | the table ends with the last report; the hash is never older than it | `StepStore` |
| Automatic update (`stepmgr/auto`) | heartbeats in a sorted set; per instance the share it took itself to have; `t_user.f_backend_update` | heartbeat, look-up of count and index, paging, update batches, taking revoked users off the list | each instance computes its share alone, while others come and go and the list changes | every user is in exactly one share when the membership is stable; everybody is updated again and again | `AutoDispatch` |
| Activity and snapshots (`activitymgr/activity`) | `t_activity_info`, the configuration in Redis, `f_snapshot`, the history tables, the ranks it copies | query with refill, update, set the state, delete, copy the ranks after the end | the status is derived from the clock on every read; requests race between Redis and the table; a copy takes many steps while steps still arrive | Redis and the table agree; the status follows the clock; a marked copy is complete and final | `Activity` |
| Front end, clients, generated code, configuration, logging, monitoring | none of its own | translate and forward | - | - | not modelled |

The components interact through calls and shared stores. `UserMatch` asks
`activitymgr` for the activity, charges the match item, and writes the Redis
hashes, the tables and finally the rank of the activity; a reader that finds
the rank empty pushes the activity into the recovery queue, whose workers
rebuild the rank from the table `UserMatch` writes; the company rank is summed
from the same records. Steps enter through `stepmgr` (a request, or the
automatic update of `AutoDispatch`), are stored by `StepStore`, and the call
that follows makes `activitymgr` add the difference to the ranks and sums of
the user's activities and teams (`updateStats` in `TeamMembership`,
`UpdateUserSteps` in `Activity`); the copies of `Activity` are taken of those
ranks.

Every hazard we know of is in `PROJECT.json` under `hazards`, at its line,
with the properties that would catch it.

## 2. Plan

Done, in this order: 1. `MatchLedger`, `UserMatch` and their proofs;
2. `RecoverQueue`, `MatchRank` and their proofs; 3. `CompanyRank` and its
proofs; 4. `TeamMembership`; 5. `StepStore`, a second and third use of
`RecoverQueue`; 6. `AutoDispatch`; 7. `Activity`; 8. `MatchFund`; each with the
proofs of section 5. With these the state of `fundmgr`, `stepmgr` and
`activitymgr` is covered as far as its code is in the repository.

Left, in this order:

1. creating activities and teams as actions, `ChangeTeamLeader` and
   `UpdateTeam`;
2. the lists for display, once there is a property about them;
3. proofs about the steps themselves (action properties of the stores), where
   they say more than the invariants do.

## 3. The modules

| Module | Role |
|---|---|
| `MatchLedger` | abstract specification of a match |
| `UserMatch`, `MCUserMatch`, `UserMatchProofs` | the match handlers, their instance, their proofs |
| `MatchFund` | the rules that draw a fund, as operators |
| `RecoverQueue` | abstract specification of the Redis queues |
| `MatchRank`, `MatchRankProofs` | the rank of an activity; implements `RecoverQueue` |
| `CompanyRank`, `MCCompanyRank`, `CompanyRankProofs` | the daily snapshots of the company rank |
| `TeamMembership`, `MCTeamMembership`, `TeamMembershipProofs` | teams and members of one activity |
| `StepStore`, `MCStepStore`, `StepStoreProofs` | the steps; implements `RecoverQueue` twice |
| `AutoDispatch`, `AutoDispatchProofs` | the automatic update |
| `Activity`, `MCActivity`, `ActivityProofs` | one activity, from its creation to the copy of its ranks |
| `Collections`, `CollectionLemmas` | places in ordered lists and the set a queue lists, as operators; lemmas about these and about sums |

All modules are built the same way. A handler or a worker is a control point
per goroutine (`pc`, or the work it holds), every Redis, SQL or clock access is
an action of its own, and the local variables that live across accesses are
variables of the module. So whatever another request, a failure, Redis or the
clock can do in between is explored. Which disturbances the environment
produces is a constant or bounded by one, and a history variable `faults`
remembers which ones a user, a team or the activity has met; no action depends
on it, except on the bounds. A property states in its antecedent which of them
it tolerates: that is how it can say "exact" of code that has no transactions,
and the tolerated ones are listed at each module below.

### MatchLedger

The promise of a match without caches, retries and concurrency: `Pay` (a
company pays a fund under a new identity) and `Book` (a payment is booked at
most once, on a day on which its user has no entry in its activity).

### UserMatch

One request is one run of a handler; `pc[r]` names the next Redis, SQL or
clock access of request `r`, and every access is an action of its own, so that
everything another request, a failure, Redis or the clock can do in between is
explored. The local variables of the handler that live across accesses are
`rec` (the record `info`, later the fund and combo drawn and the date stamped),
`totals` (the totals of the hash), `sum` (`allInfo`) and `raw` (`dateRaw`).

| Code | Action |
|---|---|
| `UserMatch` up to the quota checks | `Arrive`, `Reject` |
| `GetUserMatchInfoCache` (handler and match package) | `ReadInfoHit`, `ReadInfoMiss`, `ReadInfoError`, `ReadRecord`, `ReadStatus`, `FillInfo`, `SkipFillInfo` |
| `GetUserSummaryMatchInfoCache` | `ReadSumHit`, `ReadSumMiss`, `ReadSumError`, `RecoverSum`, `FillSum`, `SkipFillSum` |
| `GenerateMatchFund` | `AlreadyMatched`, `GenerateMatchFund` |
| `HandleMatch` and the two clock reads after it | `Charge`, `Stamp` |
| `AddUserMatchRecordDB` and the duplicate branch | `InsertRecord`, `InsertDuplicate`, `AdoptRecord` |
| `UpdateUserAllMatchInfoCache` (two scripts) | `UpdateInfo`, `UpdateSum` |
| `UpdateUserAllMatchStatusDB` | `WriteStatus` |
| `UpdateActivityMatchRank` as `UserMatch` calls it | `WriteRank`, `SkipRank` |
| any error return, and the death of the process | `Stop` |
| Redis, the clock | `EvictInfo`, `EvictSum`, `NextDay` |

A Redis hash that is gone is the empty hash: `HINCRBY` counts from zero, as in
Redis. A day is a number and 0 is `MATCH_MIN_TIME`. Steps are left out because
they are added wherever funds are; coupons and the Kafka message come after
all the state and change none of it here.

Which disturbances the environment produces is the constant `Disturbances`
(overlapping requests, stops, lost hashes, midnights *during* a request), and
`faults` remembers which ones a user has met. A property states in its
antecedent which of them it tolerates: that is how it can say "exact" without
being false of code that has no transactions. An eviction or a midnight while
no request of the user runs is never a fault and always allowed.

`Funds` is a set of naturals; the runs give it the outcomes of a remain rule of
`MatchFund`. What is left of the match item is kept by the absent package
behind `Charge` and is not part of the state.

### MatchFund

`GenerateMatchFund` is a decision, a random draw and arithmetic, without state:
each rule is the set of the funds it can draw (`RemainFunds`, `BuffFunds` for
the percent and the combo rule, `StepShare` for the step rule), `Filtered` is
the anti-black filter, and `MatchFunds` chooses as the code does. The set is
empty where `rand.Intn` panics (an interval that ends before it starts). The
step share is computed in `int32`: `Wrap` is its overflow (`Half` is half its
range) and `Quotient` Go's division. What the code does and one might not
expect is kept: the money of a filter is not compared with what is left
(`match.go:716`), a combo rule whose basic fund is less than its wave returns
before the filter, a buff fund below its own wave gives a negative draw, and a
threshold of one gives no buff on the first day of a streak.

### RecoverQueue and MatchRank

`RecoverQueue` has the two scripts as atomic actions; `MatchRank` uses an
instance of it. In `MatchRank` a match is two steps, the total written to the
table (`Match`) and the ZADD (`AddRank`, or `FailRank`); `ReadRank` is a reader
who finds the rank empty; a worker is `PopElement`, one `FetchPage` per query,
one `RestoreUser` per ZADD or `RestoreDefault`, and `FailRecover` for an error
or a crash, after which the element is gone. `LoseRank` and `LoseRedis` are
Redis. Requests of one user in one activity follow each other here, and every
match adds one to the total (a rank only sees totals); `UserMatch` has the
overlaps. A read of a rank that is not empty changes nothing and is not an
action. The table is read along its primary key, so users are numbers.

### CompanyRank

Every instance has a worker (`RunUpdateRankWorker`): one snapshot when it
starts, `pc[i] = "start"`, and then one per hour if it is the leader. `Tick` is
the `SETNX` of `checkLeader` and `GetLeader` the `GET` after it; the lease may
expire before, between and after them (`ExpireLease`). A snapshot is `Start`
(the clock), `GetCompanySnapshot`, `SumRecords`, one `UpdateCompanyMatchDB` per
row, `SumStat`, one `SetCompanyRankCache` per company, `SetMatchStatCache` and
`SetCompanySnapshot`; the local variables that live across them are `now`,
`last`, `rows`, `items` and `sumAll`. `Fail` is any error return, `Die` and
`Restart` a process, `LoseRedis` a new Redis with neither rank, date nor lease.
Funds are counted in records of one unit each, and the counts, which take the
same way as the funds, are left out. The records of days before a day `d` are
those of `UserMatch`; `AddRecord` inserts one, of today or, if late, of an
earlier day. Dates are day numbers and 0 is `EARLIEST_DATE`.

### TeamMembership

The teams of one activity. A request is one of `joinTeam`, `leaveTeam`,
`joinActivity`, `dissolve` (`DeleteActivityTeam`), `updateStats` (a worker of
the delay set that adds steps a user has reported) and `queryTeams` (a reader,
who changes nothing but may refill Redis). A call to Redis about a team may fail
at any time (`RedisFails`, if `Disturbances` has "redis"): `fetchTeams` reads the
row then as if there were no field, and puts it back (`Refill`), be it older than
what Redis has by then (`team.go:471-486`).

| Code | Action |
|---|---|
| `QueryTeam`, `QueryTeams` (Redis, then the table, then the refill) | `QueryTeamRedis`, `QueryTeamMiss`, `QueryTeamDB`, `FillTeam` |
| the limit of the team, the user's current rank | `GetTeamMemberSize`, `QueryTeamStats` |
| `JoinActivity`/`joinActivity` | `UpdateUserSteps`, `QueryUserStats`, `UpdateUserRank`, `ModifyActivitySteps`, `SetActivityMember` |
| `joinTeam` and leaving | `UpdateTeamUserRank`, `ModifyTeamSteps`, `SetTeamMember`, `SetTeamMemberLimit`, `SyncMemberDB`, `SyncMemberRedis` |
| `ElectTeamLeader` | `ElectTeamLeader`, `SyncTeamRedis`, `SyncTeamDB` |
| `checkTeam`, `DeleteTeam` | `CheckTeam`, `LookTeam`, `FillAgain`, `DeleteTeam`, `DeleteFails`, `DissolveRow`, `RemoveMeta`, `RemoveUserRank`, `RemoveTeamSteps`, `RemoveActivityTeamRank` |
| `updateActivityRankStats` | `FindTeam`, `QueryUserSteps`, `StoreNewSteps`, `StatUser`, `StatSteps`, `StatMember`, `StatTeam` |
| an error return, the death of the process | `Refuse`, `Stop` |

Teams exist from the start, some of them default teams of the platform
(`SystemTeams`). Funds move as steps do and are left out. The faults are
`overlap` (two requests of a user at once), `crowd` (of a team), `both` (two
look-ups of a user's teams before either inserts), `stop`, `torn` (a `leaveTeam`
that stops), `drift` (steps were stored and the sums do not have them, or have
more), `revived` (a dissolved team was asked for by its id) and `stale` (a refill
wrote a row that Redis or by now the table has a newer one of). What the code
does under them, and the properties therefore tolerate:

- two first members who join together leave Redis with one leader and the table
  with the other, and a late refill brings a leader back who has left;
- a reader whose call to Redis failed puts the row he read back over a leader
  elected since (`stale`; no failure but that one call is needed);
- a user may have fewer steps than before. They are stored and ranked, but the
  negative difference is set to 0 (`handler.go:2202-2206`), so the sums of his
  team and of the activity keep the old steps for good (`drift`);
- a dissolved team can be joined by its id, and several who do so may leave it
  without a leader;
- who leaves takes his current steps out of the sums, not those that were
  counted (`handler.go:2202`); a repeated leave or `JoinActivity`
  (`handler.go:617`) subtracts or adds them again, and a worker that looked the
  team up before may put somebody who has left back into its rank;
- `checkTeam` removes the sum of the team whatever `DeleteTeam` said
  (`handler.go:2033`), and `DeleteActivityTeam` does not spare default teams
  (`handler.go:2324`).

Read together as one step are the two look-ups of a user's teams in
`SetTeamMember` (`member.go:194-206`; an insert between the two ends in an error,
as `Stop` does), and the look, the insert and the write to Redis of
`SetActivityMember` (`member.go:88-119`; the row only says whose steps a worker
looks at). Likewise `MatchRank.ReadRank` is the `ZCARD` and the script that pushes
(`rank.go:35-51`), and the choice of a worker by the prefix of its element
(`recover.go:116-149`) is left out, since the model has one kind.

### StepStore

A client is a request (`Begin`) that writes the hash of each of its users
(`SetUserStepsToCache`) and pushes the report (`PushSetUser`, `PushFails`), or
returns early (`GiveUp`). A set worker is `PopSetUser` and `SetUsersStepsToDB`
(or `SetWorkerFails`: the popped report is gone). A reader is `MissCache` and
`PushRecoverUser`, a recovery worker `PopRecoverUser`,
`GetUsersMonthStepsFromDB`, `FillCache` or `RecoverFails`, and `LoseKey` is
Redis, which loses hashes. That it loses a queue is not an action: it would be
`SetWorkerFails` or `RecoverFails` for all that the queue holds, and what they do
is excused as `fail` in the same way. Both queues are instances of
`RecoverQueue`. A report is a function from dates to steps; the bytes the queue compares are the report together with one
of `Encodings` orders of the map, because `proto.Marshal` does not fix it. The
faults are `overlap`, `fail`, `order` (two workers hold reports of a user),
`dup` (a report is pushed again while a later one waits), `race` (a recovery
overlaps with a report) and `partial` (a report of a few dates is the first to
be written after a loss). A report without dates makes `HMSET` fail and ends
the request. `runSetWorker` always writes 2 into `f_update_method`
(`delayset.go:42`), whoever updated; that column is kept, and no property is
about it.

### AutoDispatch

Every instance has a heartbeat (`Heartbeat`, `Expire` when it is a minute old;
`Stop`, after which what the process held is gone, and `Restart`), a dispatcher
(`GetWorkerCountAndIndex` or `LookupFails`, `QueryPage` or `QueryFails`, `Send`
per user, `Timeout`, after which each user of the round may be dropped instead
(`Drop`), `EndRound`) and its update workers (`UpdateUserSteps`, with
`HandleRottenUsers` for those who have revoked their permission, and
`UpdateFails`). `Join` is a user who allows updates: the code that puts 2 into
`f_backend_update` is not in the repository, so the action is external. The share
of an instance is every `total`-th page from `index` on; `seen` and `fetched` are history: the
instances a dispatcher has seen and the users it has read, cleared when a look-up
or a page fails, and for all when the list changes: it never becomes a list again
that it was, so rounds over different lists need not be told apart. Rows of a `limit`
query come in a fixed order (the primary key), as the code assumes.

Two batches take nobody off the list, each time they come together: one of
exactly `DBUpdateBatch` revoked users makes a statement that fails
(`auto.go:360`), and one with a user who has not revoked and of whom WeChat has
no steps (`Stepless`) is an `HMSET` without fields, whose error returns before
the revoked are handled (`auto.go:332`). Neither is a bounded fault. A
revoked user who always meets such a batch never leaves, and `RevokedLeave`
says so: he leaves, or his updates are spoiled again and again (`Spoiled`), or a
dispatcher never ends its round. Who may have revoked is a constant
(`Revocations`).

### Activity

| Code | Action |
|---|---|
| `QueryActivity` and its refill | `QueryRedisHit`, `QueryRedisMiss`, `QueryDB`, `Refill`, `RefillFails`, `AnswerQuery` |
| `UpdateActivity`, `UpdateActivityStatus` | `UpdateActivity`, `UpdateActivityStatus`, `Refuse`, `SyncActivityRedis`, `SyncActivityDB` |
| `DeleteActivity` | `DeleteActivity`, `DeleteActivityRelativeRedis` |
| steps on their way into the ranks | `UpdateUserSteps`, `SkipStats`, `UpdateUserRank`, `UpdateTeamUserRank`, `ModifyTeamSteps` |
| `Snapshot` (`snapshot.go`) | `QuerySnapshotActivity`, `FetchActivityUserRank`, `FetchActivityTeamRank`, `FetchTeamUserRank`, `Dump` per row, `SnapshotFails`, `SnapTeamUserRankFails`, `UpdateSnapshotDb` |
| the process, the clock, users, Redis | `Stop`, `Tick`, `Walk`, `LoseMeta` |

`FillActivityStatus` derives the status from the clock as the code does. Of the
configuration the status, the period and one further field (`named`) are kept:
`queryActivityDB` does not select the name and picture of the organisation
(`activity.go:75`), so after a refill the next update erases them.

Somebody who is not the creator is refused (`Refuse`), whatever he asks. Steps
may become fewer, as in `TeamMembership`; the reading of the old steps and the
storing of the new ones (`handler.go:2190-2197`) are one step here, and are two
there. The second read of the configuration of a platform activity, for its
match (`activity.go:1748`), is left out: it is a `query` that follows the update.

The repository registers no handler for `UpdateActivity` and starts
`Snapshot` from no file that it contains (`main.go` has the flag `-polltask`,
`InitComponents` is absent); both are modelled as they are written, with one
process that copies.

What the code does under the faults, and the properties therefore except:

- a copy that began before the end is marked after it, without the last steps
  (`straddle`, `snapshot.go:197`); steps on their way at the end reach the rank
  after it was copied (`late`; in the very hour of the end both are allowed);
  the errors of a team's members are dropped (`skipped`, `snapshot.go:247`);
  `f_snapshot` is not reset when the end is moved (`extended`);
- an activity of the platform that has ended and is postponed stays `EXPIRED`
  for ever (`postponed`, `activity.go:1591`); a state that was set by hand is
  left alone (`manual`);
- edits that overlap each other or a refill, or stop between Redis and the
  table, leave them different (`overlap`, `refill`, `stop`); a stale refill has
  no expiry;
- the rows of those who have left stay in the history, and an activity that was
  not marked within a day of its end is not tried again.

## 4. The runs

| Run | Instance | Shows |
|---|---|---|
| `match_faults` | 2 requests of 1 user, 1 activity, 3 days, every disturbance | `CacheIsBacked`, `AnsweredIsRecorded`, `TimesWithinCharges`, `NoOvercount`, refinement of `MatchLedger` |
| `match_serial` | 3 requests one after the other, the platform-wide match and an activity, 3 days, midnights and evictions | `TypeOK`, `ExactTotals`, `ComboIsStreak` |
| `rank_safety` | 2 users, 2 workers, pages of 1 row, 2 losses, totals up to 2, fair | `TypeOK`, `QueueIsSet`, `ScoresWithinTotals`, `ExactRank`, `EventuallyRecovered` |
| `rank_fetch` | 3 rows, pages of 1 | violation: the fetch loses the third row |
| `company_days` | 2 instances, 2 companies, 3 days, 2 records, 1 stop, every disturbance | `TypeOK`, `SnapshotIsComplete`, `ExactRank` |
| `company_eventually` | 2 instances, a company and the empty one, 2 days, 2 stops, fair | `EventuallySnapshot`, `ExactRank` |
| `team_members` | 2 users, a team of users and a default team, 2 handlers, 3 requests of every kind, limit 1, steps 0 or 1, overlaps, stops or failing calls to Redis | `TypeOK`, `OneTeam`, `LimitKept`, `RankIsMembers`, `StepsAddUp`, `DissolvedIsClean`, `LeaderIsMember` |
| `steps_store` | 2 users, 2 days, 1 client, 2 set workers, 1 recovery worker, 3 requests, 1 loss, 1 failure | `TypeOK`, `TableIsLast`, `CacheIsCurrent` |
| `steps_eventually` | 2 clients at once, 1 set worker, batches of 2, 2 encodings, fair | `EventuallyStored`, `EventuallyReadable` |
| `dispatch_pages` | 2 users, 1 of them without steps, 1 or both revoked, 2 instances, pages of 1, channel of 2, updates of 2, 1 failure, fair | `TypeOK`, `PartsAreDisjoint`, `PartsAreComplete`, `AllUpdated`, `RevokedLeave` |
| `dispatch_old` | 1 instance, 1 failure | violation: after a failed look-up the old result is not used |
| `activity_copies` | 1 user, 1 team, 2 requests, 1 failure, hours 0 to 3, a period that updates postpone or move, fair | `TypeOK`, `ConfigsAgree`, `StatusByClock`, `FinalRanks`, `EventuallyMarked` |

Besides, `MCUserMatch` states three assumptions that TLC evaluates with the
runs of `UserMatch`: the step share is the proportion rounded down
(`ShareIsProportion`), the buff comes on the multiples of the threshold
(`BuffDays`), and the last interval that fits decides (`RemainIntervals`), for
all small inputs.

Why the bounds are enough.

- Matches: all state of a match is per user, and users share nothing but the
  match item (whose remaining fund is outside), so one user suffices. Two
  requests show every pairwise race; in `match_serial` the third makes a third
  day. Three days are a streak, a gap and a new streak, and two funds tell
  apart whose fund was kept.
- Ranks: a page of one row and two users give one full page, two pages and the
  empty page, and a total of two gives a stale and a fresh value. Three days
  are two snapshots with something to read, of which the second starts where
  the first ended; two companies make a rank that is half written.
- Teams: two users and a limit of one show a team that is full, two first members
  who join at once and pass the limit together, and the last member who leaves. With
  three requests a team is joined, left and joined again. `Mixed = FALSE` means
  that after two requests have overlapped no further request, stop or error of
  Redis follows: every race of two requests and every sequence of three, but not
  a race that is followed by more. An overlap or a stop does not follow
  a stop, a stale refill or a drift either; those may follow each other. A
  reader whose call fails while a user leaves needs three requests (a join, the leave, the reader), and one step between a user's two reports
  makes him have fewer. A default team is never dissolved by its last member and
  a team of users is.
- Steps: two reports of one user and one of another show every order of two
  workers; a third request comes after a loss. From `MonthDays = 2` dates on a
  hash is replaced, from fewer on it is extended, and both come.
- Dispatch: two users on pages of one give two instances a page each and one
  alone two pages, and a list that shrinks while it is read. With updates of two,
  a revoked user comes alone, with the one without steps (nobody leaves), or with
  another revoked (nobody leaves either); that is what `Spoiled` names, and
  without either half of it `RevokedLeave` is violated.
- Activity: the period is `0..1`, moved to `0..3` (a longer one) or `2..3` (one
  that starts again), in hours up to 3, and a `Day` is one hour, so that the end,
  the hour after it and the day after it all come. What a run looks at is its
  focus, chosen at the start: `edits` are updates, deletions and queries, two
  at a time, without copies; `ranks` are steps, moves of the end and copies, one
  request at a time. Configuration and ranks share only the period. The
  theorems of section 5 have no focus: they hold of `all`.

Requests are served once and counts are bounded, so the models come to rest:
deadlock is not checked.

Symmetry is used over requests, workers, instances, companies and users, never
with a liveness property.

Fairness. Nothing makes users come, readers ask again or Redis keep its data.

- `MatchRank`: weak fairness of each worker's loop, in the code a timer that is
  always reset (`recover.go:60-84`). A failed recovery and a lost queue are
  allowed outcomes of `EventuallyRecovered`, because the code does not push the
  element again, and so is a worker in the endless loop of
  `fetchActivityMatchFromDB` (`Endless`): with exactly one full page it never
  leaves it.
- `CompanyRank`: the workers that live are weakly fair, because their timer is
  always reset (`company.go:54-55`) and failures are bounded, and the lease of
  an instance that is gone expires, as Redis promises. A dead instance need not
  come back, but one always lives.
- `StepStore`: a request that was begun goes on, and so do the loops of both
  kinds of workers.
- `AutoDispatch`: heartbeats, rounds and sends go on, the entry of a dead
  instance gets old, and whatever user is in the channel is taken by an update
  worker, since each tick drains it. `AllUpdated` excepts the endless round
  that a failed look-up may cause (`Endless`), and `RevokedLeave` besides
  batches that are spoiled without end (`Spoiled`): which users a worker
  collects together is a matter of timing that no fairness rules out.
- `Activity`: the copying process goes on; it loops for ever, and one that dies
  is started again. Its failures are bounded. An activity is tried only for a
  day after its end, so the clock that leaves that day is an outcome of
  `EventuallyMarked`.

What the violations mean:

- `rank_fetch`: `len(result) != USER_LIMIT` compares the rows read so far, not
  the rows of the last page, with the page size, so the loop ends after the
  second page at the latest.
- `dispatch_old`: the log says "use old result", but the round runs with the
  zeros that the failed look-up returned; with a full first page it never ends.

What was met besides and is no finding, because no line of the repository
promises otherwise: requests that overlap count one record twice (the second
adopts the first one's, `handler.go:718`); across a midnight a combo comes from
the day `GenerateMatchFund` saw and the date of the record from a later clock
read; a record stamped just before midnight that arrives after its day was
summed is in no daily row of its company, unless Redis loses the date. The
properties say so in their antecedents.

## 5. What is proved

TLAPS proves, for any values of the constants that satisfy the named assumption
of each module, and so for any users, teams, activities, requests, instances,
workers, batch sizes and bounds (two theorems, `RankBecomesExact` and
`HashStaysCurrent`, bound a set by a page or month size of the code; the runs of
their properties satisfy the bound):

- `UserMatchProofs`. `TypeCorrect`: every variable, the sums in the summary
  hash included, for which the table has to stay finite. `CacheBacked` and
  `AnswerRecorded`: neither is inductive, because what a request holds becomes a
  cache or an answer later; the invariant proved says of every request, by where
  it is, that the record it holds is one of the table (or empty), so the fill of
  a slow reader and the adoption of a duplicate are covered. That the last
  record of a table is one of its records rests on the well-foundedness of the
  naturals. `LedgerRefined`: every step is a `Pay`, a `Book` or a stutter of
  `MatchLedger`; the invariant says that a request that has charged and not yet
  inserted has its payment, and that no record has its identity yet.

  `TimesAreCharged` counts charges that are spent: `TimesInv` says that a
  request between the charge and the increment still owes its own, whatever the
  others do. `NothingOvercounted` needs `SoloInv`: while the requests of a user
  come one at a time, a record that the hash has not counted is the last one,
  and a request that would count it again adopts or follows it. `ComboCountsDays`
  (`SmoothInv`, `StreakInv`): the last record of a table carries the length of
  its streak of days, so the fund of the next day can be drawn from it.
  `TotalsAreExact` (`TidyInv`, `DaysInv`): each store holds the sums of exactly
  the records it has counted, and which these are is told by where the user's
  request is: after the insert, one store after the other gets the new record.
  A fill from the table counts the same records as the increments did.

  About the rules: `RulesPayWhatIsLeft` (the remain and buff rules pay no more
  than what is left, and no less than nothing if no wave exceeds its fund),
  `StepShareIsBetween` (the step rule pays between its two funds and never less
  for more steps, as long as the largest product fits the width) and
  `BuffEveryThreshold`.
- `MatchRankProofs`. `QueueSafe`: the set and the list of a `RecoverQueue`
  agree. `QueueImplemented`: `MatchRank` implements `RecoverQueue`, from which
  `QueueStaysSet` follows by `QueueSafe`; `TypesCorrect`; `ScoresBounded`: the
  bound on the scores is inductive once it includes the ZADDs on their way and
  the rows the workers hold, and that an idle worker holds none.
  `RankBecomesExact` (`ExactInv`): the rank of an activity is empty, is being
  rebuilt, or lacks nobody but those whose ZADD is on its way; and what a worker
  has read, restored and has still to read is together the whole table. It
  assumes that there are at most two pages of users,
  `Cardinality(Users) <= 2 * PageSize` (`USER_LIMIT` is 500): with more it is
  false of the code, as `rank_fetch` shows.
- `CompanyRankProofs`. `SnapshotComplete` is not inductive: an instance may set
  the date of a snapshot that others started, finished or overtook. The
  invariant says that nobody works on a day that has not come (so what is
  summed only changes by late records), that what a worker holds are the sums
  of the records, that everything before the date it started from is complete,
  that while it writes the table whatever is incomplete is among its rows, and
  that it is complete up to its day after that. A row without records rests on
  `StatBacked`, which is part of the same invariant. `TypesCorrect`: every
  variable. `RankIsExact`: several instances may write the rank at once, so no
  invariant can say which part of it is new. The one proved holds it between
  two bounds (`CleanInv`, while no disturbance has met a snapshot): it never says
  more than the records before today, and never less than the records before
  the snapshot date, before the date each worker started from, and, once a
  worker comes to the date, before today. Every write raises it to the upper
  bound, and when the date is today's the bounds meet.
- `TeamMembershipProofs`. `HandlersPlaced`: wherever a handler is, it has the
  user and the team its next steps write. `TeamTypes` is inductive only with
  it. `OneTeamEach`: at most one team per user, for any number of requests at
  once; the invariant adds that whoever is between the look at a user's teams
  and the insert still finds him in none, or the fault `both` is noted.
  `LimitHolds` and `RankHasMembers` (`RankInv`): the rank and the table differ
  only for a user whose request is between the two, a request of a team whose
  users come one after the other is alone in it, and one that has passed the
  check of the limit finds room. `DissolvedLeavesNothing` (`CleanTeams`): by the
  label of the request that dissolves, what it has not yet removed.
  `LeadersBelong` (`LeaderInv`): likewise, where the leader may still be missing
  from Redis or from the table. Both rest on `FillWrites`: whenever and by
  whomever a row is put back, with or without an error of Redis, it is what Redis
  has already, or revives a team that is gone, or is noted as stale.
  `SumsAddUp` (`OrderInv`, `SumInv`): the sum is
  made of one share per user, which is what he walked if he is a member, except
  while his request is between the write of the sum and that of the table, or
  between that of his steps and that of the sum: then the share is what it was
  before, or will be after, the step that is due. Fewer steps than before are
  allowed; what is proved is that without them, and without the other ways to
  drift, the sums are right.
- `StepStoreProofs`. `StoreTypes`; `SetQueueImplemented` and
  `RecoverQueueImplemented`: `StepStore` implements `RecoverQueue` with its
  reports and with its users, from which `QueuesStaySets` follows by
  `SetQueueSafe` and `RecoverQueueSafe`. `TableEndsLast` (`DateInv`, `UserInv`):
  for each date, the last report in the queue that has it says what was accepted
  last; if none has it a worker holds one, and else the table says it.
  `HashStaysCurrent` (`HashInv`): what a recovery worker has read is what the
  user had reported, and a hash never lacks a date unless a part was written
  alone. It assumes `Cardinality(Days) <= MonthDays`, 30 in the code
  (`steps.go:363`): the hash is there for one month of dates, and a report of a
  whole month that replaces it keeps no older one, nor is it meant to.
- `AutoDispatchProofs`. `DispatcherTypes`; `NumberBelowTotal`; and
  `PartsDisjoint`: what a dispatcher has fetched are pages whose number is its
  index modulo the total, indices of different instances differ because each
  counts the members before it, so two with the same view never read the same
  page; the list is finite, so its places are unique. `PartsComplete`: while its
  list has not changed a dispatcher has read all pages of its number up to the
  one it is at, and every residue modulo the total is the number of somebody.
- `ActivityProofs`. All safety properties of `Activity`. `ActivityTypes` is
  proved in four parts (the world, the ranks, the requests, the copies).
  `ActivityConfigs`: unless requests raced, there is one editor at a time,
  nobody else is about to refill, and a request holds what the table has.
  `ActivityStatus`: every configuration in Redis, in the table or in a
  request's hands has a status from which the clock derives the right one; this
  is what makes EXPIRED, which is never derived again, harmless.
  `ActivityFinalRanks`: a copy that began after the end stays equal, stage by
  stage, to ranks that nobody changes, up to the row that is not yet written.

Sums are `SumFunctionOnSet` of the community modules, which picks a function
that adds up recursively. The induction theorems of the library take an operator
as a parameter and cannot be used, so `CollectionLemmas` proves what is needed of
sums (that they exist, do not depend on the order, change with a member, are
monotone, skip zeros and survive renaming) by looking at a smallest set for which
it would not hold; that there is one is `WFMin` for the well-founded order of the
finite subsets.

Every invariant that a run checks is stated by a theorem. Only model-checked is
all liveness (`EventuallyRecovered`, `EventuallySnapshot`, `EventuallyStored`,
`EventuallyReadable`, `AllUpdated`, `RevokedLeave`, `EventuallyMarked`), since
fairness and ENABLED are out of the prover's reach, and the two violations.

`StatBacked`, `HandlersPlaced`, `NumberBelowTotal` and `QueuesStaySets` are
proved and not checked by a run of their own.

## 6. What is not modelled

- Match items and coupons (`fundmgr/activity`, `fundmgr/coupons`) and the pk
  ranks (`stepmgr/pk`): the packages are absent; charging is the action
  `Charge`.
- The pk and yqz updates after the step store: they write values derived from
  the steps. One observation: `start` in `updatePKStep` is never reset
  (`yqz.go:153`).
- Creating activities and teams (an identity is unknown to others until it is
  complete: creation is the initial state), `ChangeTeamLeader`, `UpdateTeam`,
  white lists, black lists, profiles, and the lists for display.
- `backgroundmgr`, configuration, logging, monitoring and the database and
  message clients: pure I/O. A statement or a Redis script is one atomic step.
- `donate_steps`, the HTTP front end, whose calls are the requests of the
  models; generated protocol code. `main.go` of `activitymgr` names a
  `LeaveActivity` that the repository does not contain.
- Memory and process faults that no state of the model shows: `GetUserTodayMatch`
  writes `Coupons` into a record shared by all goroutines (`handler.go:467`);
  `stopChan` is never made, so closing it panics (`recover.go:90`); the expiry
  of the hashes is an overflowing product (`match.go:157`; as a hash may vanish
  at any time in the model, no property depends on it); if Redis loses the
  company rank but not its date, a period without records does not bring it
  back (`company.go:489`; `LoseRedis` loses both); and `in (?)` with ids joined
  by commas compares every row with the whole text (`steps.go:210`; the model reads one user
  at a time, as the recovery worker does).
