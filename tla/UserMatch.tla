----------------------------- MODULE UserMatch -----------------------------
(* The donation match of fundmgr: the UserMatch handler and the two reading *)
(* handlers that fill the same caches, running concurrently for the same    *)
(* user over a Redis hash per user and activity, a Redis hash per user, the *)
(* table of match records and the table of running totals.                  *)
EXTENDS Integers, FiniteSets, FiniteSetsExt, Functions

CONSTANTS Users,        \* donors (oid)
          Activities,   \* activity ids, which may include NoActivity
          NoActivity,   \* the empty activity id: the platform-wide match
          Reqs,         \* requests; each is served once
          Funds,        \* amounts GenerateMatchFund can draw
          MaxDay,       \* last day of the run (bound)
          Disturbances  \* which disturbances the environment produces

(* A disturbance of a user's matches:                                       *)
(*   overlap   two requests of the user run at the same time                *)
(*   stop      a call of a request fails, or its process dies               *)
(*   evict     Redis loses a hash of the user while a request is running    *)
(*   midnight  the day changes while a request is running                   *)
Disturbance == {"overlap", "stop", "evict", "midnight"}

ASSUME ConstantsAssumption ==
  /\ Funds \subseteq Nat
  /\ MaxDay \in Nat \ {0}
  /\ Disturbances \subseteq Disturbance

VARIABLES
  today,      \* the current day
  pc,         \* pc[r]: the next call of request r
  req,        \* req[r]: what r asks for
  rec,        \* rec[r]: the match record r holds: read, then drawn, then stamped
  totals,     \* totals[r]: the totals of the activity r holds
  sum,        \* sum[r]: the user's summary r holds (allInfo)
  raw,        \* raw[r]: the day of the match as r sees it (dateRaw)
  charges,    \* what the match items have been charged (HandleMatch)
  records,    \* t_user_match_record
  status,     \* status[k]: t_user_match_status
  cached,     \* the keys whose match hash is in Redis
  cache,      \* cache[k]: the match hash; the empty hash when k is not cached
  sumCached,  \* the users whose summary hash is in Redis
  sumCache,   \* sumCache[u]: the summary hash
  rank,       \* rank[k]: the score of the user in the rank of the activity
  faults      \* faults[u]: the disturbances user u has met so far (history)

locals == <<pc, req, rec, totals, sum, raw>>
stores == <<charges, records, status, rank>>
caches == <<cached, cache, sumCached, sumCache>>
vars == <<today, locals, stores, caches, faults>>

Day == 0 .. MaxDay              \* 0 is MATCH_MIN_TIME: no match yet
Key == Users \X Activities
Counter == Nat

NullRecord == [date |-> 0, combo |-> 0, fund |-> 0]
NullTotals == [funds |-> 0, times |-> 0]
NullSummary == [funds |-> 0, times |-> 0, days |-> 0, date |-> 0]
EmptyHash == [date |-> 0, combo |-> 0, fund |-> 0, funds |-> 0, times |-> 0]
NullStatus == [funds |-> 0, times |-> 0, combo |-> 0]
NoRequest == [op |-> "none", user |-> "none", act |-> "none"]

Match == [date : Day, combo : Nat, fund : Nat]
Totals == [funds : Counter, times : Counter]
Summary == [funds : Counter, times : Counter, days : Counter, date : Day]
Hash == [date : Day, combo : Nat, fund : Nat, funds : Counter, times : Counter]
Status == [funds : Counter, times : Counter, combo : Nat]

(* match: UserMatch; today: GetUserTodayMatch, or a page of the records of  *)
(* an activity; summary: a page of all the records of the user.             *)
Ops == {"match", "today", "summary"}
Request == [op : Ops, user : Users, act : Activities]

Ends == {"succeeded", "already", "rejected", "queried", "stopped"}
Running == {"readInfo", "readRecord", "readStatus", "fillInfo",
            "readSum", "recoverSum", "fillSum", "generate", "charge", "stamp",
            "insert", "readDup", "updateInfo", "updateSum", "writeStatus",
            "writeRank"}

KeyOf(r) == <<req[r].user, req[r].act>>
Busy(u) == {r \in Reqs : pc[r] \in Running /\ req[r].user = u}

RecordsOf(k) == {e \in records : e.user = k[1] /\ e.act = k[2]}
UserRecords(u) == {e \in records : e.user = u}
DatesOf(S) == {e.date : e \in S}
FundsOf(S) == SumFunctionOnSet([e \in S |-> e.fund], S)

(* GetUserMatchLastRecordDB: the newest record of the key. *)
LastRecord(k) ==
  IF RecordsOf(k) = {} THEN NullRecord
  ELSE LET last == CHOOSE e \in RecordsOf(k) : \A f \in RecordsOf(k) : f.date <= e.date
       IN [date |-> last.date, combo |-> last.combo, fund |-> last.fund]

(* RecoverUserSummaryMatchStatusDB: the summary rebuilt from all the        *)
(* records of the user.                                                     *)
SummaryOf(u) ==
  LET mine == UserRecords(u)
  IN  [funds |-> FundsOf(mine), times |-> Cardinality(mine),
       days |-> Cardinality(DatesOf(mine)), date |-> Max(DatesOf(mine) \cup {0})]

Init ==
  /\ today = 1
  /\ pc = [r \in Reqs |-> "idle"]
  /\ req = [r \in Reqs |-> NoRequest]
  /\ rec = [r \in Reqs |-> NullRecord]
  /\ totals = [r \in Reqs |-> NullTotals]
  /\ sum = [r \in Reqs |-> NullSummary]
  /\ raw = [r \in Reqs |-> 0]
  /\ charges = {}
  /\ records = {}
  /\ status = [k \in Key |-> NullStatus]
  /\ cached = {}
  /\ cache = [k \in Key |-> EmptyHash]
  /\ sumCached = {}
  /\ sumCache = [u \in Users |-> NullSummary]
  /\ rank = [k \in Key |-> 0]
  /\ faults = [u \in Users |-> {}]

Goto(r, label) == pc' = [pc EXCEPT ![r] = label]

(* The handler returns: its variables go out of scope, and answer is the    *)
(* match record of the response.                                            *)
Return(r, how, answer) ==
  /\ pc' = [pc EXCEPT ![r] = how]
  /\ rec' = [rec EXCEPT ![r] = answer]
  /\ totals' = [totals EXCEPT ![r] = NullTotals]
  /\ sum' = [sum EXCEPT ![r] = NullSummary]
  /\ raw' = [raw EXCEPT ![r] = 0]
  /\ UNCHANGED req

(* Disturbance d happens to user u, if this environment produces it. *)
Disturbed(u, d) ==
  /\ d \in Disturbances
  /\ faults' = [faults EXCEPT ![u] = @ \cup {d}]

-----------------------------------------------------------------------------
(* A request.                                                               *)

Arrive(r, q) ==
  /\ pc[r] = "idle"
  /\ req' = [req EXCEPT ![r] = q]
  /\ Goto(r, IF q.op = "summary" THEN "readSum" ELSE "readInfo")
  /\ IF Busy(q.user) # {} THEN Disturbed(q.user, "overlap") ELSE UNCHANGED faults
  /\ UNCHANGED <<today, rec, totals, sum, raw, stores, caches>>

(* Not enough steps, the match item is not running or has no fund left, or  *)
(* it cannot be read: the request is answered before it reads any state.    *)
Reject(r) ==
  /\ pc[r] = "idle"
  /\ Goto(r, "rejected")
  /\ UNCHANGED <<today, req, rec, totals, sum, raw, stores, caches, faults>>

(* GetUserMatchInfoCache has its answer: the record it leaves in rec[r].    *)
InfoIs(r, info) ==
  IF req[r].op = "match"
  THEN /\ Goto(r, "readSum")
       /\ rec' = [rec EXCEPT ![r] = info]
       /\ totals' = [totals EXCEPT ![r] = NullTotals]
       /\ UNCHANGED <<req, sum, raw>>
  ELSE Return(r, "queried", NullRecord)

ReadInfoHit(r) ==
  /\ pc[r] = "readInfo" /\ KeyOf(r) \in cached
  /\ LET h == cache[KeyOf(r)]
     IN InfoIs(r, [date |-> h.date, combo |-> h.combo, fund |-> h.fund])
  /\ UNCHANGED <<today, stores, caches, faults>>

ReadInfoMiss(r) ==
  /\ pc[r] = "readInfo" /\ KeyOf(r) \notin cached
  /\ Goto(r, "readRecord")
  /\ UNCHANGED <<today, req, rec, totals, sum, raw, stores, caches, faults>>

(* Redis answers the read with an error: the last record stands in for the  *)
(* hash, and the hash is not filled.                                        *)
ReadInfoError(r) ==
  /\ pc[r] = "readInfo"
  /\ InfoIs(r, LastRecord(KeyOf(r)))
  /\ Disturbed(req[r].user, "stop")
  /\ UNCHANGED <<today, stores, caches>>

ReadRecord(r) ==
  /\ pc[r] = "readRecord"
  /\ rec' = [rec EXCEPT ![r] = LastRecord(KeyOf(r))]
  /\ Goto(r, "readStatus")
  /\ UNCHANGED <<today, req, totals, sum, raw, stores, caches, faults>>

(* Mutant: the totals are not read back from the table. *)
ReadStatus_Zero(r) ==
  /\ pc[r] = "readStatus"
  /\ totals' = [totals EXCEPT ![r] = NullTotals]
  /\ Goto(r, "fillInfo")
  /\ UNCHANGED <<today, req, rec, sum, raw, stores, caches, faults>>

ReadStatus(r) ==
  /\ pc[r] = "readStatus"
  /\ LET s == status[KeyOf(r)]
     IN totals' = [totals EXCEPT ![r] = [funds |-> s.funds, times |-> s.times]]
  /\ Goto(r, "fillInfo")
  /\ UNCHANGED <<today, req, rec, sum, raw, stores, caches, faults>>

(* SetUserMatchInfoCache: one HMSET of every field. *)
FillInfo(r) ==
  /\ pc[r] = "fillInfo"
  /\ cached' = cached \cup {KeyOf(r)}
  /\ cache' = [cache EXCEPT ![KeyOf(r)] =
       [date |-> rec[r].date, combo |-> rec[r].combo, fund |-> rec[r].fund,
        funds |-> totals[r].funds, times |-> totals[r].times]]
  /\ InfoIs(r, rec[r])
  /\ UNCHANGED <<today, stores, sumCached, sumCache, faults>>

(* The status cannot be read or the hash cannot be set: only logged. *)
SkipFillInfo(r) ==
  /\ pc[r] \in {"readStatus", "fillInfo"}
  /\ InfoIs(r, rec[r])
  /\ Disturbed(req[r].user, "stop")
  /\ UNCHANGED <<today, stores, caches>>

(* GetUserSummaryMatchInfoCache has its answer. *)
SumIs(r, s) ==
  IF req[r].op = "match"
  THEN /\ Goto(r, "generate")
       /\ sum' = [sum EXCEPT ![r] = s]
       /\ UNCHANGED <<req, rec, totals, raw>>
  ELSE Return(r, "queried", NullRecord)

ReadSumHit(r) ==
  /\ pc[r] = "readSum" /\ req[r].user \in sumCached
  /\ SumIs(r, sumCache[req[r].user])
  /\ UNCHANGED <<today, stores, caches, faults>>

ReadSumMiss(r) ==
  /\ pc[r] = "readSum" /\ req[r].user \notin sumCached
  /\ Goto(r, "recoverSum")
  /\ UNCHANGED <<today, req, rec, totals, sum, raw, stores, caches, faults>>

ReadSumError(r) ==
  /\ pc[r] = "readSum"
  /\ SumIs(r, SummaryOf(req[r].user))
  /\ Disturbed(req[r].user, "stop")
  /\ UNCHANGED <<today, stores, caches>>

RecoverSum(r) ==
  /\ pc[r] = "recoverSum"
  /\ sum' = [sum EXCEPT ![r] = SummaryOf(req[r].user)]
  /\ Goto(r, "fillSum")
  /\ UNCHANGED <<today, req, rec, totals, raw, stores, caches, faults>>

FillSum(r) ==
  /\ pc[r] = "fillSum"
  /\ sumCached' = sumCached \cup {req[r].user}
  /\ sumCache' = [sumCache EXCEPT ![req[r].user] = sum[r]]
  /\ SumIs(r, sum[r])
  /\ UNCHANGED <<today, stores, cached, cache, faults>>

SkipFillSum(r) ==
  /\ pc[r] = "fillSum"
  /\ SumIs(r, sum[r])
  /\ Disturbed(req[r].user, "stop")
  /\ UNCHANGED <<today, stores, caches>>

(* GenerateMatchFund: the record says the user has matched today. *)
AlreadyMatched(r) ==
  /\ pc[r] = "generate" /\ rec[r].date = today
  /\ IF RecordsOf(KeyOf(r)) = {}
     THEN Return(r, "stopped", NullRecord)
     ELSE Return(r, "already", rec[r])
  /\ UNCHANGED <<today, stores, caches, faults>>

(* Mutant: a match of today is not recognised. *)
GenerateMatchFund_NoTodayCheck(r, fund) ==
  /\ pc[r] = "generate"
  /\ rec' = [rec EXCEPT ![r] = [date |-> 0, fund |-> fund, combo |-> 0]]
  /\ Goto(r, "charge")
  /\ UNCHANGED <<today, req, totals, sum, raw, stores, caches, faults>>

(* Mutant: the combo goes on however long ago the last match was. *)
GenerateMatchFund_NoGapCheck(r, fund) ==
  /\ pc[r] = "generate" /\ rec[r].date # today
  /\ rec' = [rec EXCEPT ![r] = [date |-> 0, fund |-> fund, combo |-> rec[r].combo]]
  /\ Goto(r, "charge")
  /\ UNCHANGED <<today, req, totals, sum, raw, stores, caches, faults>>

(* GenerateMatchFund: a match yesterday goes on with its combo, any other   *)
(* starts a new one.                                                        *)
GenerateMatchFund(r, fund) ==
  /\ pc[r] = "generate" /\ rec[r].date # today
  /\ rec' = [rec EXCEPT ![r] =
       [date |-> 0, fund |-> fund,
        combo |-> IF rec[r].date # 0 /\ rec[r].date = today - 1
                  THEN rec[r].combo ELSE 0]]
  /\ Goto(r, "charge")
  /\ UNCHANGED <<today, req, totals, sum, raw, stores, caches, faults>>

(* HandleMatch takes the fund from the match item; dateRaw is read next. *)
Charge(r) ==
  /\ pc[r] = "charge"
  /\ charges' = charges \cup {[id |-> r, user |-> req[r].user, act |-> req[r].act,
                               fund |-> rec[r].fund]}
  /\ raw' = [raw EXCEPT ![r] = today]
  /\ Goto(r, "stamp")
  /\ UNCHANGED <<today, req, rec, totals, sum, records, status, rank, caches, faults>>

(* Mutant: the date of the record is formatted in another time zone. *)
Stamp_NextDay(r) ==
  /\ pc[r] = "stamp"
  /\ rec' = [rec EXCEPT ![r].date = today + 1]
  /\ Goto(r, "insert")
  /\ UNCHANGED <<today, req, totals, sum, raw, stores, caches, faults>>

(* The clock is read a second time for the date of the record. *)
Stamp(r) ==
  /\ pc[r] = "stamp"
  /\ rec' = [rec EXCEPT ![r].date = today]
  /\ Goto(r, "insert")
  /\ UNCHANGED <<today, req, totals, sum, raw, stores, caches, faults>>

(* AddUserMatchRecordDB, under the unique key match_record_date. *)
(* The mutant compares timestamps, which never agree, instead of dates.     *)
HasRecord_ByTime(k, date) == FALSE

HasRecord(k, date) == \E e \in RecordsOf(k) : e.date = date

InsertRecord(r) ==
  /\ pc[r] = "insert" /\ ~HasRecord(KeyOf(r), rec[r].date)
  /\ records' = records \cup
       {[id |-> r, user |-> req[r].user, act |-> req[r].act, date |-> rec[r].date,
         fund |-> rec[r].fund, combo |-> rec[r].combo + 1]}
  /\ Goto(r, "updateInfo")
  /\ UNCHANGED <<today, req, rec, totals, sum, raw, charges, status, rank, caches, faults>>

(* Mutant: the duplicate is taken for the request's own record. *)
InsertDuplicate_Ignored(r) ==
  /\ pc[r] = "insert" /\ HasRecord(KeyOf(r), rec[r].date)
  /\ Goto(r, "updateInfo")
  /\ UNCHANGED <<today, req, rec, totals, sum, raw, stores, caches, faults>>

InsertDuplicate(r) ==
  /\ pc[r] = "insert" /\ HasRecord(KeyOf(r), rec[r].date)
  /\ Goto(r, "readDup")
  /\ UNCHANGED <<today, req, rec, totals, sum, raw, stores, caches, faults>>

(* Mutant: only the date of the existing record is taken. *)
AdoptRecord_DateOnly(r) ==
  /\ pc[r] = "readDup"
  /\ rec' = [rec EXCEPT ![r].date = LastRecord(KeyOf(r)).date]
  /\ Goto(r, "updateInfo")
  /\ UNCHANGED <<today, req, totals, sum, raw, stores, caches, faults>>

(* The handler goes on with the fund, the combo and the date of the last    *)
(* record, as if the match were its own.                                    *)
AdoptRecord(r) ==
  /\ pc[r] = "readDup"
  /\ rec' = [rec EXCEPT ![r] = LastRecord(KeyOf(r))]
  /\ Goto(r, "updateInfo")
  /\ UNCHANGED <<today, req, totals, sum, raw, stores, caches, faults>>

(* UpdateUserAllMatchInfoCache, first script: a hash that is gone counts    *)
(* from zero.                                                               *)
UpdateInfo(r) ==
  /\ pc[r] = "updateInfo"
  /\ LET h == cache[KeyOf(r)]
         funds == h.funds + rec[r].fund
         times == h.times + 1
     IN /\ cached' = cached \cup {KeyOf(r)}
        /\ cache' = [cache EXCEPT ![KeyOf(r)] =
             [date |-> rec[r].date, combo |-> rec[r].combo + 1, fund |-> rec[r].fund,
              funds |-> funds, times |-> times]]
        /\ totals' = [totals EXCEPT ![r] = [funds |-> funds, times |-> times]]
  /\ Goto(r, "updateSum")
  /\ UNCHANGED <<today, req, rec, sum, raw, stores, sumCached, sumCache, faults>>

(* UpdateUserAllMatchInfoCache, second script: a day is added when the      *)
(* summary read at the beginning was not of this day.                       *)
UpdateSum(r) ==
  /\ pc[r] = "updateSum"
  /\ LET u == req[r].user
         addDay == IF sum[r].date # raw[r] THEN 1 ELSE 0
     IN /\ sumCached' = sumCached \cup {u}
        /\ sumCache' = [sumCache EXCEPT ![u] =
             [funds |-> @.funds + rec[r].fund, times |-> @.times + 1,
              days |-> @.days + addDay, date |-> raw[r]]]
  /\ Goto(r, "writeStatus")
  /\ UNCHANGED <<today, req, rec, totals, sum, raw, stores, cached, cache, faults>>

(* The handler is done: the response carries the match. *)
Succeed(r) == Return(r, "succeeded", [rec[r] EXCEPT !.combo = @ + 1])

(* Mutant: ON DUPLICATE KEY UPDATE adds to the row instead of replacing it. *)
WriteStatus_Adds(r) ==
  /\ pc[r] = "writeStatus"
  /\ status' = [status EXCEPT ![KeyOf(r)] =
       [funds |-> @.funds + totals[r].funds, times |-> @.times + totals[r].times,
        combo |-> rec[r].combo + 1]]
  /\ Goto(r, "writeRank")
  /\ UNCHANGED <<today, req, rec, totals, sum, raw, charges, records, rank, caches, faults>>

(* UpdateUserAllMatchStatusDB writes the totals Redis returned. *)
WriteStatus(r) ==
  /\ pc[r] = "writeStatus"
  /\ status' = [status EXCEPT ![KeyOf(r)] =
       [funds |-> totals[r].funds, times |-> totals[r].times, combo |-> rec[r].combo + 1]]
  /\ IF req[r].act = NoActivity
     THEN Succeed(r)
     ELSE Goto(r, "writeRank") /\ UNCHANGED <<req, rec, totals, sum, raw>>
  /\ UNCHANGED <<today, charges, records, rank, caches, faults>>

(* UpdateActivityMatchRank: ZADD of the total fund. *)
WriteRank(r) ==
  /\ pc[r] = "writeRank"
  /\ rank' = [rank EXCEPT ![KeyOf(r)] = totals[r].funds]
  /\ Succeed(r)
  /\ UNCHANGED <<today, charges, records, status, caches, faults>>

(* The rank cannot be written: only logged. *)
SkipRank(r) ==
  /\ pc[r] = "writeRank"
  /\ Succeed(r)
  /\ Disturbed(req[r].user, "stop")
  /\ UNCHANGED <<today, stores, caches>>

(* The call the request is at fails and the handler answers with the error  *)
(* (or, at readDup, dereferences the missing record), or its process dies.  *)
Stop(r) ==
  /\ pc[r] \in Running
  /\ Return(r, "stopped", NullRecord)
  /\ Disturbed(req[r].user, "stop")
  /\ UNCHANGED <<today, stores, caches>>

-----------------------------------------------------------------------------
(* The environment.                                                         *)

(* Redis loses a hash: eviction, expiry or a change of instance. *)
DisturbedIfBusy(u, d) ==
  IF Busy(u) # {} THEN Disturbed(u, d) ELSE UNCHANGED faults

EvictInfo(k) ==
  /\ k \in cached
  /\ cached' = cached \ {k}
  /\ cache' = [cache EXCEPT ![k] = EmptyHash]
  /\ DisturbedIfBusy(k[1], "evict")
  /\ UNCHANGED <<today, locals, stores, sumCached, sumCache>>

EvictSum(u) ==
  /\ u \in sumCached
  /\ sumCached' = sumCached \ {u}
  /\ sumCache' = [sumCache EXCEPT ![u] = NullSummary]
  /\ DisturbedIfBusy(u, "evict")
  /\ UNCHANGED <<today, locals, stores, cached, cache>>

NextDay ==
  /\ today < MaxDay
  /\ today' = today + 1
  /\ LET busy == {u \in Users : Busy(u) # {}}
     IN /\ busy # {} => "midnight" \in Disturbances
        /\ faults' = [u \in Users |-> IF u \in busy THEN faults[u] \cup {"midnight"}
                                      ELSE faults[u]]
  /\ UNCHANGED <<locals, stores, caches>>

ReadStep(r) ==
  \/ ReadInfoHit(r) \/ ReadInfoMiss(r) \/ ReadInfoError(r)
  \/ ReadRecord(r) \/ ReadStatus(r) \/ FillInfo(r) \/ SkipFillInfo(r)
  \/ ReadSumHit(r) \/ ReadSumMiss(r) \/ ReadSumError(r)
  \/ RecoverSum(r) \/ FillSum(r) \/ SkipFillSum(r)

MatchStep(r) ==
  \/ AlreadyMatched(r)
  \/ \E fund \in Funds : GenerateMatchFund(r, fund)
  \/ Charge(r) \/ Stamp(r) \/ InsertRecord(r) \/ InsertDuplicate(r) \/ AdoptRecord(r)
  \/ UpdateInfo(r) \/ UpdateSum(r) \/ WriteStatus(r) \/ WriteRank(r) \/ SkipRank(r)

Step(r) ==
  \/ \E q \in Request : Arrive(r, q)
  \/ Reject(r) \/ ReadStep(r) \/ MatchStep(r) \/ Stop(r)

Environment ==
  \/ \E k \in Key : EvictInfo(k)
  \/ \E u \in Users : EvictSum(u)
  \/ NextDay

Next == (\E r \in Reqs : Step(r)) \/ Environment

Spec == Init /\ [][Next]_vars

-----------------------------------------------------------------------------
(* Properties.                                                              *)

Only(u, D) == faults[u] \subseteq D
ChargesOf(k) == {c \in charges : c.user = k[1] /\ c.act = k[2]}
Quiet(u) == Busy(u) = {}

Charged == [id : Reqs, user : Users, act : Activities, fund : Nat]
Record == [id : Reqs, user : Users, act : Activities, date : Day, fund : Nat,
           combo : Nat]

(* Every variable has its type: the state of the handlers in fundmgr.       *)
RunTypes ==
  /\ today \in 1 .. MaxDay
  /\ pc \in [Reqs -> {"idle"} \cup Running \cup Ends]
  /\ req \in [Reqs -> Request \cup {NoRequest}]
  /\ rec \in [Reqs -> Match]
  /\ totals \in [Reqs -> Totals]
  /\ raw \in [Reqs -> Day]
  /\ faults \in [Users -> SUBSET Disturbance]

StoreTypes ==
  /\ charges \subseteq Charged
  /\ records \subseteq Record
  /\ status \in [Key -> Status]
  /\ rank \in [Key -> Nat]

CacheTypes ==
  /\ cached \subseteq Key
  /\ cache \in [Key -> Hash]
  /\ sumCached \subseteq Users

SummaryTypes ==
  /\ sum \in [Reqs -> Summary]
  /\ sumCache \in [Users -> Summary]

TypeOK == RunTypes /\ StoreTypes /\ CacheTypes /\ SummaryTypes

(* The handlers implement the ledger: whatever the interleaving of requests,*)
(* evictions, failures and day changes, every booked record is a payment    *)
(* that HandleMatch made, booked once, and a user has at most one record    *)
(* per activity and day.                                                    *)
Booked == {[id |-> e.id, user |-> e.user, act |-> e.act, fund |-> e.fund,
            date |-> e.date] : e \in records}

Ledger == INSTANCE MatchLedger
            WITH Ids <- Reqs, Days <- 1 .. MaxDay, payments <- charges, ledger <- Booked

RefinesLedger == Ledger!Spec

(* What the match hash says of the last match is the date and the fund of a *)
(* record in the table, even when a slow request fills the hash after a     *)
(* match, or adopts a duplicate: GenerateMatchFund never turns a user down  *)
(* for a match that is not in the table.                                    *)
CacheIsBacked ==
  \A k \in cached : cache[k].date # 0 =>
    \E e \in RecordsOf(k) : e.date = cache[k].date /\ e.fund = cache[k].fund

(* A response that says SUCCESS or FAILED_ALREADY_MATCH names the date and  *)
(* the fund of a record of the user in the activity.                        *)
AnsweredIsRecorded ==
  \A r \in Reqs : pc[r] \in {"succeeded", "already"} =>
    \E e \in RecordsOf(KeyOf(r)) : e.date = rec[r].date /\ e.fund = rec[r].fund

(* However fills, increments from a lost hash and writes of stale totals    *)
(* interleave, the number of matches shown (cache, table, or on its way     *)
(* between them) never exceeds the number of times the company has paid.    *)
TimesWithinCharges ==
  /\ \A k \in Key : /\ cache[k].times <= Cardinality(ChargesOf(k))
                    /\ status[k].times <= Cardinality(ChargesOf(k))
  /\ \A r \in Reqs : totals[r].times # 0 =>
       totals[r].times <= Cardinality(ChargesOf(KeyOf(r)))

(* As long as no two requests of a user have overlapped, failures, retries  *)
(* (which adopt the duplicate record), lost hashes and midnights may lose   *)
(* counts, but the totals of an activity never exceed what its records add  *)
(* up to.                                                                   *)
NoOvercount ==
  \A k \in Key : "overlap" \notin faults[k[1]] =>
    LET mine == RecordsOf(k)
    IN  /\ cache[k].times <= Cardinality(mine) /\ cache[k].funds <= FundsOf(mine)
        /\ status[k].times <= Cardinality(mine) /\ status[k].funds <= FundsOf(mine)

(* A user whose requests came one at a time and all ran to their end: the   *)
(* totals in the table, in Redis and in the rank of the activity, and the   *)
(* summary of the user, are what the records add up to, whatever hash Redis *)
(* lost in between and wherever the day changed. Without a midnight either  *)
(* the summary also counts the different days of his matches over all       *)
(* activities, although each request decides on its own, from a summary     *)
(* read before it charged, whether it adds a day.                           *)
ExactTotals ==
  \A u \in Users : Quiet(u) /\ Only(u, {"midnight"}) =>
    /\ \A a \in Activities :
         LET k == <<u, a>>
             mine == RecordsOf(k)
         IN  /\ status[k].times = Cardinality(mine) /\ status[k].funds = FundsOf(mine)
             /\ k \in cached => /\ cache[k].times = status[k].times
                                /\ cache[k].funds = status[k].funds
             /\ a # NoActivity => rank[k] = status[k].funds
    /\ u \in sumCached => /\ sumCache[u].times = Cardinality(UserRecords(u))
                          /\ sumCache[u].funds = FundsOf(UserRecords(u))
    /\ u \in sumCached /\ faults[u] = {} =>
         /\ sumCache[u].days = Cardinality(DatesOf(UserRecords(u)))
         /\ sumCache[u].date = SummaryOf(u).date

(* Requests one at a time, none failing, none across midnight: the combo of *)
(* a record is the number of days in a row up to it (even when the hash it  *)
(* was computed from was lost and rebuilt).                                 *)
ComboIsStreak ==
  \A e \in records : Only(e.user, {"evict"}) =>
    LET before == {f \in RecordsOf(<<e.user, e.act>>) : f.date = e.date - 1}
    IN  /\ before = {} => e.combo = 1
        /\ \A f \in before : e.combo = f.combo + 1
=============================================================================
