----------------------------- MODULE CompanyRank -----------------------------
(* The company rank of fundmgr: every instance of the service has a worker  *)
(* that, when it starts and then once an hour if it holds the leader lease, *)
(* sums the match records of the finished days per company and day into a   *)
(* table, rebuilds the Redis rank and totals from that table, and sets the  *)
(* snapshot date when all of that is done. Records keep coming meanwhile.   *)
EXTENDS Naturals, FiniteSets, FiniteSetsExt, Functions

CONSTANTS Instances,     \* instances of the service (GetLocalIP)
          Companies,     \* company ids of the records
          NoCompany,     \* the empty company id, of a match without a company
          NoInstance,    \* the value of a lease nobody holds
          MaxDay,        \* last day of the run (bound)
          MaxRecords,    \* records (bound)
          MaxStops,      \* failures, deaths and losses of Redis (bound)
          Disturbances   \* which disturbances the environment produces

(* What the environment may do to a snapshot:                               *)
(*   late      a record stamped before midnight is inserted after it        *)
(*   midnight  the day changes while an instance makes a snapshot           *)
(*   redis     Redis is replaced by an empty one                            *)
Disturbance == {"late", "midnight", "redis"}

ASSUME ConstantsAssumption ==
  /\ IsFiniteSet(Companies)
  /\ NoInstance \notin Instances
  /\ MaxDay \in Nat \ {0}
  /\ Disturbances \subseteq Disturbance

VARIABLES
  today,     \* the current day
  booked,    \* booked[c][d]: what t_user_match_record says c paid on day d
  stat,      \* stat[c][d]: t_company_match_stat; 0 when there is no row
  rank,      \* rank[c]: the score of c in the sorted set; 0 when not a member
  total,     \* the totals hash
  snapshot,  \* the snapshot date; 0 is EARLIEST_DATE
  lease,     \* the instance in RANK_LEADER
  pc,        \* pc[i]: the next access of the worker of i
  now,       \* now[i]: the day whose snapshot i makes (nowDate)
  last,      \* last[i]: the date of the snapshot it starts from (lastDate)
  rows,      \* rows[i]: sums of records it has still to write to the table
  items,     \* items[i]: sums of the table it has still to write to the rank
  sumAll,    \* sumAll[i]: what all the items of i add up to (totalFund)
  stops,     \* failures, deaths and losses so far
  late,      \* the companies and days that got a record too late (history)
  faults     \* the disturbances the instances have met so far (history)

redis == <<rank, total, snapshot, lease>>
work == <<pc, now, last, rows, items, sumAll>>
history == <<stops, late, faults>>
vars == <<today, booked, stat, redis, work, history>>

Day == 1 .. MaxDay
Date == 0 .. MaxDay
Row == [id : Companies, date : Day, fund : Nat]
Item == [id : Companies, fund : Nat]

(* Where a worker waits for its timer, its process is gone, it asks for the *)
(* lease, or it is in generateSnapshot.                                     *)
Working == {"start", "getSnapshot", "sumRecords", "updateDB", "setRank",
            "setSnapshot"}

Init ==
  /\ today = 1
  /\ booked = [c \in Companies |-> [d \in Day |-> 0]]
  /\ stat = [c \in Companies |-> [d \in Day |-> 0]]
  /\ rank = [c \in Companies |-> 0]
  /\ total = 0
  /\ snapshot = 0
  /\ lease = NoInstance
  /\ pc = [i \in Instances |-> "start"]
  /\ now = [i \in Instances |-> 0]
  /\ last = [i \in Instances |-> 0]
  /\ rows = [i \in Instances |-> {}]
  /\ items = [i \in Instances |-> {}]
  /\ sumAll = [i \in Instances |-> 0]
  /\ stops = 0
  /\ late = {}
  /\ faults = {}

(* select ... where f_date >= lastDate and f_date < nowDate group by        *)
(* f_match_org_id, f_date.                                                  *)
SumOfRecords(from, to) ==
  {[id |-> e[1], date |-> e[2], fund |-> booked[e[1]][e[2]]] :
     e \in {e \in Companies \X Day :
              booked[e[1]][e[2]] # 0 /\ from <= e[2] /\ e[2] < to}}

SumBefore(f, d) == SumFunctionOnSet(f, {e \in Day : e < d})

(* select ... where f_stat_date < nowDate group by f_company_id. *)
SumOfStat(to) ==
  {[id |-> c, fund |-> SumBefore(stat[c], to)] :
     c \in {e \in Companies : \E d \in Day : d < to /\ stat[e][d] # 0}}

(* What the items add up to. *)
SumOfItems(S) == SumFunctionOnSet([s \in S |-> s.fund], S)

Goto(i, label) == pc' = [pc EXCEPT ![i] = label]

(* The worker of i leaves generateSnapshot. *)
Leave(i, label) ==
  /\ Goto(i, label)
  /\ now' = [now EXCEPT ![i] = 0]
  /\ last' = [last EXCEPT ![i] = 0]
  /\ rows' = [rows EXCEPT ![i] = {}]
  /\ items' = [items EXCEPT ![i] = {}]
  /\ sumAll' = [sumAll EXCEPT ![i] = 0]

-----------------------------------------------------------------------------
(* The leader lease.                                                        *)

(* The timer fires and checkLeader tries SETNX. *)
Tick(i) ==
  /\ pc[i] = "waiting"
  /\ IF lease = NoInstance
     THEN lease' = i /\ Goto(i, "start")
     ELSE UNCHANGED lease /\ Goto(i, "getLeader")
  /\ UNCHANGED <<today, booked, stat, rank, total, snapshot, now, last, rows,
                 items, sumAll, history>>

(* checkLeader reads the lease, which may have expired since: the leader    *)
(* goes on and everybody else waits for the next hour.                      *)
GetLeader(i) ==
  /\ pc[i] = "getLeader"
  /\ Goto(i, IF lease = i THEN "start" ELSE "waiting")
  /\ UNCHANGED <<today, booked, stat, redis, now, last, rows, items, sumAll, history>>

(* The lease was not extended for two intervals. *)
ExpireLease ==
  /\ lease # NoInstance
  /\ lease' = NoInstance
  /\ UNCHANGED <<today, booked, stat, rank, total, snapshot, work, history>>

-----------------------------------------------------------------------------
(* generateSnapshot.                                                        *)

(* The day is read from the clock. *)
Start(i) ==
  /\ pc[i] = "start"
  /\ now' = [now EXCEPT ![i] = today]
  /\ Goto(i, "getSnapshot")
  /\ UNCHANGED <<today, booked, stat, redis, last, rows, items, sumAll, history>>

GetCompanySnapshot(i) ==
  /\ pc[i] = "getSnapshot"
  /\ IF snapshot = now[i]
     THEN Leave(i, "waiting")
     ELSE /\ last' = [last EXCEPT ![i] = snapshot]
          /\ Goto(i, "sumRecords")
          /\ UNCHANGED <<now, rows, items, sumAll>>
  /\ UNCHANGED <<today, booked, stat, redis, history>>

(* Mutant: only the records after the day of the last snapshot are summed. *)
SumRecords_AfterLast(i) ==
  /\ pc[i] = "sumRecords"
  /\ LET sums == SumOfRecords(last[i] + 1, now[i])
     IN /\ rows' = [rows EXCEPT ![i] = {r \in sums : r.id # NoCompany}]
        /\ Goto(i, IF sums = {} THEN "setSnapshot" ELSE "updateDB")
  /\ UNCHANGED <<today, booked, stat, redis, now, last, items, sumAll, history>>

(* Mutant: without records nothing is done. *)
SumRecords_NoDate(i) ==
  /\ pc[i] = "sumRecords"
  /\ LET sums == SumOfRecords(last[i], now[i])
     IN IF sums = {} THEN Leave(i, "waiting")
        ELSE /\ rows' = [rows EXCEPT ![i] = {r \in sums : r.id # NoCompany}]
             /\ Goto(i, "updateDB")
             /\ UNCHANGED <<now, last, items, sumAll>>
  /\ UNCHANGED <<today, booked, stat, redis, history>>

(* Mutant: the sums of the records of no company are written as well. *)
SumRecords_NoCompany(i) ==
  /\ pc[i] = "sumRecords"
  /\ LET sums == SumOfRecords(last[i], now[i])
     IN /\ rows' = [rows EXCEPT ![i] = sums]
        /\ Goto(i, IF sums = {} THEN "setSnapshot" ELSE "updateDB")
  /\ UNCHANGED <<today, booked, stat, redis, now, last, items, sumAll, history>>

(* The records since the last snapshot are summed; without any, only the    *)
(* snapshot date moves. Records of no company are skipped when written.     *)
SumRecords(i) ==
  /\ pc[i] = "sumRecords"
  /\ LET sums == SumOfRecords(last[i], now[i])
     IN /\ rows' = [rows EXCEPT ![i] = {r \in sums : r.id # NoCompany}]
        /\ Goto(i, IF sums = {} THEN "setSnapshot" ELSE "updateDB")
  /\ UNCHANGED <<today, booked, stat, redis, now, last, items, sumAll, history>>

UpdateCompanyMatchDB(i, r) ==
  /\ pc[i] = "updateDB" /\ r \in rows[i]
  /\ stat' = [stat EXCEPT ![r.id][r.date] = r.fund]
  /\ rows' = [rows EXCEPT ![i] = @ \ {r}]
  /\ UNCHANGED <<today, booked, redis, pc, now, last, items, sumAll, history>>

(* Mutant: the rank is rebuilt from the new rows only. *)
SumStat_SinceLast(i) ==
  /\ pc[i] = "updateDB" /\ rows[i] = {}
  /\ LET sums == {[id |-> c, fund |-> SumBefore(stat[c], now[i]) - SumBefore(stat[c], last[i])] :
                   c \in {e \in Companies : \E d \in Day : d < now[i] /\ stat[e][d] # 0}}
     IN /\ items' = [items EXCEPT ![i] = sums]
        /\ sumAll' = [sumAll EXCEPT ![i] = SumOfItems(sums)]
  /\ Goto(i, "setRank")
  /\ UNCHANGED <<today, booked, stat, redis, now, last, rows, history>>

(* All rows are written; the table is summed. *)
SumStat(i) ==
  /\ pc[i] = "updateDB" /\ rows[i] = {}
  /\ LET sums == SumOfStat(now[i])
     IN /\ items' = [items EXCEPT ![i] = sums]
        /\ sumAll' = [sumAll EXCEPT ![i] = SumOfItems(sums)]
  /\ Goto(i, "setRank")
  /\ UNCHANGED <<today, booked, stat, redis, now, last, rows, history>>

SetCompanyRankCache(i, s) ==
  /\ pc[i] = "setRank" /\ s \in items[i]
  /\ rank' = [rank EXCEPT ![s.id] = s.fund]
  /\ items' = [items EXCEPT ![i] = @ \ {s}]
  /\ UNCHANGED <<today, booked, stat, total, snapshot, lease, pc, now, last, rows,
                 sumAll, history>>

SetMatchStatCache(i) ==
  /\ pc[i] = "setRank" /\ items[i] = {}
  /\ total' = sumAll[i]
  /\ Goto(i, "setSnapshot")
  /\ UNCHANGED <<today, booked, stat, rank, snapshot, lease, now, last, rows, items,
                 sumAll, history>>

(* Mutant: the date of the next snapshot is set. *)
SetCompanySnapshot_Next(i) ==
  /\ pc[i] = "setSnapshot"
  /\ snapshot' = now[i] + 1
  /\ Leave(i, "waiting")
  /\ UNCHANGED <<today, booked, stat, rank, total, lease, history>>

SetCompanySnapshot(i) ==
  /\ pc[i] = "setSnapshot"
  /\ snapshot' = now[i]
  /\ Leave(i, "waiting")
  /\ UNCHANGED <<today, booked, stat, rank, total, lease, history>>

-----------------------------------------------------------------------------
(* Failures, restarts, records and days.                                    *)

Making == {i \in Instances : pc[i] \in Working /\ now[i] # 0}

Disturbed(d, happens) ==
  /\ happens => d \in Disturbances
  /\ faults' = IF happens THEN faults \cup {d} ELSE faults

(* A call of checkLeader or generateSnapshot fails; it is tried again in an *)
(* hour, by the leader.                                                     *)
Fail(i) ==
  /\ pc[i] \notin {"down", "waiting"}
  /\ stops < MaxStops
  /\ stops' = stops + 1
  /\ Leave(i, "waiting")
  /\ UNCHANGED <<today, booked, stat, redis, late, faults>>

(* The process of i dies; others stay up. *)
Die(i) ==
  /\ pc[i] # "down" /\ \E j \in Instances \ {i} : pc[j] # "down"
  /\ stops < MaxStops
  /\ stops' = stops + 1
  /\ Leave(i, "down")
  /\ UNCHANGED <<today, booked, stat, redis, late, faults>>

(* It starts again, with a snapshot that does not ask for the lease. *)
Restart(i) ==
  /\ pc[i] = "down"
  /\ Goto(i, "start")
  /\ UNCHANGED <<today, booked, stat, redis, now, last, rows, items, sumAll, history>>

(* A new Redis instance. *)
LoseRedis ==
  /\ stops < MaxStops
  /\ "redis" \in Disturbances
  /\ stops' = stops + 1
  /\ rank' = [c \in Companies |-> 0]
  /\ total' = 0
  /\ snapshot' = 0
  /\ lease' = NoInstance
  /\ Disturbed("redis", Making # {})
  /\ UNCHANGED <<today, booked, stat, work, late>>

(* AddUserMatchRecordDB inserts a record stamped with day d. Records of the *)
(* last day of the run are in no snapshot and are left out.                 *)
AddRecord(c, d) ==
  /\ MapThenSumSet(LAMBDA e : SumFunction(booked[e]), Companies) < MaxRecords
  /\ d <= today /\ d < MaxDay
  /\ booked' = [booked EXCEPT ![c][d] = @ + 1]
  /\ Disturbed("late", d < today)
  /\ late' = IF d < today THEN late \cup {<<c, d>>} ELSE late
  /\ UNCHANGED <<today, stat, redis, work, stops>>

NextDay ==
  /\ today < MaxDay
  /\ today' = today + 1
  /\ Disturbed("midnight", Making # {})
  /\ UNCHANGED <<booked, stat, redis, work, stops, late>>

Work(i) ==
  \/ Tick(i) \/ GetLeader(i) \/ Start(i) \/ GetCompanySnapshot(i) \/ SumRecords(i)
  \/ \E r \in rows[i] : UpdateCompanyMatchDB(i, r)
  \/ SumStat(i)
  \/ \E s \in items[i] : SetCompanyRankCache(i, s)
  \/ SetMatchStatCache(i) \/ SetCompanySnapshot(i)

Next ==
  \/ \E i \in Instances : Work(i) \/ Fail(i) \/ Die(i) \/ Restart(i)
  \/ ExpireLease \/ LoseRedis \/ NextDay
  \/ \E c \in Companies, d \in Day : AddRecord(c, d)

Spec == Init /\ [][Next]_vars

(* The timer of a living worker is always reset and its calls return. The   *)
(* lease of an instance that is gone expires; a dead instance need not come *)
(* back.                                                                    *)
OwnerIsGone == lease \in Instances /\ pc[lease] = "down"
FairSpec ==
  /\ Spec
  /\ \A i \in Instances : WF_vars(Work(i))
  /\ WF_vars(OwnerIsGone /\ ExpireLease)

-----------------------------------------------------------------------------
(* Properties.                                                              *)

(* What does not depend on a sum over a set has its type. *)
SnapshotTypes ==
  /\ today \in Day
  /\ booked \in [Companies -> [Day -> Nat]]
  /\ stat \in [Companies -> [Day -> Nat]]
  /\ snapshot \in Date
  /\ lease \in Instances \cup {NoInstance}
  /\ pc \in [Instances -> Working \cup {"waiting", "down", "getLeader"}]
  /\ now \in [Instances -> Date] /\ last \in [Instances -> Date]
  /\ rows \in [Instances -> SUBSET Row]
  /\ stops \in Nat /\ late \subseteq Companies \X Day
  /\ faults \subseteq Disturbance

(* Every variable has its type: the tables, what is in Redis and what the   *)
(* workers of the company rank hold.                                        *)
TypeOK ==
  /\ SnapshotTypes
  /\ rank \in [Companies -> Nat] /\ total \in Nat
  /\ items \in [Instances -> SUBSET Item]
  /\ sumAll \in [Instances -> Nat]

(* No day of a company is ever booked with more than its records, whatever  *)
(* instances, failures and losses do.                                       *)
StatWithinRecords ==
  \A c \in Companies, d \in Day : stat[c][d] <= booked[c][d]

(* The days before the snapshot date are complete in the table: every       *)
(* company's row has the sum of the records of the day, unless one was      *)
(* inserted after the day was over. That is what makes it safe to start the *)
(* next snapshot from that date and never to read what is before it again.  *)
SnapshotIsComplete ==
  \A c \in Companies \ {NoCompany}, d \in Day :
    d < snapshot /\ <<c, d>> \notin late => stat[c][d] = booked[c][d]

(* What a table says that all companies paid before day d. *)
FundsBefore(table, d) ==
  SumFunctionOnSet([c \in Companies \ {NoCompany} |-> SumBefore(table[c], d)],
                   Companies \ {NoCompany})

(* When today's snapshot is there, the rank and the totals are exactly what *)
(* the records of the days before add up to, even though several instances  *)
(* wrote them and may be writing them still, some failed or died half way,  *)
(* or Redis was lost between two snapshots.                                 *)
ExactRank ==
  snapshot = today /\ faults = {} =>
    /\ \A c \in Companies \ {NoCompany} : rank[c] = SumBefore(booked[c], today)
    /\ total = FundsBefore(booked, today)

(* Every day that lasts long enough gets its snapshot, although the leader  *)
(* may die, fail or lose its lease, and a slow instance may move the date   *)
(* back to the day before.                                                  *)
EventuallySnapshot == \A d \in Day : today = d ~> (snapshot = d \/ today # d)
=============================================================================
