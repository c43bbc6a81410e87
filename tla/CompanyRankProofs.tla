-------------------------- MODULE CompanyRankProofs --------------------------
(* Proofs about CompanyRank. Whatever instances, failures, losses of Redis  *)
(* and midnights do, the table never has more than the records, and the     *)
(* days before the snapshot date are complete in it. While no disturbance   *)
(* has met a snapshot, the rank lies between the records before today and   *)
(* those before the snapshot date, so that it is exact once they meet.      *)
EXTENDS CompanyRank, CollectionLemmas, TLAPS

(* The day d of company c is in the table, or was booked too late. *)
Complete(c, d) == <<c, d>> \notin late => stat[c][d] = booked[c][d]

CompleteBefore(day) ==
  \A c \in Companies \ {NoCompany}, d \in Day : d < day => Complete(c, d)

(* Nobody works on a day that has not come. *)
DatesPassed ==
  /\ snapshot <= today
  /\ \A i \in Instances : now[i] <= today /\ last[i] <= today

(* The sums an instance holds are of finished days; the records of such a   *)
(* day only change too late.                                                *)
RowsBacked ==
  \A i \in Instances : \A r \in rows[i] :
    /\ r.date < now[i]
    /\ r.fund <= booked[r.id][r.date]
    /\ <<r.id, r.date>> \notin late => r.fund = booked[r.id][r.date]

(* Everything before the snapshot an instance started from is complete.     *)
StartsComplete == \A i \in Instances : CompleteBefore(last[i])

(* While it writes the table, what is not complete is among its rows.       *)
WritesRest ==
  \A i \in Instances : pc[i] = "updateDB" =>
    \A c \in Companies \ {NoCompany}, d \in Day :
      d < now[i] => Complete(c, d) \/ \E r \in rows[i] : r.id = c /\ r.date = d

(* When it has written the table, its day is complete.                      *)
WroteAll ==
  \A i \in Instances : pc[i] \in {"setRank", "setSnapshot"} => CompleteBefore(now[i])

IInv ==
  /\ SnapshotTypes
  /\ DatesPassed
  /\ StatWithinRecords
  /\ RowsBacked
  /\ CompleteBefore(snapshot)
  /\ StartsComplete
  /\ WritesRest
  /\ WroteAll

-----------------------------------------------------------------------------

LEMMA InitInv == Init => IInv
BY ConstantsAssumption
   DEF Init, IInv, SnapshotTypes, DatesPassed, StatWithinRecords, RowsBacked,
       CompleteBefore, StartsComplete, WritesRest, WroteAll, Complete, Day, Date,
       Working

(* A step that leaves tables, dates and rows alone, and brings no instance  *)
(* to a place where something is promised of it.                            *)
LEMMA FrameInv ==
  ASSUME IInv,
         UNCHANGED <<today, booked, stat, snapshot, now, last, rows, history>>,
         lease' \in Instances \cup {NoInstance},
         NEW i \in Instances,
         NEW label \in {"start", "waiting", "getLeader", "getSnapshot", "sumRecords"},
         pc' = pc \/ pc' = [pc EXCEPT ![i] = label]
  PROVE  IInv'
<1>1. SnapshotTypes'
  BY DEF IInv, SnapshotTypes, Working, history
<1>2. DatesPassed' /\ StatWithinRecords' /\ RowsBacked' /\ StartsComplete'
      /\ CompleteBefore(snapshot)'
  BY DEF IInv, DatesPassed, StatWithinRecords, RowsBacked, StartsComplete,
     CompleteBefore, Complete, history
<1>3. \A j \in Instances : pc'[j] = pc[j] \/ pc'[j] = label
  BY DEF IInv, SnapshotTypes
<1>4. WritesRest'
  BY <1>3 DEF IInv, WritesRest, Complete, history
<1>5. WroteAll'
  BY <1>3 DEF IInv, WroteAll, CompleteBefore, Complete, history
<1>6. QED BY <1>1, <1>2, <1>4, <1>5 DEF IInv

(* An instance that leaves generateSnapshot holds nothing any more.         *)
LEMMA LeaveInv ==
  ASSUME IInv, NEW i \in Instances, NEW label \in {"waiting", "down"},
         Leave(i, label), UNCHANGED <<today, booked, stat, late, faults>>,
         lease' = lease, stops' \in Nat, snapshot' \in Date, snapshot' <= today,
         CompleteBefore(snapshot')
  PROVE  IInv'
<1>1. SnapshotTypes'
  <2>1. 0 \in Date
    BY ConstantsAssumption DEF Date
  <2>2. pc' \in [Instances -> Working \cup {"waiting", "down", "getLeader"}]
    BY DEF IInv, SnapshotTypes, Leave, Goto
  <2>3. now' \in [Instances -> Date] /\ last' \in [Instances -> Date]
    BY <2>1 DEF IInv, SnapshotTypes, Leave
  <2>4. rows' \in [Instances -> SUBSET Row]
    BY DEF IInv, SnapshotTypes, Leave
  <2>5. QED BY <2>2, <2>3, <2>4 DEF IInv, SnapshotTypes, Day, Date
<1>2. /\ now'[i] = 0 /\ last'[i] = 0 /\ rows'[i] = {} /\ pc'[i] = label
      /\ \A j \in Instances \ {i} :
           /\ now'[j] = now[j] /\ last'[j] = last[j]
           /\ rows'[j] = rows[j] /\ pc'[j] = pc[j]
  BY DEF IInv, SnapshotTypes, Leave, Goto
<1>3. \A c, d : Complete(c, d)' <=> Complete(c, d)
  BY DEF Complete
<1>4. DatesPassed'
  BY <1>2 DEF IInv, DatesPassed, SnapshotTypes, Day
<1>5. StatWithinRecords'
  BY DEF IInv, StatWithinRecords
<1>6. RowsBacked'
  BY <1>2 DEF IInv, RowsBacked
<1>7. CompleteBefore(snapshot)'
  BY <1>3 DEF CompleteBefore
<1>8. StartsComplete'
  BY <1>2, <1>3 DEF IInv, StartsComplete, CompleteBefore, Day
<1>9. WritesRest'
  BY <1>2, <1>3 DEF IInv, WritesRest
<1>10. WroteAll'
  BY <1>2, <1>3 DEF IInv, WroteAll, CompleteBefore
<1>11. QED BY <1>1, <1>4, <1>5, <1>6, <1>7, <1>8, <1>9, <1>10 DEF IInv

(* What one instance does leaves the others where they are.                 *)
LEMMA StartInv ==
  ASSUME IInv, NEW i \in Instances, Start(i)
  PROVE  IInv'
<1> USE DEF Start
<1>1. SnapshotTypes'
  <2>1. today \in Date
    BY DEF IInv, SnapshotTypes, Day, Date
  <2>2. pc' \in [Instances -> Working \cup {"waiting", "down", "getLeader"}]
    BY DEF IInv, SnapshotTypes, Goto, Working
  <2>3. now' \in [Instances -> Date]
    BY <2>1 DEF IInv, SnapshotTypes
  <2>4. QED BY <2>2, <2>3 DEF IInv, SnapshotTypes, redis, history
<1>2. /\ now'[i] = today /\ pc'[i] = "getSnapshot" /\ rows'[i] = rows[i]
      /\ rows' = rows /\ last' = last
      /\ \A j \in Instances \ {i} : now'[j] = now[j] /\ pc'[j] = pc[j]
  BY DEF IInv, SnapshotTypes, Goto
<1>3. \A c, d : Complete(c, d)' <=> Complete(c, d)
  BY DEF Complete, history
<1>4. DatesPassed'
  BY <1>2 DEF IInv, DatesPassed, SnapshotTypes, Day, redis
<1>5. StatWithinRecords'
  BY DEF IInv, StatWithinRecords
<1>6. ASSUME NEW r \in rows[i] PROVE r.date < today
  <2>1. r \in Row /\ now[i] \in Date /\ today \in Day
    BY DEF IInv, SnapshotTypes
  <2>2. r.date \in Int /\ now[i] \in Int /\ today \in Int
    BY <2>1, ConstantsAssumption DEF Row, Day, Date
  <2>3. r.date < now[i] /\ now[i] <= today
    BY DEF IInv, RowsBacked, DatesPassed
  <2>4. QED BY <2>2, <2>3
<1>7. RowsBacked'
  BY <1>2, <1>6 DEF IInv, RowsBacked, history
<1>8. CompleteBefore(snapshot)'
  BY <1>3 DEF IInv, CompleteBefore, redis
<1>9. StartsComplete'
  BY <1>2, <1>3 DEF IInv, StartsComplete, CompleteBefore
<1>10. WritesRest'
  BY <1>2, <1>3 DEF IInv, WritesRest
<1>11. WroteAll'
  BY <1>2, <1>3 DEF IInv, WroteAll, CompleteBefore
<1>12. QED BY <1>1, <1>4, <1>5, <1>7, <1>8, <1>9, <1>10, <1>11 DEF IInv

LEMMA GetSnapshotInv ==
  ASSUME IInv, NEW i \in Instances, GetCompanySnapshot(i)
  PROVE  IInv'
<1>1. CASE snapshot = now[i]
  <2>1. Leave(i, "waiting")
    BY <1>1 DEF GetCompanySnapshot
  <2>2. UNCHANGED <<today, booked, stat, redis, history>>
    BY DEF GetCompanySnapshot
  <2>3. snapshot' \in Date /\ snapshot' <= today /\ CompleteBefore(snapshot') /\ stops' \in Nat
    BY <2>2 DEF IInv, SnapshotTypes, DatesPassed, redis, history, CompleteBefore
  <2>4. QED BY <2>1, <2>2, <2>3, LeaveInv DEF redis, history
<1>2. CASE snapshot # now[i]
  <2>1. /\ UNCHANGED <<today, booked, stat, redis, history, now, rows>>
        /\ last' = [last EXCEPT ![i] = snapshot]
        /\ pc' = [pc EXCEPT ![i] = "sumRecords"]
    BY <1>2 DEF GetCompanySnapshot, Goto
  <2>2. SnapshotTypes'
    BY <2>1 DEF IInv, SnapshotTypes, Working, redis, history
  <2>3. /\ last'[i] = snapshot /\ pc'[i] = "sumRecords"
        /\ \A j \in Instances \ {i} : last'[j] = last[j] /\ pc'[j] = pc[j]
    BY <2>1 DEF IInv, SnapshotTypes
  <2>4. \A c, d : Complete(c, d)' <=> Complete(c, d)
    BY <2>1 DEF Complete, history
  <2>5. DatesPassed' /\ StatWithinRecords' /\ RowsBacked'
    BY <2>1, <2>3 DEF IInv, DatesPassed, StatWithinRecords, RowsBacked, redis, history
  <2>6. CompleteBefore(snapshot)'
    BY <2>1, <2>4 DEF IInv, CompleteBefore, redis
  <2>7. StartsComplete'
    BY <2>1, <2>3, <2>4 DEF IInv, StartsComplete, CompleteBefore
  <2>8. WritesRest' /\ WroteAll'
    BY <2>1, <2>3, <2>4 DEF IInv, WritesRest, WroteAll, CompleteBefore
  <2>9. QED BY <2>2, <2>5, <2>6, <2>7, <2>8 DEF IInv
<1>3. QED BY <1>1, <1>2

(* A day that has come to its end without a record has no row either.       *)
LEMMA NothingBooked ==
  ASSUME IInv, NEW c \in Companies, NEW d \in Day, booked[c][d] = 0
  PROVE  Complete(c, d)
BY DEF IInv, SnapshotTypes, StatWithinRecords, Complete

LEMMA SumRecordsInv ==
  ASSUME IInv, NEW i \in Instances, SumRecords(i)
  PROVE  IInv'
<1> DEFINE sums == SumOfRecords(last[i], now[i])
<1>1. /\ UNCHANGED <<today, booked, stat, redis, now, last, history>>
      /\ rows' = [rows EXCEPT ![i] = {r \in sums : r.id # NoCompany}]
      /\ pc' = [pc EXCEPT ![i] = IF sums = {} THEN "setSnapshot" ELSE "updateDB"]
      /\ pc[i] = "sumRecords"
  BY DEF SumRecords, Goto
<1>2. ASSUME NEW r \in sums
      PROVE  /\ r \in Row
             /\ r.date < now[i]
             /\ r.fund = booked[r.id][r.date]
  BY DEF SumOfRecords, Row, IInv, SnapshotTypes
<1>3. ASSUME NEW c \in Companies, NEW d \in Day, booked[c][d] # 0,
             last[i] <= d, d < now[i]
      PROVE  \E r \in sums : r.id = c /\ r.date = d
  <2>1. <<c, d>> \in {e \in Companies \X Day :
              booked[e[1]][e[2]] # 0 /\ last[i] <= e[2] /\ e[2] < now[i]}
    BY <1>3
  <2>2. [id |-> c, date |-> d, fund |-> booked[c][d]] \in sums
    BY <2>1 DEF SumOfRecords
  <2>3. QED BY <2>2
<1> HIDE DEF sums
<1>4. SnapshotTypes'
  BY <1>1, <1>2 DEF IInv, SnapshotTypes, Working, redis, history
<1>5. /\ rows'[i] = {r \in sums : r.id # NoCompany}
      /\ pc'[i] = IF sums = {} THEN "setSnapshot" ELSE "updateDB"
      /\ \A j \in Instances \ {i} : rows'[j] = rows[j] /\ pc'[j] = pc[j]
  BY <1>1 DEF IInv, SnapshotTypes
<1>6. \A c, d : Complete(c, d)' <=> Complete(c, d)
  BY <1>1 DEF Complete, history
<1>7. DatesPassed' /\ StatWithinRecords'
  BY <1>1 DEF IInv, DatesPassed, StatWithinRecords, redis
<1>8. RowsBacked'
  <2>1. ASSUME NEW r \in sums PROVE r.fund <= booked[r.id][r.date]
    BY <1>2 DEF Row
  <2>2. QED BY <1>1, <1>2, <1>5, <2>1 DEF IInv, RowsBacked, history
<1>9. CompleteBefore(snapshot)' /\ StartsComplete'
  BY <1>1, <1>6 DEF IInv, CompleteBefore, StartsComplete, redis
<1>10. ASSUME NEW c \in Companies \ {NoCompany}, NEW d \in Day, d < now[i]
       PROVE  Complete(c, d) \/ \E r \in sums : r.id = c /\ r.date = d
  <2>1. CASE d < last[i]
    BY <2>1 DEF IInv, StartsComplete, CompleteBefore
  <2>2. CASE booked[c][d] = 0
    BY <2>2, NothingBooked
  <2>3. CASE booked[c][d] # 0 /\ last[i] <= d
    BY <1>3, <1>10, <2>3
  <2>4. d \in Nat /\ last[i] \in Nat
    BY DEF IInv, SnapshotTypes, Day, Date
  <2>5. QED BY <2>1, <2>2, <2>3, <2>4
<1>11. WritesRest'
  BY <1>1, <1>5, <1>6, <1>10 DEF IInv, WritesRest
<1>12. WroteAll'
  BY <1>1, <1>5, <1>6, <1>10 DEF IInv, WroteAll, CompleteBefore
<1>13. QED BY <1>4, <1>7, <1>8, <1>9, <1>11, <1>12 DEF IInv

(* The dates are integers.                                                  *)
LEMMA DatesAreInts ==
  ASSUME IInv
  PROVE  /\ today \in Int /\ snapshot \in Int
         /\ \A i \in Instances : now[i] \in Int /\ last[i] \in Int
         /\ \A d \in Day : d \in Int
BY ConstantsAssumption DEF IInv, SnapshotTypes, Day, Date

LEMMA UpdateDBInv ==
  ASSUME IInv, NEW i \in Instances, NEW r \in rows[i], UpdateCompanyMatchDB(i, r)
  PROVE  IInv'
<1> USE DEF UpdateCompanyMatchDB
<1>1. r \in Row /\ r.id \in Companies /\ r.date \in Day /\ r.fund \in Nat
  BY DEF IInv, SnapshotTypes, Row
<1>2. SnapshotTypes'
  BY <1>1 DEF IInv, SnapshotTypes, redis, history
<1>3. /\ rows'[i] = rows[i] \ {r}
      /\ \A j \in Instances \ {i} : rows'[j] = rows[j]
      /\ stat'[r.id][r.date] = r.fund
      /\ \A c \in Companies, d \in Day :
           stat'[c][d] = IF c = r.id /\ d = r.date THEN r.fund ELSE stat[c][d]
  BY <1>1 DEF IInv, SnapshotTypes
<1>4. <<r.id, r.date>> \notin late => r.fund = booked[r.id][r.date]
  BY DEF IInv, RowsBacked
<1>5. Complete(r.id, r.date)'
  BY <1>3, <1>4 DEF Complete, history
<1>6. ASSUME NEW c \in Companies, NEW d \in Day, Complete(c, d)
      PROVE  Complete(c, d)'
  BY <1>3, <1>5, <1>6 DEF Complete, history
<1>7. DatesPassed' /\ RowsBacked'
  <2>1. \A j \in Instances : rows'[j] \subseteq rows[j]
    BY <1>3
  <2>2. /\ UNCHANGED <<today, now, last, booked, late>>
        /\ snapshot' = snapshot
    BY DEF redis, history
  <2>3. DatesPassed'
    BY <2>2 DEF IInv, DatesPassed
  <2>4. RowsBacked'
    BY <2>1, <2>2 DEF IInv, RowsBacked
  <2>5. QED BY <2>3, <2>4
<1>8. StatWithinRecords'
  <2>1. r.fund <= booked[r.id][r.date]
    BY DEF IInv, RowsBacked
  <2>2. \A c \in Companies, d \in Day : stat[c][d] <= booked[c][d]
    BY DEF IInv, StatWithinRecords
  <2>3. QED BY <1>3, <2>1, <2>2 DEF StatWithinRecords
<1>9. CompleteBefore(snapshot)' /\ StartsComplete' /\ WroteAll'
  BY <1>6 DEF IInv, CompleteBefore, StartsComplete, WroteAll, redis
<1>10. WritesRest'
  BY <1>3, <1>5, <1>6 DEF IInv, WritesRest
<1>11. QED BY <1>2, <1>7, <1>8, <1>9, <1>10 DEF IInv

(* All rows are written: what is left is complete.                          *)
LEMMA SumStatInv ==
  ASSUME IInv, NEW i \in Instances, SumStat(i)
  PROVE  IInv'
<1>1. /\ UNCHANGED <<today, booked, stat, redis, now, last, rows, history>>
      /\ pc' = [pc EXCEPT ![i] = "setRank"]
      /\ pc[i] = "updateDB" /\ rows[i] = {}
  BY DEF SumStat, Goto
<1>2. SnapshotTypes'
  BY <1>1 DEF IInv, SnapshotTypes, Working, redis, history
<1>3. pc'[i] = "setRank" /\ \A j \in Instances \ {i} : pc'[j] = pc[j]
  BY <1>1 DEF IInv, SnapshotTypes
<1>4. \A c, d : Complete(c, d)' <=> Complete(c, d)
  BY <1>1 DEF Complete, history
<1>5. CompleteBefore(now[i])
  BY <1>1 DEF IInv, WritesRest, CompleteBefore
<1>6. DatesPassed' /\ StatWithinRecords' /\ RowsBacked'
  BY <1>1 DEF IInv, DatesPassed, StatWithinRecords, RowsBacked, redis, history
<1>7. CompleteBefore(snapshot)' /\ StartsComplete'
  BY <1>1, <1>4 DEF IInv, CompleteBefore, StartsComplete, redis
<1>8. WritesRest' /\ WroteAll'
  BY <1>1, <1>3, <1>4, <1>5 DEF IInv, WritesRest, WroteAll, CompleteBefore
<1>9. QED BY <1>2, <1>6, <1>7, <1>8 DEF IInv

LEMMA CacheInv ==
  ASSUME IInv, NEW i \in Instances,
         SetMatchStatCache(i) \/ \E s \in items[i] : SetCompanyRankCache(i, s)
  PROVE  IInv'
<1>1. /\ UNCHANGED <<today, booked, stat, snapshot, lease, now, last, rows, history>>
      /\ pc[i] = "setRank"
      /\ pc' = pc \/ pc' = [pc EXCEPT ![i] = "setSnapshot"]
  BY DEF SetMatchStatCache, SetCompanyRankCache, Goto
<1>2. SnapshotTypes'
  BY <1>1 DEF IInv, SnapshotTypes, Working, history
<1>3. /\ pc'[i] \in {"setRank", "setSnapshot"}
      /\ \A j \in Instances \ {i} : pc'[j] = pc[j]
  BY <1>1 DEF IInv, SnapshotTypes
<1>4. \A c, d : Complete(c, d)' <=> Complete(c, d)
  BY <1>1 DEF Complete, history
<1>5. DatesPassed' /\ StatWithinRecords' /\ RowsBacked'
  BY <1>1 DEF IInv, DatesPassed, StatWithinRecords, RowsBacked, history
<1>6. CompleteBefore(snapshot)' /\ StartsComplete'
  BY <1>1, <1>4 DEF IInv, CompleteBefore, StartsComplete
<1>7. WritesRest' /\ WroteAll'
  BY <1>1, <1>3, <1>4 DEF IInv, WritesRest, WroteAll, CompleteBefore
<1>8. QED BY <1>2, <1>5, <1>6, <1>7 DEF IInv

(* The date is set when its day is complete, be it a day that others have   *)
(* left behind.                                                             *)
LEMMA SetSnapshotInv ==
  ASSUME IInv, NEW i \in Instances, SetCompanySnapshot(i)
  PROVE  IInv'
<1>1. /\ Leave(i, "waiting") /\ snapshot' = now[i] /\ pc[i] = "setSnapshot"
      /\ UNCHANGED <<today, booked, stat, late, faults, stops>> /\ lease' = lease
  BY DEF SetCompanySnapshot, history
<1>2. CompleteBefore(snapshot')
  BY <1>1 DEF IInv, WroteAll, CompleteBefore
<1>3. snapshot' \in Date /\ snapshot' <= today /\ stops' \in Nat
  BY <1>1 DEF IInv, SnapshotTypes, DatesPassed
<1>4. QED BY <1>1, <1>2, <1>3, LeaveInv

LEMMA LoseRedisInv ==
  ASSUME IInv, LoseRedis
  PROVE  IInv'
<1> USE DEF LoseRedis, Disturbed
<1>1. SnapshotTypes'
  <2>1. 0 \in Date
    BY ConstantsAssumption DEF Date
  <2>2. faults' \subseteq Disturbance
    BY DEF IInv, SnapshotTypes, Disturbance
  <2>3. QED BY <2>1, <2>2 DEF IInv, SnapshotTypes, work
<1>2. \A c, d : Complete(c, d)' <=> Complete(c, d)
  BY DEF Complete
<1>3. 0 <= today
  BY ConstantsAssumption DEF IInv, SnapshotTypes, Day
<1>4. DatesPassed' /\ StatWithinRecords' /\ RowsBacked'
  BY <1>3 DEF IInv, DatesPassed, StatWithinRecords, RowsBacked, work
<1>5. CompleteBefore(snapshot)'
  <2>1. \A d \in Day : ~ d < 0
    BY ConstantsAssumption DEF Day
  <2>2. QED BY <2>1 DEF CompleteBefore
<1>6. StartsComplete' /\ WritesRest' /\ WroteAll'
  BY <1>2 DEF IInv, StartsComplete, WritesRest, WroteAll, CompleteBefore, work
<1>7. QED BY <1>1, <1>4, <1>5, <1>6 DEF IInv

(* A record of today is in no day that anybody sums, a record of an earlier *)
(* day is late.                                                             *)
LEMMA AddRecordInv ==
  ASSUME IInv, NEW c \in Companies, NEW d \in Day, AddRecord(c, d)
  PROVE  IInv'
<1> USE DEF AddRecord, Disturbed
<1>1. /\ booked' \in [Companies -> [Day -> Nat]]
      /\ \A b \in Companies, e \in Day :
           /\ booked[b][e] <= booked'[b][e]
           /\ booked'[b][e] = booked[b][e] \/ (b = c /\ e = d)
  BY DEF IInv, SnapshotTypes
<1>2. SnapshotTypes'
  <2>1. faults' \subseteq Disturbance /\ late' \subseteq Companies \X Day
    BY DEF IInv, SnapshotTypes, Disturbance
  <2>2. QED BY <1>1, <2>1 DEF IInv, SnapshotTypes, redis, work
<1>3. \A b \in Companies, e \in Day : <<b, e>> \notin late' => <<b, e>> \notin late
  OBVIOUS
<1>4. ASSUME NEW b \in Companies, NEW e \in Day, e < today, <<b, e>> \notin late'
      PROVE  booked'[b][e] = booked[b][e]
  BY <1>1, <1>4
<1>5. ASSUME NEW b \in Companies, NEW e \in Day, e < today, Complete(b, e)
      PROVE  Complete(b, e)'
  BY <1>3, <1>4, <1>5 DEF Complete
<1>6. DatesPassed'
  BY DEF IInv, DatesPassed, redis, work
<1>7. StatWithinRecords'
  <2>1. ASSUME NEW b \in Companies, NEW e \in Day PROVE stat[b][e] <= booked'[b][e]
    <3>1. stat[b][e] \in Nat /\ booked[b][e] \in Nat /\ booked'[b][e] \in Nat
      BY <1>1 DEF IInv, SnapshotTypes
    <3>2. stat[b][e] <= booked[b][e] /\ booked[b][e] <= booked'[b][e]
      BY <1>1 DEF IInv, StatWithinRecords
    <3>3. QED BY <3>1, <3>2
  <2>2. QED BY <2>1 DEF StatWithinRecords
<1>8. RowsBacked'
  <2>1. ASSUME NEW i \in Instances, NEW r \in rows[i]
        PROVE  /\ r.date < now[i]
               /\ r.fund <= booked'[r.id][r.date]
               /\ <<r.id, r.date>> \notin late' => r.fund = booked'[r.id][r.date]
    <3>1. r.id \in Companies /\ r.date \in Day /\ r.fund \in Nat
      BY DEF IInv, SnapshotTypes, Row
    <3>2. /\ r.date < now[i] /\ r.fund <= booked[r.id][r.date]
          /\ <<r.id, r.date>> \notin late => r.fund = booked[r.id][r.date]
      BY DEF IInv, RowsBacked
    <3>3. r.date < today
      BY <3>1, <3>2, DatesAreInts DEF IInv, DatesPassed
    <3>4. booked[r.id][r.date] \in Nat /\ booked'[r.id][r.date] \in Nat
      BY <1>1, <3>1 DEF IInv, SnapshotTypes
    <3>5. QED BY <1>1, <1>3, <1>4, <3>1, <3>2, <3>3, <3>4
  <2>2. QED BY <2>1 DEF RowsBacked, work
<1>9. ASSUME NEW day \in Int, day <= today, CompleteBefore(day)
      PROVE  \A b \in Companies \ {NoCompany}, e \in Day : e < day => Complete(b, e)'
  BY <1>5, <1>9, DatesAreInts DEF CompleteBefore
<1>10. CompleteBefore(snapshot)'
  BY <1>9, DatesAreInts DEF IInv, DatesPassed, CompleteBefore, redis
<1>11. StartsComplete'
  BY <1>9, DatesAreInts DEF IInv, DatesPassed, StartsComplete, CompleteBefore, work
<1>12. WroteAll'
  BY <1>9, DatesAreInts DEF IInv, DatesPassed, WroteAll, CompleteBefore, work
<1>13. WritesRest'
  <2>1. ASSUME NEW i \in Instances, pc[i] = "updateDB",
               NEW b \in Companies \ {NoCompany}, NEW e \in Day, e < now[i]
        PROVE  Complete(b, e)' \/ \E r \in rows[i] : r.id = b /\ r.date = e
    <3>1. e < today
      BY <2>1, DatesAreInts DEF IInv, DatesPassed
    <3>2. Complete(b, e) \/ \E r \in rows[i] : r.id = b /\ r.date = e
      BY <2>1 DEF IInv, WritesRest
    <3>3. QED BY <1>5, <3>1, <3>2
  <2>2. QED BY <2>1 DEF WritesRest, work
<1>14. QED BY <1>2, <1>6, <1>7, <1>8, <1>10, <1>11, <1>12, <1>13 DEF IInv

LEMMA NextDayInv ==
  ASSUME IInv, NextDay
  PROVE  IInv'
<1> USE DEF NextDay, Disturbed
<1>1. SnapshotTypes'
  <2>1. today' \in Day
    BY ConstantsAssumption DEF IInv, SnapshotTypes, Day
  <2>2. faults' \subseteq Disturbance
    BY DEF IInv, SnapshotTypes, Disturbance
  <2>3. QED BY <2>1, <2>2 DEF IInv, SnapshotTypes, redis, work
<1>2. \A c, d : Complete(c, d)' <=> Complete(c, d)
  BY DEF Complete
<1>3. DatesPassed'
  BY DatesAreInts DEF IInv, DatesPassed, redis, work
<1>4. StatWithinRecords' /\ RowsBacked'
  BY DEF IInv, StatWithinRecords, RowsBacked, work
<1>5. CompleteBefore(snapshot)' /\ StartsComplete' /\ WritesRest' /\ WroteAll'
  BY <1>2 DEF IInv, StartsComplete, WritesRest, WroteAll, CompleteBefore, redis, work
<1>6. QED BY <1>1, <1>3, <1>4, <1>5 DEF IInv

-----------------------------------------------------------------------------

LEMMA NextInv == IInv /\ [Next]_vars => IInv'
<1> SUFFICES ASSUME IInv, [Next]_vars PROVE IInv'
  OBVIOUS
<1>1. ASSUME NEW i \in Instances, Tick(i) \/ GetLeader(i) PROVE IInv'
  <2>1. /\ UNCHANGED <<today, booked, stat, snapshot, now, last, rows, history>>
        /\ lease' \in Instances \cup {NoInstance}
        /\ \/ pc' = [pc EXCEPT ![i] = "start"]
           \/ pc' = [pc EXCEPT ![i] = "getLeader"]
           \/ pc' = [pc EXCEPT ![i] = "waiting"]
    BY <1>1 DEF IInv, SnapshotTypes, Tick, GetLeader, Goto, redis
  <2>2. QED BY <2>1, FrameInv
<1>2. ASSUME NEW i \in Instances, Fail(i) \/ Die(i) PROVE IInv'
  <2>1. /\ Leave(i, "waiting") \/ Leave(i, "down")
        /\ UNCHANGED <<today, booked, stat, redis, late, faults>>
        /\ stops' = stops + 1
    BY <1>2 DEF Fail, Die
  <2>2. /\ stops' \in Nat /\ snapshot' \in Date /\ snapshot' <= today
        /\ CompleteBefore(snapshot') /\ lease' = lease
    BY <2>1 DEF IInv, SnapshotTypes, DatesPassed, CompleteBefore, redis
  <2>3. QED BY <2>1, <2>2, LeaveInv
<1>3. ASSUME NEW i \in Instances, Restart(i) PROVE IInv'
  <2>1. /\ UNCHANGED <<today, booked, stat, snapshot, now, last, rows, history>>
        /\ lease' \in Instances \cup {NoInstance}
        /\ pc' = [pc EXCEPT ![i] = "start"]
    BY <1>3 DEF IInv, SnapshotTypes, Restart, Goto, redis
  <2>2. QED BY <2>1, FrameInv
<1>4. ASSUME NEW i \in Instances, Work(i) PROVE IInv'
  BY <1>1, <1>4, StartInv, GetSnapshotInv, SumRecordsInv, UpdateDBInv, SumStatInv,
     CacheInv, SetSnapshotInv DEF Work
<1>5. CASE ExpireLease
  <2>2. SnapshotTypes'
    BY <1>5 DEF IInv, SnapshotTypes, ExpireLease, work, history
  <2>3. \A c, d : Complete(c, d)' <=> Complete(c, d)
    BY <1>5 DEF Complete, ExpireLease, history
  <2>4. DatesPassed' /\ StatWithinRecords' /\ RowsBacked'
    BY <1>5 DEF IInv, DatesPassed, StatWithinRecords, RowsBacked, ExpireLease, work, history
  <2>5. CompleteBefore(snapshot)' /\ StartsComplete' /\ WritesRest' /\ WroteAll'
    BY <1>5, <2>3 DEF IInv, StartsComplete, WritesRest, WroteAll, CompleteBefore,
       ExpireLease, work
  <2>6. QED BY <2>2, <2>4, <2>5 DEF IInv
<1>6. CASE UNCHANGED vars
  <2>1. SnapshotTypes'
    BY <1>6 DEF IInv, SnapshotTypes, vars, redis, work, history
  <2>2. \A c, d : Complete(c, d)' <=> Complete(c, d)
    BY <1>6 DEF Complete, vars, history
  <2>3. DatesPassed' /\ StatWithinRecords' /\ RowsBacked'
    BY <1>6 DEF IInv, DatesPassed, StatWithinRecords, RowsBacked, vars, redis, work, history
  <2>4. CompleteBefore(snapshot)' /\ StartsComplete' /\ WritesRest' /\ WroteAll'
    BY <1>6, <2>2 DEF IInv, StartsComplete, WritesRest, WroteAll, CompleteBefore,
       vars, redis, work
  <2>5. QED BY <2>1, <2>3, <2>4 DEF IInv
<1>7. ASSUME NEW c \in Companies, NEW d \in Day, AddRecord(c, d) PROVE IInv'
  BY <1>7, AddRecordInv
<1>8. QED
  BY <1>2, <1>3, <1>4, <1>5, <1>6, <1>7, LoseRedisInv, NextDayInv DEF Next

THEOREM Invariance == Spec => []IInv
<1>1. QED BY InitInv, NextInv, PTL DEF Spec

(* No row of t_company_match_stat ever exceeds the records of its company   *)
(* and day, although several instances write rows they summed earlier.      *)
THEOREM StatBacked == Spec => []StatWithinRecords
<1>1. IInv => StatWithinRecords
  BY DEF IInv
<1>2. QED BY <1>1, Invariance, PTL

(* The days before the snapshot date are complete in the table, whichever   *)
(* instance set the date and whoever overtook it, except for records        *)
(* inserted after their day.                                                *)
THEOREM SnapshotComplete == Spec => []SnapshotIsComplete
<1>1. IInv => SnapshotIsComplete
  BY DEF IInv, CompleteBefore, Complete, SnapshotIsComplete
<1>2. QED BY <1>1, Invariance, PTL

-----------------------------------------------------------------------------
(* Sums of days and of companies.                                           *)

Named == Companies \ {NoCompany}

Table == [Companies -> [Day -> Nat]]

LEMMA DaysAreFinite ==
  ASSUME NEW d PROVE IsFiniteSet({e \in Day : e < d})
<1>1. IsFiniteSet(Day)
  BY ConstantsAssumption, FS_Interval DEF Day
<1> QED BY <1>1, FS_Subset

LEMMA NamedAreFinite == IsFiniteSet(Named)
BY ConstantsAssumption, FS_Subset DEF Named

LEMMA SumBeforeIsNat ==
  ASSUME NEW f \in [Day -> Nat], NEW d PROVE SumBefore(f, d) \in Nat
<1> DEFINE S == {e \in Day : e < d}
<1>1. IsFiniteSet(S) /\ \A e \in S : f[e] \in Nat
  BY DaysAreFinite
<1> HIDE DEF S
<1>2. SumFunctionOnSet(f, S) \in Nat
  BY <1>1, SumIsNat
<1> QED BY <1>2 DEF SumBefore, S

(* More days of larger values add up to more.                               *)
LEMMA SumBeforeGrows ==
  ASSUME NEW f \in [Day -> Nat], NEW g \in [Day -> Nat], NEW a \in Int, NEW b \in Int,
         a <= b, \A e \in Day : f[e] <= g[e]
  PROVE  SumBefore(f, a) <= SumBefore(g, b)
<1> DEFINE S == {e \in Day : e < a}
           T == {e \in Day : e < b}
<1>1. S \subseteq T
  BY ConstantsAssumption DEF Day
<1>2. IsFiniteSet(T) /\ (\A e \in S : f[e] \in Nat /\ f[e] <= g[e])
      /\ \A e \in T : g[e] \in Nat
  BY DaysAreFinite
<1> HIDE DEF S, T
<1>3. SumFunctionOnSet(f, S) <= SumFunctionOnSet(g, T)
  BY <1>1, <1>2, SumMonotone
<1> QED BY <1>3 DEF SumBefore, S, T

LEMMA SumBeforeSame ==
  ASSUME NEW f \in [Day -> Nat], NEW g, NEW d, \A e \in Day : e < d => f[e] = g[e]
  PROVE  SumBefore(f, d) = SumBefore(g, d)
<1> DEFINE S == {e \in Day : e < d}
<1>1. IsFiniteSet(S) /\ \A e \in S : f[e] \in Nat /\ f[e] = g[e]
  BY DaysAreFinite
<1> HIDE DEF S
<1>2. SumFunctionOnSet(f, S) = SumFunctionOnSet(g, S)
  BY <1>1, SumSame
<1> QED BY <1>2 DEF SumBefore, S

(* Days without anything need not be summed.                                *)
LEMMA SumBeforeSkips ==
  ASSUME NEW f \in [Day -> Nat], NEW a \in Int, NEW b \in Int, a <= b,
         \A e \in Day : a <= e /\ e < b => f[e] = 0
  PROVE  SumBefore(f, b) = SumBefore(f, a)
<1> DEFINE S == {e \in Day : e < a}
           T == {e \in Day : e < b}
<1>1. S \subseteq T
  BY ConstantsAssumption DEF Day
<1>2. IsFiniteSet(T)
  BY DaysAreFinite
<1>3. \A e \in T : f[e] \in Nat /\ f[e] = IF e \in S THEN f[e] ELSE 0
  BY ConstantsAssumption DEF Day
<1> HIDE DEF S, T
<1>4. SumFunctionOnSet(f, T) = SumFunctionOnSet(f, S)
  BY <1>1, <1>2, <1>3, SumOnly
<1> QED BY <1>4 DEF SumBefore, S, T

LEMMA SumBeforeNothing ==
  ASSUME NEW f, NEW d \in Int, d <= 0 PROVE SumBefore(f, d) = 0
<1>1. {e \in Day : e < d} = {}
  BY ConstantsAssumption DEF Day
<1> QED BY <1>1, SumEmpty DEF SumBefore

LEMMA SumBeforeZeros ==
  ASSUME NEW f \in [Day -> Nat], NEW d \in Int, \A e \in Day : e < d => f[e] = 0
  PROVE  SumBefore(f, d) = 0
<1>1. CASE d <= 0
  BY <1>1, SumBeforeNothing
<1>2. CASE 0 <= d
  <2>1. SumBefore(f, d) = SumBefore(f, 0)
    BY <1>2, SumBeforeSkips
  <2> QED BY <2>1, SumBeforeNothing
<1> QED BY <1>1, <1>2

LEMMA FundsAreNat ==
  ASSUME NEW t \in Table, NEW d PROVE FundsBefore(t, d) \in Nat
<1> DEFINE f == [c \in Named |-> SumBefore(t[c], d)]
<1>1. \A c \in Named : f[c] \in Nat
  BY SumBeforeIsNat DEF Named, Table
<1> HIDE DEF f
<1>2. SumFunctionOnSet(f, Named) \in Nat
  BY <1>1, NamedAreFinite, SumIsNat
<1> QED BY <1>2 DEF FundsBefore, Named, f

LEMMA FundsGrow ==
  ASSUME NEW t \in Table, NEW u \in Table, NEW a, NEW b,
         \A c \in Named : SumBefore(t[c], a) <= SumBefore(u[c], b)
  PROVE  FundsBefore(t, a) <= FundsBefore(u, b)
<1> DEFINE f == [c \in Named |-> SumBefore(t[c], a)]
           g == [c \in Named |-> SumBefore(u[c], b)]
<1>1. \A c \in Named : f[c] \in Nat /\ g[c] \in Nat /\ f[c] <= g[c]
  BY SumBeforeIsNat DEF Named, Table
<1> HIDE DEF f, g
<1>2. SumFunctionOnSet(f, Named) <= SumFunctionOnSet(g, Named)
  BY <1>1, NamedAreFinite, SumMonotone
<1> QED BY <1>2 DEF FundsBefore, Named, f, g

LEMMA FundsSame ==
  ASSUME NEW t, NEW u, NEW a, NEW b,
         \A c \in Named : SumBefore(t[c], a) = SumBefore(u[c], b)
  PROVE  FundsBefore(t, a) = FundsBefore(u, b)
<1>1. [c \in Named |-> SumBefore(t[c], a)] = [c \in Named |-> SumBefore(u[c], b)]
  OBVIOUS
<1> QED BY <1>1 DEF FundsBefore, Named

(* The items that SumOfStat reads add up to the funds of all companies.     *)
LEMMA ItemsAddUp ==
  ASSUME NEW d \in Int, stat \in Table,
         NoCompany \in Companies => \A e \in Day : stat[NoCompany][e] = 0
  PROVE  SumOfItems(SumOfStat(d)) = FundsBefore(stat, d)
<1> DEFINE T == {c \in Companies : \E e \in Day : e < d /\ stat[c][e] # 0}
           h == [c \in T |-> [id |-> c, fund |-> SumBefore(stat[c], d)]]
           S == SumOfStat(d)
           f == [s \in S |-> s.fund]
           g == [c \in T |-> SumBefore(stat[c], d)]
           k == [c \in Named |-> SumBefore(stat[c], d)]
<1>1. S = {h[c] : c \in T}
  BY DEF SumOfStat
<1>2. T \subseteq Named
  BY DEF Named
<1>3. \A c \in Named : SumBefore(stat[c], d) \in Nat
  BY SumBeforeIsNat DEF Named, Table
<1>4. \A c \in T : h[c].id = c /\ f[h[c]] = SumBefore(stat[c], d)
  <2> SUFFICES ASSUME NEW c \in T PROVE h[c].id = c /\ f[h[c]] = SumBefore(stat[c], d)
    OBVIOUS
  <2>1. h[c] \in S
    BY <1>1
  <2> HIDE DEF S
  <2> QED BY <2>1
<1>5. \A c \in Named \ T : SumBefore(stat[c], d) = 0
  BY SumBeforeZeros DEF Named, Table
<1>6. \A c \in Named : k[c] \in Nat /\ k[c] = IF c \in T THEN g[c] ELSE 0
  BY <1>3, <1>5
<1>7. \A c \in T : f[h[c]] \in Nat /\ g[c] = f[h[c]]
  BY <1>2, <1>3, <1>4
<1>8. \A x, y \in T : h[x] = h[y] => x = y
  BY <1>4
<1> HIDE DEF T, h, S, f, g, k
<1>9. IsFiniteSet(T)
  BY <1>2, NamedAreFinite, FS_Subset
<1>10. SumFunctionOnSet(f, {h[c] : c \in T}) = SumFunctionOnSet(g, T)
  BY <1>7, <1>8, <1>9, SumReindex
<1>11. SumFunctionOnSet(k, Named) = SumFunctionOnSet(g, T)
  BY <1>2, <1>6, NamedAreFinite, SumOnly
<1>12. SumOfItems(S) = SumFunctionOnSet(f, {h[c] : c \in T})
  BY <1>1 DEF SumOfItems, f
<1>13. FundsBefore(stat, d) = SumFunctionOnSet(k, Named)
  BY DEF FundsBefore, Named, k
<1> QED BY <1>10, <1>11, <1>12, <1>13 DEF S

-----------------------------------------------------------------------------
(* What the workers hold and where.                                         *)

RankTypes ==
  /\ rank \in [Companies -> Nat] /\ total \in Nat
  /\ items \in [Instances -> SUBSET Item]
  /\ sumAll \in [Instances -> Nat]

(* A worker has its day between the start and the end of generateSnapshot,  *)
(* and items only while it writes the rank.                                 *)
Places ==
  \A i \in Instances :
    /\ now[i] # 0 <=> pc[i] \in Working \ {"start"}
    /\ items[i] # {} => pc[i] = "setRank"

(* The records of no company reach neither the table nor the rank.          *)
Nobody ==
  /\ NoCompany \in Companies => \A d \in Day : stat[NoCompany][d] = 0
  /\ \A i \in Instances : \A r \in rows[i] : r.id # NoCompany
  /\ \A i \in Instances : \A s \in items[i] : s.id # NoCompany

Held == RankTypes /\ Places /\ Nobody

LEMMA InitHeld == Init => Held
BY DEF Init, Held, RankTypes, Places, Nobody, Working

(* The sums of the table as items.                                          *)
LEMMA SumsAreItems ==
  ASSUME IInv, Nobody, NEW d \in Int
  PROVE  /\ SumOfStat(d) \subseteq Item
         /\ \A s \in SumOfStat(d) : s.id # NoCompany /\ s.fund = SumBefore(stat[s.id], d)
         /\ SumOfItems(SumOfStat(d)) = FundsBefore(stat, d)
         /\ FundsBefore(stat, d) \in Nat
<1>1. stat \in Table
  BY DEF IInv, SnapshotTypes, Table
<1>2. \A c \in Companies : SumBefore(stat[c], d) \in Nat
  BY <1>1, SumBeforeIsNat DEF Table
<1>3. SumOfStat(d) \subseteq Item
  BY <1>2 DEF SumOfStat, Item
<1>4. \A s \in SumOfStat(d) : s.id # NoCompany /\ s.fund = SumBefore(stat[s.id], d)
  BY DEF SumOfStat, Nobody
<1> QED BY <1>1, <1>3, <1>4, ItemsAddUp, FundsAreNat DEF Nobody

(* One worker moves: of the others nothing changes.                         *)
LEMMA StepTypes ==
  ASSUME IInv, Held, NEW i \in Instances, Work(i) PROVE RankTypes'
<1> USE DEF IInv, SnapshotTypes, Held, RankTypes
<1>1. CASE Tick(i) \/ GetLeader(i) \/ Start(i) \/ SumRecords(i)
  BY <1>1 DEF Tick, GetLeader, Start, SumRecords, redis
<1>2. CASE GetCompanySnapshot(i) \/ SetCompanySnapshot(i)
  BY <1>2 DEF GetCompanySnapshot, SetCompanySnapshot, Leave, redis
<1>3. CASE \E r \in rows[i] : UpdateCompanyMatchDB(i, r)
  BY <1>3 DEF UpdateCompanyMatchDB, redis
<1>4. CASE SumStat(i)
  <2>1. SumOfStat(now[i]) \subseteq Item /\ SumOfItems(SumOfStat(now[i])) \in Nat
    BY SumsAreItems, DatesAreInts
  <2>2. /\ UNCHANGED <<rank, total>>
        /\ items' = [items EXCEPT ![i] = SumOfStat(now[i])]
        /\ sumAll' = [sumAll EXCEPT ![i] = SumOfItems(SumOfStat(now[i]))]
    BY <1>4 DEF SumStat, redis
  <2> QED BY <2>1, <2>2
<1>5. CASE \E s \in items[i] : SetCompanyRankCache(i, s)
  BY <1>5 DEF SetCompanyRankCache, Item
<1>6. CASE SetMatchStatCache(i)
  BY <1>6 DEF SetMatchStatCache
<1> QED BY <1>1, <1>2, <1>3, <1>4, <1>5, <1>6 DEF Work

LEMMA StepPlaces ==
  ASSUME IInv, Held, NEW i \in Instances, Work(i) PROVE Places'
<1> USE DEF IInv, SnapshotTypes, Held, RankTypes, Places, Goto, Leave
<1>1. CASE Tick(i) \/ GetLeader(i)
  BY <1>1 DEF Tick, GetLeader, Working
<1>2. CASE Start(i)
  BY <1>2, ConstantsAssumption DEF Start, Working, Day
<1>3. CASE GetCompanySnapshot(i) \/ SetCompanySnapshot(i)
  BY <1>3 DEF GetCompanySnapshot, SetCompanySnapshot, Working
<1>4. CASE SumRecords(i)
  BY <1>4 DEF SumRecords, Working
<1>5. CASE \E r \in rows[i] : UpdateCompanyMatchDB(i, r)
  BY <1>5 DEF UpdateCompanyMatchDB
<1>6. CASE SumStat(i)
  BY <1>6 DEF SumStat, Working
<1>7. CASE \E s \in items[i] : SetCompanyRankCache(i, s)
  BY <1>7 DEF SetCompanyRankCache
<1>8. CASE SetMatchStatCache(i)
  BY <1>8 DEF SetMatchStatCache, Working
<1> QED BY <1>1, <1>2, <1>3, <1>4, <1>5, <1>6, <1>7, <1>8 DEF Work

LEMMA StepNobody ==
  ASSUME IInv, Held, NEW i \in Instances, Work(i) PROVE Nobody'
<1> USE DEF IInv, SnapshotTypes, Held, RankTypes, Nobody
<1>1. CASE Tick(i) \/ GetLeader(i) \/ Start(i) \/ SetMatchStatCache(i)
  BY <1>1 DEF Tick, GetLeader, Start, SetMatchStatCache
<1>2. CASE GetCompanySnapshot(i) \/ SetCompanySnapshot(i)
  BY <1>2 DEF GetCompanySnapshot, SetCompanySnapshot, Leave
<1>3. CASE SumRecords(i)
  BY <1>3 DEF SumRecords
<1>4. CASE \E r \in rows[i] : UpdateCompanyMatchDB(i, r)
  BY <1>4 DEF UpdateCompanyMatchDB, Row
<1>5. CASE SumStat(i)
  <2>1. \A s \in SumOfStat(now[i]) : s.id # NoCompany
    BY SumsAreItems, DatesAreInts
  <2> QED BY <1>5, <2>1 DEF SumStat
<1>6. CASE \E s \in items[i] : SetCompanyRankCache(i, s)
  BY <1>6 DEF SetCompanyRankCache
<1> QED BY <1>1, <1>2, <1>3, <1>4, <1>5, <1>6 DEF Work

LEMMA HeldKept == IInv /\ Held /\ [Next]_vars => Held'
<1> SUFFICES ASSUME IInv, Held, [Next]_vars PROVE Held'
  OBVIOUS
<1>1. ASSUME NEW i \in Instances, Work(i) PROVE Held'
  <2>1. RankTypes' /\ Places' /\ Nobody'
    BY <1>1, StepTypes, StepPlaces, StepNobody
  <2> QED BY <2>1 DEF Held
<1>2. ASSUME NEW i \in Instances, Fail(i) \/ Die(i) \/ Restart(i) PROVE Held'
  <2>1. CASE Fail(i) \/ Die(i)
    <3>1. /\ Leave(i, "waiting") \/ Leave(i, "down")
          /\ UNCHANGED <<stat, rank, total>>
      BY <2>1 DEF Fail, Die, redis
    <3>2. RankTypes'
      BY <3>1 DEF Held, RankTypes, Leave
    <3>3. Places'
      BY <3>1 DEF IInv, SnapshotTypes, Held, RankTypes, Places, Leave, Goto, Working
    <3>4. Nobody'
      BY <3>1 DEF IInv, SnapshotTypes, Held, RankTypes, Nobody, Leave
    <3> QED BY <3>2, <3>3, <3>4 DEF Held
  <2>2. CASE Restart(i)
    BY <2>2 DEF IInv, SnapshotTypes, Held, RankTypes, Places, Nobody, Restart, Goto, redis,
       Working
  <2> QED BY <1>2, <2>1, <2>2
<1>3. CASE ExpireLease
  BY <1>3 DEF Held, RankTypes, Places, Nobody, ExpireLease, work
<1>4. CASE LoseRedis
  BY <1>4 DEF Held, RankTypes, Places, Nobody, LoseRedis, work
<1>5. CASE NextDay \/ \E c \in Companies, d \in Day : AddRecord(c, d)
  BY <1>5 DEF Held, RankTypes, Places, Nobody, NextDay, AddRecord, redis, work
<1>6. CASE UNCHANGED vars
  BY <1>6 DEF Held, RankTypes, Places, Nobody, vars, redis, work
<1> QED BY <1>1, <1>2, <1>3, <1>4, <1>5, <1>6 DEF Next

-----------------------------------------------------------------------------
(* The rank between two bounds. While no disturbance has met a snapshot,    *)
(* the rank and the total never say more than the records of the days       *)
(* before today, and never less than those before the snapshot date. Every  *)
(* write only raises them, so it does no harm that several instances write. *)

(* A rank r and a total t say at most what the records b of the days before *)
(* d add up to.                                                             *)
Within(b, r, t, d) ==
  /\ \A c \in Named : r[c] <= SumBefore(b[c], d)
  /\ t <= FundsBefore(b, d)

(* They say at least that.                                                  *)
Covers(b, r, t, d) ==
  /\ \A c \in Named : SumBefore(b[c], d) <= r[c]
  /\ FundsBefore(b, d) <= t

(* The items of i are the sums of the records before today, and what is not *)
(* yet in the rank is among them.                                           *)
WritesToday(i) ==
  /\ \A s \in items[i] : s.fund = SumBefore(booked[s.id], today)
  /\ sumAll[i] = FundsBefore(booked, today)
  /\ \A c \in Named :
       SumBefore(booked[c], today) <= rank[c] \/ \E s \in items[i] : s.id = c

(* What holds of the worker of i: it works on today, from a date that the   *)
(* rank covers, and when it comes to the date the rank covers today.        *)
Worker(i) ==
  /\ now[i] \in {0, today}
  /\ pc[i] = "sumRecords" => Covers(booked, rank, total, last[i])
  /\ pc[i] = "setRank" => WritesToday(i)
  /\ pc[i] = "setSnapshot" => Covers(booked, rank, total, today)

Clean ==
  /\ late = {}
  /\ Within(booked, rank, total, today)
  /\ Covers(booked, rank, total, snapshot)
  /\ \A i \in Instances : Worker(i)

CleanInv == faults = {} => Clean

Ranks == [Companies -> Nat]

(* Larger ranks, and the same records, cover as much.                       *)
LEMMA CoversKept ==
  ASSUME NEW b \in Table, NEW g \in Table, NEW r \in Ranks, NEW q \in Ranks,
         NEW t \in Nat, NEW u \in Nat, NEW d,
         Covers(b, r, t, d), t <= u, \A c \in Named : r[c] <= q[c],
         \A c \in Named, e \in Day : e < d => b[c][e] = g[c][e]
  PROVE  Covers(g, q, u, d)
<1>1. ASSUME NEW c \in Named PROVE SumBefore(b[c], d) = SumBefore(g[c], d)
  BY SumBeforeSame DEF Named, Table
<1>2. FundsBefore(b, d) = FundsBefore(g, d)
  BY <1>1, FundsSame
<1>3. \A c \in Named : /\ SumBefore(b[c], d) \in Nat /\ r[c] \in Nat /\ q[c] \in Nat
                       /\ SumBefore(b[c], d) <= r[c]
  BY SumBeforeIsNat DEF Named, Table, Ranks, Covers
<1>4. FundsBefore(b, d) \in Nat /\ FundsBefore(b, d) <= t
  BY FundsAreNat DEF Covers
<1>5. \A c \in Named : SumBefore(g[c], d) <= q[c]
  BY <1>1, <1>3
<1>6. FundsBefore(g, d) <= u
  BY <1>2, <1>4
<1> QED BY <1>5, <1>6 DEF Covers

(* Days without records are covered with the days before them.              *)
LEMMA CoversSkips ==
  ASSUME NEW b \in Table, NEW r, NEW t, NEW d \in Int, NEW e \in Int, d <= e,
         Covers(b, r, t, d),
         \A c \in Named, x \in Day : d <= x /\ x < e => b[c][x] = 0
  PROVE  Covers(b, r, t, e)
<1>1. ASSUME NEW c \in Named PROVE SumBefore(b[c], e) = SumBefore(b[c], d)
  BY SumBeforeSkips DEF Named, Table
<1>2. FundsBefore(b, e) = FundsBefore(b, d)
  BY <1>1, FundsSame
<1> QED BY <1>1, <1>2 DEF Covers

(* Within more records.                                                     *)
LEMMA WithinKept ==
  ASSUME NEW b \in Table, NEW g \in Table, NEW r \in Ranks, NEW t \in Nat,
         NEW d \in Int, NEW e \in Int, d <= e, Within(b, r, t, d),
         \A c \in Named, x \in Day : b[c][x] <= g[c][x]
  PROVE  Within(g, r, t, e)
<1>1. ASSUME NEW c \in Named PROVE SumBefore(b[c], d) <= SumBefore(g[c], e)
  BY SumBeforeGrows DEF Named, Table
<1>2. FundsBefore(b, d) <= FundsBefore(g, e)
  BY <1>1, FundsGrow
<1>3. \A c \in Named : /\ SumBefore(b[c], d) \in Nat /\ SumBefore(g[c], e) \in Nat
                       /\ r[c] \in Nat
  BY SumBeforeIsNat DEF Named, Table, Ranks
<1>4. FundsBefore(b, d) \in Nat /\ FundsBefore(g, e) \in Nat
  BY FundsAreNat
<1>5. \A c \in Named : r[c] <= SumBefore(g[c], e)
  BY <1>1, <1>3 DEF Within
<1>6. t <= FundsBefore(g, e)
  BY <1>2, <1>4 DEF Within
<1> QED BY <1>5, <1>6 DEF Within

(* Nothing is within everything and covers no day.                          *)
LEMMA NothingWritten ==
  ASSUME NEW b \in Table, NEW d \in Int,
         NEW r, r = [c \in Companies |-> 0]
  PROVE  Within(b, r, 0, d) /\ Covers(b, r, 0, 0)
<1>1. \A c \in Named : SumBefore(b[c], d) \in Nat /\ r[c] = 0
  BY SumBeforeIsNat DEF Named, Table
<1>2. FundsBefore(b, d) \in Nat
  BY FundsAreNat
<1>3. \A c \in Named : SumBefore(b[c], 0) = 0
  BY SumBeforeNothing DEF Named
<1>4. FundsBefore(b, 0) <= 0
  <2> DEFINE f == [c \in Named |-> SumBefore(b[c], 0)]
             g == [c \in {} |-> 0]
  <2>1. \A c \in Named : f[c] \in Nat /\ f[c] = IF c \in {} THEN g[c] ELSE 0
    BY <1>3
  <2> HIDE DEF f, g
  <2>2. SumFunctionOnSet(f, Named) = SumFunctionOnSet(g, {})
    BY <2>1, NamedAreFinite, SumOnly
  <2>3. SumFunctionOnSet(f, Named) = 0
    BY <2>2, SumEmpty
  <2> QED BY <2>3 DEF FundsBefore, Named, f
<1> QED BY <1>1, <1>2, <1>3, <1>4 DEF Within, Covers

LEMMA InitClean == Init => CleanInv
<1> SUFFICES ASSUME Init PROVE Clean
  BY DEF CleanInv
<1>1. booked \in Table
  BY DEF Init, Table
<1>2. Within(booked, rank, total, today) /\ Covers(booked, rank, total, snapshot)
  BY <1>1, NothingWritten DEF Init
<1> QED BY <1>2 DEF Init, Clean, Worker

(* What i does without writing the rank.                                    *)
LEMMA QuietClean ==
  ASSUME Clean, NEW i \in Instances,
         UNCHANGED <<today, booked, late, rank, total, snapshot>>,
         \A j \in Instances \ {i} : /\ pc'[j] = pc[j] /\ now'[j] = now[j]
                                    /\ last'[j] = last[j] /\ items'[j] = items[j]
                                    /\ sumAll'[j] = sumAll[j],
         Worker(i)'
  PROVE  Clean'
<1>1. \A j \in Instances \ {i} : Worker(j)'
  BY DEF Clean, Worker, WritesToday
<1>2. \A j \in Instances : Worker(j)'
  BY <1>1
<1>3. late' = {} /\ Within(booked, rank, total, today)'
      /\ Covers(booked, rank, total, snapshot)'
  BY DEF Clean
<1> QED BY <1>2, <1>3 DEF Clean

(* A worker that does nothing with a snapshot.                              *)
LEMMA IdleWorker ==
  ASSUME NEW i \in Instances, now'[i] \in {0, today'},
         pc'[i] \notin {"sumRecords", "setRank", "setSnapshot"}
  PROVE  Worker(i)'
BY DEF Worker

LEMMA LeaveClean ==
  ASSUME IInv, Held, Clean, NEW i \in Instances, NEW label \in {"waiting", "down"},
         Leave(i, label), UNCHANGED <<today, booked, late, rank, total, snapshot>>
  PROVE  Clean'
<1>1. \A j \in Instances \ {i} : /\ pc'[j] = pc[j] /\ now'[j] = now[j]
                                 /\ last'[j] = last[j] /\ items'[j] = items[j]
                                 /\ sumAll'[j] = sumAll[j]
  BY DEF IInv, SnapshotTypes, Held, RankTypes, Leave, Goto
<1>2. Worker(i)'
  BY IdleWorker DEF IInv, SnapshotTypes, Leave, Goto
<1> QED BY <1>1, <1>2, QuietClean

LEMMA LeaseClean ==
  ASSUME IInv, Held, Clean, NEW i \in Instances,
         Tick(i) \/ GetLeader(i) \/ Restart(i) \/ Start(i)
  PROVE  Clean'
<1>1. /\ UNCHANGED <<today, booked, late, rank, total, snapshot, last, items, sumAll>>
      /\ \A j \in Instances \ {i} : pc'[j] = pc[j] /\ now'[j] = now[j]
      /\ now'[i] \in {now[i], today}
      /\ pc'[i] \in {"start", "waiting", "getLeader", "getSnapshot"}
  BY DEF IInv, SnapshotTypes, Tick, GetLeader, Restart, Start, Goto, redis, history
<1>2. now'[i] \in {0, today'}
  BY <1>1 DEF Clean, Worker
<1>3. Worker(i)'
  BY <1>1, <1>2, IdleWorker
<1> QED BY <1>1, <1>3, QuietClean

LEMMA GetSnapshotClean ==
  ASSUME IInv, Held, Clean, NEW i \in Instances, GetCompanySnapshot(i)
  PROVE  Clean'
<1>1. CASE snapshot = now[i]
  BY <1>1, LeaveClean DEF GetCompanySnapshot, redis, history
<1>2. CASE snapshot # now[i]
  <2>1. /\ UNCHANGED <<today, booked, late, rank, total, snapshot, now, items, sumAll>>
        /\ \A j \in Instances \ {i} : pc'[j] = pc[j] /\ last'[j] = last[j]
        /\ last'[i] = snapshot /\ pc'[i] = "sumRecords"
    BY <1>2 DEF IInv, SnapshotTypes, GetCompanySnapshot, Goto, redis, history
  <2>2. now'[i] \in {0, today'} /\ Covers(booked, rank, total, snapshot)
    BY <2>1 DEF Clean, Worker
  <2>3. Worker(i)'
    BY <2>1, <2>2 DEF Worker
  <2> QED BY <2>1, <2>3, QuietClean
<1> QED BY <1>1, <1>2

(* Without any record since the last snapshot it covers today as well.      *)
LEMMA SumRecordsClean ==
  ASSUME IInv, Held, Clean, NEW i \in Instances, SumRecords(i)
  PROVE  Clean'
<1> DEFINE sums == SumOfRecords(last[i], now[i])
<1>1. /\ UNCHANGED <<today, booked, late, rank, total, snapshot, now, last, items, sumAll>>
      /\ \A j \in Instances \ {i} : pc'[j] = pc[j]
      /\ pc[i] = "sumRecords"
      /\ pc'[i] = IF sums = {} THEN "setSnapshot" ELSE "updateDB"
  BY DEF IInv, SnapshotTypes, SumRecords, Goto, redis, history
<1>2. now[i] = today /\ Covers(booked, rank, total, last[i])
  BY <1>1 DEF Clean, Worker, Held, Places, Working
<1>3. ASSUME sums = {} PROVE Covers(booked, rank, total, today)
  <2>1. ASSUME NEW c \in Named, NEW d \in Day, last[i] <= d, d < today
        PROVE  booked[c][d] = 0
    <3> SUFFICES ASSUME booked[c][d] # 0 PROVE FALSE
      OBVIOUS
    <3>1. <<c, d>> \in {e \in Companies \X Day :
              booked[e[1]][e[2]] # 0 /\ last[i] <= e[2] /\ e[2] < now[i]}
      BY <2>1, <1>2 DEF Named
    <3> QED BY <3>1, <1>3 DEF SumOfRecords
  <2>2. booked \in Table /\ last[i] \in Int /\ today \in Int /\ last[i] <= today
    BY DatesAreInts DEF IInv, SnapshotTypes, DatesPassed, Table
  <2> QED BY <1>2, <2>1, <2>2, CoversSkips
<1> HIDE DEF sums
<1>4. Worker(i)'
  BY <1>1, <1>2, <1>3 DEF Worker
<1> QED BY <1>1, <1>4, QuietClean

LEMMA UpdateDBClean ==
  ASSUME IInv, Held, Clean, NEW i \in Instances, NEW r \in rows[i],
         UpdateCompanyMatchDB(i, r)
  PROVE  Clean'
<1>1. UNCHANGED <<today, booked, late, rank, total, snapshot, pc, now, last, items, sumAll>>
  BY DEF UpdateCompanyMatchDB, redis, history
<1>2. Worker(i)'
  BY <1>1 DEF Clean, Worker, WritesToday
<1> QED BY <1>1, <1>2, QuietClean

(* The table is complete, so that what is read from it is what the records  *)
(* add up to, and a company that is not read has nothing.                   *)
LEMMA SumStatClean ==
  ASSUME IInv, Held, Clean, NEW i \in Instances, SumStat(i)
  PROVE  Clean'
<1>1. /\ UNCHANGED <<today, booked, late, rank, total, snapshot, now, last>>
      /\ \A j \in Instances \ {i} : /\ pc'[j] = pc[j] /\ items'[j] = items[j]
                                    /\ sumAll'[j] = sumAll[j]
      /\ pc[i] = "updateDB" /\ rows[i] = {} /\ pc'[i] = "setRank"
      /\ items'[i] = SumOfStat(now[i])
      /\ sumAll'[i] = SumOfItems(SumOfStat(now[i]))
  BY DEF IInv, SnapshotTypes, Held, RankTypes, SumStat, Goto, redis, history
<1>2. now[i] = today
  BY <1>1 DEF Clean, Worker, Held, Places, Working
<1>3. \A c \in Named, d \in Day : d < today => stat[c][d] = booked[c][d]
  BY <1>1, <1>2 DEF IInv, WritesRest, Complete, Clean, Named
<1>4. stat \in Table /\ booked \in Table /\ today \in Int
  BY DatesAreInts DEF IInv, SnapshotTypes, Table
<1>5. ASSUME NEW c \in Named PROVE SumBefore(stat[c], today) = SumBefore(booked[c], today)
  <2>1. stat[c] \in [Day -> Nat]
    BY <1>4 DEF Table, Named
  <2> QED BY <2>1, <1>3, SumBeforeSame
<1>6. FundsBefore(stat, today) = FundsBefore(booked, today)
  BY <1>5, FundsSame
<1>7. \A s \in items'[i] : s.fund = SumBefore(booked[s.id], today)
  <2>1. \A s \in SumOfStat(today) :
          s.id \in Named /\ s.fund = SumBefore(stat[s.id], today)
    BY <1>4, SumsAreItems DEF Held, Item, Named
  <2> QED BY <2>1, <1>1, <1>2, <1>5
<1>8. sumAll'[i] = FundsBefore(booked, today)
  BY <1>1, <1>2, <1>4, <1>6, SumsAreItems DEF Held
<1>9. ASSUME NEW c \in Named
      PROVE  SumBefore(booked[c], today) <= rank[c] \/ \E s \in items'[i] : s.id = c
  <2>1. CASE \E d \in Day : d < today /\ stat[c][d] # 0
    <3>1. [id |-> c, fund |-> SumBefore(stat[c], today)] \in SumOfStat(today)
      BY <2>1 DEF SumOfStat, Named
    <3> QED BY <3>1, <1>1, <1>2
  <2>2. CASE ~ \E d \in Day : d < today /\ stat[c][d] # 0
    <3>1. stat[c] \in [Day -> Nat] /\ rank[c] \in Nat
      BY <1>4 DEF Table, Named, Held, RankTypes
    <3>2. SumBefore(stat[c], today) = 0
      BY <2>2, <3>1, <1>4, SumBeforeZeros
    <3> QED BY <3>1, <3>2, <1>5
  <2> QED BY <2>1, <2>2
<1>10. Worker(i)'
  <2>1. WritesToday(i)'
    BY <1>1, <1>7, <1>8, <1>9 DEF WritesToday
  <2> QED BY <2>1, <1>1, <1>2 DEF Worker
<1> QED BY <1>1, <1>10, QuietClean

(* An item raises the rank to what the records add up to.                   *)
LEMMA SetRankClean ==
  ASSUME IInv, Held, Clean, NEW i \in Instances, NEW s \in items[i],
         SetCompanyRankCache(i, s)
  PROVE  Clean'
<1>1. /\ UNCHANGED <<today, booked, late, total, snapshot, pc, now, last, sumAll>>
      /\ pc[i] = "setRank"
      /\ rank' = [rank EXCEPT ![s.id] = s.fund]
      /\ items'[i] = items[i] \ {s}
      /\ \A j \in Instances \ {i} : items'[j] = items[j]
  BY DEF SetCompanyRankCache, Held, RankTypes, history
<1>2. WritesToday(i)
  BY <1>1 DEF Clean, Worker
<1>3. s.id \in Companies /\ s.id # NoCompany /\ s.fund \in Nat
      /\ s.fund = SumBefore(booked[s.id], today)
  BY <1>2 DEF WritesToday, Held, RankTypes, Nobody, Item
<1>4. booked \in Table /\ rank \in Ranks /\ rank' \in Ranks /\ total \in Nat
      /\ booked' \in Table /\ total' \in Nat
  BY <1>1, <1>3 DEF IInv, SnapshotTypes, Held, RankTypes, Table, Ranks
<1>5. \A c \in Companies : rank'[c] = IF c = s.id THEN s.fund ELSE rank[c]
  BY <1>1, <1>4 DEF Ranks
<1>6. /\ \A c \in Named : rank[c] <= SumBefore(booked[c], today)
      /\ total <= FundsBefore(booked, today)
  BY DEF Clean, Within
<1>7. \A c \in Named : rank[c] <= rank'[c] /\ rank'[c] <= SumBefore(booked[c], today)
  <2> SUFFICES ASSUME NEW c \in Named
               PROVE  rank[c] <= rank'[c] /\ rank'[c] <= SumBefore(booked[c], today)
    OBVIOUS
  <2>1. c \in Companies /\ SumBefore(booked[c], today) \in Nat /\ rank[c] \in Nat
    BY <1>4, SumBeforeIsNat DEF Named, Table, Ranks
  <2> QED BY <2>1, <1>3, <1>5, <1>6
<1>8. Within(booked, rank, total, today)'
  BY <1>1, <1>6, <1>7 DEF Within
<1>9. ASSUME NEW d, Covers(booked, rank, total, d) PROVE Covers(booked, rank', total, d)
  <2>1. total <= total
    BY <1>4
  <2> QED BY <2>1, <1>4, <1>7, <1>9, CoversKept
<1>10. Covers(booked, rank, total, snapshot)'
  BY <1>1, <1>9 DEF Clean
<1>11. ASSUME NEW j \in Instances PROVE Worker(j)'
  <2>1. Worker(j)
    BY DEF Clean
  <2>2. now'[j] \in {0, today'}
    BY <2>1, <1>1 DEF Worker
  <2>3. /\ pc'[j] = "sumRecords" => Covers(booked, rank, total, last[j])'
        /\ pc'[j] = "setSnapshot" => Covers(booked, rank, total, today)'
    BY <2>1, <1>1, <1>9 DEF Worker
  <2>4. ASSUME pc'[j] = "setRank" PROVE WritesToday(j)'
    <3>1. WritesToday(j)
      BY <2>1, <2>4, <1>1 DEF Worker
    <3>2. /\ \A e \in items[j] : e.fund = SumBefore(booked[e.id], today)
          /\ sumAll[j] = FundsBefore(booked, today)
      BY <3>1 DEF WritesToday
    <3>3. items'[j] \subseteq items[j]
      BY <1>1
    <3>4. ASSUME NEW c \in Named
          PROVE  SumBefore(booked[c], today) <= rank'[c] \/ \E e \in items'[j] : e.id = c
      <4>1. c \in Companies /\ SumBefore(booked[c], today) \in Nat /\ rank[c] \in Nat
            /\ rank'[c] \in Nat /\ rank[c] <= rank'[c]
        BY <1>4, <1>7, SumBeforeIsNat DEF Named, Table, Ranks
      <4>2. CASE c = s.id
        BY <4>1, <4>2, <1>3, <1>5
      <4>3. CASE SumBefore(booked[c], today) <= rank[c]
        BY <4>1, <4>3
      <4>4. ASSUME NEW e \in items[j], e.id = c, c # s.id PROVE e \in items'[j]
        BY <4>4, <1>1
      <4> QED BY <3>1, <4>2, <4>3, <4>4 DEF WritesToday
    <3> QED BY <1>1, <3>2, <3>3, <3>4 DEF WritesToday
  <2> QED BY <2>2, <2>3, <2>4 DEF Worker
<1> QED BY <1>1, <1>8, <1>10, <1>11 DEF Clean

(* The total is set when every item is in the rank.                         *)
LEMMA SetTotalClean ==
  ASSUME IInv, Held, Clean, NEW i \in Instances, SetMatchStatCache(i)
  PROVE  Clean'
<1>1. /\ UNCHANGED <<today, booked, late, rank, snapshot, now, last, items, sumAll>>
      /\ pc[i] = "setRank" /\ items[i] = {} /\ pc'[i] = "setSnapshot"
      /\ total' = sumAll[i]
      /\ \A j \in Instances \ {i} : pc'[j] = pc[j]
  BY DEF IInv, SnapshotTypes, SetMatchStatCache, Goto, history
<1>2. WritesToday(i)
  BY <1>1 DEF Clean, Worker
<1>3. total' = FundsBefore(booked, today)
  BY <1>1, <1>2 DEF WritesToday
<1>4. booked \in Table /\ rank \in Ranks /\ total \in Nat
  BY DEF IInv, SnapshotTypes, Held, RankTypes, Table, Ranks
<1>5. total' \in Nat
  BY <1>3, <1>4, FundsAreNat
<1>6. /\ \A c \in Named : rank[c] <= SumBefore(booked[c], today)
      /\ total <= FundsBefore(booked, today)
  BY DEF Clean, Within
<1>7. Within(booked, rank, total, today)'
  BY <1>1, <1>3, <1>5, <1>6 DEF Within
<1>8. ASSUME NEW d, Covers(booked, rank, total, d) PROVE Covers(booked, rank, total', d)
  <2>1. total <= total'
    BY <1>3, <1>6
  <2>2. \A c \in Named : rank[c] <= rank[c]
    BY <1>4 DEF Named, Ranks
  <2> QED BY <2>1, <2>2, <1>4, <1>5, <1>8, CoversKept
<1>9. Covers(booked, rank, total, snapshot)'
  BY <1>1, <1>8 DEF Clean
<1>10. Covers(booked, rank, total', today)
  BY <1>1, <1>2, <1>3, <1>5 DEF Covers, WritesToday
<1>11. ASSUME NEW j \in Instances PROVE Worker(j)'
  <2>1. Worker(j)
    BY DEF Clean
  <2>2. now'[j] \in {0, today'}
    BY <2>1, <1>1 DEF Worker
  <2>3. /\ pc'[j] = "sumRecords" => Covers(booked, rank, total, last[j])'
        /\ pc'[j] = "setSnapshot" => Covers(booked, rank, total, today)'
    BY <2>1, <1>1, <1>8, <1>10 DEF Worker
  <2>4. pc'[j] = "setRank" => WritesToday(j)'
    BY <2>1, <1>1 DEF Worker, WritesToday
  <2> QED BY <2>2, <2>3, <2>4 DEF Worker
<1> QED BY <1>1, <1>7, <1>9, <1>11 DEF Clean

LEMMA SetSnapshotClean ==
  ASSUME IInv, Held, Clean, NEW i \in Instances, SetCompanySnapshot(i)
  PROVE  Clean'
<1>1. /\ UNCHANGED <<today, booked, late, rank, total>>
      /\ Leave(i, "waiting") /\ pc[i] = "setSnapshot" /\ snapshot' = now[i]
  BY DEF SetCompanySnapshot, history
<1>2. /\ \A j \in Instances \ {i} : /\ pc'[j] = pc[j] /\ now'[j] = now[j]
                                    /\ last'[j] = last[j] /\ items'[j] = items[j]
                                    /\ sumAll'[j] = sumAll[j]
      /\ pc'[i] = "waiting" /\ now'[i] = 0
  BY <1>1 DEF IInv, SnapshotTypes, Held, RankTypes, Leave, Goto
<1>3. now[i] = today /\ Covers(booked, rank, total, today)
  BY <1>1 DEF Clean, Worker, Held, Places, Working
<1>4. \A j \in Instances \ {i} : Worker(j)'
  BY <1>1, <1>2 DEF Clean, Worker, WritesToday
<1>5. Worker(i)'
  BY <1>2, IdleWorker
<1>6. \A j \in Instances : Worker(j)'
  BY <1>4, <1>5
<1>7. late' = {} /\ Within(booked, rank, total, today)'
      /\ Covers(booked, rank, total, snapshot)'
  BY <1>1, <1>3 DEF Clean
<1> QED BY <1>6, <1>7 DEF Clean

(* Redis is lost while nobody makes a snapshot.                             *)
LEMMA LoseRedisClean ==
  ASSUME IInv, Held, Clean, LoseRedis, faults' = {}
  PROVE  Clean'
<1>1. /\ UNCHANGED <<today, booked, late, pc, now, last, items, sumAll>>
      /\ rank' = [c \in Companies |-> 0] /\ total' = 0 /\ snapshot' = 0
      /\ Making = {}
  BY DEF LoseRedis, Disturbed, work
<1>2. \A i \in Instances : /\ now[i] = 0
                           /\ pc[i] \notin {"sumRecords", "setRank", "setSnapshot"}
  BY <1>1 DEF Making, Held, Places, Working
<1>3. \A i \in Instances : Worker(i)'
  BY <1>1, <1>2 DEF Worker
<1>4. booked \in Table /\ today \in Int
  BY DatesAreInts DEF IInv, SnapshotTypes, Table
<1>5. Within(booked, rank', 0, today) /\ Covers(booked, rank', 0, 0)
  BY <1>1, <1>4, NothingWritten
<1> QED BY <1>1, <1>3, <1>5 DEF Clean

(* The day changes while nobody makes a snapshot.                           *)
LEMMA NextDayClean ==
  ASSUME IInv, Held, Clean, NextDay, faults' = {}
  PROVE  Clean'
<1>1. /\ UNCHANGED <<booked, late, rank, total, snapshot, pc, now, last, items, sumAll>>
      /\ today' = today + 1
      /\ Making = {}
  BY DEF NextDay, Disturbed, work, redis
<1>2. \A i \in Instances : /\ now[i] = 0
                           /\ pc[i] \notin {"sumRecords", "setRank", "setSnapshot"}
  BY <1>1 DEF Making, Held, Places, Working
<1>3. \A i \in Instances : Worker(i)'
  BY <1>1, <1>2 DEF Worker
<1>4. booked \in Table /\ today \in Int /\ today' \in Int /\ today <= today'
      /\ rank \in Ranks /\ total \in Nat
  BY <1>1, DatesAreInts DEF IInv, SnapshotTypes, Table, Held, RankTypes, Ranks
<1>5. \A c \in Named, x \in Day : booked[c][x] <= booked[c][x]
  BY <1>4 DEF Named, Table
<1>6. Within(booked, rank, total, today')
  BY <1>4, <1>5, WithinKept DEF Clean
<1> QED BY <1>1, <1>3, <1>6 DEF Clean

(* A record of today is in no sum of the days before.                       *)
LEMMA AddRecordClean ==
  ASSUME IInv, Held, Clean, NEW c \in Companies, NEW d \in Day, AddRecord(c, d),
         faults' = {}
  PROVE  Clean'
<1>1. /\ UNCHANGED <<today, rank, total, snapshot, pc, now, last, items, sumAll>>
      /\ d = today /\ late' = late
      /\ booked' = [booked EXCEPT ![c][d] = @ + 1]
  BY DatesAreInts DEF AddRecord, Disturbed, redis, work
<1>2. booked \in Table /\ booked' \in Table /\ today \in Int
      /\ rank \in Ranks /\ total \in Nat
  BY <1>1, DatesAreInts DEF IInv, SnapshotTypes, Table, Held, RankTypes, Ranks
<1>3. \A b \in Companies, e \in Day : e # today => booked[b][e] = booked'[b][e]
  BY <1>1, <1>2 DEF Table
<1>4. \A b \in Companies, e \in Day : e < today => booked[b][e] = booked'[b][e]
  BY <1>2, <1>3
<1>5. ASSUME NEW b \in Companies
      PROVE  SumBefore(booked[b], today) = SumBefore(booked'[b], today)
  BY <1>2, <1>4, SumBeforeSame DEF Table
<1>6. FundsBefore(booked, today) = FundsBefore(booked', today)
  BY <1>5, FundsSame DEF Named
<1>7. Within(booked, rank, total, today)'
  BY <1>1, <1>5, <1>6 DEF Clean, Within, Named
<1>8. ASSUME NEW e \in Int, e <= today, Covers(booked, rank, total, e)
      PROVE  Covers(booked', rank, total, e)
  <2>1. \A b \in Named, x \in Day : x < e => booked[b][x] = booked'[b][x]
    BY <1>2, <1>4, <1>8, DatesAreInts DEF Named
  <2>2. total <= total /\ \A b \in Named : rank[b] <= rank[b]
    BY <1>2 DEF Named, Ranks
  <2> QED BY <2>1, <2>2, <1>2, <1>8, CoversKept
<1>9. Covers(booked, rank, total, snapshot)'
  BY <1>1, <1>8, DatesAreInts DEF Clean, IInv, DatesPassed
<1>10. ASSUME NEW j \in Instances PROVE Worker(j)'
  <2>1. Worker(j) /\ last[j] \in Int /\ last[j] <= today /\ today <= today
    BY <1>2, DatesAreInts DEF Clean, IInv, DatesPassed
  <2>2. now'[j] \in {0, today'}
    BY <2>1, <1>1 DEF Worker
  <2>3. /\ pc'[j] = "sumRecords" => Covers(booked, rank, total, last[j])'
        /\ pc'[j] = "setSnapshot" => Covers(booked, rank, total, today)'
    BY <2>1, <1>1, <1>2, <1>8 DEF Worker
  <2>4. ASSUME pc'[j] = "setRank" PROVE WritesToday(j)'
    <3>1. WritesToday(j)
      BY <2>1, <2>4, <1>1 DEF Worker
    <3>2. \A s \in items[j] : s.id \in Companies
      BY DEF Held, RankTypes, Item
    <3> QED BY <3>1, <3>2, <1>1, <1>5, <1>6 DEF WritesToday, Named
  <2> QED BY <2>2, <2>3, <2>4 DEF Worker
<1> QED BY <1>1, <1>7, <1>9, <1>10 DEF Clean

LEMMA CleanKept == IInv /\ Held /\ CleanInv /\ [Next]_vars => CleanInv'
<1> SUFFICES ASSUME IInv, Held, CleanInv, [Next]_vars, faults' = {} PROVE Clean'
  BY DEF CleanInv
<1>1. faults = {}
  <2>1. ASSUME NEW i \in Instances, Work(i) \/ Fail(i) \/ Die(i) \/ Restart(i)
        PROVE  faults' = faults
    BY <2>1 DEF Work, Tick, GetLeader, Start, GetCompanySnapshot, SumRecords,
       UpdateCompanyMatchDB, SumStat, SetCompanyRankCache, SetMatchStatCache,
       SetCompanySnapshot, Fail, Die, Restart, history
  <2>2. ASSUME LoseRedis \/ NextDay \/ \E c \in Companies, d \in Day : AddRecord(c, d)
        PROVE  faults \subseteq faults'
    BY <2>2 DEF LoseRedis, NextDay, AddRecord, Disturbed
  <2>3. ASSUME ExpireLease \/ UNCHANGED vars PROVE faults' = faults
    BY <2>3 DEF ExpireLease, vars, history
  <2> QED BY <2>1, <2>2, <2>3 DEF Next
<1>2. Clean
  BY <1>1 DEF CleanInv
<1>3. ASSUME NEW i \in Instances, Work(i) PROVE Clean'
  BY <1>2, <1>3, LeaseClean, GetSnapshotClean, SumRecordsClean, UpdateDBClean,
     SumStatClean, SetRankClean, SetTotalClean, SetSnapshotClean DEF Work
<1>4. ASSUME NEW i \in Instances, Fail(i) \/ Die(i) PROVE Clean'
  <2>1. /\ Leave(i, "waiting") \/ Leave(i, "down")
        /\ UNCHANGED <<today, booked, late, rank, total, snapshot>>
    BY <1>4 DEF Fail, Die, redis
  <2> QED BY <2>1, <1>2, LeaveClean
<1>5. ASSUME NEW i \in Instances, Restart(i) PROVE Clean'
  BY <1>2, <1>5, LeaseClean
<1>6. CASE ExpireLease \/ UNCHANGED vars
  BY <1>2, <1>6 DEF Clean, Worker, WritesToday, ExpireLease, vars, redis, work, history
<1> QED BY <1>2, <1>3, <1>4, <1>5, <1>6, LoseRedisClean, NextDayClean, AddRecordClean
        DEF Next

LEMMA CleanInvariance == Spec => [](IInv /\ Held /\ CleanInv)
<1>1. Init => IInv /\ Held /\ CleanInv
  BY InitInv, InitHeld, InitClean
<1>2. IInv /\ Held /\ CleanInv /\ [Next]_vars => (IInv /\ Held /\ CleanInv)'
  BY NextInv, HeldKept, CleanKept
<1> QED BY <1>1, <1>2, PTL DEF Spec

(* Every variable keeps its type, the sums in the rank, the totals and the  *)
(* items of the workers included.                                           *)
THEOREM TypesCorrect == Spec => []TypeOK
<1>1. IInv /\ Held => TypeOK
  BY DEF IInv, Held, RankTypes, TypeOK
<1> QED BY <1>1, CleanInvariance, PTL

(* With today's snapshot, and unless the day changed, Redis was lost under  *)
(* a snapshot or a record was late, the rank and the total are exactly what *)
(* the records of the days before add up to, for any number of instances    *)
(* that write them at once, fail and die.                                   *)
THEOREM RankIsExact == Spec => []ExactRank
<1>1. IInv /\ Held /\ CleanInv => ExactRank
  <2> SUFFICES ASSUME IInv, Held, CleanInv, snapshot = today, faults = {}
               PROVE  /\ \A c \in Named : rank[c] = SumBefore(booked[c], today)
                      /\ total = FundsBefore(booked, today)
    BY DEF ExactRank, Named
  <2>1. Within(booked, rank, total, today) /\ Covers(booked, rank, total, today)
    BY DEF CleanInv, Clean
  <2>2. booked \in Table /\ rank \in Ranks /\ total \in Nat
    BY DEF IInv, SnapshotTypes, Held, RankTypes, Table, Ranks
  <2>3. \A c \in Named : SumBefore(booked[c], today) \in Nat /\ rank[c] \in Nat
    BY <2>2, SumBeforeIsNat DEF Named, Table, Ranks
  <2>4. FundsBefore(booked, today) \in Nat
    BY <2>2, FundsAreNat
  <2> QED BY <2>1, <2>2, <2>3, <2>4 DEF Within, Covers
<1> QED BY <1>1, CleanInvariance, PTL
=============================================================================
