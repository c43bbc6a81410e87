-------------------------- MODULE UserMatchProofs --------------------------
(* What the match handlers keep for any number of users, activities,        *)
(* requests and days, and whichever disturbances happen: the types of the   *)
(* variables, a match hash and a response that name a record of the table,  *)
(* the refinement of the ledger, counts that no charge or record is missing *)
(* from, totals and a combo that are exact; and what the rules can pay.     *)
EXTENDS UserMatch, MatchFund, CollectionLemmas, WellFoundedInduction

USE ConstantsAssumption

(* What the requests hold.                                                  *)
Held ==
  /\ pc \in [Reqs -> {"idle"} \cup Running \cup Ends]
  /\ req \in [Reqs -> Request \cup {NoRequest}]
  /\ rec \in [Reqs -> Match]
  /\ totals \in [Reqs -> Totals]
  /\ raw \in [Reqs -> Day]
  /\ \A r \in Reqs : pc[r] \in Running => req[r] \in Request

Typed ==
  /\ today \in 1 .. MaxDay
  /\ faults \in [Users -> SUBSET Disturbance]
  /\ Held /\ StoreTypes /\ CacheTypes

(* The newest record of a key that has records is one of them: GetUser-     *)
(* MatchLastRecordDB returns a row of the table, and none is newer.         *)
LEMMA LastRecordIsARecord ==
  ASSUME NEW k, records \subseteq Record, RecordsOf(k) # {}
  PROVE  \E e \in RecordsOf(k) :
           /\ LastRecord(k) = [date |-> e.date, combo |-> e.combo, fund |-> e.fund]
           /\ \A f \in RecordsOf(k) : f.date <= e.date
<1> DEFINE S == RecordsOf(k)
           T == {MaxDay - e.date : e \in S}
<1>1. \A e \in S : e.date \in Day
  BY DEF RecordsOf, Record
<1>2. T \subseteq Nat /\ T # {}
  BY <1>1 DEF Day
<1>3. PICK x \in T : \A y \in T : <<y, x>> \notin OpToRel(<, Nat)
  <2> HIDE DEF T
  <2> QED BY <1>2, NatLessThanWellFounded, WFMin
<1>4. PICK e \in S : x = MaxDay - e.date
  OBVIOUS
<1>5. \A f \in S : f.date <= e.date
  <2> TAKE f \in S
  <2>1. MaxDay - f.date \in T
    OBVIOUS
  <2>2. ~(MaxDay - f.date < MaxDay - e.date)
    BY <2>1, <1>2, <1>3, <1>4 DEF OpToRel
  <2> QED BY <2>2, <1>1 DEF Day
<1>6. \E last \in S : \A f \in S : f.date <= last.date
  BY <1>5
<1> DEFINE last == CHOOSE l \in S : \A f \in S : f.date <= l.date
<1>7. last \in S /\ \A f \in S : f.date <= last.date
  BY <1>6
<1>8. LastRecord(k) = [date |-> last.date, combo |-> last.combo, fund |-> last.fund]
  BY <1>7 DEF LastRecord
<1> QED BY <1>7, <1>8

LEMMA LastRecordType ==
  ASSUME NEW k, records \subseteq Record
  PROVE  LastRecord(k) \in Match
<1>1. CASE RecordsOf(k) = {}
  BY <1>1 DEF LastRecord, NullRecord, Match, Day
<1>2. CASE RecordsOf(k) # {}
  <2>1. PICK e \in RecordsOf(k) :
               LastRecord(k) = [date |-> e.date, combo |-> e.combo, fund |-> e.fund]
    BY <1>2, LastRecordIsARecord
  <2>2. e.date \in Day /\ e.combo \in Nat /\ e.fund \in Nat
    BY DEF RecordsOf, Record
  <2>3. [date |-> e.date, combo |-> e.combo, fund |-> e.fund] \in Match
    BY <2>2 DEF Match
  <2> QED BY <2>1, <2>3
<1> QED BY <1>1, <1>2

LEMMA InitTyped == Init => Typed
BY DEF Init, Typed, Held, StoreTypes, CacheTypes, NullRecord, NullTotals,
       NullStatus, EmptyHash, NoRequest, Running, Match, Totals, Status, Hash, Counter, Day

LEMMA KeyOfRunning ==
  ASSUME Held, NEW r \in Reqs, pc[r] \in Running
  PROVE  /\ req[r] \in Request
         /\ KeyOf(r) \in Key
         /\ req[r].user \in Users /\ req[r].act \in Activities
BY DEF Held, KeyOf, Key, Request

(* Whatever a request does next, it holds values of their types. *)
LEMMA GotoHeld ==
  ASSUME Held, NEW r \in Reqs, pc[r] \in Running, NEW l \in Running, Goto(r, l)
  PROVE  /\ pc' \in [Reqs -> {"idle"} \cup Running \cup Ends]
         /\ req' = req => \A x \in Reqs : pc'[x] \in Running => req'[x] \in Request
BY DEF Held, Goto

LEMMA ReturnHeld ==
  ASSUME Held, NEW r \in Reqs, NEW how \in Ends, NEW answer \in Match,
         Return(r, how, answer)
  PROVE  Held'
BY DEF Held, Return, Ends, Running, NullTotals, Totals, Counter, Day

LEMMA InfoIsHeld ==
  ASSUME Held, NEW r \in Reqs, pc[r] \in Running, NEW info \in Match, InfoIs(r, info)
  PROVE  Held'
<1>1. "readSum" \in Running /\ "queried" \in Ends
  BY DEF Running, Ends
<1>2. NullRecord \in Match /\ NullTotals \in Totals
  BY DEF NullRecord, NullTotals, Match, Totals, Counter, Day
<1>3. CASE req[r].op = "match"
  <2>1. Goto(r, "readSum")
    BY <1>3 DEF InfoIs
  <2>2. UNCHANGED <<req, raw>>
    BY <1>3 DEF InfoIs
  <2>3. rec' \in [Reqs -> Match] /\ totals' \in [Reqs -> Totals]
    BY <1>2, <1>3 DEF InfoIs, Held
  <2> QED BY <1>1, <2>1, <2>2, <2>3, GotoHeld DEF Held
<1>4. CASE req[r].op # "match"
  BY <1>1, <1>2, <1>4, ReturnHeld DEF InfoIs
<1> QED BY <1>3, <1>4

LEMMA SumIsHeld ==
  ASSUME Held, NEW r \in Reqs, pc[r] \in Running, NEW s, SumIs(r, s)
  PROVE  Held'
<1>1. "generate" \in Running /\ "queried" \in Ends
  BY DEF Running, Ends
<1>2. NullRecord \in Match
  BY DEF NullRecord, Match, Day
<1>3. CASE req[r].op = "match"
  <2>1. Goto(r, "generate") /\ UNCHANGED <<req, rec, totals, raw>>
    BY <1>3 DEF SumIs
  <2> QED BY <1>1, <2>1, GotoHeld DEF Held
<1>4. CASE req[r].op # "match"
  BY <1>1, <1>2, <1>4, ReturnHeld DEF SumIs
<1> QED BY <1>3, <1>4

LEMMA ArriveTyped ==
  ASSUME Typed, NEW r \in Reqs, NEW q \in Request, Arrive(r, q)
  PROVE  Typed'
<1>1. pc' \in [Reqs -> {"idle"} \cup Running \cup Ends]
  BY DEF Typed, Held, Arrive, Goto, Running
<1>2. req' \in [Reqs -> Request \cup {NoRequest}]
  BY DEF Typed, Held, Arrive
<1>3. \A x \in Reqs : pc'[x] \in Running => req'[x] \in Request
  BY DEF Typed, Held, Arrive, Goto
<1>4. faults' \in [Users -> SUBSET Disturbance]
  BY DEF Typed, Arrive, Disturbed, Disturbance, Request
<1> QED BY <1>1, <1>2, <1>3, <1>4
        DEF Typed, Held, StoreTypes, CacheTypes, Arrive, stores, caches

LEMMA DisturbedTyped ==
  ASSUME Typed, NEW u \in Users, NEW d \in Disturbance, Disturbed(u, d)
  PROVE  faults' \in [Users -> SUBSET Disturbance]
BY DEF Typed, Disturbed

(* The steps of the two reads through the caches. *)
LEMMA ReadTyped ==
  ASSUME Typed, NEW r \in Reqs, ReadStep(r)
  PROVE  Typed'
<1> USE DEF stores, caches
<1>0. pc[r] \in Running
  BY DEF ReadStep, ReadInfoHit, ReadInfoMiss, ReadInfoError, ReadRecord, ReadStatus,
         FillInfo, SkipFillInfo, ReadSumHit, ReadSumMiss, ReadSumError, RecoverSum,
         FillSum, SkipFillSum, Running
<1>a. KeyOf(r) \in Key /\ req[r].user \in Users
  BY <1>0, KeyOfRunning DEF Typed
<1>b. "stop" \in Disturbance
  BY DEF Disturbance
<1>c. Held
  BY DEF Typed
<1>d. rec[r] \in Match /\ totals[r] \in Totals
  BY <1>c DEF Held
<1>e. \A k : LastRecord(k) \in Match
  BY LastRecordType DEF Typed, StoreTypes
<1>1. CASE ReadInfoHit(r)
  <2>1. [date |-> cache[KeyOf(r)].date, combo |-> cache[KeyOf(r)].combo,
         fund |-> cache[KeyOf(r)].fund] \in Match
    BY <1>a DEF Typed, CacheTypes, Hash, Match
  <2>2. Held'
    BY <1>0, <1>1, <1>c, <2>1, InfoIsHeld DEF ReadInfoHit
  <2> QED BY <1>1, <2>2 DEF Typed, StoreTypes, CacheTypes, ReadInfoHit
<1>2. CASE ReadInfoMiss(r)
  BY <1>0, <1>2, GotoHeld DEF Typed, Held, StoreTypes, CacheTypes, ReadInfoMiss, Running
<1>3. CASE ReadInfoError(r)
  <2>1. Held'
    BY <1>0, <1>3, <1>c, <1>e, InfoIsHeld DEF ReadInfoError
  <2> QED BY <1>3, <1>a, <1>b, <2>1, DisturbedTyped
          DEF Typed, StoreTypes, CacheTypes, ReadInfoError
<1>4. CASE ReadRecord(r)
  <2>1. rec' \in [Reqs -> Match]
    BY <1>4, <1>e DEF ReadRecord, Typed, Held
  <2> QED BY <1>0, <1>4, <2>1, GotoHeld
          DEF Typed, Held, StoreTypes, CacheTypes, ReadRecord, Running
<1>5. CASE ReadStatus(r)
  <2>1. totals' \in [Reqs -> Totals]
    BY <1>5, <1>a DEF ReadStatus, Typed, Held, StoreTypes, Status, Totals
  <2> QED BY <1>0, <1>5, <2>1, GotoHeld
          DEF Typed, Held, StoreTypes, CacheTypes, ReadStatus, Running
<1>6. CASE FillInfo(r)
  <2>1. Held'
    BY <1>0, <1>6, <1>c, <1>d, InfoIsHeld DEF FillInfo
  <2>2. cached' \subseteq Key
    BY <1>6, <1>a DEF FillInfo, Typed, CacheTypes
  <2>3. cache' \in [Key -> Hash]
    BY <1>6, <1>a, <1>d DEF FillInfo, Typed, CacheTypes, Match, Totals, Hash
  <2> QED BY <1>6, <2>1, <2>2, <2>3 DEF Typed, StoreTypes, CacheTypes, FillInfo
<1>7. CASE SkipFillInfo(r)
  <2>1. Held'
    BY <1>0, <1>7, <1>c, <1>d, InfoIsHeld DEF SkipFillInfo
  <2> QED BY <1>7, <1>a, <1>b, <2>1, DisturbedTyped
          DEF Typed, StoreTypes, CacheTypes, SkipFillInfo
<1>8. CASE ReadSumHit(r)
  BY <1>0, <1>8, <1>c, SumIsHeld DEF Typed, StoreTypes, CacheTypes, ReadSumHit
<1>9. CASE ReadSumMiss(r)
  BY <1>0, <1>9, GotoHeld DEF Typed, Held, StoreTypes, CacheTypes, ReadSumMiss, Running
<1>10. CASE ReadSumError(r)
  BY <1>0, <1>10, <1>a, <1>b, <1>c, SumIsHeld, DisturbedTyped
     DEF Typed, StoreTypes, CacheTypes, ReadSumError
<1>11. CASE RecoverSum(r)
  BY <1>0, <1>11, GotoHeld DEF Typed, Held, StoreTypes, CacheTypes, RecoverSum, Running
<1>12. CASE FillSum(r)
  BY <1>0, <1>12, <1>a, <1>c, SumIsHeld DEF Typed, StoreTypes, CacheTypes, FillSum
<1>13. CASE SkipFillSum(r)
  BY <1>0, <1>13, <1>a, <1>b, <1>c, SumIsHeld, DisturbedTyped
     DEF Typed, StoreTypes, CacheTypes, SkipFillSum
<1> QED BY <1>1, <1>2, <1>3, <1>4, <1>5, <1>6, <1>7, <1>8, <1>9, <1>10, <1>11, <1>12, <1>13
        DEF ReadStep

LEMMA RejectTyped ==
  ASSUME Typed, NEW r \in Reqs, Reject(r)
  PROVE  Typed'
<1>1. pc' \in [Reqs -> {"idle"} \cup Running \cup Ends]
  BY DEF Typed, Held, Reject, Goto, Ends
<1>2. \A x \in Reqs : pc'[x] \in Running => req'[x] \in Request
  BY DEF Typed, Held, Reject, Goto, Running
<1> QED BY <1>1, <1>2 DEF Typed, Held, StoreTypes, CacheTypes, Reject, stores, caches

LEMMA SucceedHeld ==
  ASSUME Held, NEW r \in Reqs, Succeed(r)
  PROVE  Held'
<1>1. [rec[r] EXCEPT !.combo = @ + 1] \in Match
  BY DEF Held, Match
<1> QED BY <1>1, ReturnHeld DEF Succeed, Ends

(* The steps of UserMatch after its reads. *)
LEMMA MatchTyped ==
  ASSUME Typed, NEW r \in Reqs, MatchStep(r)
  PROVE  Typed'
<1> USE DEF stores, caches
<1>0. pc[r] \in Running
  BY DEF MatchStep, AlreadyMatched, GenerateMatchFund, Charge, Stamp, InsertRecord,
         InsertDuplicate, AdoptRecord, UpdateInfo, UpdateSum, WriteStatus, WriteRank,
         SkipRank, Running
<1>a. /\ KeyOf(r) \in Key /\ req[r].user \in Users /\ req[r].act \in Activities
      /\ req[r] \in Request
  BY <1>0, KeyOfRunning DEF Typed
<1>b. "stop" \in Disturbance
  BY DEF Disturbance
<1>c. Held
  BY DEF Typed
<1>d. rec[r] \in Match /\ totals[r] \in Totals
  BY <1>c DEF Held
<1>e. today \in Day
  BY DEF Typed, Day
<1>f. LastRecord(KeyOf(r)) \in Match
  BY LastRecordType DEF Typed, StoreTypes
<1>1. CASE AlreadyMatched(r)
  <2>1. NullRecord \in Match /\ {"stopped", "already"} \subseteq Ends
    BY DEF NullRecord, Match, Day, Ends
  <2>2. Held'
    BY <1>1, <1>c, <1>d, <2>1, ReturnHeld DEF AlreadyMatched
  <2> QED BY <1>1, <2>2 DEF Typed, StoreTypes, CacheTypes, AlreadyMatched
<1>2. ASSUME NEW fund \in Funds, GenerateMatchFund(r, fund)
      PROVE  Typed'
  <2>1. rec' \in [Reqs -> Match]
    BY <1>2, <1>d DEF GenerateMatchFund, Typed, Held, Match, Day
  <2> QED BY <1>0, <1>2, <2>1, GotoHeld
          DEF Typed, Held, StoreTypes, CacheTypes, GenerateMatchFund, Running
<1>3. CASE Charge(r)
  <2>1. charges' \subseteq Charged
    BY <1>3, <1>a, <1>d DEF Charge, Typed, StoreTypes, Charged, Match
  <2>2. raw' \in [Reqs -> Day]
    BY <1>3, <1>e DEF Charge, Typed, Held
  <2> QED BY <1>0, <1>3, <2>1, <2>2, GotoHeld
          DEF Typed, Held, StoreTypes, CacheTypes, Charge, Running
<1>4. CASE Stamp(r)
  <2>1. rec' \in [Reqs -> Match]
    BY <1>4, <1>d, <1>e DEF Stamp, Typed, Held, Match
  <2> QED BY <1>0, <1>4, <2>1, GotoHeld
          DEF Typed, Held, StoreTypes, CacheTypes, Stamp, Running
<1>5. CASE InsertRecord(r)
  <2>1. records' \subseteq Record
    BY <1>5, <1>a, <1>d DEF InsertRecord, Typed, StoreTypes, Record, Match
  <2> QED BY <1>0, <1>5, <2>1, GotoHeld
          DEF Typed, Held, StoreTypes, CacheTypes, InsertRecord, Running
<1>6. CASE InsertDuplicate(r)
  BY <1>0, <1>6, GotoHeld
     DEF Typed, Held, StoreTypes, CacheTypes, InsertDuplicate, Running
<1>7. CASE AdoptRecord(r)
  <2>1. rec' \in [Reqs -> Match]
    BY <1>7, <1>f DEF AdoptRecord, Typed, Held
  <2> QED BY <1>0, <1>7, <2>1, GotoHeld
          DEF Typed, Held, StoreTypes, CacheTypes, AdoptRecord, Running
<1>8. CASE UpdateInfo(r)
  <2>1. totals' \in [Reqs -> Totals]
    BY <1>8, <1>a, <1>d DEF UpdateInfo, Typed, Held, CacheTypes, Hash, Totals, Match, Counter
  <2>2. cache' \in [Key -> Hash]
    BY <1>8, <1>a, <1>d DEF UpdateInfo, Typed, CacheTypes, Hash, Match, Counter
  <2>3. cached' \subseteq Key
    BY <1>8, <1>a DEF UpdateInfo, Typed, CacheTypes
  <2> QED BY <1>0, <1>8, <2>1, <2>2, <2>3, GotoHeld
          DEF Typed, Held, StoreTypes, CacheTypes, UpdateInfo, Running
<1>9. CASE UpdateSum(r)
  BY <1>0, <1>9, <1>a, GotoHeld
     DEF Typed, Held, StoreTypes, CacheTypes, UpdateSum, Running
<1>10. CASE WriteStatus(r)
  <2>1. status' \in [Key -> Status]
    BY <1>10, <1>a, <1>d DEF WriteStatus, Typed, StoreTypes, Status, Totals, Match
  <2>2. Held'
    <3>1. CASE req[r].act = NoActivity
      BY <1>10, <1>c, <3>1, SucceedHeld DEF WriteStatus
    <3>2. CASE req[r].act # NoActivity
      BY <1>0, <1>10, <1>c, <3>2, GotoHeld DEF WriteStatus, Held, Running
    <3> QED BY <3>1, <3>2
  <2> QED BY <1>10, <2>1, <2>2 DEF Typed, StoreTypes, CacheTypes, WriteStatus
<1>11. CASE WriteRank(r)
  <2>1. rank' \in [Key -> Nat]
    BY <1>11, <1>a, <1>d DEF WriteRank, Typed, StoreTypes, Totals, Counter
  <2> QED BY <1>11, <1>c, <2>1, SucceedHeld DEF Typed, StoreTypes, CacheTypes, WriteRank
<1>12. CASE SkipRank(r)
  BY <1>12, <1>a, <1>b, <1>c, SucceedHeld, DisturbedTyped
     DEF Typed, StoreTypes, CacheTypes, SkipRank
<1> QED BY <1>1, <1>2, <1>3, <1>4, <1>5, <1>6, <1>7, <1>8, <1>9, <1>10, <1>11, <1>12
        DEF MatchStep

LEMMA StopTyped ==
  ASSUME Typed, NEW r \in Reqs, Stop(r)
  PROVE  Typed'
<1>1. req[r].user \in Users /\ "stop" \in Disturbance
  BY KeyOfRunning DEF Stop, Typed, Disturbance
<1>2. NullRecord \in Match /\ "stopped" \in Ends
  BY DEF NullRecord, Match, Day, Ends
<1>3. Held'
  BY <1>2, ReturnHeld DEF Stop, Typed
<1> QED BY <1>1, <1>3, DisturbedTyped DEF Typed, StoreTypes, CacheTypes, Stop, stores, caches

(* Redis and the clock. *)
LEMMA EnvironmentTyped ==
  ASSUME Typed, Environment
  PROVE  Typed'
<1> USE DEF stores, locals, caches
<1>1. ASSUME NEW k \in Key, EvictInfo(k)
      PROVE  Typed'
  <2>1. k[1] \in Users /\ "evict" \in Disturbance
    BY DEF Key, Disturbance
  <2>2. faults' \in [Users -> SUBSET Disturbance]
    BY <1>1, <2>1, DisturbedTyped DEF EvictInfo, DisturbedIfBusy, Typed
  <2>3. EmptyHash \in Hash
    BY DEF EmptyHash, Hash, Day, Counter
  <2> QED BY <1>1, <2>2, <2>3 DEF EvictInfo, Typed, Held, StoreTypes, CacheTypes
<1>2. ASSUME NEW u \in Users, EvictSum(u)
      PROVE  Typed'
  <2>1. faults' \in [Users -> SUBSET Disturbance]
    BY <1>2, DisturbedTyped DEF EvictSum, DisturbedIfBusy, Typed, Disturbance
  <2> QED BY <1>2, <2>1 DEF EvictSum, Typed, Held, StoreTypes, CacheTypes
<1>3. CASE NextDay
  <2>1. today' \in 1 .. MaxDay
    BY <1>3 DEF NextDay, Typed
  <2>2. faults' \in [Users -> SUBSET Disturbance]
    BY <1>3 DEF NextDay, Typed, Disturbance
  <2> QED BY <1>3, <2>1, <2>2 DEF NextDay, Typed, Held, StoreTypes, CacheTypes
<1> QED BY <1>1, <1>2, <1>3 DEF Environment

LEMMA StutterTyped ==
  ASSUME Typed, UNCHANGED vars
  PROVE  Typed'
BY DEF Typed, Held, StoreTypes, CacheTypes, vars, locals, stores, caches

LEMMA NextTyped == Typed /\ [Next]_vars => Typed'
<1> SUFFICES ASSUME Typed, [Next]_vars PROVE Typed'
  OBVIOUS
<1>1. ASSUME NEW r \in Reqs, Step(r) PROVE Typed'
  <2>1. ASSUME NEW q \in Request, Arrive(r, q) PROVE Typed'
    BY <2>1, ArriveTyped
  <2>2. CASE Reject(r)
    BY <2>2, RejectTyped
  <2>3. CASE ReadStep(r)
    BY <2>3, ReadTyped
  <2>4. CASE MatchStep(r)
    BY <2>4, MatchTyped
  <2>5. CASE Stop(r)
    BY <2>5, StopTyped
  <2> QED BY <1>1, <2>1, <2>2, <2>3, <2>4, <2>5 DEF Step
<1> QED BY <1>1, EnvironmentTyped, StutterTyped DEF Next

LEMMA TypedInv == Spec => []Typed
<1>1. Init => Typed
  BY InitTyped
<1>2. Typed /\ [Next]_vars => Typed'
  BY NextTyped
<1> QED BY <1>1, <1>2, PTL DEF Spec

(* The two tables only grow by a row at a time, and are finite.             *)
Finite == IsFiniteSet(charges) /\ IsFiniteSet(records)

LEMMA RowSteps ==
  ASSUME [Next]_vars
  PROVE  /\ \/ UNCHANGED charges
            \/ \E r \in Reqs : Charge(r)
         /\ \/ UNCHANGED records
            \/ \E r \in Reqs : InsertRecord(r)
<1>1. ASSUME NEW r \in Reqs, MatchStep(r)
      PROVE  /\ UNCHANGED charges \/ Charge(r)
             /\ UNCHANGED records \/ InsertRecord(r)
  BY <1>1 DEF MatchStep, AlreadyMatched, GenerateMatchFund, Charge, Stamp, InsertRecord,
     InsertDuplicate, AdoptRecord, UpdateInfo, UpdateSum, WriteStatus, WriteRank, SkipRank, stores
<1>2. ASSUME NEW r \in Reqs, ReadStep(r) PROVE UNCHANGED <<charges, records>>
  BY <1>2 DEF ReadStep, ReadInfoHit, ReadInfoMiss, ReadInfoError, ReadRecord, ReadStatus,
     FillInfo, SkipFillInfo, ReadSumHit, ReadSumMiss, ReadSumError, RecoverSum, FillSum,
     SkipFillSum, stores
<1>3. ASSUME NEW r \in Reqs, Step(r), ~ MatchStep(r), ~ ReadStep(r)
      PROVE  UNCHANGED <<charges, records>>
  BY <1>3 DEF Step, Arrive, Reject, Stop, stores
<1>4. ASSUME Environment \/ UNCHANGED vars PROVE UNCHANGED <<charges, records>>
  BY <1>4 DEF Environment, EvictInfo, EvictSum, NextDay, stores, vars
<1> QED BY <1>1, <1>2, <1>3, <1>4 DEF Next

LEMMA FiniteInv == Spec => []Finite
<1>1. Init => Finite
  BY FS_EmptySet DEF Init, Finite
<1>2. Finite /\ [Next]_vars => Finite'
  <2> SUFFICES ASSUME Finite, [Next]_vars PROVE Finite'
    OBVIOUS
  <2>1. IsFiniteSet(charges')
    <3>1. ASSUME NEW r \in Reqs, Charge(r) PROVE IsFiniteSet(charges')
      BY <3>1, FS_AddElement DEF Charge, Finite
    <3> QED BY <3>1, RowSteps DEF Finite
  <2>2. IsFiniteSet(records')
    <3>1. ASSUME NEW r \in Reqs, InsertRecord(r) PROVE IsFiniteSet(records')
      BY <3>1, FS_AddElement DEF InsertRecord, Finite
    <3> QED BY <3>1, RowSteps DEF Finite
  <2> QED BY <2>1, <2>2 DEF Finite
<1> QED BY <1>1, <1>2, PTL DEF Spec

(* The funds of a set of records, and how they grow with it.                *)
LEMMA FundsOfIsNat ==
  ASSUME NEW S, IsFiniteSet(S), \A e \in S : e.fund \in Nat
  PROVE  FundsOf(S) \in Nat
BY SumIsNat DEF FundsOf

LEMMA FundsOfAdd ==
  ASSUME NEW S, IsFiniteSet(S), NEW x, x \notin S, \A e \in S \cup {x} : e.fund \in Nat
  PROVE  FundsOf(S \cup {x}) = FundsOf(S) + x.fund
<1> DEFINE f == [e \in S |-> e.fund]
           g == [e \in S \cup {x} |-> e.fund]
<1>1. \A e \in S : f[e] \in Nat /\ f[e] = g[e]
  OBVIOUS
<1>2. \A e \in S \cup {x} : g[e] \in Nat
  OBVIOUS
<1>3. g[x] = x.fund /\ x.fund \in Nat
  OBVIOUS
<1>4. FundsOf(S) = SumFunctionOnSet(f, S) /\ FundsOf(S \cup {x}) = SumFunctionOnSet(g, S \cup {x})
  BY DEF FundsOf
<1> HIDE DEF f, g
<1>5. SumFunctionOnSet(f, S) = SumFunctionOnSet(g, S) /\ SumFunctionOnSet(f, S) \in Nat
  BY <1>1, SumSame, SumIsNat
<1>6. SumFunctionOnSet(g, S \cup {x}) = g[x] + SumFunctionOnSet(g, S)
  BY <1>2, SumAdd
<1> QED BY <1>3, <1>4, <1>5, <1>6

LEMMA FundsOfNone == FundsOf({}) = 0
BY SumEmpty DEF FundsOf

LEMMA DaysHaveMax ==
  ASSUME NEW S, S \subseteq Day, S # {}
  PROVE  Max(S) \in S /\ \A d \in S : d <= Max(S)
<1> DEFINE T == {MaxDay - d : d \in S}
<1>1. T \subseteq Nat /\ T # {}
  <2>1. \A d \in S : MaxDay - d \in Nat
    BY DEF Day
  <2>2. PICK d \in S : TRUE
    OBVIOUS
  <2>3. MaxDay - d \in T
    OBVIOUS
  <2> QED BY <2>1, <2>3
<1>2. PICK x \in T : \A y \in T : <<y, x>> \notin OpToRel(<, Nat)
  <2> HIDE DEF T
  <2> QED BY <1>1, NatLessThanWellFounded, WFMin
<1>3. PICK e \in S : x = MaxDay - e
  OBVIOUS
<1>4. \A d \in S : d <= e
  <2> TAKE d \in S
  <2>1. ~ (MaxDay - d < MaxDay - e)
    BY <1>1, <1>2, <1>3 DEF OpToRel
  <2> QED BY <2>1 DEF Day
<1>5. \E e1 \in S : \A d \in S : e1 >= d
  BY <1>4 DEF Day
<1>6. Max(S) \in S /\ \A d \in S : Max(S) >= d
  BY <1>5 DEF Max
<1> QED BY <1>6 DEF Day

(* The summary rebuilt from the table is one.                               *)
LEMMA SummaryOfType ==
  ASSUME Finite, records \subseteq Record, NEW u
  PROVE  SummaryOf(u) \in Summary
<1> DEFINE mine == UserRecords(u)
           dates == DatesOf(mine)
<1>1. IsFiniteSet(mine) /\ mine \subseteq Record
  BY FS_Subset DEF Finite, UserRecords
<1>2. IsFiniteSet(dates) /\ dates \subseteq Day
  <2>1. dates \subseteq 0 .. MaxDay
    BY <1>1 DEF DatesOf, Record, Day
  <2>2. IsFiniteSet(0 .. MaxDay)
    BY FS_Interval
  <2> QED BY <2>1, <2>2, FS_Subset DEF Day
<1>3. FundsOf(mine) \in Nat
  BY <1>1, FundsOfIsNat DEF Record
<1>4. Cardinality(mine) \in Nat /\ Cardinality(dates) \in Nat
  BY <1>1, <1>2, FS_CardinalityType
<1>5. Max(dates \cup {0}) \in Day
  BY <1>2, DaysHaveMax DEF Day
<1> QED BY <1>3, <1>4, <1>5 DEF SummaryOf, Summary, Counter

LEMMA SumIsSummary ==
  ASSUME SummaryTypes, NEW r \in Reqs, NEW s \in Summary, SumIs(r, s)
  PROVE  sum' \in [Reqs -> Summary]
BY DEF SummaryTypes, SumIs, Return, NullSummary, Summary, Counter, Day

LEMMA SummaryKept ==
  ASSUME Typed, Finite, SummaryTypes, [Next]_vars
  PROVE  SummaryTypes'
<1> USE DEF caches, locals
<1>1. NullSummary \in Summary
  BY DEF NullSummary, Summary, Counter, Day
<1>2. \A u : SummaryOf(u) \in Summary
  BY SummaryOfType DEF Typed, StoreTypes
<1>3. ASSUME NEW r \in Reqs, Step(r) PROVE SummaryTypes'
  <2>1. CASE \/ \E q \in Request : Arrive(r, q)
             \/ Reject(r) \/ ReadInfoMiss(r) \/ ReadRecord(r) \/ ReadStatus(r) \/ ReadSumMiss(r)
             \/ Charge(r) \/ Stamp(r) \/ InsertRecord(r) \/ InsertDuplicate(r) \/ AdoptRecord(r)
             \/ UpdateInfo(r) \/ \E fund \in Funds : GenerateMatchFund(r, fund)
    BY <2>1 DEF Arrive, Reject, ReadInfoMiss, ReadRecord, ReadStatus, ReadSumMiss, Charge, Stamp,
       InsertRecord, InsertDuplicate, AdoptRecord, UpdateInfo, GenerateMatchFund, SummaryTypes
  <2>2. ASSUME NEW how, NEW answer, Return(r, how, answer)
        PROVE  sum' \in [Reqs -> Summary]
    BY <1>1, <2>2 DEF Return, SummaryTypes
  <2>3. CASE \/ ReadInfoHit(r) \/ ReadInfoError(r) \/ FillInfo(r) \/ SkipFillInfo(r)
             \/ AlreadyMatched(r) \/ WriteStatus(r) \/ WriteRank(r) \/ SkipRank(r) \/ Stop(r)
    <3>1. UNCHANGED sumCache
      BY <2>3 DEF ReadInfoHit, ReadInfoError, FillInfo, SkipFillInfo, AlreadyMatched, WriteStatus,
         WriteRank, SkipRank, Stop
    <3>2. UNCHANGED sum \/ \E how, answer : Return(r, how, answer)
      BY <2>3 DEF ReadInfoHit, ReadInfoError, FillInfo, SkipFillInfo, InfoIs, AlreadyMatched,
         WriteStatus, WriteRank, SkipRank, Succeed, Stop
    <3> QED BY <2>2, <3>1, <3>2 DEF SummaryTypes
  <2>4. CASE ReadSumHit(r)
    <3>1. sumCache[req[r].user] \in Summary
      BY <2>4, KeyOfRunning DEF ReadSumHit, Running, Typed, SummaryTypes
    <3> QED BY <2>4, <3>1, SumIsSummary DEF ReadSumHit, SummaryTypes
  <2>5. CASE ReadSumError(r)
    BY <1>2, <2>5, SumIsSummary DEF ReadSumError, SummaryTypes
  <2>6. CASE RecoverSum(r)
    BY <1>2, <2>6 DEF RecoverSum, SummaryTypes
  <2>7. CASE FillSum(r) \/ SkipFillSum(r)
    <3>1. sum[r] \in Summary /\ sumCache' \in [Users -> Summary]
      BY <2>7 DEF FillSum, SkipFillSum, SummaryTypes
    <3> QED BY <2>7, <3>1, SumIsSummary DEF FillSum, SkipFillSum, SummaryTypes
  <2>8. CASE UpdateSum(r)
    <3>1. raw[r] \in Day /\ rec[r].fund \in Nat
      BY DEF Typed, Held, Match
    <3>2. sumCache' \in [Users -> Summary]
      <4> DEFINE u == req[r].user
                 s == sumCache[u]
                 addDay == IF sum[r].date # raw[r] THEN 1 ELSE 0
                 t == [funds |-> s.funds + rec[r].fund, times |-> s.times + 1,
                       days |-> s.days + addDay, date |-> raw[r]]
      <4>1. u \in Users => s \in Summary
        BY DEF SummaryTypes
      <4>2. u \in Users => t \in Summary
        BY <3>1, <4>1 DEF Summary, Counter
      <4>3. sumCache' = [sumCache EXCEPT ![u] = t]
        BY <2>8 DEF UpdateSum
      <4> QED BY <4>2, <4>3 DEF SummaryTypes
    <3> QED BY <2>8, <3>2 DEF UpdateSum, SummaryTypes
  <2> QED BY <1>3, <2>1, <2>3, <2>4, <2>5, <2>6, <2>7, <2>8 DEF Step, ReadStep, MatchStep
<1>4. CASE Environment \/ UNCHANGED vars
  BY <1>1, <1>4 DEF Environment, EvictInfo, EvictSum, NextDay, vars, SummaryTypes
<1> QED BY <1>3, <1>4 DEF Next

(* Type correctness of the state the handlers share and hold, for every     *)
(* number of users, activities, requests and days.                          *)
THEOREM TypeCorrect == Spec => []TypeOK
<1>1. Init => SummaryTypes
  BY DEF Init, SummaryTypes, NullSummary, Summary, Counter, Day
<1>2. Typed /\ SummaryTypes => TypeOK
  BY DEF Typed, Held, RunTypes, TypeOK
<1> QED BY <1>1, <1>2, TypedInv, FiniteInv, SummaryKept, PTL DEF Spec

-----------------------------------------------------------------------------
(* CacheIsBacked and AnsweredIsRecorded.  Neither is inductive: a record    *)
(* travels from the table to the hash, or to the response, through the      *)
(* variables of a request, over several steps and while others go on.  The  *)
(* invariant follows it: whatever a request may write or answer is backed   *)
(* by a record, and records are never removed.                              *)

Backed(k, m) == \E e \in RecordsOf(k) : e.date = m.date /\ e.fund = m.fund

MayHold == {"readStatus", "fillInfo", "readSum", "recoverSum", "fillSum", "generate"}
HoldsRecord == {"updateInfo", "updateSum", "writeStatus", "writeRank", "succeeded", "already"}

HashBacked(k) == cache[k].date # 0 => Backed(k, cache[k])

RequestBacked(r) ==
  /\ pc[r] = "idle" => rec[r].date = 0
  /\ pc[r] \in MayHold /\ rec[r].date # 0 => Backed(KeyOf(r), rec[r])
  /\ pc[r] \in HoldsRecord => Backed(KeyOf(r), rec[r])
  /\ pc[r] = "readDup" => RecordsOf(KeyOf(r)) # {}

AllBacked == /\ \A k \in Key : HashBacked(k)
             /\ \A r \in Reqs : RequestBacked(r)

LEMMA BackedStays ==
  ASSUME records \subseteq records', NEW k, NEW m, Backed(k, m)
  PROVE  \E e \in RecordsOf(k)' : e.date = m.date /\ e.fund = m.fund
BY DEF Backed, RecordsOf

(* A hash or a request that a step leaves alone stays backed. *)
LEMMA HashFrame ==
  ASSUME AllBacked, records \subseteq records', NEW k \in Key, cache'[k] = cache[k]
  PROVE  HashBacked(k)'
<1> SUFFICES ASSUME cache'[k].date # 0 PROVE Backed(k, cache[k])'
  BY DEF HashBacked, Backed, RecordsOf
<1>1. Backed(k, cache[k])
  BY DEF AllBacked, HashBacked
<1> QED BY <1>1, BackedStays DEF Backed, RecordsOf

LEMMA RequestFrame ==
  ASSUME AllBacked, records \subseteq records', NEW r \in Reqs,
         pc'[r] = pc[r], req'[r] = req[r], rec'[r] = rec[r]
  PROVE  RequestBacked(r)'
BY DEF AllBacked, RequestBacked, Backed, RecordsOf, KeyOf

(* A step of one request that writes no hash. *)
LEMMA OwnStep ==
  ASSUME AllBacked, records \subseteq records', NEW r \in Reqs,
         UNCHANGED cache,
         \A x \in Reqs \ {r} : pc'[x] = pc[x] /\ req'[x] = req[x] /\ rec'[x] = rec[x],
         RequestBacked(r)'
  PROVE  AllBacked'
<1>1. \A k \in Key : HashBacked(k)'
  BY HashFrame
<1>2. \A x \in Reqs : RequestBacked(x)'
  BY RequestFrame
<1> QED BY <1>1, <1>2 DEF AllBacked, Key

LEMMA InitBacked == Init => AllBacked
BY DEF Init, AllBacked, HashBacked, RequestBacked, EmptyHash, NullRecord, MayHold, HoldsRecord

Alone(r) ==
  \A x \in Reqs \ {r} : pc'[x] = pc[x] /\ req'[x] = req[x] /\ rec'[x] = rec[x]

LEMMA ReturnAlone ==
  ASSUME Held, NEW r \in Reqs, NEW how, NEW answer, Return(r, how, answer)
  PROVE  /\ Alone(r)
         /\ pc'[r] = how /\ req'[r] = req[r] /\ rec'[r] = answer
BY DEF Held, Return, Alone

LEMMA GotoAlone ==
  ASSUME Held, NEW r \in Reqs, NEW l, Goto(r, l), UNCHANGED <<req, rec>>
  PROVE  /\ Alone(r)
         /\ pc'[r] = l /\ req'[r] = req[r] /\ rec'[r] = rec[r]
BY DEF Held, Goto, Alone

(* A request that ends with no answer holds nothing. *)
LEMMA EndedBacked ==
  ASSUME NEW r \in Reqs, pc'[r] \in {"queried", "stopped", "rejected"}
  PROVE  RequestBacked(r)'
BY DEF RequestBacked, MayHold, HoldsRecord

LEMMA InfoIsBacked ==
  ASSUME Held, AllBacked, NEW r \in Reqs, NEW info,
         info.date # 0 => Backed(KeyOf(r), info),
         InfoIs(r, info), UNCHANGED records
  PROVE  Alone(r) /\ RequestBacked(r)'
<1>1. CASE req[r].op = "match"
  <2>1. pc'[r] = "readSum" /\ req'[r] = req[r] /\ rec'[r] = info
    BY <1>1 DEF InfoIs, Goto, Held
  <2>2. Alone(r)
    BY <1>1 DEF InfoIs, Goto, Held, Alone
  <2> QED BY <2>1, <2>2 DEF RequestBacked, Backed, RecordsOf, KeyOf, HoldsRecord
<1>2. CASE req[r].op # "match"
  BY <1>2, ReturnAlone, EndedBacked DEF InfoIs
<1> QED BY <1>1, <1>2

LEMMA SumIsBacked ==
  ASSUME Held, AllBacked, NEW r \in Reqs, pc[r] \in {"readSum", "fillSum"}, NEW s,
         SumIs(r, s), UNCHANGED records
  PROVE  Alone(r) /\ RequestBacked(r)'
<1>1. CASE req[r].op = "match"
  <2>1. pc'[r] = "generate" /\ req'[r] = req[r] /\ rec'[r] = rec[r]
    BY <1>1 DEF SumIs, Goto, Held
  <2>2. Alone(r)
    BY <1>1 DEF SumIs, Goto, Held, Alone
  <2>3. RequestBacked(r)
    BY DEF AllBacked
  <2> QED BY <2>1, <2>2, <2>3
          DEF RequestBacked, Backed, RecordsOf, KeyOf, MayHold, HoldsRecord
<1>2. CASE req[r].op # "match"
  BY <1>2, ReturnAlone, EndedBacked DEF SumIs
<1> QED BY <1>1, <1>2

(* What a request reads from the table, or from a hash, is backed. *)
LEMMA LastRecordBacked ==
  ASSUME Typed, NEW k
  PROVE  /\ LastRecord(k).date # 0 => Backed(k, LastRecord(k))
         /\ RecordsOf(k) # {} => Backed(k, LastRecord(k))
<1>1. CASE RecordsOf(k) = {}
  BY <1>1 DEF LastRecord, NullRecord
<1>2. CASE RecordsOf(k) # {}
  <2>1. PICK e \in RecordsOf(k) :
               LastRecord(k) = [date |-> e.date, combo |-> e.combo, fund |-> e.fund]
    BY <1>2, LastRecordIsARecord DEF Typed, StoreTypes
  <2> QED BY <2>1 DEF Backed
<1> QED BY <1>1, <1>2

LEMMA ReadBacked ==
  ASSUME Typed, AllBacked, NEW r \in Reqs, ReadStep(r)
  PROVE  AllBacked'
<1> USE DEF stores, caches
<1>a. Held
  BY DEF Typed
<1>b. RequestBacked(r)
  BY DEF AllBacked
<1>c. UNCHANGED records
  BY DEF ReadStep, ReadInfoHit, ReadInfoMiss, ReadInfoError, ReadRecord, ReadStatus,
         FillInfo, SkipFillInfo, ReadSumHit, ReadSumMiss, ReadSumError, RecoverSum,
         FillSum, SkipFillSum
<1>k. pc[r] \in Running => KeyOf(r) \in Key
  BY <1>a, KeyOfRunning
<1>1. CASE ReadInfoHit(r)
  <2> DEFINE k == KeyOf(r)
             info == [date |-> cache[k].date, combo |-> cache[k].combo,
                      fund |-> cache[k].fund]
  <2>1. HashBacked(k)
    BY <1>1, <1>k DEF AllBacked, ReadInfoHit, Running
  <2>2. info.date # 0 => Backed(k, info)
    BY <2>1 DEF HashBacked, Backed
  <2>3. Alone(r) /\ RequestBacked(r)'
    BY <1>1, <1>a, <1>c, <2>2, InfoIsBacked DEF ReadInfoHit
  <2> QED BY <1>1, <1>c, <2>3, OwnStep DEF ReadInfoHit, Alone
<1>2. CASE ReadInfoMiss(r)
  <2>1. Alone(r) /\ pc'[r] = "readRecord"
    BY <1>2, <1>a, GotoAlone DEF ReadInfoMiss
  <2>2. RequestBacked(r)'
    BY <2>1 DEF RequestBacked, MayHold, HoldsRecord
  <2> QED BY <1>2, <1>c, <2>1, <2>2, OwnStep DEF ReadInfoMiss, Alone
<1>3. CASE ReadInfoError(r)
  <2>1. Alone(r) /\ RequestBacked(r)'
    BY <1>3, <1>a, <1>c, LastRecordBacked, InfoIsBacked DEF ReadInfoError
  <2> QED BY <1>3, <1>c, <2>1, OwnStep DEF ReadInfoError, Alone
<1>4. CASE ReadRecord(r)
  <2>1. /\ Alone(r) /\ pc'[r] = "readStatus" /\ req'[r] = req[r]
        /\ rec'[r] = LastRecord(KeyOf(r))
    BY <1>4, <1>a DEF ReadRecord, Goto, Held, Alone
  <2>2. RequestBacked(r)'
    BY <1>c, <2>1, LastRecordBacked
       DEF RequestBacked, Backed, RecordsOf, KeyOf, HoldsRecord
  <2> QED BY <1>4, <1>c, <2>1, <2>2, OwnStep DEF ReadRecord, Alone
<1>5. CASE ReadStatus(r)
  <2>1. Alone(r) /\ pc'[r] = "fillInfo" /\ req'[r] = req[r] /\ rec'[r] = rec[r]
    BY <1>5, <1>a, GotoAlone DEF ReadStatus
  <2>2. RequestBacked(r)'
    BY <1>5, <1>b, <1>c, <2>1
       DEF ReadStatus, RequestBacked, Backed, RecordsOf, KeyOf, HoldsRecord, MayHold
  <2> QED BY <1>5, <1>c, <2>1, <2>2, OwnStep DEF ReadStatus, Alone
<1>6. CASE FillInfo(r)
  <2>1. rec[r].date # 0 => Backed(KeyOf(r), rec[r])
    BY <1>6, <1>b DEF FillInfo, RequestBacked, MayHold
  <2>2. Alone(r) /\ RequestBacked(r)'
    BY <1>6, <1>a, <1>c, <2>1, InfoIsBacked DEF FillInfo
  <2>3. \A x \in Reqs : RequestBacked(x)'
    BY <1>c, <2>2, RequestFrame DEF Alone
  <2>4. ASSUME NEW k \in Key PROVE HashBacked(k)'
    <3>1. CASE k = KeyOf(r)
      BY <1>6, <1>c, <2>1, <3>1
         DEF FillInfo, Typed, CacheTypes, HashBacked, Backed, RecordsOf
    <3>2. CASE k # KeyOf(r)
      BY <1>6, <1>c, <3>2, HashFrame DEF FillInfo, Typed, CacheTypes
    <3> QED BY <3>1, <3>2
  <2> QED BY <2>3, <2>4 DEF AllBacked, Key
<1>7. CASE SkipFillInfo(r)
  <2>1. rec[r].date # 0 => Backed(KeyOf(r), rec[r])
    BY <1>7, <1>b DEF SkipFillInfo, RequestBacked, MayHold
  <2>2. Alone(r) /\ RequestBacked(r)'
    BY <1>7, <1>a, <1>c, <2>1, InfoIsBacked DEF SkipFillInfo
  <2> QED BY <1>7, <1>c, <2>2, OwnStep DEF SkipFillInfo, Alone
<1>8. CASE ReadSumHit(r)
  BY <1>8, <1>a, <1>c, SumIsBacked, OwnStep DEF ReadSumHit, Alone
<1>9. CASE ReadSumMiss(r)
  <2>1. Alone(r) /\ pc'[r] = "recoverSum" /\ req'[r] = req[r] /\ rec'[r] = rec[r]
    BY <1>9, <1>a, GotoAlone DEF ReadSumMiss
  <2>2. RequestBacked(r)'
    BY <1>9, <1>b, <1>c, <2>1
       DEF ReadSumMiss, RequestBacked, Backed, RecordsOf, KeyOf, HoldsRecord, MayHold
  <2> QED BY <1>9, <1>c, <2>1, <2>2, OwnStep DEF ReadSumMiss, Alone
<1>10. CASE ReadSumError(r)
  BY <1>10, <1>a, <1>c, SumIsBacked, OwnStep DEF ReadSumError, Alone
<1>11. CASE RecoverSum(r)
  <2>1. Alone(r) /\ pc'[r] = "fillSum" /\ req'[r] = req[r] /\ rec'[r] = rec[r]
    BY <1>11, <1>a, GotoAlone DEF RecoverSum
  <2>2. RequestBacked(r)'
    BY <1>11, <1>b, <1>c, <2>1
       DEF RecoverSum, RequestBacked, Backed, RecordsOf, KeyOf, HoldsRecord, MayHold
  <2> QED BY <1>11, <1>c, <2>1, <2>2, OwnStep DEF RecoverSum, Alone
<1>12. CASE FillSum(r)
  BY <1>12, <1>a, <1>c, SumIsBacked, OwnStep DEF FillSum, Alone
<1>13. CASE SkipFillSum(r)
  BY <1>13, <1>a, <1>c, SumIsBacked, OwnStep DEF SkipFillSum, Alone
<1> QED BY <1>1, <1>2, <1>3, <1>4, <1>5, <1>6, <1>7, <1>8, <1>9, <1>10, <1>11, <1>12, <1>13
        DEF ReadStep

LEMMA SucceedBacked ==
  ASSUME Held, NEW r \in Reqs, Backed(KeyOf(r), rec[r]), Succeed(r), UNCHANGED records
  PROVE  Alone(r) /\ RequestBacked(r)'
<1>1. /\ Alone(r) /\ pc'[r] = "succeeded" /\ req'[r] = req[r]
      /\ rec'[r] = [rec[r] EXCEPT !.combo = @ + 1]
  BY ReturnAlone DEF Succeed
<1>2. rec'[r].date = rec[r].date /\ rec'[r].fund = rec[r].fund
  BY <1>1 DEF Held, Match
<1> QED BY <1>1, <1>2 DEF RequestBacked, Backed, RecordsOf, KeyOf, MayHold

LEMMA MatchBacked ==
  ASSUME Typed, AllBacked, NEW r \in Reqs, MatchStep(r)
  PROVE  AllBacked'
<1> USE DEF stores, caches
<1>a. Held
  BY DEF Typed
<1>b. RequestBacked(r)
  BY DEF AllBacked
<1>d. rec[r] \in Match
  BY <1>a DEF Held
<1>1. CASE AlreadyMatched(r)
  <2>1. UNCHANGED <<records, cache>>
    BY <1>1 DEF AlreadyMatched
  <2>2. Backed(KeyOf(r), rec[r])
    BY <1>1, <1>b DEF AlreadyMatched, Typed, RequestBacked, MayHold
  <2>3. CASE Return(r, "stopped", NullRecord)
    BY <2>1, <2>3, <1>a, ReturnAlone, EndedBacked, OwnStep DEF Alone
  <2>4. CASE Return(r, "already", rec[r])
    <3>1. /\ Alone(r) /\ pc'[r] = "already" /\ req'[r] = req[r] /\ rec'[r] = rec[r]
      BY <2>4, <1>a, ReturnAlone
    <3>2. RequestBacked(r)'
      BY <2>1, <2>2, <3>1 DEF RequestBacked, Backed, RecordsOf, KeyOf, MayHold
    <3> QED BY <2>1, <3>1, <3>2, OwnStep DEF Alone
  <2> QED BY <1>1, <2>3, <2>4 DEF AlreadyMatched
<1>2. ASSUME NEW fund \in Funds, GenerateMatchFund(r, fund)
      PROVE  AllBacked'
  <2>1. Alone(r) /\ pc'[r] = "charge"
    BY <1>2, <1>a DEF GenerateMatchFund, Goto, Held, Alone
  <2>2. RequestBacked(r)'
    BY <2>1 DEF RequestBacked, MayHold, HoldsRecord
  <2> QED BY <1>2, <2>1, <2>2, OwnStep DEF GenerateMatchFund, Alone
<1>3. CASE Charge(r)
  <2>1. Alone(r) /\ pc'[r] = "stamp"
    BY <1>3, <1>a DEF Charge, Goto, Held, Alone
  <2>2. RequestBacked(r)'
    BY <2>1 DEF RequestBacked, MayHold, HoldsRecord
  <2> QED BY <1>3, <2>1, <2>2, OwnStep DEF Charge, Alone
<1>4. CASE Stamp(r)
  <2>1. Alone(r) /\ pc'[r] = "insert"
    BY <1>4, <1>a DEF Stamp, Goto, Held, Alone
  <2>2. RequestBacked(r)'
    BY <2>1 DEF RequestBacked, MayHold, HoldsRecord
  <2> QED BY <1>4, <2>1, <2>2, OwnStep DEF Stamp, Alone
<1>5. CASE InsertRecord(r)
  <2>1. Alone(r) /\ pc'[r] = "updateInfo" /\ req'[r] = req[r] /\ rec'[r] = rec[r]
    BY <1>5, <1>a, GotoAlone DEF InsertRecord
  <2>2. \E e \in RecordsOf(KeyOf(r))' : e.date = rec[r].date /\ e.fund = rec[r].fund
    <3> DEFINE new == [id |-> r, user |-> req[r].user, act |-> req[r].act,
                       date |-> rec[r].date, fund |-> rec[r].fund,
                       combo |-> rec[r].combo + 1]
    <3>1. new \in records'
      BY <1>5 DEF InsertRecord
    <3>2. new \in RecordsOf(KeyOf(r))'
      BY <2>1, <3>1 DEF RecordsOf, KeyOf
    <3>3. new.date = rec[r].date /\ new.fund = rec[r].fund
      OBVIOUS
    <3> QED BY <3>2, <3>3
  <2>3. RequestBacked(r)'
    BY <2>1, <2>2 DEF RequestBacked, Backed, RecordsOf, KeyOf, MayHold
  <2> QED BY <1>5, <2>1, <2>3, OwnStep DEF InsertRecord, Alone
<1>6. CASE InsertDuplicate(r)
  <2>1. Alone(r) /\ pc'[r] = "readDup" /\ req'[r] = req[r] /\ rec'[r] = rec[r]
    BY <1>6, <1>a, GotoAlone DEF InsertDuplicate
  <2>2. RecordsOf(KeyOf(r))' # {}
    BY <1>6, <2>1 DEF InsertDuplicate, HasRecord, RecordsOf, KeyOf
  <2>3. RequestBacked(r)'
    BY <2>1, <2>2 DEF RequestBacked, MayHold, HoldsRecord, RecordsOf, KeyOf
  <2> QED BY <1>6, <2>1, <2>3, OwnStep DEF InsertDuplicate, Alone
<1>7. CASE AdoptRecord(r)
  <2>1. /\ Alone(r) /\ pc'[r] = "updateInfo" /\ req'[r] = req[r]
        /\ rec'[r] = LastRecord(KeyOf(r))
    BY <1>7, <1>a DEF AdoptRecord, Goto, Held, Alone
  <2>2. Backed(KeyOf(r), LastRecord(KeyOf(r)))
    BY <1>7, <1>b, LastRecordBacked DEF AdoptRecord, RequestBacked
  <2>3. RequestBacked(r)'
    BY <1>7, <2>1, <2>2 DEF AdoptRecord, RequestBacked, Backed, RecordsOf, KeyOf, MayHold
  <2> QED BY <1>7, <2>1, <2>3, OwnStep DEF AdoptRecord, Alone
<1>8. CASE UpdateInfo(r)
  <2>1. Alone(r) /\ pc'[r] = "updateSum" /\ req'[r] = req[r] /\ rec'[r] = rec[r]
    BY <1>8, <1>a, GotoAlone DEF UpdateInfo
  <2>2. Backed(KeyOf(r), rec[r])
    BY <1>8, <1>b DEF UpdateInfo, RequestBacked, HoldsRecord
  <2>3. RequestBacked(r)'
    BY <1>8, <2>1, <2>2 DEF UpdateInfo, RequestBacked, Backed, RecordsOf, KeyOf, MayHold
  <2>4. \A x \in Reqs : RequestBacked(x)'
    BY <1>8, <2>1, <2>3, RequestFrame DEF UpdateInfo, Alone
  <2>5. ASSUME NEW k \in Key PROVE HashBacked(k)'
    <3>1. CASE k = KeyOf(r)
      BY <1>8, <2>2, <3>1
         DEF UpdateInfo, Typed, CacheTypes, HashBacked, Backed, RecordsOf
    <3>2. CASE k # KeyOf(r)
      BY <1>8, <3>2, HashFrame DEF UpdateInfo, Typed, CacheTypes
    <3> QED BY <3>1, <3>2
  <2> QED BY <2>4, <2>5 DEF AllBacked, Key
<1>9. CASE UpdateSum(r)
  <2>1. Alone(r) /\ pc'[r] = "writeStatus" /\ req'[r] = req[r] /\ rec'[r] = rec[r]
    BY <1>9, <1>a, GotoAlone DEF UpdateSum
  <2>2. RequestBacked(r)'
    BY <1>9, <1>b, <2>1
       DEF UpdateSum, RequestBacked, Backed, RecordsOf, KeyOf, MayHold, HoldsRecord
  <2> QED BY <1>9, <2>1, <2>2, OwnStep DEF UpdateSum, Alone
<1>10. CASE WriteStatus(r)
  <2>1. UNCHANGED <<records, cache>>
    BY <1>10 DEF WriteStatus
  <2>2. Backed(KeyOf(r), rec[r])
    BY <1>10, <1>b DEF WriteStatus, RequestBacked, HoldsRecord
  <2>3. CASE Succeed(r)
    BY <1>a, <2>1, <2>2, <2>3, SucceedBacked, OwnStep DEF Alone
  <2>4. CASE Goto(r, "writeRank") /\ UNCHANGED <<req, rec, totals, sum, raw>>
    <3>1. Alone(r) /\ pc'[r] = "writeRank" /\ req'[r] = req[r] /\ rec'[r] = rec[r]
      BY <1>a, <2>4, GotoAlone
    <3>2. RequestBacked(r)'
      BY <2>1, <2>2, <3>1 DEF RequestBacked, Backed, RecordsOf, KeyOf, MayHold
    <3> QED BY <2>1, <3>1, <3>2, OwnStep DEF Alone
  <2> QED BY <1>10, <2>3, <2>4 DEF WriteStatus
<1>11. CASE WriteRank(r) \/ SkipRank(r)
  <2>1. Backed(KeyOf(r), rec[r])
    BY <1>11, <1>b DEF WriteRank, SkipRank, RequestBacked, HoldsRecord
  <2> QED BY <1>11, <1>a, <2>1, SucceedBacked, OwnStep DEF WriteRank, SkipRank, Alone
<1> QED BY <1>1, <1>2, <1>3, <1>4, <1>5, <1>6, <1>7, <1>8, <1>9, <1>10, <1>11
        DEF MatchStep

LEMMA ArriveBacked ==
  ASSUME Typed, AllBacked, NEW r \in Reqs, NEW q \in Request, Arrive(r, q)
  PROVE  AllBacked'
<1>1. Alone(r) /\ rec'[r] = rec[r] /\ pc'[r] \in {"readSum", "readInfo"}
  BY DEF Arrive, Goto, Typed, Held, Alone
<1>2. rec[r].date = 0
  BY DEF Arrive, AllBacked, RequestBacked
<1>3. RequestBacked(r)'
  BY <1>1, <1>2 DEF RequestBacked, HoldsRecord
<1> QED BY <1>1, <1>3, OwnStep DEF Arrive, stores, caches, Alone

LEMMA RejectBacked ==
  ASSUME Typed, AllBacked, NEW r \in Reqs, Reject(r)
  PROVE  AllBacked'
<1>1. Alone(r) /\ pc'[r] = "rejected"
  BY DEF Reject, Goto, Typed, Held, Alone
<1> QED BY <1>1, EndedBacked, OwnStep DEF Reject, stores, caches, Alone

LEMMA StopBacked ==
  ASSUME Typed, AllBacked, NEW r \in Reqs, Stop(r)
  PROVE  AllBacked'
<1>1. Alone(r) /\ pc'[r] = "stopped"
  BY ReturnAlone DEF Stop, Typed
<1> QED BY <1>1, EndedBacked, OwnStep DEF Stop, stores, caches, Alone

(* A lost hash shows no match; the clock touches neither. *)
LEMMA EnvironmentBacked ==
  ASSUME Typed, AllBacked, Environment
  PROVE  AllBacked'
<1> USE DEF locals, stores, caches
<1>1. \A r \in Reqs : RequestBacked(r)'
  BY RequestFrame DEF Environment, EvictInfo, EvictSum, NextDay
<1>2. ASSUME NEW k \in Key PROVE HashBacked(k)'
  <2>1. cache'[k] = cache[k] \/ cache'[k] = EmptyHash
    BY DEF Environment, EvictInfo, EvictSum, NextDay, Typed, CacheTypes
  <2>2. UNCHANGED records
    BY DEF Environment, EvictInfo, EvictSum, NextDay
  <2>3. CASE cache'[k] = EmptyHash
    BY <2>3 DEF HashBacked, EmptyHash
  <2> QED BY <2>1, <2>2, <2>3, HashFrame
<1> QED BY <1>1, <1>2 DEF AllBacked, Key

LEMMA StutterBacked ==
  ASSUME AllBacked, UNCHANGED vars
  PROVE  AllBacked'
BY DEF AllBacked, HashBacked, RequestBacked, Backed, RecordsOf, KeyOf, vars, locals, stores,
       caches, Key

LEMMA BackedInv == Spec => []AllBacked
<1>1. Init => AllBacked
  BY InitBacked
<1>2. Typed /\ AllBacked /\ [Next]_vars => AllBacked'
  <2> SUFFICES ASSUME Typed, AllBacked, [Next]_vars PROVE AllBacked'
    OBVIOUS
  <2>1. ASSUME NEW r \in Reqs, Step(r) PROVE AllBacked'
    BY <2>1, ArriveBacked, RejectBacked, ReadBacked, MatchBacked, StopBacked DEF Step
  <2> QED BY <2>1, EnvironmentBacked, StutterBacked DEF Next
<1> QED BY <1>1, <1>2, TypedInv, PTL DEF Spec

(* Whatever hash Redis holds, its last match is a record of the table.      *)
THEOREM CacheBacked == Spec => []CacheIsBacked
<1>1. Typed /\ AllBacked => CacheIsBacked
  BY DEF Typed, CacheTypes, AllBacked, HashBacked, Backed, CacheIsBacked
<1> QED BY <1>1, TypedInv, BackedInv, PTL

(* Whatever match a response names is a record of the table.                *)
THEOREM AnswerRecorded == Spec => []AnsweredIsRecorded
<1>1. AllBacked => AnsweredIsRecorded
  BY DEF AllBacked, RequestBacked, HoldsRecord, Backed, AnsweredIsRecorded
<1> QED BY <1>1, BackedInv, PTL

-----------------------------------------------------------------------------
(* The refinement of the ledger.  A request charges once, before it inserts,*)
(* and inserts once: the invariant ties what is charged and booked under    *)
(* the identity of a request to how far the request has come.               *)

Unpaid == {"idle", "readInfo", "readRecord", "readStatus", "fillInfo", "readSum",
           "recoverSum", "fillSum", "generate", "charge"}
Unbooked == Unpaid \cup {"stamp", "insert"}

Bill(r) == [id |-> r, user |-> req[r].user, act |-> req[r].act, fund |-> rec[r].fund]

RequestPaid(r) ==
  /\ pc[r] \in {"charge", "stamp", "insert"} => rec[r].fund \in Funds
  /\ pc[r] \in Unpaid => \A c \in charges : c.id # r
  /\ pc[r] \in Unbooked => \A e \in records : e.id # r
  /\ pc[r] \in {"stamp", "insert"} => Bill(r) \in charges
  /\ pc[r] = "insert" => rec[r].date \in 1 .. MaxDay

AllPaid == \A r \in Reqs : RequestPaid(r)

LEMMA InitPaid == Init => AllPaid
BY DEF Init, AllPaid, RequestPaid

(* A step that neither charges nor books, and that does not bring its       *)
(* request between the draw and the insertion.                              *)
LEMMA QuietStep ==
  ASSUME AllPaid, NEW r \in Reqs, UNCHANGED <<charges, records>>, Alone(r),
         \/ pc'[r] \notin Unbooked
         \/ pc[r] \in Unpaid /\ pc'[r] \in Unpaid \ {"charge"}
  PROVE  AllPaid'
<1>1. RequestPaid(r)'
  BY DEF AllPaid, RequestPaid, Unpaid, Unbooked
<1>2. ASSUME NEW x \in Reqs \ {r} PROVE RequestPaid(x)'
  BY DEF AllPaid, RequestPaid, Bill, Alone
<1> QED BY <1>1, <1>2 DEF AllPaid

LEMMA ReadPaid ==
  ASSUME Typed, AllPaid, NEW r \in Reqs, ReadStep(r)
  PROVE  AllPaid' /\ UNCHANGED <<charges, records>>
<1> USE DEF stores, caches
<1>a. Held
  BY DEF Typed
<1>1. UNCHANGED <<charges, records>>
  BY DEF ReadStep, ReadInfoHit, ReadInfoMiss, ReadInfoError, ReadRecord, ReadStatus,
         FillInfo, SkipFillInfo, ReadSumHit, ReadSumMiss, ReadSumError, RecoverSum,
         FillSum, SkipFillSum
<1>2. pc[r] \in Unpaid
  BY DEF ReadStep, ReadInfoHit, ReadInfoMiss, ReadInfoError, ReadRecord, ReadStatus,
         FillInfo, SkipFillInfo, ReadSumHit, ReadSumMiss, ReadSumError, RecoverSum,
         FillSum, SkipFillSum, Unpaid
<1>3. ASSUME NEW info, InfoIs(r, info)
      PROVE  Alone(r) /\ pc'[r] \in {"readSum", "queried"}
  <2>1. CASE req[r].op = "match"
    BY <1>a, <1>3, <2>1 DEF InfoIs, Goto, Held, Alone
  <2>2. CASE req[r].op # "match"
    BY <1>a, <1>3, <2>2, ReturnAlone DEF InfoIs
  <2> QED BY <2>1, <2>2
<1>4. ASSUME NEW s, SumIs(r, s)
      PROVE  Alone(r) /\ pc'[r] \in {"generate", "queried"}
  <2>1. CASE req[r].op = "match"
    BY <1>a, <1>4, <2>1 DEF SumIs, Goto, Held, Alone
  <2>2. CASE req[r].op # "match"
    BY <1>a, <1>4, <2>2, ReturnAlone DEF SumIs
  <2> QED BY <2>1, <2>2
<1>5. Alone(r) /\ pc'[r] \in (Unpaid \ {"charge"}) \cup {"queried"}
  <2>1. CASE ReadInfoHit(r) \/ ReadInfoError(r) \/ FillInfo(r) \/ SkipFillInfo(r)
    BY <1>3, <2>1 DEF ReadInfoHit, ReadInfoError, FillInfo, SkipFillInfo, Unpaid
  <2>2. CASE ReadSumHit(r) \/ ReadSumError(r) \/ FillSum(r) \/ SkipFillSum(r)
    BY <1>4, <2>2 DEF ReadSumHit, ReadSumError, FillSum, SkipFillSum, Unpaid
  <2>3. CASE ReadInfoMiss(r) \/ ReadRecord(r) \/ ReadStatus(r)
    BY <1>a, <2>3 DEF ReadInfoMiss, ReadRecord, ReadStatus, Goto, Held, Alone, Unpaid
  <2>4. CASE ReadSumMiss(r) \/ RecoverSum(r)
    BY <1>a, <2>4 DEF ReadSumMiss, RecoverSum, Goto, Held, Alone, Unpaid
  <2> QED BY <2>1, <2>2, <2>3, <2>4 DEF ReadStep
<1>6. CASE pc'[r] = "queried"
  BY <1>1, <1>5, <1>6, QuietStep DEF Unpaid, Unbooked
<1>7. CASE pc'[r] \in Unpaid \ {"charge"}
  BY <1>1, <1>2, <1>5, <1>7, QuietStep
<1> QED BY <1>1, <1>5, <1>6, <1>7

(* The steps of UserMatch that neither charge nor book. *)
LEMMA MatchQuiet ==
  ASSUME Typed, AllPaid, NEW r \in Reqs,
         \/ AlreadyMatched(r) \/ InsertDuplicate(r) \/ AdoptRecord(r) \/ UpdateInfo(r)
         \/ UpdateSum(r) \/ WriteStatus(r) \/ WriteRank(r) \/ SkipRank(r)
  PROVE  AllPaid' /\ UNCHANGED <<charges, records>>
<1> USE DEF stores, caches
<1>a. Held
  BY DEF Typed
<1>1. UNCHANGED <<charges, records>>
  BY DEF AlreadyMatched, InsertDuplicate, AdoptRecord, UpdateInfo, UpdateSum, WriteStatus,
         WriteRank, SkipRank
<1>2. Alone(r) /\ pc'[r] \in {"already", "stopped", "readDup", "updateInfo", "updateSum",
                              "writeStatus", "writeRank", "succeeded"}
  <2>1. CASE AlreadyMatched(r)
    BY <1>a, <2>1, ReturnAlone DEF AlreadyMatched
  <2>2. CASE InsertDuplicate(r) \/ AdoptRecord(r) \/ UpdateInfo(r) \/ UpdateSum(r)
    BY <1>a, <2>2 DEF InsertDuplicate, AdoptRecord, UpdateInfo, UpdateSum, Goto, Held, Alone
  <2>3. CASE Succeed(r)
    BY <1>a, <2>3, ReturnAlone DEF Succeed
  <2>4. CASE WriteStatus(r) /\ ~Succeed(r)
    BY <1>a, <2>4, GotoAlone DEF WriteStatus
  <2>5. WriteRank(r) \/ SkipRank(r) => Succeed(r)
    BY DEF WriteRank, SkipRank
  <2> QED BY <2>1, <2>2, <2>3, <2>4, <2>5
<1>3. pc'[r] \notin Unbooked
  BY <1>2 DEF Unpaid, Unbooked
<1> QED BY <1>1, <1>2, <1>3, QuietStep

LEMMA DrawPaid ==
  ASSUME Typed, AllPaid, NEW r \in Reqs, NEW fund \in Funds, GenerateMatchFund(r, fund)
  PROVE  AllPaid' /\ UNCHANGED <<charges, records>>
<1>1. UNCHANGED <<charges, records>>
  BY DEF GenerateMatchFund, stores
<1>2. Alone(r) /\ pc'[r] = "charge" /\ rec'[r].fund = fund
  BY DEF GenerateMatchFund, Goto, Typed, Held, Alone
<1>3. pc[r] \in Unpaid /\ pc[r] \in Unbooked
  BY DEF GenerateMatchFund, Unpaid, Unbooked
<1>4. RequestPaid(r)'
  BY <1>1, <1>2, <1>3 DEF AllPaid, RequestPaid
<1>5. ASSUME NEW x \in Reqs \ {r} PROVE RequestPaid(x)'
  BY <1>1, <1>2 DEF AllPaid, RequestPaid, Bill, Alone
<1> QED BY <1>1, <1>4, <1>5 DEF AllPaid

LEMMA StampPaid ==
  ASSUME Typed, AllPaid, NEW r \in Reqs, Stamp(r)
  PROVE  AllPaid' /\ UNCHANGED <<charges, records>>
<1>1. UNCHANGED <<charges, records>>
  BY DEF Stamp, stores
<1>2. /\ Alone(r) /\ pc'[r] = "insert" /\ req'[r] = req[r]
      /\ rec'[r] = [rec[r] EXCEPT !.date = today]
  BY DEF Stamp, Goto, Typed, Held, Alone
<1>3. rec'[r].date = today /\ rec'[r].fund = rec[r].fund
  BY <1>2 DEF Typed, Held, Match
<1>4. pc[r] = "stamp" /\ today \in 1 .. MaxDay
  BY DEF Stamp, Typed
<1>5. Bill(r)' = Bill(r)
  BY <1>2, <1>3 DEF Bill
<1>6. RequestPaid(r)'
  BY <1>1, <1>2, <1>3, <1>4, <1>5 DEF AllPaid, RequestPaid, Unpaid, Unbooked
<1>7. ASSUME NEW x \in Reqs \ {r} PROVE RequestPaid(x)'
  BY <1>1, <1>2 DEF AllPaid, RequestPaid, Bill, Alone
<1> QED BY <1>1, <1>6, <1>7 DEF AllPaid

(* A charge is a payment of the ledger. *)
LEMMA ChargePays ==
  ASSUME Typed, AllPaid, NEW r \in Reqs, Charge(r)
  PROVE  AllPaid' /\ Ledger!Next
<1>1. /\ Alone(r) /\ pc'[r] = "stamp" /\ req'[r] = req[r] /\ rec'[r] = rec[r]
      /\ UNCHANGED records
      /\ charges' = charges \cup {Bill(r)}
  BY GotoAlone DEF Charge, Typed, Bill
<1>2. /\ pc[r] \in {"charge", "stamp", "insert"} /\ pc[r] \in Unpaid /\ pc[r] \in Unbooked
      /\ RequestPaid(r)
  BY DEF Charge, AllPaid, Unpaid, Unbooked
<1>3. Bill(r)' = Bill(r)
  BY <1>1 DEF Bill
<1>4. RequestPaid(r)'
  BY <1>1, <1>2, <1>3 DEF RequestPaid, Unpaid, Unbooked
<1>5. ASSUME NEW x \in Reqs \ {r} PROVE RequestPaid(x)'
  <2>1. Bill(x)' = Bill(x) /\ Bill(r).id # x
    BY <1>1 DEF Bill, Alone
  <2> QED BY <1>1, <2>1 DEF AllPaid, RequestPaid, Alone
<1>6. Bill(r) \in Ledger!Payment
  <2>1. req[r].user \in Users /\ req[r].act \in Activities
    BY KeyOfRunning DEF Charge, Typed, Running
  <2> QED BY <1>2, <2>1 DEF Bill, RequestPaid, Ledger!Payment
<1>7. \A q \in charges : q.id # Bill(r).id
  BY <1>2 DEF RequestPaid, Bill
<1>8. Booked' = Booked
  BY <1>1 DEF Booked
<1>9. Ledger!Pay(Bill(r))
  BY <1>1, <1>7, <1>8 DEF Ledger!Pay
<1> QED BY <1>4, <1>5, <1>6, <1>9 DEF AllPaid, Ledger!Next

(* The insertion of a record books the payment of its request. *)
LEMMA InsertBooks ==
  ASSUME Typed, AllPaid, NEW r \in Reqs, InsertRecord(r)
  PROVE  AllPaid' /\ Ledger!Next
<1> DEFINE new == [id |-> r, user |-> req[r].user, act |-> req[r].act,
                   date |-> rec[r].date, fund |-> rec[r].fund,
                   combo |-> rec[r].combo + 1]
<1>1. /\ Alone(r) /\ pc'[r] = "updateInfo"
      /\ UNCHANGED charges
      /\ records' = records \cup {new}
  BY GotoAlone DEF InsertRecord, Typed
<1>2. pc[r] = "insert" /\ pc[r] \in Unbooked /\ RequestPaid(r)
  BY DEF InsertRecord, AllPaid, Unpaid, Unbooked
<1>3. RequestPaid(r)'
  BY <1>1 DEF RequestPaid, Unpaid, Unbooked
<1>4. ASSUME NEW x \in Reqs \ {r} PROVE RequestPaid(x)'
  BY <1>1 DEF AllPaid, RequestPaid, Bill, Alone
<1>5. Bill(r) \in charges /\ rec[r].date \in 1 .. MaxDay
  BY <1>2 DEF RequestPaid
<1>6. \A e \in Booked : e.id # Bill(r).id
  BY <1>2 DEF RequestPaid, Booked, Bill
<1>7. \A e \in Booked : ~(e.user = Bill(r).user /\ e.act = Bill(r).act
                          /\ e.date = rec[r].date)
  BY DEF InsertRecord, HasRecord, RecordsOf, KeyOf, Booked, Bill
<1>8. Booked' = Booked \cup {[id |-> Bill(r).id, user |-> Bill(r).user,
                              act |-> Bill(r).act, fund |-> Bill(r).fund,
                              date |-> rec[r].date]}
  <2> DEFINE entry(e) == [id |-> e.id, user |-> e.user, act |-> e.act, fund |-> e.fund,
                          date |-> e.date]
  <2>1. entry(new) = [id |-> r, user |-> req[r].user, act |-> req[r].act,
                      fund |-> rec[r].fund, date |-> rec[r].date]
    OBVIOUS
  <2>2. Booked = {entry(e) : e \in records} /\ Booked' = {entry(e) : e \in records'}
    BY DEF Booked
  <2> HIDE DEF entry, new
  <2>3. Booked' = Booked \cup {entry(new)}
    BY <1>1, <2>2
  <2> QED BY <2>1, <2>3 DEF Bill
<1>9. Ledger!Book(Bill(r), rec[r].date)
  BY <1>1, <1>6, <1>7, <1>8 DEF Ledger!Book
<1> QED BY <1>3, <1>4, <1>5, <1>9 DEF AllPaid, Ledger!Next

LEMMA OthersPaid ==
  ASSUME Typed, AllPaid, NEW r \in Reqs,
         \/ \E q \in Request : Arrive(r, q)
         \/ Reject(r) \/ Stop(r)
  PROVE  AllPaid' /\ UNCHANGED <<charges, records>>
<1>1. UNCHANGED <<charges, records>>
  BY DEF Arrive, Reject, Stop, stores
<1>2. ASSUME NEW q \in Request, Arrive(r, q) PROVE AllPaid'
  <2>1. /\ Alone(r) /\ pc[r] \in Unpaid /\ pc'[r] \in Unpaid \ {"charge"}
    BY <1>2 DEF Arrive, Goto, Typed, Held, Alone, Unpaid
  <2> QED BY <1>1, <2>1, QuietStep
<1>3. CASE Reject(r)
  <2>1. Alone(r) /\ pc'[r] \notin Unbooked
    BY <1>3 DEF Reject, Goto, Typed, Held, Alone, Unpaid, Unbooked
  <2> QED BY <1>1, <2>1, QuietStep
<1>4. CASE Stop(r)
  <2>1. Alone(r) /\ pc'[r] \notin Unbooked
    BY <1>4, ReturnAlone DEF Stop, Typed, Unpaid, Unbooked
  <2> QED BY <1>1, <2>1, QuietStep
<1> QED BY <1>1, <1>2, <1>3, <1>4

LEMMA EnvironmentPaid ==
  ASSUME AllPaid, Environment \/ UNCHANGED vars
  PROVE  AllPaid' /\ UNCHANGED <<charges, records>>
BY DEF Environment, EvictInfo, EvictSum, NextDay, vars, locals, stores, caches,
       AllPaid, RequestPaid, Bill

LEMMA StepRefines ==
  ASSUME Typed, AllPaid, [Next]_vars
  PROVE  AllPaid' /\ [Ledger!Next]_(Ledger!vars)
<1>1. UNCHANGED <<charges, records>> => UNCHANGED Ledger!vars
  BY DEF Ledger!vars, Booked
<1>2. CASE Environment \/ UNCHANGED vars
  BY <1>1, <1>2, EnvironmentPaid
<1>3. ASSUME NEW r \in Reqs, Step(r)
      PROVE  AllPaid' /\ [Ledger!Next]_(Ledger!vars)
  <2>1. CASE ReadStep(r)
    BY <1>1, <2>1, ReadPaid
  <2>2. CASE MatchStep(r)
    BY <1>1, <2>2, MatchQuiet, DrawPaid, StampPaid, ChargePays, InsertBooks DEF MatchStep
  <2>3. CASE ~ReadStep(r) /\ ~MatchStep(r)
    BY <1>1, <1>3, <2>3, OthersPaid DEF Step
  <2> QED BY <2>1, <2>2, <2>3
<1> QED BY <1>2, <1>3 DEF Next

LEMMA PaidKept == Spec => []AllPaid
<1>1. Init => AllPaid
  BY InitPaid
<1>2. Typed /\ AllPaid /\ [Next]_vars => AllPaid'
  BY StepRefines
<1> QED BY <1>1, <1>2, TypedInv, PTL DEF Spec

(* The handlers implement the ledger: whatever interleaves and whatever     *)
(* fails, each record is a payment booked once, and a user has one record   *)
(* per activity and day.                                                    *)
THEOREM LedgerRefined == Spec => RefinesLedger
<1>1. Init => AllPaid /\ Ledger!Init
  BY InitPaid DEF Init, Ledger!Init, Booked
<1>2. Typed /\ AllPaid /\ [Next]_vars => AllPaid' /\ [Ledger!Next]_(Ledger!vars)
  BY StepRefines
<1> QED BY <1>1, <1>2, TypedInv, PTL DEF Spec, RefinesLedger, Ledger!Spec

-----------------------------------------------------------------------------
(* The numbers of matches. TimesWithinCharges is not inductive: who adds a  *)
(* match to the hash has to have a charge that nobody has counted yet. The  *)
(* invariant bounds the numbers by the charges of the requests that are     *)
(* past their update of the hash.                                           *)

Owing == {"stamp", "insert", "readDup", "updateInfo"}
Spent(k) == {c \in ChargesOf(k) : pc[c.id] \notin Owing}

HasCharge(r) ==
  \E c \in charges : c.id = r /\ c.user = req[r].user /\ c.act = req[r].act

TimesInv ==
  /\ \A k \in Key : /\ cache[k].times <= Cardinality(Spent(k))
                    /\ status[k].times <= Cardinality(Spent(k))
  /\ \A r \in Reqs : /\ totals[r].times # 0 => totals[r].times <= Cardinality(Spent(KeyOf(r)))
                     /\ pc[r] \in Owing => HasCharge(r)
                     /\ pc[r] = "idle" => totals[r] = NullTotals

(* What a step of a request writes of the totals, and where.                *)
LEMMA TotalsSteps ==
  ASSUME Typed, NEW r \in Reqs, Step(r)
  PROVE  /\ \A x \in Reqs \ {r} : /\ pc'[x] = pc[x] /\ req'[x] = req[x]
                                  /\ totals'[x] = totals[x] /\ rec'[x] = rec[x]
         /\ req'[r] = req[r] \/ (pc[r] = "idle" /\ totals'[r] = totals[r])
         /\ \A k \in Key : \/ cache'[k] = cache[k]
                           \/ k = KeyOf(r) /\ (FillInfo(r) \/ UpdateInfo(r))
         /\ \A k \in Key : \/ status'[k] = status[k]
                           \/ k = KeyOf(r) /\ WriteStatus(r)
         /\ totals'[r] \in {totals[r], NullTotals} \/ ReadStatus(r) \/ UpdateInfo(r)
         /\ pc'[r] # "idle"
         /\ Charge(r) \/ UNCHANGED charges
         /\ InsertRecord(r) \/ UNCHANGED records
<1> Held /\ cache \in [Key -> Hash] /\ status \in [Key -> Status]
  BY DEF Typed, CacheTypes, StoreTypes
<1> USE DEF stores, caches
<1> DEFINE Others == \A x \in Reqs \ {r} : /\ pc'[x] = pc[x] /\ req'[x] = req[x]
                                           /\ totals'[x] = totals[x] /\ rec'[x] = rec[x]
           Own == /\ req'[r] = req[r] /\ pc'[r] # "idle"
                  /\ totals'[r] \in {totals[r], NullTotals}
<1>1. ASSUME NEW how \in Ends, NEW answer, Return(r, how, answer) PROVE Others /\ Own
  BY <1>1 DEF Return, Held, Ends
<1>2. ASSUME NEW l, l # "idle", Goto(r, l), UNCHANGED <<req, totals>>,
             \A x \in Reqs \ {r} : rec'[x] = rec[x]
      PROVE  Others /\ Own
  BY <1>2 DEF Goto, Held
<1>3. ASSUME NEW info, InfoIs(r, info) PROVE Others /\ Own
  BY <1>1, <1>3 DEF InfoIs, Goto, Held, Ends
<1>4. ASSUME NEW s, SumIs(r, s) PROVE Others /\ Own
  BY <1>1, <1>4 DEF SumIs, Goto, Held, Ends
<1>6. CASE ReadStep(r)
  <2>1. UNCHANGED <<status, charges, records>>
    BY <1>6 DEF ReadStep, ReadInfoHit, ReadInfoMiss, ReadInfoError, ReadRecord, ReadStatus,
       FillInfo, SkipFillInfo, ReadSumHit, ReadSumMiss, ReadSumError, RecoverSum, FillSum,
       SkipFillSum
  <2>2. \A k \in Key : cache'[k] = cache[k] \/ (k = KeyOf(r) /\ FillInfo(r))
    <3>1. UNCHANGED cache \/ FillInfo(r)
      BY <1>6 DEF ReadStep, ReadInfoHit, ReadInfoMiss, ReadInfoError, ReadRecord, ReadStatus,
         SkipFillInfo, ReadSumHit, ReadSumMiss, ReadSumError, RecoverSum, FillSum, SkipFillSum
    <3> QED BY <3>1 DEF FillInfo
  <2>3. CASE ReadInfoHit(r) \/ ReadInfoError(r) \/ FillInfo(r) \/ SkipFillInfo(r)
    <3>1. Others /\ Own
      BY <1>3, <2>3 DEF ReadInfoHit, ReadInfoError, FillInfo, SkipFillInfo
    <3> QED BY <2>1, <2>2, <3>1
  <2>4. CASE ReadSumHit(r) \/ ReadSumError(r) \/ FillSum(r) \/ SkipFillSum(r)
    <3>1. Others /\ Own
      BY <1>4, <2>4 DEF ReadSumHit, ReadSumError, FillSum, SkipFillSum
    <3> QED BY <2>1, <2>2, <3>1
  <2>5. CASE ReadInfoMiss(r) \/ ReadRecord(r) \/ ReadSumMiss(r) \/ RecoverSum(r)
    <3>1. Others /\ Own
      BY <1>2, <2>5 DEF ReadInfoMiss, ReadRecord, ReadSumMiss, RecoverSum, Held
    <3> QED BY <2>1, <2>2, <3>1
  <2>6. CASE ReadStatus(r)
    <3>1. Others /\ req'[r] = req[r] /\ pc'[r] # "idle"
      BY <2>6 DEF ReadStatus, Goto, Held
    <3> QED BY <2>1, <2>2, <2>6, <3>1
  <2> QED BY <1>6, <2>3, <2>4, <2>5, <2>6 DEF ReadStep
<1>7. CASE MatchStep(r)
  <2>1. /\ Charge(r) \/ UNCHANGED charges
        /\ InsertRecord(r) \/ UNCHANGED records
    BY <1>7 DEF MatchStep, AlreadyMatched, GenerateMatchFund, Charge, Stamp, InsertRecord,
       InsertDuplicate, AdoptRecord, UpdateInfo, UpdateSum, WriteStatus, WriteRank, SkipRank
  <2>2. \A k \in Key : cache'[k] = cache[k] \/ (k = KeyOf(r) /\ UpdateInfo(r))
    <3>1. UNCHANGED cache \/ UpdateInfo(r)
      BY <1>7 DEF MatchStep, AlreadyMatched, GenerateMatchFund, Charge, Stamp, InsertRecord,
         InsertDuplicate, AdoptRecord, UpdateSum, WriteStatus, WriteRank, SkipRank
    <3> QED BY <3>1 DEF UpdateInfo
  <2>3. \A k \in Key : status'[k] = status[k] \/ (k = KeyOf(r) /\ WriteStatus(r))
    <3>1. UNCHANGED status \/ WriteStatus(r)
      BY <1>7 DEF MatchStep, AlreadyMatched, GenerateMatchFund, Charge, Stamp, InsertRecord,
         InsertDuplicate, AdoptRecord, UpdateInfo, UpdateSum, WriteRank, SkipRank
    <3> QED BY <3>1 DEF WriteStatus
  <2>4. UpdateInfo(r) => Others /\ req'[r] = req[r] /\ pc'[r] # "idle"
    BY DEF UpdateInfo, Goto, Held
  <2>5. ~ UpdateInfo(r) => Others /\ Own
    <3>1. AlreadyMatched(r) \/ WriteRank(r) \/ SkipRank(r) => Others /\ Own
      BY <1>1 DEF AlreadyMatched, WriteRank, SkipRank, Succeed, Ends
    <3>2. ASSUME \/ Charge(r) \/ Stamp(r) \/ InsertRecord(r) \/ InsertDuplicate(r)
                 \/ AdoptRecord(r) \/ UpdateSum(r)
                 \/ \E fund \in Funds : GenerateMatchFund(r, fund)
          PROVE  Others /\ Own
      BY <1>2, <3>2 DEF Charge, Stamp, InsertRecord, InsertDuplicate, AdoptRecord, UpdateSum,
         GenerateMatchFund, Held
    <3>3. WriteStatus(r) => Others /\ Own
      BY <1>1, <1>2 DEF WriteStatus, Succeed, Ends
    <3> QED BY <1>7, <3>1, <3>2, <3>3 DEF MatchStep
  <2>6. /\ Others /\ req'[r] = req[r] /\ pc'[r] # "idle"
        /\ totals'[r] \in {totals[r], NullTotals} \/ UpdateInfo(r)
    BY <2>4, <2>5
  <2> HIDE DEF Others, Own
  <2> QED BY <2>1, <2>2, <2>3, <2>6 DEF Others
<1>8. CASE Reject(r) \/ Stop(r)
  <2>1. UNCHANGED <<cache, status, charges, records>>
    BY <1>8 DEF Reject, Stop
  <2>2. Others /\ Own
    BY <1>1, <1>2, <1>8 DEF Reject, Stop, Ends
  <2> QED BY <2>1, <2>2
<1>9. ASSUME NEW q \in Request, Arrive(r, q)
      PROVE  /\ UNCHANGED <<cache, status, charges, records, totals>> /\ Others
             /\ pc[r] = "idle" /\ pc'[r] # "idle"
  BY <1>9 DEF Arrive, Goto, Held
<1> QED BY <1>6, <1>7, <1>8, <1>9 DEF Step

(* Only a charge makes a request owe a match.                               *)
LEMMA OwingSteps ==
  ASSUME Typed, NEW r \in Reqs, Step(r)
  PROVE  pc'[r] \in Owing => pc[r] \in Owing \/ Charge(r)
<1>1. Held
  BY DEF Typed
<1>2. ReadStep(r) \/ Reject(r) \/ Stop(r) \/ (\E q \in Request : Arrive(r, q)) => pc'[r] \notin Owing
  <2>1. \A info : InfoIs(r, info) => pc'[r] \notin Owing
    BY <1>1 DEF InfoIs, Return, Goto, Held, Owing
  <2>2. \A s : SumIs(r, s) => pc'[r] \notin Owing
    BY <1>1 DEF SumIs, Return, Goto, Held, Owing
  <2>3. ReadStep(r) => pc'[r] \notin Owing
    BY <1>1, <2>1, <2>2 DEF ReadStep, ReadInfoHit, ReadInfoMiss, ReadInfoError, ReadRecord,
       ReadStatus, FillInfo, SkipFillInfo, ReadSumHit, ReadSumMiss, ReadSumError, RecoverSum,
       FillSum, SkipFillSum, Goto, Held, Owing
  <2> QED BY <1>1, <2>3 DEF Reject, Stop, Arrive, Return, Goto, Held, Owing
<1>3. MatchStep(r) => pc'[r] \notin Owing \/ pc[r] \in Owing \/ Charge(r)
  BY <1>1 DEF MatchStep, AlreadyMatched, GenerateMatchFund, Stamp, InsertRecord,
     InsertDuplicate, AdoptRecord, UpdateInfo, UpdateSum, WriteStatus, WriteRank, SkipRank,
     Succeed, Return, Goto, Held, Owing
<1> QED BY <1>2, <1>3 DEF Step

(* What has been counted once stays so, and the step that counts a match    *)
(* has a charge of its own.                                                 *)
LEMMA SpentStays ==
  ASSUME Typed, AllPaid, NEW r \in Reqs, Step(r), NEW k
  PROVE  Spent(k) \subseteq Spent(k)'
<1> SUFFICES ASSUME NEW c \in Spent(k) PROVE c \in Spent(k)'
  OBVIOUS
<1>1. c \in charges /\ c \in charges' /\ c \in ChargesOf(k)' /\ c.id \in Reqs /\ pc[c.id] \notin Owing
  BY TotalsSteps DEF Spent, ChargesOf, Charge, Typed, StoreTypes, Charged
<1>2. pc'[c.id] \notin Owing
  <2>1. CASE c.id # r
    BY <1>1, <2>1, TotalsSteps
  <2>2. CASE c.id = r
    <3>1. pc[r] \notin Unpaid
      BY <1>1, <2>2 DEF AllPaid, RequestPaid
    <3>2. pc'[r] \in Owing => pc[r] \in Owing \/ Charge(r)
      BY OwingSteps
    <3>3. Charge(r) => pc[r] \in Unpaid
      BY DEF Charge, Unpaid
    <3> QED BY <1>1, <2>2, <3>1, <3>2, <3>3
  <2> QED BY <2>1, <2>2
<1> QED BY <1>1, <1>2 DEF Spent

LEMMA SpentIsFinite ==
  ASSUME Finite, NEW k
  PROVE  /\ IsFiniteSet(ChargesOf(k)) /\ IsFiniteSet(Spent(k))
         /\ Cardinality(Spent(k)) \in Nat /\ Cardinality(ChargesOf(k)) \in Nat
         /\ Cardinality(Spent(k)) <= Cardinality(ChargesOf(k))
<1>1. IsFiniteSet(ChargesOf(k))
  BY FS_Subset DEF Finite, ChargesOf
<1>2. Spent(k) \in SUBSET ChargesOf(k)
  BY DEF Spent
<1>3. IsFiniteSet(Spent(k)) /\ Cardinality(Spent(k)) <= Cardinality(ChargesOf(k))
  BY <1>1, <1>2, FS_Subset
<1> QED BY <1>1, <1>3, FS_CardinalityType

LEMMA SpentGrows ==
  ASSUME Typed, Finite, Finite', AllPaid, NEW r \in Reqs, Step(r), NEW k
  PROVE  Cardinality(Spent(k)) <= Cardinality(Spent(k)')
<1>1. Spent(k) \in SUBSET Spent(k)'
  BY SpentStays
<1>2. IsFiniteSet(Spent(k)')
  <2>1. IsFiniteSet(charges') /\ Spent(k)' \subseteq charges'
    BY DEF Finite, Spent, ChargesOf
  <2> QED BY <2>1, FS_Subset
<1> QED BY <1>1, <1>2, FS_Subset

(* The request that adds a match to the hash spends its own charge.         *)
LEMMA UpdateSpends ==
  ASSUME Typed, Finite, Finite', AllPaid, TimesInv, NEW r \in Reqs, UpdateInfo(r)
  PROVE  Cardinality(Spent(KeyOf(r))) + 1 <= Cardinality(Spent(KeyOf(r))')
<1> DEFINE k == KeyOf(r)
           S == Spent(k)
           T == Spent(k)'
<1>1. pc[r] = "updateInfo" /\ pc'[r] = "updateSum" /\ UNCHANGED <<charges, req>>
  BY DEF UpdateInfo, Goto, Typed, Held, stores
<1>2. KeyOf(r)' = k
  BY <1>1 DEF KeyOf
<1>3. PICK c \in charges : c.id = r /\ c.user = req[r].user /\ c.act = req[r].act
  BY <1>1 DEF TimesInv, HasCharge, Owing
<1>4. c \notin S /\ c \in T
  BY <1>1, <1>2, <1>3 DEF Spent, ChargesOf, KeyOf, Owing
<1>5. S \subseteq T
  BY <1>2, SpentStays DEF Step, MatchStep
<1>6. IsFiniteSet(S) /\ IsFiniteSet(T) /\ Cardinality(S) \in Nat
  <2>1. IsFiniteSet(charges') /\ T \subseteq charges'
    BY DEF Finite, Spent, ChargesOf
  <2> QED BY <2>1, SpentIsFinite, FS_Subset
<1> HIDE DEF S, T
<1>7. S \cup {c} \in SUBSET T /\ Cardinality(S \cup {c}) = Cardinality(S) + 1
  BY <1>4, <1>5, <1>6, FS_AddElement
<1>8. Cardinality(S \cup {c}) <= Cardinality(T)
  BY <1>6, <1>7, FS_Subset
<1> QED BY <1>7, <1>8 DEF S, T

LEMMA StepTimes ==
  ASSUME Typed, Typed', Finite, Finite', AllPaid, TimesInv, NEW r \in Reqs, Step(r)
  PROVE  TimesInv'
<1> DEFINE N(k) == Cardinality(Spent(k))
           M(k) == Cardinality(Spent(k)')
<1>0. PICK K : K = [x \in Reqs |-> <<req'[x].user, req'[x].act>>]
  OBVIOUS
<1>1. \A k : N(k) \in Nat /\ M(k) \in Nat /\ N(k) <= M(k)
  <2>1. ASSUME NEW k PROVE M(k) \in Nat
    <3>1. IsFiniteSet(charges') /\ Spent(k)' \subseteq charges'
      BY DEF Finite, Spent, ChargesOf
    <3> QED BY <3>1, FS_Subset, FS_CardinalityType
  <2> QED BY <2>1, SpentIsFinite, SpentGrows
<1>2. UpdateInfo(r) => N(KeyOf(r)) + 1 <= M(KeyOf(r))
  <2> HIDE DEF N, M
  <2>1. ASSUME UpdateInfo(r) PROVE Cardinality(Spent(KeyOf(r))') = M(KeyOf(r))
    <3>1. PICK k : k = KeyOf(r)
      OBVIOUS
    <3>2. Spent(KeyOf(r))' = Spent(k)'
      BY <2>1, <3>1 DEF UpdateInfo, KeyOf, Spent, ChargesOf
    <3> QED BY <3>1, <3>2 DEF M
  <2> QED BY <2>1, UpdateSpends DEF N
<1> HIDE DEF N, M
<1>3. \A k \in Key : cache[k].times \in Nat /\ cache[k].times <= N(k)
                     /\ status[k].times \in Nat /\ status[k].times <= N(k)
  BY DEF TimesInv, N, Typed, CacheTypes, StoreTypes, Hash, Status, Counter
<1>4. \A x \in Reqs : totals[x].times \in Nat /\ (totals[x].times # 0 => totals[x].times <= N(KeyOf(x)))
  BY DEF TimesInv, N, Typed, Held, Totals, Counter
<1>5. pc[r] \in Running => KeyOf(r) \in Key
  BY KeyOfRunning DEF Typed
<1>6. ASSUME NEW k \in Key PROVE cache'[k].times <= M(k)
  <2>1. CASE cache'[k] = cache[k]
    BY <1>1, <1>3, <2>1
  <2>2. CASE k = KeyOf(r) /\ FillInfo(r)
    <3>1. cache'[k].times = totals[r].times
      BY <2>2 DEF FillInfo, Typed, CacheTypes
    <3> QED BY <1>1, <1>4, <2>2, <3>1
  <2>3. CASE k = KeyOf(r) /\ UpdateInfo(r)
    <3>1. cache'[k].times = cache[k].times + 1
      BY <2>3 DEF UpdateInfo, Typed, CacheTypes
    <3> QED BY <1>1, <1>2, <1>3, <2>3, <3>1
  <2> QED BY <2>1, <2>2, <2>3, TotalsSteps
<1>7. ASSUME NEW k \in Key PROVE status'[k].times <= M(k)
  <2>1. CASE status'[k] = status[k]
    BY <1>1, <1>3, <2>1
  <2>2. CASE k = KeyOf(r) /\ WriteStatus(r)
    <3>1. status'[k].times = totals[r].times
      BY <2>2 DEF WriteStatus, Typed, StoreTypes
    <3> QED BY <1>1, <1>4, <2>2, <3>1
  <2> QED BY <2>1, <2>2, TotalsSteps
<1>8. ASSUME NEW x \in Reqs \ {r}
      PROVE  /\ totals'[x].times # 0 => totals'[x].times <= M(K[x])
             /\ pc'[x] \in Owing => HasCharge(x)'
             /\ pc'[x] = "idle" => totals'[x] = NullTotals
  <2>1. pc'[x] = pc[x] /\ req'[x] = req[x] /\ totals'[x] = totals[x]
    BY TotalsSteps
  <2>2. K[x] = KeyOf(x)
    BY <1>0, <2>1 DEF KeyOf
  <2>3. charges \subseteq charges'
    BY TotalsSteps DEF Charge
  <2>4. pc'[x] \in Owing => HasCharge(x)'
    BY <2>1, <2>3 DEF TimesInv, HasCharge
  <2> QED BY <1>1, <1>4, <2>1, <2>2, <2>4 DEF TimesInv
<1>9. totals'[r].times # 0 => totals'[r].times <= M(K[r])
  <2>1. CASE totals'[r] = NullTotals
    BY <2>1 DEF NullTotals
  <2>2. CASE totals'[r] = totals[r] /\ req'[r] = req[r]
    <3>1. K[r] = KeyOf(r)
      BY <1>0, <2>2 DEF KeyOf
    <3> QED BY <1>1, <1>4, <2>2, <3>1
  <2>3. CASE totals'[r] = totals[r] /\ pc[r] = "idle"
    BY <2>3 DEF TimesInv, NullTotals
  <2>4. CASE ReadStatus(r)
    <3>1. totals'[r].times = status[KeyOf(r)].times /\ KeyOf(r) \in Key /\ K[r] = KeyOf(r)
      BY <1>5, <1>0, <2>4 DEF ReadStatus, Typed, Held, Running, KeyOf
    <3> QED BY <1>1, <1>3, <3>1
  <2>5. CASE UpdateInfo(r)
    <3>1. totals'[r].times = cache[KeyOf(r)].times + 1 /\ KeyOf(r) \in Key
          /\ K[r] = KeyOf(r)
      BY <1>5, <1>0, <2>5 DEF UpdateInfo, Typed, Held, Running, KeyOf
    <3> QED BY <1>1, <1>2, <1>3, <2>5, <3>1
  <2> QED BY <2>1, <2>2, <2>3, <2>4, <2>5, TotalsSteps
<1>10. pc'[r] \in Owing => HasCharge(r)'
  <2>1. CASE Charge(r)
    <3> DEFINE c == [id |-> r, user |-> req[r].user, act |-> req[r].act, fund |-> rec[r].fund]
    <3>1. c \in charges' /\ req' = req
      BY <2>1 DEF Charge
    <3>2. c.id = r /\ c.user = req'[r].user /\ c.act = req'[r].act
      BY <3>1
    <3> HIDE DEF c
    <3> QED BY <3>1, <3>2 DEF HasCharge
  <2>2. CASE ~ Charge(r)
    <3>1. pc'[r] \in Owing => pc[r] \in Owing
      BY <2>2, OwingSteps
    <3>2. UNCHANGED charges
      BY <2>2, TotalsSteps
    <3>3. pc[r] \in Owing => req'[r] = req[r]
      BY TotalsSteps DEF Owing
    <3> QED BY <3>1, <3>2, <3>3 DEF TimesInv, HasCharge
  <2> QED BY <2>1, <2>2
<1>11. pc'[r] # "idle"
  BY TotalsSteps
<1>12. \A x \in Reqs : /\ totals'[x].times # 0 => totals'[x].times <= M(K[x])
                       /\ pc'[x] \in Owing => HasCharge(x)'
                       /\ pc'[x] = "idle" => totals'[x] = NullTotals
  BY <1>8, <1>9, <1>10, <1>11
<1>13. \A k : M(k) = Cardinality(Spent(k)')
  BY DEF M
<1> QED
  <2>1. \A x \in Reqs : totals'[x].times # 0 => totals'[x].times <= Cardinality(Spent(KeyOf(x))')
    <3> SUFFICES ASSUME NEW x \in Reqs, totals'[x].times # 0
                 PROVE  totals'[x].times <= Cardinality(Spent(KeyOf(x))')
      OBVIOUS
    <3>1. K[x] = <<req'[x].user, req'[x].act>>
      BY <1>0
    <3>2. Spent(KeyOf(x))' = Spent(K[x])'
      BY <3>1 DEF Spent, ChargesOf, KeyOf
    <3> QED BY <1>12, <1>13, <3>2
  <2> QED BY <1>6, <1>7, <1>12, <1>13, <2>1 DEF TimesInv, Key

LEMMA OthersTimes ==
  ASSUME Typed, TimesInv, Environment \/ UNCHANGED vars, Finite
  PROVE  TimesInv'
<1> USE DEF locals, stores, caches
<1>1. UNCHANGED <<pc, req, totals, charges, status>>
  BY DEF Environment, EvictInfo, EvictSum, NextDay, vars
<1>2. \A k : Spent(k)' = Spent(k)
  BY <1>1 DEF Spent, ChargesOf
<1>3. \A k \in Key : cache'[k] \in {cache[k], EmptyHash}
  BY DEF Environment, EvictInfo, EvictSum, NextDay, vars, Typed, CacheTypes
<1>4. \A k \in Key : cache'[k].times <= Cardinality(Spent(k))
  BY <1>3, SpentIsFinite DEF EmptyHash, TimesInv
<1> QED BY <1>1, <1>2, <1>4 DEF TimesInv, HasCharge, KeyOf, Spent, ChargesOf, Key

LEMMA TimesKept == Spec => []TimesInv
<1>1. Init => TimesInv
  <2> SUFFICES ASSUME Init PROVE TimesInv
    OBVIOUS
  <2>1. \A k : Cardinality(Spent(k)) = 0
    <3>1. \A k : Spent(k) = {}
      BY DEF Init, Spent, ChargesOf
    <3> QED BY <3>1, FS_EmptySet
  <2> QED BY <2>1 DEF Init, TimesInv, EmptyHash, NullStatus, NullTotals, Owing
<1>2. Typed /\ Typed' /\ Finite /\ Finite' /\ AllPaid /\ TimesInv /\ [Next]_vars => TimesInv'
  BY StepTimes, OthersTimes DEF Next
<1> QED BY <1>1, <1>2, PaidKept, TypedInv, FiniteInv, PTL DEF Spec

(* The number of matches shown never exceeds the number of charges of the   *)
(* company, whatever fills, lost hashes and stale totals interleave.        *)
THEOREM TimesAreCharged == Spec => []TimesWithinCharges
<1>1. Typed /\ Finite /\ TimesInv => TimesWithinCharges
  <2> SUFFICES ASSUME Typed, Finite, TimesInv PROVE TimesWithinCharges
    OBVIOUS
  <2>1. \A k \in Key : cache[k].times \in Nat /\ status[k].times \in Nat
    BY DEF Typed, CacheTypes, StoreTypes, Hash, Status, Counter
  <2>2. \A r \in Reqs : totals[r].times \in Nat
    BY DEF Typed, Held, Totals, Counter
  <2> QED BY <2>1, <2>2, SpentIsFinite DEF TimesInv, TimesWithinCharges
<1> QED BY <1>1, TypedInv, FiniteInv, TimesKept, PTL

-----------------------------------------------------------------------------
(* Where a request is says which call it has made last.                     *)
LEMMA CameBy ==
  ASSUME Typed, NEW r \in Reqs, Step(r)
  PROVE  /\ pc'[r] \in {"readInfo", "readRecord"} =>
              (\E q \in Request : Arrive(r, q)) \/ ReadInfoMiss(r)
         /\ pc'[r] = "readStatus" => ReadRecord(r)
         /\ pc'[r] = "fillInfo" => ReadStatus(r)
         /\ pc'[r] = "readSum" =>
              \/ \E q \in Request : q.op = "summary" /\ Arrive(r, q)
              \/ ReadInfoHit(r) \/ ReadInfoError(r) \/ FillInfo(r) \/ SkipFillInfo(r)
         /\ pc'[r] = "recoverSum" => ReadSumMiss(r)
         /\ pc'[r] = "fillSum" => RecoverSum(r)
         /\ pc'[r] = "generate" =>
              ReadSumHit(r) \/ ReadSumError(r) \/ FillSum(r) \/ SkipFillSum(r)
         /\ pc'[r] = "charge" => \E fund \in Funds : GenerateMatchFund(r, fund)
         /\ pc'[r] = "stamp" => Charge(r)
         /\ pc'[r] = "insert" => Stamp(r)
         /\ pc'[r] = "readDup" => InsertDuplicate(r)
         /\ pc'[r] = "updateInfo" => InsertRecord(r) \/ AdoptRecord(r)
         /\ pc'[r] = "updateSum" => UpdateInfo(r)
         /\ pc'[r] = "writeStatus" => UpdateSum(r)
         /\ pc'[r] = "writeRank" => WriteStatus(r)
<1> Held
  BY DEF Typed
<1>1. \A info : InfoIs(r, info) => pc'[r] \in {"readSum", "queried"}
  BY DEF InfoIs, Return, Goto, Held
<1>2. \A s : SumIs(r, s) => pc'[r] \in {"generate", "queried"}
  BY DEF SumIs, Return, Goto, Held
<1>3. \A how, answer : Return(r, how, answer) => pc'[r] = how
  BY DEF Return, Held
<1>4. \A l : Goto(r, l) => pc'[r] = l
  BY DEF Goto, Held
<1>5. ReadInfoHit(r) \/ ReadInfoError(r) \/ FillInfo(r) \/ SkipFillInfo(r)
      => pc'[r] \in {"readSum", "queried"}
  BY <1>1 DEF ReadInfoHit, ReadInfoError, FillInfo, SkipFillInfo
<1>6. ReadSumHit(r) \/ ReadSumError(r) \/ FillSum(r) \/ SkipFillSum(r)
      => pc'[r] \in {"generate", "queried"}
  BY <1>2 DEF ReadSumHit, ReadSumError, FillSum, SkipFillSum
<1>7. /\ ReadInfoMiss(r) => pc'[r] = "readRecord"
      /\ ReadRecord(r) => pc'[r] = "readStatus"
      /\ ReadStatus(r) => pc'[r] = "fillInfo"
      /\ ReadSumMiss(r) => pc'[r] = "recoverSum"
      /\ RecoverSum(r) => pc'[r] = "fillSum"
  BY <1>4 DEF ReadInfoMiss, ReadRecord, ReadStatus, ReadSumMiss, RecoverSum
<1>8. /\ AlreadyMatched(r) => pc'[r] \in {"stopped", "already"}
      /\ (\E fund \in Funds : GenerateMatchFund(r, fund)) => pc'[r] = "charge"
      /\ Charge(r) => pc'[r] = "stamp"
      /\ Stamp(r) => pc'[r] = "insert"
      /\ InsertRecord(r) \/ AdoptRecord(r) => pc'[r] = "updateInfo"
      /\ InsertDuplicate(r) => pc'[r] = "readDup"
  BY <1>3, <1>4 DEF AlreadyMatched, GenerateMatchFund, Charge, Stamp, InsertRecord,
     InsertDuplicate, AdoptRecord
<1>9. /\ UpdateInfo(r) => pc'[r] = "updateSum"
      /\ UpdateSum(r) => pc'[r] = "writeStatus"
      /\ WriteStatus(r) => pc'[r] \in {"writeRank", "succeeded"}
      /\ WriteRank(r) \/ SkipRank(r) => pc'[r] = "succeeded"
  BY <1>3, <1>4 DEF UpdateInfo, UpdateSum, WriteStatus, WriteRank, SkipRank, Succeed
<1>10. /\ Reject(r) => pc'[r] = "rejected"
       /\ Stop(r) => pc'[r] = "stopped"
       /\ \A q \in Request : Arrive(r, q) =>
            pc'[r] = IF q.op = "summary" THEN "readSum" ELSE "readInfo"
  BY <1>3, <1>4 DEF Reject, Stop, Arrive
<1>11. CASE ReadStep(r)
  BY <1>5, <1>6, <1>7, <1>11 DEF ReadStep
<1>12. CASE MatchStep(r)
  BY <1>8, <1>9, <1>12 DEF MatchStep
<1>13. CASE Reject(r) \/ Stop(r)
  BY <1>10, <1>13
<1>14. ASSUME NEW q \in Request, Arrive(r, q)
       PROVE  \/ pc'[r] = "readInfo"
              \/ pc'[r] = "readSum" /\ q.op = "summary"
  BY <1>10, <1>14
<1>15. CASE \E q \in Request : Arrive(r, q)
  BY <1>14, <1>15
<1> QED BY <1>11, <1>12, <1>13, <1>15 DEF Step

(* The clock stands still while a request takes a step.                     *)
LEMMA SameDay ==
  ASSUME NEW r \in Reqs, Step(r) PROVE today' = today
BY DEF Step, Arrive, Reject, ReadStep, ReadInfoHit, ReadInfoMiss, ReadInfoError, ReadRecord,
       ReadStatus, FillInfo, SkipFillInfo, ReadSumHit, ReadSumMiss, ReadSumError, RecoverSum,
       FillSum, SkipFillSum, MatchStep, AlreadyMatched, GenerateMatchFund, Charge, Stamp,
       InsertRecord, InsertDuplicate, AdoptRecord, UpdateInfo, UpdateSum, WriteStatus, WriteRank,
       SkipRank, Stop

(* Rows of the table: their identity, their day, and the unique key.        *)
RowInv ==
  /\ \A e \in records : /\ e.date \in 1 .. today
                        /\ pc[e.id] # "idle" /\ req[e.id].user = e.user /\ req[e.id].act = e.act
  /\ \A e, f \in records : \/ e.user = f.user /\ e.act = f.act /\ e.date = f.date
                           \/ e.id = f.id
                           => e = f
  /\ \A r \in Reqs : pc[r] = "insert" => rec[r].date \in 1 .. today

LEMMA StepRows ==
  ASSUME Typed, AllPaid, RowInv, NEW r \in Reqs, Step(r)
  PROVE  RowInv'
<1> Held /\ today \in 1 .. MaxDay /\ records \subseteq Record
  BY DEF Typed, StoreTypes
<1>1. today' = today
  BY SameDay
<1>2. ASSUME NEW x \in Reqs, pc[x] # "idle" PROVE pc'[x] # "idle" /\ req'[x] = req[x]
  BY <1>2, TotalsSteps
<1>3. ASSUME NEW e \in records
      PROVE  /\ e.date \in 1 .. today
             /\ pc'[e.id] # "idle" /\ req'[e.id].user = e.user /\ req'[e.id].act = e.act
  BY <1>2 DEF RowInv, Record
<1>4. ASSUME NEW x \in Reqs, pc'[x] = "insert" PROVE rec'[x].date \in 1 .. today
  <2>1. CASE x # r
    BY <1>4, <2>1, TotalsSteps DEF RowInv
  <2>2. CASE x = r
    <3>1. Stamp(r)
      BY <1>4, <2>2, CameBy
    <3> QED BY <2>2, <3>1 DEF Stamp, Held
  <2> QED BY <2>1, <2>2
<1>5. CASE UNCHANGED records
  BY <1>1, <1>3, <1>4, <1>5 DEF RowInv
<1>6. CASE InsertRecord(r)
  <2> DEFINE n == [id |-> r, user |-> req[r].user, act |-> req[r].act, date |-> rec[r].date,
                   fund |-> rec[r].fund, combo |-> rec[r].combo + 1]
  <2>1. /\ records' = records \cup {n} /\ pc[r] = "insert" /\ ~ HasRecord(KeyOf(r), rec[r].date)
        /\ UNCHANGED req
    BY <1>6 DEF InsertRecord
  <2>2. /\ n.date \in 1 .. today /\ pc'[r] # "idle" /\ req'[r].user = n.user /\ req'[r].act = n.act
        /\ n.id = r
    BY <1>2, <2>1 DEF RowInv
  <2>3. \A f \in records : ~ (f.user = n.user /\ f.act = n.act /\ f.date = n.date)
    BY <2>1 DEF HasRecord, RecordsOf, KeyOf
  <2>4. \A f \in records : f.id # n.id
    BY <2>1, <2>2 DEF AllPaid, RequestPaid, Unbooked
  <2> HIDE DEF n
  <2>5. \A e \in records' : e \in records \/ e = n
    BY <2>1
  <2>6. \A e \in records' : /\ e.date \in 1 .. today'
                            /\ pc'[e.id] # "idle" /\ req'[e.id].user = e.user
                            /\ req'[e.id].act = e.act
    BY <1>1, <1>3, <2>2, <2>5
  <2>7. \A e, f \in records' :
          (e.user = f.user /\ e.act = f.act /\ e.date = f.date) \/ e.id = f.id => e = f
    BY <2>3, <2>4, <2>5 DEF RowInv
  <2> QED BY <1>1, <1>4, <2>6, <2>7 DEF RowInv
<1> QED BY <1>5, <1>6, TotalsSteps

LEMMA RowsKept == Spec => []RowInv
<1>1. Init => RowInv
  BY DEF Init, RowInv
<1>2. Typed /\ AllPaid /\ RowInv /\ [Next]_vars => RowInv'
  <2> SUFFICES ASSUME Typed, AllPaid, RowInv, [Next]_vars PROVE RowInv'
    OBVIOUS
  <2>1. CASE Environment \/ UNCHANGED vars
    <3>1. today' \in {today, today + 1} /\ UNCHANGED <<pc, req, rec, records>>
      BY <2>1 DEF Environment, EvictInfo, EvictSum, NextDay, vars, locals, stores
    <3>2. today \in Nat /\ \A d \in 1 .. today : d \in 1 .. today'
      BY <3>1 DEF Typed
    <3> QED BY <3>1, <3>2 DEF RowInv
  <2> QED BY <2>1, StepRows DEF Next
<1> QED BY <1>1, <1>2, TypedInv, PaidKept, PTL DEF Spec

-----------------------------------------------------------------------------
(* As long as no two requests of a user have overlapped, at most one of     *)
(* them is running, and what it has read of its key stays true.             *)
Solo(u) == "overlap" \notin faults[u]

OneBusy == \A u \in Users : Solo(u) => \A r, x \in Busy(u) : r = x

LEMMA FaultsGrow ==
  ASSUME Typed, [Next]_vars
  PROVE  \A u \in Users : faults[u] \subseteq faults'[u]
<1> Held /\ faults \in [Users -> SUBSET Disturbance]
  BY DEF Typed
<1> USE DEF locals, stores, caches
<1>1. ASSUME NEW u, NEW d, Disturbed(u, d)
      PROVE  \A v \in Users : faults[v] \subseteq faults'[v]
  BY <1>1 DEF Disturbed
<1>2. ASSUME NEW r \in Reqs, Step(r)
      PROVE  UNCHANGED faults \/ \E u, d : Disturbed(u, d)
  BY <1>2 DEF Step, Arrive, Reject, ReadStep, ReadInfoHit, ReadInfoMiss, ReadInfoError, ReadRecord,
     ReadStatus, FillInfo, SkipFillInfo, ReadSumHit, ReadSumMiss, ReadSumError, RecoverSum,
     FillSum, SkipFillSum, MatchStep, AlreadyMatched, GenerateMatchFund, Charge, Stamp,
     InsertRecord, InsertDuplicate, AdoptRecord, UpdateInfo, UpdateSum, WriteStatus, WriteRank,
     SkipRank, Stop
<1>3. CASE Environment
  <2>1. ASSUME NextDay PROVE \A v \in Users : faults[v] \subseteq faults'[v]
    BY <2>1 DEF NextDay
  <2>2. ASSUME ~ NextDay PROVE UNCHANGED faults \/ \E u, d : Disturbed(u, d)
    BY <1>3, <2>2 DEF Environment, EvictInfo, EvictSum, DisturbedIfBusy
  <2> QED BY <1>1, <2>1, <2>2
<1> QED BY <1>1, <1>2, <1>3 DEF Next, vars

(* A request that arrives while another one runs marks its user.            *)
LEMMA ArriveMarks ==
  ASSUME Typed, NEW r \in Reqs, NEW q \in Request, Arrive(r, q), Solo(q.user)'
  PROVE  Busy(q.user) = {} /\ pc[r] = "idle" /\ req'[r] = q /\ q.user \in Users
<1>1. q.user \in Users
  BY DEF Request
<1>2. ASSUME Busy(q.user) # {} PROVE FALSE
  BY <1>1, <1>2 DEF Arrive, Disturbed, Solo, Typed
<1> QED BY <1>1, <1>2 DEF Arrive, Typed, Held

(* While request r of a user whose requests have not overlapped takes a     *)
(* step, no other request of the user is running.                           *)
LEMMA StepAlone ==
  ASSUME Typed, OneBusy, NEW r \in Reqs, Step(r), NEW x \in Reqs \ {r},
         pc'[x] \in Running, Solo(req[x].user)', req'[x] \in Request
  PROVE  /\ pc[x] \in Running /\ req'[x] = req[x] /\ Solo(req[x].user)
         /\ pc'[r] \in Running => req'[r].user # req[x].user
         /\ pc[r] \in Running => req[r].user # req[x].user
<1> DEFINE u == req[x].user
<1>1. pc'[x] = pc[x] /\ req'[x] = req[x]
  BY TotalsSteps
<1>2. u \in Users /\ Solo(u)
  <2>1. u \in Users
    BY <1>1 DEF Request
  <2>2. Next
    BY DEF Next
  <2> QED BY <1>1, <2>1, <2>2, FaultsGrow DEF Solo
<1>3. x \in Busy(u)
  BY <1>1 DEF Busy
<1>4. pc[r] \in Running => req[r].user # u
  BY <1>2, <1>3 DEF OneBusy, Busy
<1>5. pc'[r] \in Running => req'[r].user # u
  <2>1. CASE pc[r] \in Running
    <3>1. req'[r] = req[r]
      BY <2>1, TotalsSteps DEF Running
    <3> QED BY <1>4, <2>1, <3>1
  <2>2. CASE pc[r] \notin Running
    <3>1. ASSUME pc'[r] \in Running PROVE \E q \in Request : Arrive(r, q)
      <4>1. ReadInfoMiss(r) => pc[r] \in Running
        BY DEF ReadInfoMiss, Running
      <4>2. Reject(r) => pc'[r] \notin Running
        BY DEF Reject, Goto, Typed, Held, Running
      <4>3. ReadStep(r) \/ MatchStep(r) \/ Stop(r) => pc[r] \in Running
        BY DEF ReadStep, ReadInfoHit, ReadInfoMiss, ReadInfoError, ReadRecord, ReadStatus,
           FillInfo, SkipFillInfo, ReadSumHit, ReadSumMiss, ReadSumError, RecoverSum, FillSum,
           SkipFillSum, MatchStep, AlreadyMatched, GenerateMatchFund, Charge, Stamp, InsertRecord,
           InsertDuplicate, AdoptRecord, UpdateInfo, UpdateSum, WriteStatus, WriteRank, SkipRank,
           Stop, Running
      <4> QED BY <2>2, <3>1, <4>2, <4>3 DEF Step
    <3>2. ASSUME NEW q \in Request, Arrive(r, q), q.user = u PROVE FALSE
      BY <1>1, <1>2, <1>3, <3>2, ArriveMarks
    <3>3. ASSUME NEW q \in Request, Arrive(r, q) PROVE req'[r] = q
      BY <3>3 DEF Arrive, Typed, Held
    <3> QED BY <3>1, <3>2, <3>3
  <2> QED BY <2>1, <2>2
<1> QED BY <1>1, <1>2, <1>3, <1>4, <1>5 DEF Busy

LEMMA OneBusyKept == Spec => []OneBusy
<1>1. Init => OneBusy
  BY DEF Init, OneBusy, Busy, Running
<1>2. Typed /\ Typed' /\ OneBusy /\ [Next]_vars => OneBusy'
  <2> SUFFICES ASSUME Typed, Typed', OneBusy, [Next]_vars,
                      NEW u \in Users, Solo(u)', NEW x \in Busy(u)', NEW y \in Busy(u)', x # y
               PROVE  FALSE
    BY DEF OneBusy
  <2>1. /\ x \in Reqs /\ y \in Reqs /\ pc'[x] \in Running /\ pc'[y] \in Running
        /\ req'[x].user = u /\ req'[y].user = u /\ req'[x] \in Request /\ req'[y] \in Request
    BY DEF Busy, Typed, Held
  <2>2. CASE Environment \/ UNCHANGED vars
    <3>1. UNCHANGED <<pc, req>>
      BY <2>2 DEF Environment, EvictInfo, EvictSum, NextDay, vars, locals
    <3>2. Solo(u)
      BY <2>2, FaultsGrow DEF Solo
    <3> QED BY <2>1, <3>1, <3>2 DEF OneBusy, Busy
  <2>3. ASSUME NEW r \in Reqs, Step(r) PROVE FALSE
    <3>1. ASSUME NEW z \in Reqs, NEW w \in Reqs, z # r, z # w, pc'[z] \in Running, req'[z].user = u,
                 req'[z] \in Request, pc'[w] \in Running, req'[w].user = u, req'[w] \in Request
          PROVE  FALSE
      <4>1. /\ pc[z] \in Running /\ req[z].user = u /\ Solo(u)
            /\ pc'[r] \in Running => req'[r].user # u
        BY <2>3, <3>1, StepAlone DEF Solo
      <4>2. w # r
        BY <3>1, <4>1
      <4>3. pc[w] \in Running /\ req[w].user = u
        BY <2>3, <3>1, <4>2, StepAlone DEF Solo
      <4> QED BY <3>1, <4>1, <4>3 DEF OneBusy, Busy
    <3> QED BY <2>1, <3>1
  <2> QED BY <2>2, <2>3 DEF Next
<1> QED BY <1>1, <1>2, TypedInv, PTL DEF Spec

-----------------------------------------------------------------------------
(* Totals that count no more than a set of records.                         *)
Within(t, S) == t.times <= Cardinality(S) /\ t.funds <= FundsOf(S)

LEMMA RecordSetNat ==
  ASSUME NEW S, IsFiniteSet(S), S \subseteq Record
  PROVE  Cardinality(S) \in Nat /\ FundsOf(S) \in Nat
BY FS_CardinalityType, FundsOfIsNat DEF Record

LEMMA WithinNull ==
  ASSUME NEW S, IsFiniteSet(S), S \subseteq Record, NEW t, t.times = 0, t.funds = 0
  PROVE  Within(t, S)
BY RecordSetNat DEF Within

(* One record more makes room for one more match of its fund.               *)
LEMMA WithinAdd ==
  ASSUME NEW S, IsFiniteSet(S), NEW e \in Record, e \notin S, S \subseteq Record, NEW t,
         t.times \in Nat, t.funds \in Nat, Within(t, S)
  PROVE  /\ Cardinality(S \cup {e}) = Cardinality(S) + 1
         /\ FundsOf(S \cup {e}) = FundsOf(S) + e.fund
         /\ Within(t, S \cup {e})
         /\ \A s : s.times = t.times + 1 /\ s.funds = t.funds + e.fund => Within(s, S \cup {e})
<1>1. Cardinality(S) \in Nat /\ FundsOf(S) \in Nat /\ e.fund \in Nat
  BY RecordSetNat DEF Record
<1>2. Cardinality(S \cup {e}) = Cardinality(S) + 1
  BY FS_AddElement
<1>3. FundsOf(S \cup {e}) = FundsOf(S) + e.fund
  BY FundsOfAdd DEF Record
<1> QED BY <1>1, <1>2, <1>3 DEF Within

LEMMA RecordsOfFinite ==
  ASSUME Typed, Finite, NEW k
  PROVE  IsFiniteSet(RecordsOf(k)) /\ RecordsOf(k) \subseteq Record
BY FS_Subset DEF Typed, Finite, StoreTypes, RecordsOf

(* What a step of request r leaves alone.                                   *)
LEMMA StepElsewhere ==
  ASSUME Typed, NEW r \in Reqs, Step(r), NEW k \in Key, ~ (pc[r] \in Running /\ k = KeyOf(r))
  PROVE  RecordsOf(k)' = RecordsOf(k) /\ cache'[k] = cache[k] /\ status'[k] = status[k]
<1>1. FillInfo(r) \/ UpdateInfo(r) \/ WriteStatus(r) \/ InsertRecord(r) => pc[r] \in Running
  BY DEF FillInfo, UpdateInfo, WriteStatus, InsertRecord, Running
<1>2. cache'[k] = cache[k] /\ status'[k] = status[k]
  BY <1>1, TotalsSteps
<1>3. CASE InsertRecord(r)
  <2> DEFINE n == [id |-> r, user |-> req[r].user, act |-> req[r].act, date |-> rec[r].date,
                   fund |-> rec[r].fund, combo |-> rec[r].combo + 1]
  <2>1. k # <<n.user, n.act>> /\ records' = records \cup {n}
    BY <1>1, <1>3 DEF InsertRecord, KeyOf
  <2>2. n.user # k[1] \/ n.act # k[2]
    BY <2>1 DEF Key
  <2> HIDE DEF n
  <2> QED BY <1>2, <2>1, <2>2 DEF RecordsOf
<1> QED BY <1>2, <1>3, TotalsSteps DEF RecordsOf

(* A step begins a request or goes on with one.                             *)
LEMMA StepFrom ==
  ASSUME NEW r \in Reqs, Step(r)
  PROVE  \/ pc[r] \in Running
         \/ pc[r] = "idle" /\ (Reject(r) \/ \E q \in Request : Arrive(r, q))
BY DEF Step, Arrive, Reject, ReadStep, ReadInfoHit, ReadInfoMiss, ReadInfoError, ReadRecord,
       ReadStatus, FillInfo, SkipFillInfo, ReadSumHit, ReadSumMiss, ReadSumError, RecoverSum,
       FillSum, SkipFillSum, MatchStep, AlreadyMatched, GenerateMatchFund, Charge, Stamp,
       InsertRecord, InsertDuplicate, AdoptRecord, UpdateInfo, UpdateSum, WriteStatus, WriteRank,
       SkipRank, Stop, Running

(* The records of the key of a request that inserts: the new one is the     *)
(* newest when none is of a later day.                                      *)
Latest(k) == {e \in RecordsOf(k) : \A f \in RecordsOf(k) : f.date <= e.date}

NewRecord(r) ==
  [id |-> r, user |-> req[r].user, act |-> req[r].act, date |-> rec[r].date,
   fund |-> rec[r].fund, combo |-> rec[r].combo + 1]

LEMMA InsertAdds ==
  ASSUME Typed, NEW r \in Reqs, InsertRecord(r), NEW k, k = KeyOf(r)
  PROVE  /\ NewRecord(r) \in Record /\ NewRecord(r) \notin RecordsOf(k)
         /\ RecordsOf(k)' = RecordsOf(k) \cup {NewRecord(r)}
         /\ \A e \in RecordsOf(k) : e.date # rec[r].date
         /\ (\A e \in RecordsOf(k) : e.date <= rec[r].date) => Latest(k)' = {NewRecord(r)}
<1> DEFINE n == NewRecord(r)
<1>1. /\ records' = records \cup {n} /\ \A e \in RecordsOf(k) : e.date # rec[r].date
      /\ pc[r] \in Running
  BY DEF InsertRecord, NewRecord, HasRecord, Running
<1>2. n.user = k[1] /\ n.act = k[2] /\ n.date = rec[r].date
  BY DEF NewRecord, KeyOf
<1>3. n \in Record
  <2>1. req[r].user \in Users /\ req[r].act \in Activities /\ rec[r] \in Match
    BY <1>1, KeyOfRunning DEF Typed, Held
  <2> QED BY <2>1 DEF NewRecord, Record, Match
<1> HIDE DEF n
<1>4. RecordsOf(k)' = RecordsOf(k) \cup {n} /\ n \notin RecordsOf(k)
  BY <1>1, <1>2 DEF RecordsOf
<1>5. ASSUME \A e \in RecordsOf(k) : e.date <= rec[r].date PROVE Latest(k)' = {n}
  <2>1. \A e \in RecordsOf(k) : e.date \in Day /\ e.date < n.date
    <3>1. \A e \in RecordsOf(k) : e.date \in Day
      BY DEF RecordsOf, Typed, StoreTypes, Record
    <3>2. rec[r].date \in Day
      BY DEF Typed, Held, Match
    <3> QED BY <1>1, <1>2, <1>5, <3>1, <3>2 DEF Day
  <2>2. n.date \in Day
    BY <1>3 DEF Record
  <2>3. Latest(k)' = {e \in RecordsOf(k)' : \A f \in RecordsOf(k)' : f.date <= e.date}
    BY DEF Latest
  <2> QED BY <1>4, <2>1, <2>2, <2>3 DEF Day
<1> QED BY <1>1, <1>3, <1>4, <1>5 DEF n

Spare(k, e) == Within(cache[k], RecordsOf(k) \ {e})

Asking(r) == \/ pc[r] = "generate"
             \/ pc[r] \in {"readSum", "recoverSum", "fillSum"} /\ req[r].op = "match"

KeySolo(k) ==
  /\ Within(cache[k], RecordsOf(k)) /\ Within(status[k], RecordsOf(k))
  /\ \A e \in Latest(k) : cache[k].date = e.date \/ Spare(k, e)

ReqSolo(r, k) ==
  /\ Within(totals[r], RecordsOf(k))
  /\ pc[r] \in {"readStatus", "fillInfo"} => \A e \in Latest(k) : rec[r].date = e.date
  /\ Asking(r) => \A e \in Latest(k) : rec[r].date = e.date \/ Spare(k, e)
  /\ pc[r] \in {"charge", "stamp"} => \A e \in Latest(k) : e.date < today \/ Spare(k, e)
  /\ pc[r] = "insert" => /\ \A e \in RecordsOf(k) : e.date <= rec[r].date
                         /\ \A e \in Latest(k) : e.date < rec[r].date \/ Spare(k, e)
  /\ pc[r] = "readDup" => RecordsOf(k) # {} /\ \A e \in Latest(k) : Spare(k, e)
  /\ pc[r] = "updateInfo" =>
       \E e \in Latest(k) : e.date = rec[r].date /\ e.fund = rec[r].fund /\ Spare(k, e)

(* What a key and a request on it satisfy while the requests of the user    *)
(* come one at a time: a record that the hash has not counted is the last   *)
(* one, and a request that would count it again adopts or follows it.       *)
SoloInv ==
  /\ \A k \in Key : Solo(k[1]) => KeySolo(k)
  /\ \A r \in Reqs : \A k \in Key :
       pc[r] \in Running /\ k = KeyOf(r) /\ Solo(k[1]) => ReqSolo(r, k)

LEMMA SoloBefore ==
  ASSUME Typed, [Next]_vars, NEW k \in Key, Solo(k[1])'
  PROVE  Solo(k[1])
BY FaultsGrow DEF Solo, Key

LEMMA KeySoloFrame ==
  ASSUME NEW k, KeySolo(k), RecordsOf(k)' = RecordsOf(k), cache'[k] = cache[k],
         status'[k] = status[k]
  PROVE  KeySolo(k)'
BY DEF KeySolo, Latest, Spare, Within

LEMMA StepSoloKey ==
  ASSUME Typed, Finite, RowInv, SoloInv, NEW r \in Reqs, Step(r), NEW k \in Key, Solo(k[1])'
  PROVE  KeySolo(k)'
<1>1. KeySolo(k)
  <2>1. Next
    BY DEF Next
  <2> QED BY <2>1, SoloBefore DEF SoloInv
<1>2. CASE ~ (pc[r] \in Running /\ k = KeyOf(r))
  BY <1>1, <1>2, StepElsewhere, KeySoloFrame
<1>3. CASE pc[r] \in Running /\ k = KeyOf(r)
  <2> DEFINE R == RecordsOf(k)
  <2>1. ReqSolo(r, k)
    <3>1. Next
      BY DEF Next
    <3> QED BY <1>3, <3>1, SoloBefore DEF SoloInv
  <2>2. /\ cache[k].times \in Nat /\ cache[k].funds \in Nat
        /\ \A e \in R : e.date \in Nat
    BY DEF Typed, CacheTypes, StoreTypes, Hash, Counter, RecordsOf, Record, Day
  <2>3. CASE FillInfo(r)
    <3>1. /\ cache'[k] = [date |-> rec[r].date, combo |-> rec[r].combo, fund |-> rec[r].fund,
                          funds |-> totals[r].funds, times |-> totals[r].times]
          /\ pc[r] = "fillInfo"
      BY <1>3, <2>3 DEF FillInfo, Typed, CacheTypes
    <3>2. UNCHANGED <<records, status>>
      BY <2>3 DEF FillInfo, stores
    <3>3. \A e \in Latest(k) : cache'[k].date = e.date
      BY <2>1, <3>1 DEF ReqSolo
    <3> QED BY <1>1, <2>1, <3>1, <3>2, <3>3 DEF KeySolo, ReqSolo, Latest, Within, RecordsOf
  <2>4. CASE UpdateInfo(r)
    <3>1. /\ cache'[k] = [date |-> rec[r].date, combo |-> rec[r].combo + 1, fund |-> rec[r].fund,
                          funds |-> cache[k].funds + rec[r].fund, times |-> cache[k].times + 1]
          /\ pc[r] = "updateInfo"
      BY <1>3, <2>4 DEF UpdateInfo, Typed, CacheTypes
    <3>2. UNCHANGED <<records, status>>
      BY <2>4 DEF UpdateInfo, stores
    <3>3. PICK e \in Latest(k) : e.date = rec[r].date /\ e.fund = rec[r].fund /\ Spare(k, e)
      BY <2>1, <3>1 DEF ReqSolo
    <3>4. e \in R /\ (R \ {e}) \cup {e} = R /\ R \subseteq Record /\ IsFiniteSet(R \ {e})
      <4>1. IsFiniteSet(R) /\ R \subseteq Record
        BY RecordsOfFinite
      <4> QED BY <4>1, FS_Subset DEF Latest
    <3>5. Within(cache'[k], R)
      <4>1. PICK t, T : t = cache[k] /\ T = R \ {e}
        OBVIOUS
      <4>2. e \in Record /\ e \notin T /\ T \cup {e} = R /\ T \subseteq Record /\ IsFiniteSet(T)
        BY <3>4, <4>1
      <4>3. t.times \in Nat /\ t.funds \in Nat /\ Within(t, T)
        BY <2>2, <3>3, <4>1 DEF Spare
      <4>4. cache'[k].times = t.times + 1 /\ cache'[k].funds = t.funds + e.fund
        BY <3>1, <3>3, <4>1
      <4>5. \A s : s.times = t.times + 1 /\ s.funds = t.funds + e.fund => Within(s, T \cup {e})
        BY <4>2, <4>3, WithinAdd
      <4> QED BY <4>2, <4>4, <4>5
    <3>6. \A f \in Latest(k) : f.date = e.date
      BY <2>2, <3>4 DEF Latest
    <3>7. \A f \in Latest(k) : cache'[k].date = f.date
      BY <3>1, <3>3, <3>6
    <3> QED BY <1>1, <3>2, <3>5, <3>7 DEF KeySolo, Latest, Within, RecordsOf
  <2>5. CASE WriteStatus(r)
    <3>1. status'[k].times = totals[r].times /\ status'[k].funds = totals[r].funds
      BY <1>3, <2>5 DEF WriteStatus, Typed, StoreTypes
    <3>2. UNCHANGED <<records, cache>>
      BY <2>5 DEF WriteStatus, caches
    <3> QED BY <1>1, <2>1, <3>1, <3>2 DEF KeySolo, ReqSolo, Latest, Within, RecordsOf, Spare
  <2>6. CASE InsertRecord(r)
    <3>0. PICK n : n = NewRecord(r)
      OBVIOUS
    <3>1. pc[r] = "insert" /\ UNCHANGED <<cache, status>>
      BY <2>6 DEF InsertRecord, caches
    <3>2. n \in Record /\ n \notin R /\ RecordsOf(k)' = R \cup {n} /\ Latest(k)' = {n}
      BY <1>3, <2>1, <2>6, <3>0, <3>1, InsertAdds DEF ReqSolo
    <3>3. IsFiniteSet(R) /\ R \subseteq Record
      BY RecordsOfFinite
    <3>4. status[k].times \in Nat /\ status[k].funds \in Nat
      BY DEF Typed, StoreTypes, Status, Counter
    <3>5. Within(cache[k], R \cup {n}) /\ Within(status[k], R \cup {n})
      BY <1>1, <2>2, <3>2, <3>3, <3>4, WithinAdd DEF KeySolo
    <3>6. (R \cup {n}) \ {n} = R
      BY <3>2
    <3>7. Spare(k, n)'
      <4>1. RecordsOf(k)' \ {n} = R
        BY <3>2, <3>6
      <4>2. Within(cache'[k], RecordsOf(k)' \ {n})
        BY <1>1, <3>1, <4>1 DEF KeySolo
      <4> QED BY <4>2 DEF Spare, Within
    <3>8. Within(cache[k], RecordsOf(k))' /\ Within(status[k], RecordsOf(k))'
      <4>1. Within(cache'[k], RecordsOf(k)') /\ Within(status'[k], RecordsOf(k)')
        BY <3>1, <3>2, <3>5
      <4> QED BY <4>1 DEF Within
    <3> QED BY <3>2, <3>7, <3>8 DEF KeySolo
  <2>7. CASE ~ (FillInfo(r) \/ UpdateInfo(r) \/ WriteStatus(r) \/ InsertRecord(r))
    <3>1. cache'[k] = cache[k] /\ status'[k] = status[k] /\ records' = records
      BY <2>7, TotalsSteps
    <3> QED BY <1>1, <3>1, KeySoloFrame DEF RecordsOf
  <2> QED BY <2>3, <2>4, <2>5, <2>6, <2>7
<1> QED BY <1>2, <1>3

LEMMA ReqSoloFrame ==
  ASSUME NEW x, NEW k, ReqSolo(x, k), RecordsOf(k)' = RecordsOf(k), cache'[k] = cache[k],
         pc'[x] = pc[x], req'[x] = req[x], rec'[x] = rec[x], totals'[x] = totals[x],
         today' = today
  PROVE  ReqSolo(x, k)'
<1>1. Latest(k)' = Latest(k)
  BY DEF Latest
<1>2. \A e : Spare(k, e)' <=> Spare(k, e)
  BY DEF Spare, Within
<1>3. Within(totals[x], RecordsOf(k))' <=> Within(totals[x], RecordsOf(k))
  BY DEF Within
<1>4. Asking(x)' <=> Asking(x)
  BY DEF Asking
<1> QED BY <1>1, <1>2, <1>3, <1>4 DEF ReqSolo

(* The totals that request r holds count no more than the records.          *)
LEMMA TotalsWithin ==
  ASSUME Typed, Finite, Finite', Typed', RowInv, TimesInv, SoloInv, NEW r \in Reqs, Step(r),
         NEW k \in Key, k = <<req'[r].user, req'[r].act>>, Solo(k[1])',
         pc[r] \in Running => k = KeyOf(r)
  PROVE  Within(totals[r], RecordsOf(k))'
<1>1. IsFiniteSet(RecordsOf(k)') /\ RecordsOf(k)' \subseteq Record
  <2>1. IsFiniteSet(records') /\ records' \subseteq Record
    BY DEF Finite, Typed, StoreTypes
  <2>2. RecordsOf(k)' \subseteq records'
    BY DEF RecordsOf
  <2> QED BY <2>1, <2>2, FS_Subset
<1>2. Solo(k[1]) /\ KeySolo(k) /\ (pc[r] \in Running => ReqSolo(r, k))
  <2>1. Next
    BY DEF Next
  <2> QED BY <2>1, SoloBefore DEF SoloInv
<1>3. Within(totals'[r], RecordsOf(k)') => Within(totals[r], RecordsOf(k))'
  BY DEF Within
<1>4. CASE totals'[r] = NullTotals
  BY <1>1, <1>3, <1>4, WithinNull DEF NullTotals
<1>5. CASE totals'[r] = totals[r] /\ pc[r] \in Running
  <2>1. Within(totals[r], RecordsOf(k))
    BY <1>2, <1>5 DEF ReqSolo
  <2>2. totals[r].times \in Nat /\ totals[r].funds \in Nat
    BY DEF Typed, Held, Totals, Counter
  <2>3. CASE InsertRecord(r)
    <3>1. PICK n : n = NewRecord(r)
      OBVIOUS
    <3>2. n \in Record /\ n \notin RecordsOf(k) /\ RecordsOf(k)' = RecordsOf(k) \cup {n}
      BY <1>5, <2>3, <3>1, InsertAdds
    <3>3. IsFiniteSet(RecordsOf(k)) /\ RecordsOf(k) \subseteq Record
      BY RecordsOfFinite
    <3>4. Within(totals[r], RecordsOf(k) \cup {n})
      BY <2>1, <2>2, <3>2, <3>3, WithinAdd
    <3> QED BY <1>3, <1>5, <3>2, <3>4
  <2>4. CASE UNCHANGED records
    <3>1. RecordsOf(k)' = RecordsOf(k)
      BY <2>4 DEF RecordsOf
    <3> QED BY <1>3, <1>5, <2>1, <3>1
  <2> QED BY <2>3, <2>4, TotalsSteps
<1>6. CASE totals'[r] = totals[r] /\ pc[r] = "idle"
  BY <1>4, <1>6 DEF TimesInv
<1>7. CASE ReadStatus(r)
  <2>1. totals'[r] = [funds |-> status[k].funds, times |-> status[k].times] /\ records' = records
    BY <1>7 DEF ReadStatus, Typed, Held, Running, stores
  <2>2. RecordsOf(k)' = RecordsOf(k)
    BY <2>1 DEF RecordsOf
  <2> QED BY <1>2, <1>3, <2>1, <2>2 DEF KeySolo, Within
<1>8. CASE UpdateInfo(r)
  <2>1. /\ totals'[r].times = cache'[k].times /\ totals'[r].funds = cache'[k].funds
    BY <1>8 DEF UpdateInfo, Typed, Held, CacheTypes, Running
  <2>2. KeySolo(k)'
    BY StepSoloKey
  <2>3. Within(cache[k], RecordsOf(k))'
    BY <2>2 DEF KeySolo
  <2> QED BY <2>1, <2>3 DEF Within
<1> QED BY <1>4, <1>5, <1>6, <1>7, <1>8, StepFrom, TotalsSteps

LEMMA LastIsLatest ==
  ASSUME Typed, NEW k
  PROVE  /\ \A e \in Latest(k) : LastRecord(k).date = e.date
         /\ RecordsOf(k) # {} =>
              \E e \in Latest(k) : /\ LastRecord(k).date = e.date /\ LastRecord(k).fund = e.fund
                                   /\ LastRecord(k).combo = e.combo
<1> SUFFICES ASSUME RecordsOf(k) # {}
             PROVE  /\ \A e \in Latest(k) : LastRecord(k).date = e.date
                    /\ \E e \in Latest(k) :
                         /\ LastRecord(k).date = e.date /\ LastRecord(k).fund = e.fund
                         /\ LastRecord(k).combo = e.combo
  BY DEF Latest
<1>1. PICK e \in RecordsOf(k) :
        /\ LastRecord(k) = [date |-> e.date, combo |-> e.combo, fund |-> e.fund]
        /\ \A f \in RecordsOf(k) : f.date <= e.date
  BY LastRecordIsARecord DEF Typed, StoreTypes
<1>2. e \in Latest(k)
  BY <1>1 DEF Latest
<1>3. \A f \in RecordsOf(k) : f.date \in Nat
  BY DEF RecordsOf, Typed, StoreTypes, Record, Day
<1>4. \A f \in Latest(k) : f.date = e.date
  BY <1>1, <1>3 DEF Latest
<1> QED BY <1>1, <1>2, <1>4

(* How a request comes to ask whether it may match, and what it knows then. *)
LEMMA AskingFrom ==
  ASSUME Typed, NEW r \in Reqs, Step(r), NEW k \in Key,
         pc[r] \in Running => k = KeyOf(r), Asking(r)'
  PROVE  /\ UNCHANGED records /\ pc[r] \in Running
         /\ \/ /\ pc[r] = "readInfo" /\ k \in cached /\ UNCHANGED cache
               /\ rec'[r] = [date |-> cache[k].date, combo |-> cache[k].combo,
                             fund |-> cache[k].fund]
            \/ ReadInfoError(r) /\ rec'[r] = LastRecord(k)
            \/ pc[r] \in {"readStatus", "fillInfo"} /\ rec'[r] = rec[r]
            \/ Asking(r) /\ rec'[r] = rec[r] /\ UNCHANGED cache
<1> Held
  BY DEF Typed
<1> USE DEF caches, stores
<1>1. pc'[r] \in {"generate", "readSum", "recoverSum", "fillSum"}
      /\ (pc'[r] # "generate" => req'[r].op = "match")
  BY DEF Asking
<1>2. ASSUME pc'[r] = "readSum"
      PROVE  ReadInfoHit(r) \/ ReadInfoError(r) \/ FillInfo(r) \/ SkipFillInfo(r)
  <2>1. ASSUME NEW q \in Request, q.op = "summary", Arrive(r, q) PROVE FALSE
    BY <1>1, <1>2, <2>1 DEF Arrive, Held
  <2> QED BY <1>2, <2>1, CameBy
<1>3. ASSUME NEW info \in Match, InfoIs(r, info), pc'[r] = "readSum"
      PROVE  rec'[r] = info
  BY <1>3 DEF InfoIs, Return, Goto, Held
<1>4. CASE ReadInfoHit(r) /\ pc'[r] = "readSum"
  <2>1. pc[r] \in Running /\ UNCHANGED <<records, cache>>
    BY <1>4 DEF ReadInfoHit, Running
  <2>2. k = KeyOf(r)
    BY <2>1
  <2>3. cache[k] \in Hash
    BY DEF Typed, CacheTypes
  <2>4. rec'[r] = [date |-> cache[k].date, combo |-> cache[k].combo, fund |-> cache[k].fund]
    <3>1. [date |-> cache[k].date, combo |-> cache[k].combo, fund |-> cache[k].fund] \in Match
      BY <2>3 DEF Hash, Match
    <3> QED BY <1>3, <1>4, <2>2, <3>1 DEF ReadInfoHit
  <2> QED BY <1>4, <2>1, <2>2, <2>4 DEF ReadInfoHit
<1>5. CASE ReadInfoError(r) /\ pc'[r] = "readSum"
  <2>1. pc[r] \in Running /\ UNCHANGED records
    BY <1>5 DEF ReadInfoError, Running
  <2>2. rec'[r] = LastRecord(k)
    <3>1. LastRecord(k) \in Match
      BY LastRecordType DEF Typed, StoreTypes
    <3> QED BY <1>3, <1>5, <2>1, <3>1 DEF ReadInfoError
  <2> QED BY <1>5, <2>1, <2>2
<1>6. CASE (FillInfo(r) \/ SkipFillInfo(r)) /\ pc'[r] = "readSum"
  <2>1. pc[r] \in {"readStatus", "fillInfo"} /\ pc[r] \in Running /\ UNCHANGED records
    BY <1>6 DEF FillInfo, SkipFillInfo, Running
  <2>2. rec'[r] = rec[r]
    <3>1. rec[r] \in Match
      BY DEF Held
    <3> QED BY <1>3, <1>6, <3>1 DEF FillInfo, SkipFillInfo
  <2> QED BY <2>1, <2>2
<1>7. CASE pc'[r] \in {"recoverSum", "fillSum", "generate"}
  <2>1. \/ ReadSumMiss(r) \/ RecoverSum(r)
        \/ ReadSumHit(r) \/ ReadSumError(r) \/ FillSum(r) \/ SkipFillSum(r)
    BY <1>7, CameBy
  <2>2. pc[r] \in {"readSum", "recoverSum", "fillSum"} /\ pc[r] \in Running
        /\ UNCHANGED <<records, cache>>
    BY <2>1 DEF ReadSumMiss, RecoverSum, ReadSumHit, ReadSumError, FillSum, SkipFillSum, Running
  <2>3. \A s : SumIs(r, s) /\ pc'[r] = "generate" =>
          rec'[r] = rec[r] /\ req[r].op = "match"
    BY DEF SumIs, Return, Goto, Held
  <2>4. rec'[r] = rec[r] /\ req[r].op = "match"
    <3>1. CASE ReadSumMiss(r) \/ RecoverSum(r)
      <4>1. pc'[r] # "generate" /\ UNCHANGED <<req, rec>>
        BY <3>1 DEF ReadSumMiss, RecoverSum, Goto, Held
      <4> QED BY <1>1, <4>1
    <3>2. CASE ReadSumHit(r) \/ ReadSumError(r) \/ FillSum(r) \/ SkipFillSum(r)
      <4>1. \A s : SumIs(r, s) => pc'[r] \in {"generate", "queried"}
        BY DEF SumIs, Return, Goto, Held
      <4> QED BY <1>7, <2>3, <3>2, <4>1 DEF ReadSumHit, ReadSumError, FillSum, SkipFillSum
    <3> QED BY <2>1, <3>1, <3>2
  <2>5. Asking(r)
    BY <2>2, <2>4 DEF Asking
  <2> QED BY <2>2, <2>4, <2>5
<1> QED BY <1>1, <1>2, <1>4, <1>5, <1>6, <1>7

(* The request that read the record of the key knows the last day, or the   *)
(* hash has not counted the last record.                                    *)
LEMMA AskingKnows ==
  ASSUME Typed, NEW r \in Reqs, Step(r), NEW k \in Key, KeySolo(k),
         pc[r] \in Running => k = KeyOf(r) /\ ReqSolo(r, k), Asking(r)'
  PROVE  /\ RecordsOf(k)' = RecordsOf(k)
         /\ \A e \in Latest(k) : \/ rec'[r].date = e.date
                                 \/ Spare(k, e) /\ cache'[k] = cache[k]
<1>1. RecordsOf(k)' = RecordsOf(k) /\ pc[r] \in Running
  BY AskingFrom DEF RecordsOf
<1>2. ReqSolo(r, k)
  BY <1>1
<1>3. CASE UNCHANGED cache /\ rec'[r] = [date |-> cache[k].date, combo |-> cache[k].combo,
                                         fund |-> cache[k].fund]
  BY <1>1, <1>3 DEF KeySolo
<1>4. CASE rec'[r] = LastRecord(k)
  BY <1>1, <1>4, LastIsLatest
<1>5. CASE pc[r] \in {"readStatus", "fillInfo"} /\ rec'[r] = rec[r]
  BY <1>1, <1>2, <1>5 DEF ReqSolo
<1>6. CASE Asking(r) /\ rec'[r] = rec[r] /\ UNCHANGED cache
  BY <1>1, <1>2, <1>6 DEF ReqSolo
<1> QED BY <1>1, <1>3, <1>4, <1>5, <1>6, AskingFrom

LEMMA StepSoloOwn ==
  ASSUME Typed, Finite, Finite', Typed', RowInv, TimesInv, SoloInv, NEW r \in Reqs, Step(r),
         NEW k \in Key, k = <<req'[r].user, req'[r].act>>, Solo(k[1])', pc'[r] \in Running
  PROVE  ReqSolo(r, k)'
<1> Held /\ today \in Nat /\ today' = today
  BY SameDay DEF Typed
<1> USE DEF caches, stores
<1>1. pc[r] \in Running => k = KeyOf(r)
  BY TotalsSteps DEF KeyOf, Running
<1>2. KeySolo(k) /\ (pc[r] \in Running => ReqSolo(r, k))
  <2>1. Next
    BY DEF Next
  <2> QED BY <1>1, <2>1, SoloBefore DEF SoloInv
<1>3. Within(totals[r], RecordsOf(k))'
  BY <1>1, TotalsWithin
<1>4. \A e \in RecordsOf(k) : e.date \in Nat /\ e.date <= today
  BY DEF RowInv, RecordsOf
<1>5. RecordsOf(k)' = RecordsOf(k) /\ cache'[k] = cache[k] =>
        /\ Latest(k)' = Latest(k)
        /\ \A e : Spare(k, e)' <=> Spare(k, e)
  <2>1. RecordsOf(k)' = RecordsOf(k) => Latest(k)' = Latest(k)
    BY DEF Latest
  <2> QED BY <2>1 DEF Spare, Within
<1>6. UNCHANGED records => RecordsOf(k)' = RecordsOf(k)
  BY DEF RecordsOf
<1>7. pc'[r] \in {"readStatus", "fillInfo"} => \A e \in Latest(k)' : rec'[r].date = e.date
  <2>1. CASE pc'[r] = "readStatus"
    <3>1. pc[r] \in Running /\ rec'[r] = LastRecord(KeyOf(r)) /\ UNCHANGED <<records, cache>>
      BY <2>1, CameBy DEF ReadRecord, Running, Held
    <3> QED BY <1>1, <1>5, <1>6, <3>1, LastIsLatest
  <2>2. CASE pc'[r] = "fillInfo"
    <3>1. pc[r] \in Running /\ pc[r] = "readStatus" /\ UNCHANGED <<records, cache, rec>>
      BY <2>2, CameBy DEF ReadStatus, Running
    <3> QED BY <1>2, <1>5, <1>6, <3>1 DEF ReqSolo
  <2> QED BY <2>1, <2>2
<1>8. Asking(r)' => \A e \in Latest(k)' : rec'[r].date = e.date \/ Spare(k, e)'
  <2> SUFFICES ASSUME Asking(r)', NEW e \in Latest(k)'
               PROVE  rec'[r].date = e.date \/ Spare(k, e)'
    OBVIOUS
  <2>1. /\ RecordsOf(k)' = RecordsOf(k)
        /\ \A f \in Latest(k) : rec'[r].date = f.date \/ (Spare(k, f) /\ cache'[k] = cache[k])
    BY <1>1, <1>2, AskingKnows
  <2>2. Latest(k)' = Latest(k)
    BY <2>1 DEF Latest
  <2> QED BY <1>5, <2>1, <2>2
<1>9. pc'[r] \in {"charge", "stamp"} => \A e \in Latest(k)' : e.date < today' \/ Spare(k, e)'
  <2>1. CASE pc'[r] = "charge"
    <3>1. pc[r] = "generate" /\ rec[r].date # today /\ UNCHANGED <<records, cache>>
          /\ pc[r] \in Running
      BY <2>1, CameBy DEF GenerateMatchFund, Running
    <3>2. \A e \in Latest(k) : rec[r].date = e.date \/ Spare(k, e)
      BY <1>2, <3>1 DEF ReqSolo, Asking
    <3>3. \A e \in Latest(k) : e.date < today \/ Spare(k, e)
      BY <1>4, <3>1, <3>2 DEF Latest
    <3> QED BY <1>5, <1>6, <3>1, <3>3
  <2>2. CASE pc'[r] = "stamp"
    <3>1. pc[r] = "charge" /\ UNCHANGED <<records, cache>> /\ pc[r] \in Running
      BY <2>2, CameBy DEF Charge, Running
    <3> QED BY <1>2, <1>5, <1>6, <3>1 DEF ReqSolo
  <2> QED BY <2>1, <2>2
<1>10. pc'[r] = "insert" => /\ \A e \in RecordsOf(k)' : e.date <= rec'[r].date
                            /\ \A e \in Latest(k)' : e.date < rec'[r].date \/ Spare(k, e)'
  <2> SUFFICES ASSUME pc'[r] = "insert"
               PROVE  /\ \A e \in RecordsOf(k)' : e.date <= rec'[r].date
                      /\ \A e \in Latest(k)' : e.date < rec'[r].date \/ Spare(k, e)'
    OBVIOUS
  <2>1. pc[r] = "stamp" /\ rec'[r].date = today /\ UNCHANGED <<records, cache>> /\ pc[r] \in Running
    <3>1. Stamp(r)
      BY CameBy
    <3> QED BY <3>1 DEF Stamp, Held, Running
  <2> QED BY <1>2, <1>4, <1>5, <1>6, <2>1 DEF ReqSolo
<1>11. pc'[r] = "readDup" => RecordsOf(k)' # {} /\ \A e \in Latest(k)' : Spare(k, e)'
  <2> SUFFICES ASSUME pc'[r] = "readDup"
               PROVE  RecordsOf(k)' # {} /\ \A e \in Latest(k)' : Spare(k, e)'
    OBVIOUS
  <2>1. /\ pc[r] = "insert" /\ HasRecord(KeyOf(r), rec[r].date) /\ UNCHANGED <<records, cache>>
        /\ pc[r] \in Running
    BY CameBy DEF InsertDuplicate, Running
  <2>2. PICK g \in RecordsOf(k) : g.date = rec[r].date
    BY <1>1, <2>1 DEF HasRecord
  <2>3. \A e \in Latest(k) : ~ (e.date < rec[r].date)
    BY <1>4, <2>2 DEF Latest
  <2> QED BY <1>2, <1>5, <1>6, <2>1, <2>2, <2>3 DEF ReqSolo
<1>12. pc'[r] = "updateInfo" =>
         \E e \in Latest(k)' : e.date = rec'[r].date /\ e.fund = rec'[r].fund /\ Spare(k, e)'
  <2>1. CASE InsertRecord(r)
    <3>1. pc[r] = "insert" /\ pc[r] \in Running /\ UNCHANGED <<rec, cache>>
      BY <2>1 DEF InsertRecord, Running
    <3>2. PICK n : n = NewRecord(r)
      OBVIOUS
    <3>3. n \notin RecordsOf(k) /\ RecordsOf(k)' = RecordsOf(k) \cup {n} /\ Latest(k)' = {n}
      BY <1>1, <1>2, <2>1, <3>1, <3>2, InsertAdds DEF ReqSolo
    <3>4. n.date = rec[r].date /\ n.fund = rec[r].fund
      BY <3>2 DEF NewRecord
    <3>5. RecordsOf(k)' \ {n} = RecordsOf(k)
      BY <3>3
    <3>6. Within(cache'[k], RecordsOf(k)' \ {n})
      BY <1>2, <3>1, <3>5 DEF KeySolo
    <3>7. Spare(k, n)'
      BY <3>6 DEF Spare, Within
    <3> QED BY <3>1, <3>3, <3>4, <3>7
  <2>2. CASE AdoptRecord(r)
    <3>1. /\ pc[r] = "readDup" /\ pc[r] \in Running /\ UNCHANGED <<records, cache>>
          /\ rec'[r] = LastRecord(KeyOf(r))
      BY <2>2 DEF AdoptRecord, Running, Held
    <3>2. PICK e \in Latest(k) : LastRecord(k).date = e.date /\ LastRecord(k).fund = e.fund
      BY <1>2, <3>1, LastIsLatest DEF ReqSolo
    <3>3. Spare(k, e)
      BY <1>2, <3>1 DEF ReqSolo
    <3> QED BY <1>1, <1>5, <1>6, <3>1, <3>2, <3>3
  <2> QED BY <2>1, <2>2, CameBy
<1> QED BY <1>3, <1>7, <1>8, <1>9, <1>10, <1>11, <1>12 DEF ReqSolo

LEMMA StepSolo ==
  ASSUME Typed, Typed', Finite, Finite', RowInv, TimesInv, OneBusy, SoloInv,
         NEW r \in Reqs, Step(r)
  PROVE  SoloInv'
<1>1. \A k \in Key : Solo(k[1])' => KeySolo(k)'
  BY StepSoloKey
<1>2. ASSUME NEW x \in Reqs, NEW k \in Key, pc'[x] \in Running,
             k = <<req'[x].user, req'[x].act>>, Solo(k[1])'
      PROVE  ReqSolo(x, k)'
  <2>1. CASE x = r
    BY <1>2, <2>1, StepSoloOwn
  <2>2. CASE x # r
    <3>1. req'[x] \in Request /\ pc'[x] = pc[x] /\ req'[x] = req[x] /\ rec'[x] = rec[x]
          /\ totals'[x] = totals[x] /\ today' = today
      BY <1>2, <2>2, TotalsSteps, SameDay DEF Typed, Held
    <3>2. k[1] = req[x].user /\ k = KeyOf(x)
      BY <1>2, <3>1 DEF KeyOf
    <3>3. pc[r] \in Running => req[r].user # k[1]
      <4>1. Solo(req[x].user)'
        BY <1>2, <3>1 DEF Solo
      <4> QED BY <1>2, <2>2, <3>1, <3>2, <4>1, StepAlone
    <3>4. ~ (pc[r] \in Running /\ k = KeyOf(r))
      BY <3>3 DEF KeyOf
    <3>5. ReqSolo(x, k)
      <4>1. Next
        BY DEF Next
      <4> QED BY <1>2, <3>1, <3>2, <4>1, SoloBefore DEF SoloInv
    <3> QED BY <3>1, <3>4, <3>5, StepElsewhere, ReqSoloFrame
  <2> QED BY <2>1, <2>2
<1>3. \A x \in Reqs : \A k \in Key :
        (pc[x] \in Running /\ k = KeyOf(x) /\ Solo(k[1]))' => ReqSolo(x, k)'
  BY <1>2 DEF KeyOf
<1> QED BY <1>1, <1>3 DEF SoloInv, Key

LEMMA OthersSolo ==
  ASSUME Typed, Typed', Finite, SoloInv, Environment \/ UNCHANGED vars
  PROVE  SoloInv'
<1> USE DEF locals, stores, caches
<1>1. UNCHANGED <<pc, req, rec, totals, records, status>>
  BY DEF Environment, EvictInfo, EvictSum, NextDay, vars
<1>2. \A k \in Key : Solo(k[1])' => Solo(k[1])
  <2>1. [Next]_vars
    BY DEF Next
  <2> QED BY <2>1, SoloBefore
<1>3. \A k : RecordsOf(k)' = RecordsOf(k) /\ Latest(k)' = Latest(k)
  BY <1>1 DEF RecordsOf, Latest
<1>4. today' \in {today, today + 1} /\ today \in Nat
  BY DEF Environment, EvictInfo, EvictSum, NextDay, vars, Typed
<1>5. \A k \in Key : cache'[k] \in {cache[k], EmptyHash}
  BY DEF Environment, EvictInfo, EvictSum, NextDay, vars, Typed, CacheTypes
<1>6. ASSUME NEW k, NEW e
      PROVE  Within(EmptyHash, RecordsOf(k)) /\ Within(EmptyHash, RecordsOf(k) \ {e})
  <2>1. IsFiniteSet(RecordsOf(k)) /\ RecordsOf(k) \subseteq Record
    BY RecordsOfFinite
  <2>2. IsFiniteSet(RecordsOf(k) \ {e}) /\ RecordsOf(k) \ {e} \subseteq Record
    BY <2>1, FS_Subset
  <2> QED BY <2>1, <2>2, WithinNull DEF EmptyHash
<1>7. ASSUME NEW k \in Key, NEW e, Spare(k, e) PROVE Spare(k, e)'
  <2>1. Within(cache'[k], RecordsOf(k) \ {e})
    BY <1>5, <1>6, <1>7 DEF Spare
  <2> QED BY <1>3, <2>1 DEF Spare, Within
<1>8. ASSUME NEW k \in Key, Solo(k[1]) PROVE KeySolo(k)'
  <2>1. KeySolo(k)
    BY <1>8 DEF SoloInv
  <2>2. CASE cache'[k] = cache[k]
    BY <1>1, <1>3, <2>1, <2>2, KeySoloFrame
  <2>3. CASE cache'[k] = EmptyHash
    <3>1. Within(cache'[k], RecordsOf(k)) /\ Within(status[k], RecordsOf(k))
      BY <1>6, <2>1, <2>3 DEF KeySolo
    <3>2. Within(cache[k], RecordsOf(k))' /\ Within(status[k], RecordsOf(k))'
      BY <1>1, <1>3, <3>1 DEF Within
    <3>3. \A e : Spare(k, e)'
      <4>1. \A e : Within(cache'[k], RecordsOf(k)' \ {e})
        BY <1>3, <1>6, <2>3
      <4> QED BY <4>1 DEF Spare, Within
    <3> QED BY <3>2, <3>3 DEF KeySolo
  <2> QED BY <1>5, <2>2, <2>3
<1>9. ASSUME NEW x \in Reqs, NEW k \in Key, pc[x] \in Running, k = KeyOf(x), Solo(k[1])
      PROVE  ReqSolo(x, k)'
  <2>1. ReqSolo(x, k)
    BY <1>9 DEF SoloInv
  <2>2. \A e \in Latest(k) : e.date \in Nat
    BY DEF Latest, RecordsOf, Typed, StoreTypes, Record, Day
  <2>3. Within(totals[x], RecordsOf(k))'
    BY <1>1, <1>3, <2>1 DEF ReqSolo, Within
  <2>4. pc'[x] \in {"charge", "stamp"} => \A e \in Latest(k) : e.date < today' \/ Spare(k, e)'
    <3>1. \A e \in Latest(k) : e.date < today => e.date < today'
      BY <1>4, <2>2
    <3> QED BY <1>1, <1>7, <2>1, <3>1 DEF ReqSolo
  <2>5. Asking(x)' => Asking(x)
    BY <1>1 DEF Asking
  <2> QED BY <1>1, <1>3, <1>7, <2>1, <2>3, <2>4, <2>5 DEF ReqSolo
<1>10. \A x \in Reqs : \A k \in Key :
         (pc[x] \in Running /\ k = KeyOf(x) /\ Solo(k[1]))' => ReqSolo(x, k)'
  BY <1>1, <1>2, <1>9 DEF KeyOf
<1> QED BY <1>2, <1>8, <1>10 DEF SoloInv, Key

LEMMA SoloKept == Spec => []SoloInv
<1>1. Init => SoloInv
  <2> SUFFICES ASSUME Init PROVE SoloInv
    OBVIOUS
  <2>1. \A k : RecordsOf(k) = {} /\ Latest(k) = {}
    BY DEF Init, RecordsOf, Latest
  <2>2. Within(EmptyHash, {}) /\ Within(NullStatus, {})
    BY FS_EmptySet, WithinNull DEF EmptyHash, NullStatus
  <2>3. \A r \in Reqs : pc[r] \notin Running
    BY DEF Init, Running
  <2>4. \A k \in Key : KeySolo(k)
    BY <2>1, <2>2 DEF KeySolo, Init
  <2> QED BY <2>3, <2>4 DEF SoloInv
<1>2. /\ Typed /\ Typed' /\ Finite /\ Finite' /\ RowInv /\ TimesInv /\ OneBusy /\ SoloInv
      /\ [Next]_vars
      => SoloInv'
  BY StepSolo, OthersSolo DEF Next
<1> QED BY <1>1, <1>2, TypedInv, FiniteInv, RowsKept, TimesKept, OneBusyKept, PTL DEF Spec

(* As long as no two requests of a user have overlapped, failures, retries  *)
(* (which adopt the duplicate record), lost hashes and midnights never make *)
(* the totals of an activity exceed what its records add up to.             *)
THEOREM NothingOvercounted == Spec => []NoOvercount
<1>1. SoloInv => NoOvercount
  BY DEF SoloInv, NoOvercount, KeySolo, Within, Solo
<1> QED BY <1>1, SoloKept, PTL

-----------------------------------------------------------------------------
(* The combo.  For a user whose requests have neither overlapped nor        *)
(* stopped, what the hash and the request say of the last match is the last *)
(* record, except while the request that booked it has not updated the hash.*)
Smooth(u) == faults[u] \subseteq {"midnight", "evict"}

Counted(k, L) == {e \in RecordsOf(k) : pc[e.id] \notin L}
Newest(S) == {e \in S : \A f \in S : f.date <= e.date}
Matches(m, S) == \A e \in Newest(S) : m.date = e.date /\ m.combo = e.combo

OwnBooked(r, k) ==
  \E e \in Latest(k) : /\ e.id = r /\ e.date = rec[r].date /\ e.fund = rec[r].fund
                       /\ e.combo = rec[r].combo + 1

KeySmooth(k) == k \in cached => Matches(cache[k], Counted(k, {"updateInfo"}))

ReqSmooth(r, k) ==
  /\ Asking(r) \/ pc[r] \in {"readStatus", "fillInfo"} => Matches(rec[r], RecordsOf(k))
  /\ pc[r] \in {"charge", "stamp"} => \A e \in RecordsOf(k) : e.date < today
  /\ pc[r] = "insert" => \A e \in RecordsOf(k) : e.date < rec[r].date
  /\ pc[r] # "readDup"
  /\ pc[r] \in {"updateInfo", "updateSum", "writeStatus", "writeRank"} => OwnBooked(r, k)

SmoothInv ==
  /\ \A k \in Key : Smooth(k[1]) => KeySmooth(k)
  /\ \A r \in Reqs : \A k \in Key :
       pc[r] \in Running /\ k = KeyOf(r) /\ Smooth(k[1]) => ReqSmooth(r, k)

LEMMA SmoothBefore ==
  ASSUME Typed, [Next]_vars, NEW k \in Key, Smooth(k[1])'
  PROVE  Smooth(k[1]) /\ Solo(k[1]) /\ Solo(k[1])'
BY FaultsGrow DEF Smooth, Solo, Key

(* A failed call or a stop marks the user of the request.                   *)
LEMMA NoStops ==
  ASSUME Typed, NEW r \in Reqs, pc[r] \in Running, "stop" \notin faults'[req[r].user]
  PROVE  /\ ~ ReadInfoError(r) /\ ~ SkipFillInfo(r) /\ ~ ReadSumError(r)
         /\ ~ SkipFillSum(r) /\ ~ SkipRank(r) /\ ~ Stop(r)
<1>1. req[r].user \in Users
  BY KeyOfRunning DEF Typed
<1>2. ~ Disturbed(req[r].user, "stop")
  BY <1>1 DEF Disturbed, Typed
<1> QED BY <1>2 DEF ReadInfoError, SkipFillInfo, ReadSumError, SkipFillSum, SkipRank, Stop

(* The records of a key that a step leaves alone stay where they are.       *)
LEMMA CountedElsewhere ==
  ASSUME Typed, RowInv, NEW r \in Reqs, Step(r), NEW k \in Key, NEW L,
         ~ (pc[r] \in Running /\ k = KeyOf(r))
  PROVE  Counted(k, L)' = Counted(k, L)
<1>1. RecordsOf(k)' = RecordsOf(k)
  BY StepElsewhere
<1>2. ASSUME NEW e \in RecordsOf(k) PROVE pc'[e.id] = pc[e.id]
  <2>1. e.id \in Reqs /\ pc[e.id] # "idle" /\ k = KeyOf(e.id)
    BY DEF RecordsOf, RowInv, Typed, StoreTypes, Record, KeyOf, Key
  <2>2. e.id # r
    BY <2>1, StepFrom
  <2> QED BY <2>1, <2>2, TotalsSteps
<1> QED BY <1>1, <1>2 DEF Counted

(* While a request of a user runs, alone, the records of his are counted    *)
(* but for its own.                                                         *)
LEMMA CountedOwn ==
  ASSUME Typed, RowInv, OneBusy, NEW r \in Reqs, pc[r] \in Running, NEW k \in Key,
         k[1] = req[r].user, Solo(k[1]), NEW L, L \subseteq Running
  PROVE  /\ pc[r] \notin L => Counted(k, L) = RecordsOf(k)
         /\ pc[r] \in L => Counted(k, L) = {e \in RecordsOf(k) : e.id # r}
<1>1. ASSUME NEW e \in RecordsOf(k), pc[e.id] \in L PROVE e.id = r
  <2>1. e.id \in Reqs /\ req[e.id].user = req[r].user /\ pc[e.id] \in Running
    BY <1>1 DEF RecordsOf, RowInv, Typed, StoreTypes, Record
  <2>2. r \in Busy(k[1]) /\ e.id \in Busy(k[1]) /\ k[1] \in Users
    BY <2>1 DEF Busy, Key
  <2> QED BY <2>2 DEF OneBusy
<1> QED BY <1>1 DEF Counted

(* The last record as GetUserMatchLastRecordDB reads it.                    *)
LEMMA LastMatches ==
  ASSUME Typed, RowInv, NEW k PROVE Matches(LastRecord(k), RecordsOf(k))
<1> SUFFICES ASSUME NEW e \in Latest(k)
             PROVE  LastRecord(k).date = e.date /\ LastRecord(k).combo = e.combo
  BY DEF Matches, Newest, Latest
<1>1. PICK l \in Latest(k) : LastRecord(k).date = l.date /\ LastRecord(k).combo = l.combo
  BY LastIsLatest DEF Latest
<1>2. LastRecord(k).date = e.date
  BY LastIsLatest
<1>3. l = e
  BY <1>1, <1>2 DEF RowInv, Latest, RecordsOf
<1> QED BY <1>1, <1>3

LEMMA LatestIsReached ==
  ASSUME Typed, NEW k, NEW e \in RecordsOf(k)
  PROVE  \E l \in Latest(k) : e.date <= l.date
<1>1. PICK l \in RecordsOf(k) : \A f \in RecordsOf(k) : f.date <= l.date
  BY LastRecordIsARecord DEF Typed, StoreTypes
<1> QED BY <1>1 DEF Latest

LEMMA StepSmoothKey ==
  ASSUME Typed, Typed', Finite, RowInv, RowInv', OneBusy, OneBusy', SmoothInv, NEW r \in Reqs, Step(r),
         NEW k \in Key, Smooth(k[1])'
  PROVE  KeySmooth(k)'
<1>0. Next
  BY DEF Next
<1>1. KeySmooth(k) /\ Solo(k[1]) /\ Solo(k[1])'
  BY <1>0, SmoothBefore DEF SmoothInv
<1>2. \A l \in Key : l \in cached' => l \in cached \/ (l = KeyOf(r) /\ (FillInfo(r) \/ UpdateInfo(r)))
  <2>1. FillInfo(r) \/ UpdateInfo(r) => cached' = cached \cup {KeyOf(r)}
    BY DEF FillInfo, UpdateInfo
  <2>2. ~ (FillInfo(r) \/ UpdateInfo(r)) => UNCHANGED cached
    BY DEF Step, Arrive, Reject, ReadStep, ReadInfoHit, ReadInfoMiss, ReadInfoError, ReadRecord,
       ReadStatus, SkipFillInfo, ReadSumHit, ReadSumMiss, ReadSumError, RecoverSum,
       FillSum, SkipFillSum, MatchStep, AlreadyMatched, GenerateMatchFund, Charge, Stamp,
       InsertRecord, InsertDuplicate, AdoptRecord, UpdateSum, WriteStatus, WriteRank,
       SkipRank, Stop, caches
  <2> QED BY <2>1, <2>2
<1> DEFINE L == {"updateInfo"}
<1>3. CASE ~ (pc[r] \in Running /\ k = KeyOf(r))
  <2>1. FillInfo(r) \/ UpdateInfo(r) => pc[r] \in Running
    BY DEF FillInfo, UpdateInfo, Running
  <2>2. k \in cached' => k \in cached
    BY <1>2, <1>3, <2>1
  <2>3. Counted(k, L)' = Counted(k, L) /\ cache'[k] = cache[k]
    BY <1>3, CountedElsewhere, StepElsewhere
  <2> QED BY <1>1, <2>2, <2>3 DEF KeySmooth, Matches, Newest
<1>4. CASE pc[r] \in Running /\ k = KeyOf(r)
  <2>1. ReqSmooth(r, k)
    BY <1>0, <1>4, SmoothBefore DEF SmoothInv
  <2>2. "stop" \notin faults'[req[r].user] /\ k[1] = req[r].user /\ req'[r] = req[r]
    BY <1>4, TotalsSteps DEF Smooth, KeyOf, Running
  <2>3. L \subseteq Running
    BY DEF Running
  <2>4. pc[r] # "updateInfo" => Counted(k, L) = RecordsOf(k)
    BY <1>1, <1>4, <2>2, <2>3, CountedOwn
  <2>5. Counted(k, L)' = {e \in RecordsOf(k)' : pc'[e.id] \notin L}
    BY DEF Counted
  <2>6. pc'[r] # "updateInfo" => Counted(k, L)' = RecordsOf(k)'
    <3> SUFFICES ASSUME pc'[r] # "updateInfo", NEW e \in RecordsOf(k)', pc'[e.id] \in L
                 PROVE  FALSE
      BY <2>5
    <3>1. e.id \in Reqs /\ req'[e.id].user = k[1] /\ pc'[e.id] \in Running /\ e.id # r
      BY <2>3 DEF RecordsOf, RowInv, Typed, StoreTypes, Record
    <3>2. pc[e.id] \in Running /\ req[e.id].user = k[1]
      BY <3>1, TotalsSteps
    <3>3. r \in Busy(k[1]) /\ e.id \in Busy(k[1]) /\ k[1] \in Users
      BY <1>4, <2>2, <3>1, <3>2 DEF Busy, Key
    <3> QED BY <1>1, <3>1, <3>3 DEF OneBusy
  <2>7. CASE FillInfo(r)
    <3>1. /\ cache'[k].date = rec[r].date /\ cache'[k].combo = rec[r].combo
          /\ pc[r] = "fillInfo" /\ UNCHANGED records
      BY <1>4, <2>7 DEF FillInfo, Typed, CacheTypes, stores
    <3>2. pc'[r] # "updateInfo"
      <4>1. ~ (InsertRecord(r) \/ AdoptRecord(r))
        BY <3>1 DEF InsertRecord, AdoptRecord
      <4> QED BY <4>1, CameBy
    <3>3. RecordsOf(k)' = RecordsOf(k)
      BY <3>1 DEF RecordsOf
    <3>4. Counted(k, L)' = RecordsOf(k)
      BY <2>6, <3>2, <3>3
    <3>5. Matches(rec[r], RecordsOf(k))
      BY <2>1, <3>1 DEF ReqSmooth
    <3> QED BY <3>1, <3>4, <3>5 DEF KeySmooth, Matches, Newest
  <2>8. CASE UpdateInfo(r)
    <3>1. /\ cache'[k].date = rec[r].date /\ cache'[k].combo = rec[r].combo + 1
          /\ pc[r] = "updateInfo" /\ UNCHANGED records
      BY <1>4, <2>8 DEF UpdateInfo, Typed, CacheTypes, stores
    <3>2. pc'[r] # "updateInfo"
      <4>1. ~ (InsertRecord(r) \/ AdoptRecord(r))
        BY <3>1 DEF InsertRecord, AdoptRecord
      <4> QED BY <4>1, CameBy
    <3>3. RecordsOf(k)' = RecordsOf(k)
      BY <3>1 DEF RecordsOf
    <3>4. Counted(k, L)' = RecordsOf(k)
      BY <2>6, <3>2, <3>3
    <3>5. PICK o \in Latest(k) : o.date = rec[r].date /\ o.combo = rec[r].combo + 1
      BY <2>1, <3>1 DEF ReqSmooth, OwnBooked
    <3>6. \A e \in Newest(RecordsOf(k)) : e = o
      <4>1. \A e \in RecordsOf(k) : e.date \in Nat
        BY DEF RecordsOf, Typed, StoreTypes, Record, Day
      <4>2. \A e \in Newest(RecordsOf(k)) : e.date = o.date
        BY <4>1 DEF Newest, Latest
      <4> QED BY <4>2 DEF Newest, Latest, RowInv, RecordsOf
    <3> QED BY <3>1, <3>4, <3>5, <3>6 DEF KeySmooth, Matches, Newest
  <2>9. CASE InsertRecord(r)
    <3>1. pc[r] = "insert" /\ pc'[r] = "updateInfo" /\ UNCHANGED <<cache, cached>>
      BY <2>9 DEF InsertRecord, Goto, Typed, Held, caches
    <3>2. PICK n : n = NewRecord(r)
      OBVIOUS
    <3>3. n \notin RecordsOf(k) /\ RecordsOf(k)' = RecordsOf(k) \cup {n} /\ n.id = r
      BY <1>4, <2>9, <3>2, InsertAdds DEF NewRecord
    <3>4. \A e \in RecordsOf(k) : e.id \in Reqs /\ pc'[e.id] = pc[e.id]
      <4> TAKE e \in RecordsOf(k)
      <4>1. e.id \in Reqs /\ e \in records /\ e \in records' /\ n \in records'
        BY <2>9, <3>3 DEF RecordsOf, Typed, StoreTypes, Record, InsertRecord
      <4>2. e.id # r
        BY <3>3, <4>1 DEF RowInv
      <4> QED BY <4>1, <4>2, TotalsSteps
    <3>5. Counted(k, L)' = Counted(k, L)
      <4>1. Counted(k, L) = RecordsOf(k)
        BY <2>4, <3>1
      <4>2. \A e \in RecordsOf(k) : pc[e.id] \notin L
        BY <4>1 DEF Counted
      <4> QED BY <2>5, <3>1, <3>3, <3>4, <4>1, <4>2
    <3> QED BY <1>1, <3>1, <3>5 DEF KeySmooth, Matches, Newest
  <2>10. CASE ~ (FillInfo(r) \/ UpdateInfo(r) \/ InsertRecord(r))
    <3>1. cache'[k] = cache[k] /\ records' = records /\ (k \in cached' => k \in cached)
      BY <1>2, <2>10, TotalsSteps
    <3>2. pc[r] # "updateInfo"
      <4>1. pc[r] = "updateInfo" => UpdateInfo(r) \/ Stop(r)
        BY DEF Step, Arrive, Reject, ReadStep, ReadInfoHit, ReadInfoMiss, ReadInfoError,
           ReadRecord, ReadStatus, FillInfo, SkipFillInfo, ReadSumHit, ReadSumMiss, ReadSumError,
           RecoverSum, FillSum, SkipFillSum, MatchStep, AlreadyMatched, GenerateMatchFund,
           Charge, Stamp, InsertRecord, InsertDuplicate, AdoptRecord, UpdateSum, WriteStatus,
           WriteRank, SkipRank
      <4> QED BY <1>4, <2>2, <2>10, <4>1, NoStops
    <3>3. pc'[r] # "updateInfo"
      <4>1. AdoptRecord(r) => pc[r] = "readDup"
        BY DEF AdoptRecord
      <4> QED BY <2>1, <2>10, <4>1, CameBy DEF ReqSmooth
    <3>4. RecordsOf(k)' = RecordsOf(k)
      BY <3>1 DEF RecordsOf
    <3>5. Counted(k, L)' = Counted(k, L)
      BY <2>4, <2>6, <3>2, <3>3, <3>4
    <3> QED BY <1>1, <3>1, <3>5 DEF KeySmooth, Matches, Newest
  <2> QED BY <2>7, <2>8, <2>9, <2>10
<1> QED BY <1>3, <1>4

LEMMA StepSmoothOwn ==
  ASSUME Typed, Typed', RowInv, OneBusy, SmoothInv, NEW r \in Reqs, Step(r),
         NEW k \in Key, k = <<req'[r].user, req'[r].act>>, Smooth(k[1])', pc'[r] \in Running
  PROVE  ReqSmooth(r, k)'
<1> Held /\ today \in Nat /\ today' = today
  BY SameDay DEF Typed
<1> USE DEF stores
<1>0. Next
  BY DEF Next
<1>1. pc[r] \in Running => k = KeyOf(r)
  BY TotalsSteps DEF KeyOf, Running
<1>2. KeySmooth(k) /\ (pc[r] \in Running => ReqSmooth(r, k))
  BY <1>0, <1>1, SmoothBefore DEF SmoothInv
<1>3. Solo(k[1])
  BY <1>0, SmoothBefore
<1>4. pc[r] \in Running => /\ ~ ReadInfoError(r) /\ ~ SkipFillInfo(r) /\ ~ ReadSumError(r)
                           /\ ~ SkipFillSum(r) /\ ~ SkipRank(r) /\ ~ Stop(r)
  <2>1. pc[r] \in Running => req[r].user = k[1]
    BY <1>1 DEF KeyOf
  <2> QED BY <2>1, NoStops DEF Smooth
<1>5. \A e \in RecordsOf(k) : e.date \in Nat /\ e.date <= today
  BY DEF RowInv, RecordsOf
<1>6. UNCHANGED records => RecordsOf(k)' = RecordsOf(k)
  BY DEF RecordsOf
<1>7. \A m : Matches(m, RecordsOf(k)) /\ RecordsOf(k)' = RecordsOf(k) /\ m = rec'[r]
             => Matches(rec[r], RecordsOf(k))'
  BY DEF Matches, Newest
<1>8. Asking(r)' => Matches(rec[r], RecordsOf(k))'
  <2> SUFFICES ASSUME Asking(r)' PROVE Matches(rec[r], RecordsOf(k))'
    OBVIOUS
  <2>1. UNCHANGED records /\ pc[r] \in Running
    BY <1>1, AskingFrom
  <2>2. CASE pc[r] = "readInfo" /\ k \in cached
             /\ rec'[r] = [date |-> cache[k].date, combo |-> cache[k].combo, fund |-> cache[k].fund]
    <3>1. k[1] = req[r].user
      BY <1>1, <2>1 DEF KeyOf
    <3>2. Counted(k, {"updateInfo"}) = RecordsOf(k)
      BY <1>3, <2>1, <2>2, <3>1, CountedOwn DEF Running
    <3>3. Matches(rec'[r], RecordsOf(k))
      BY <1>2, <2>2, <3>2 DEF KeySmooth, Matches
    <3> QED BY <1>6, <1>7, <2>1, <3>3
  <2>3. CASE (pc[r] \in {"readStatus", "fillInfo"} \/ Asking(r)) /\ rec'[r] = rec[r]
    BY <1>2, <1>6, <1>7, <2>1, <2>3 DEF ReqSmooth
  <2> QED BY <1>1, <1>4, <2>1, <2>2, <2>3, AskingFrom
<1>9. pc'[r] \in {"readStatus", "fillInfo"} => Matches(rec[r], RecordsOf(k))'
  <2>1. CASE pc'[r] = "readStatus"
    <3>1. pc[r] \in Running /\ rec'[r] = LastRecord(KeyOf(r)) /\ UNCHANGED records
      BY <2>1, CameBy DEF ReadRecord, Running, Held
    <3> QED BY <1>1, <1>6, <1>7, <3>1, LastMatches
  <2>2. CASE pc'[r] = "fillInfo"
    <3>1. pc[r] \in Running /\ pc[r] = "readStatus" /\ UNCHANGED <<records, rec>>
      BY <2>2, CameBy DEF ReadStatus, Running
    <3> QED BY <1>2, <1>6, <1>7, <3>1 DEF ReqSmooth
  <2> QED BY <2>1, <2>2
<1>10. pc'[r] \in {"charge", "stamp"} => \A e \in RecordsOf(k)' : e.date < today'
  <2>1. CASE pc'[r] = "charge"
    <3>1. pc[r] = "generate" /\ rec[r].date # today /\ UNCHANGED records /\ pc[r] \in Running
      BY <2>1, CameBy DEF GenerateMatchFund, Running
    <3>2. \A l \in Latest(k) : rec[r].date = l.date
      BY <1>2, <3>1 DEF ReqSmooth, Asking, Matches, Newest, Latest
    <3>3. \A l \in Latest(k) : l.date < today /\ l.date \in Nat
      BY <1>5, <3>1, <3>2 DEF Latest
    <3>4. \A e \in RecordsOf(k) : e.date < today
      BY <1>5, <3>3, LatestIsReached
    <3> QED BY <1>6, <3>1, <3>4
  <2>2. CASE pc'[r] = "stamp"
    <3>1. pc[r] = "charge" /\ UNCHANGED records /\ pc[r] \in Running
      BY <2>2, CameBy DEF Charge, Running
    <3> QED BY <1>2, <1>6, <3>1 DEF ReqSmooth
  <2> QED BY <2>1, <2>2
<1>11. pc'[r] = "insert" => \A e \in RecordsOf(k)' : e.date < rec'[r].date
  <2>1. Stamp(r) => pc[r] = "stamp" /\ rec'[r].date = today /\ UNCHANGED records /\ pc[r] \in Running
    BY DEF Stamp, Held, Running
  <2> QED BY <1>2, <1>6, <2>1, CameBy DEF ReqSmooth
<1>12. pc'[r] # "readDup"
  <2> SUFFICES ASSUME InsertDuplicate(r) PROVE FALSE
    BY CameBy
  <2>1. pc[r] = "insert" /\ HasRecord(KeyOf(r), rec[r].date) /\ pc[r] \in Running
    BY DEF InsertDuplicate, Running
  <2>2. PICK e \in RecordsOf(k) : e.date = rec[r].date
    BY <1>1, <2>1 DEF HasRecord
  <2>3. e.date < rec[r].date
    BY <1>2, <2>1 DEF ReqSmooth
  <2> QED BY <1>5, <2>2, <2>3
<1>13. pc'[r] \in {"updateInfo", "updateSum", "writeStatus", "writeRank"} => OwnBooked(r, k)'
  <2>1. CASE pc'[r] = "updateInfo"
    <3>1. InsertRecord(r)
      <4>1. AdoptRecord(r) => pc[r] = "readDup" /\ pc[r] \in Running
        BY DEF AdoptRecord, Running
      <4> QED BY <1>2, <2>1, <4>1, CameBy DEF ReqSmooth
    <3>2. pc[r] = "insert" /\ pc[r] \in Running /\ UNCHANGED rec
      BY <3>1 DEF InsertRecord, Running
    <3>3. PICK n : n = NewRecord(r)
      OBVIOUS
    <3>4. \A e \in RecordsOf(k) : e.date <= rec[r].date
      <4>1. rec[r].date \in Nat
        BY DEF Held, Match, Day
      <4> QED BY <1>2, <1>5, <3>2, <4>1 DEF ReqSmooth
    <3>5. Latest(k)' = {n}
      BY <1>1, <3>1, <3>2, <3>3, <3>4, InsertAdds
    <3>6. n.id = r /\ n.date = rec[r].date /\ n.fund = rec[r].fund /\ n.combo = rec[r].combo + 1
      BY <3>3 DEF NewRecord
    <3>7. n \in Latest(k)' /\ rec'[r] = rec[r]
      BY <3>2, <3>5
    <3> QED BY <3>6, <3>7 DEF OwnBooked
  <2>2. CASE pc'[r] \in {"updateSum", "writeStatus", "writeRank"}
    <3>1. /\ pc[r] \in {"updateInfo", "updateSum", "writeStatus"} /\ pc[r] \in Running
          /\ UNCHANGED records /\ rec'[r] = rec[r]
      <4>1. UpdateInfo(r) \/ UpdateSum(r) \/ (WriteStatus(r) /\ pc'[r] = "writeRank")
        BY <2>2, CameBy
      <4>2. WriteStatus(r) /\ pc'[r] = "writeRank" => rec'[r] = rec[r]
        BY DEF WriteStatus, Succeed, Return, Held
      <4> QED BY <4>1, <4>2 DEF UpdateInfo, UpdateSum, WriteStatus, Running
    <3>2. OwnBooked(r, k)
      BY <1>2, <3>1 DEF ReqSmooth
    <3>3. Latest(k)' = Latest(k)
      BY <1>6, <3>1 DEF Latest
    <3> QED BY <3>1, <3>2, <3>3 DEF OwnBooked
  <2> QED BY <2>1, <2>2
<1> QED BY <1>8, <1>9, <1>10, <1>11, <1>12, <1>13 DEF ReqSmooth

LEMMA ReqSmoothFrame ==
  ASSUME NEW x, NEW k, ReqSmooth(x, k), RecordsOf(k)' = RecordsOf(k),
         pc'[x] = pc[x], req'[x] = req[x], rec'[x] = rec[x], today' = today
  PROVE  ReqSmooth(x, k)'
<1>1. Latest(k)' = Latest(k)
  BY DEF Latest
<1>2. Matches(rec[x], RecordsOf(k))' <=> Matches(rec[x], RecordsOf(k))
  BY DEF Matches, Newest
<1>3. Asking(x)' <=> Asking(x)
  BY DEF Asking
<1>4. OwnBooked(x, k)' <=> OwnBooked(x, k)
  BY <1>1 DEF OwnBooked
<1> QED BY <1>2, <1>3, <1>4 DEF ReqSmooth

(* What holds of a request of a user stays when another request steps, as   *)
(* long as the requests of the user do not overlap.                         *)
LEMMA OtherSteps ==
  ASSUME Typed, Typed', OneBusy, NEW r \in Reqs, Step(r), NEW x \in Reqs, x # r,
         NEW k \in Key, pc'[x] \in Running, k = <<req'[x].user, req'[x].act>>, Solo(k[1])'
  PROVE  /\ pc[x] \in Running /\ k = KeyOf(x) /\ Solo(k[1])
         /\ pc'[x] = pc[x] /\ req'[x] = req[x] /\ rec'[x] = rec[x] /\ totals'[x] = totals[x]
         /\ today' = today
         /\ pc[r] \in Running => req[r].user # k[1]
         /\ pc'[r] \in Running => req'[r].user # k[1]
         /\ ~ (pc[r] \in Running /\ k = KeyOf(r))
<1>1. req'[x] \in Request /\ pc'[x] = pc[x] /\ req'[x] = req[x] /\ rec'[x] = rec[x]
      /\ totals'[x] = totals[x] /\ today' = today
  BY TotalsSteps, SameDay DEF Typed, Held
<1>2. k[1] = req[x].user /\ k = KeyOf(x)
  BY <1>1 DEF KeyOf
<1>3. Solo(req[x].user)'
  BY <1>1, <1>2 DEF Solo
<1>4. /\ pc[r] \in Running => req[r].user # k[1]
      /\ pc'[r] \in Running => req'[r].user # k[1]
      /\ Solo(k[1])
  BY <1>1, <1>2, <1>3, StepAlone DEF Solo
<1> QED BY <1>1, <1>2, <1>4 DEF KeyOf

LEMMA StepSmooth ==
  ASSUME Typed, Typed', Finite, RowInv, RowInv', OneBusy, OneBusy', SmoothInv,
         NEW r \in Reqs, Step(r)
  PROVE  SmoothInv'
<1>0. Next
  BY DEF Next
<1>1. \A k \in Key : Smooth(k[1])' => KeySmooth(k)'
  BY StepSmoothKey
<1>2. ASSUME NEW x \in Reqs, NEW k \in Key, pc'[x] \in Running,
             k = <<req'[x].user, req'[x].act>>, Smooth(k[1])'
      PROVE  ReqSmooth(x, k)'
  <2>1. CASE x = r
    BY <1>2, <2>1, StepSmoothOwn
  <2>2. CASE x # r
    <3>1. Smooth(k[1]) /\ Solo(k[1])'
      BY <1>0, <1>2, SmoothBefore
    <3> QED BY <1>2, <2>2, <3>1, OtherSteps, StepElsewhere, ReqSmoothFrame DEF SmoothInv
  <2> QED BY <2>1, <2>2
<1>3. \A x \in Reqs : \A k \in Key :
        (pc[x] \in Running /\ k = KeyOf(x) /\ Smooth(k[1]))' => ReqSmooth(x, k)'
  BY <1>2 DEF KeyOf
<1> QED BY <1>1, <1>3 DEF SmoothInv, Key

LEMMA OthersSmooth ==
  ASSUME Typed, Typed', SmoothInv, Environment \/ UNCHANGED vars
  PROVE  SmoothInv'
<1> USE DEF locals, stores, caches
<1>1. UNCHANGED <<pc, req, rec, records>>
  BY DEF Environment, EvictInfo, EvictSum, NextDay, vars
<1>2. \A k \in Key : Smooth(k[1])' => Smooth(k[1])
  <2>1. [Next]_vars
    BY DEF Next
  <2> QED BY <2>1, SmoothBefore
<1>3. \A k, L : RecordsOf(k)' = RecordsOf(k) /\ Counted(k, L)' = Counted(k, L)
  BY <1>1 DEF RecordsOf, Counted
<1>4. today' \in {today, today + 1} /\ today \in Nat
  BY DEF Environment, EvictInfo, EvictSum, NextDay, vars, Typed
<1>5. \A k \in Key : k \in cached' => k \in cached /\ cache'[k] = cache[k]
  BY DEF Environment, EvictInfo, EvictSum, NextDay, vars, Typed, CacheTypes
<1>6. ASSUME NEW k \in Key, Smooth(k[1]) PROVE KeySmooth(k)'
  BY <1>3, <1>5, <1>6 DEF SmoothInv, KeySmooth, Matches, Newest
<1>7. ASSUME NEW x \in Reqs, NEW k \in Key, pc[x] \in Running, k = KeyOf(x), Smooth(k[1])
      PROVE  ReqSmooth(x, k)'
  <2>1. ReqSmooth(x, k)
    BY <1>7 DEF SmoothInv
  <2>2. \A e \in RecordsOf(k) : e.date \in Nat
    BY DEF RecordsOf, Typed, StoreTypes, Record, Day
  <2>3. \A e \in RecordsOf(k) : e.date < today => e.date < today'
    BY <1>4, <2>2
  <2>4. Matches(rec[x], RecordsOf(k)) => Matches(rec[x], RecordsOf(k))'
    BY <1>1, <1>3 DEF Matches, Newest
  <2>5. Asking(x)' => Asking(x)
    BY <1>1 DEF Asking
  <2>6. OwnBooked(x, k) => OwnBooked(x, k)'
    BY <1>1, <1>3 DEF OwnBooked, Latest
  <2> QED BY <1>1, <1>3, <2>1, <2>3, <2>4, <2>5, <2>6 DEF ReqSmooth
<1>8. \A x \in Reqs : \A k \in Key :
         (pc[x] \in Running /\ k = KeyOf(x) /\ Smooth(k[1]))' => ReqSmooth(x, k)'
  BY <1>1, <1>2, <1>7 DEF KeyOf
<1> QED BY <1>2, <1>6, <1>8 DEF SmoothInv, Key

LEMMA SmoothKept == Spec => []SmoothInv
<1>1. Init => SmoothInv
  <2> SUFFICES ASSUME Init PROVE SmoothInv
    OBVIOUS
  <2>1. \A r \in Reqs : pc[r] \notin Running
    BY DEF Init, Running
  <2>2. cached = {}
    BY DEF Init
  <2> QED BY <2>1, <2>2 DEF SmoothInv, KeySmooth
<1>2. /\ Typed /\ Typed' /\ Finite /\ RowInv /\ RowInv' /\ OneBusy /\ OneBusy' /\ SmoothInv
      /\ [Next]_vars
      => SmoothInv'
  BY StepSmooth, OthersSmooth DEF Next
<1> QED BY <1>1, <1>2, TypedInv, FiniteInv, RowsKept, OneBusyKept, PTL DEF Spec

(* A user who was not disturbed but for lost hashes: the combo drawn goes   *)
(* on with the record of yesterday, and starts anew without one.            *)
Streaky(u) == faults[u] \subseteq {"evict"}

Follows(c, d, S) == /\ (\A f \in S : f.date # d - 1) => c = 0
                    /\ \A f \in S : f.date = d - 1 => c = f.combo

ReqStreak(r, k) ==
  /\ pc[r] \in {"charge", "stamp", "insert"} => Follows(rec[r].combo, today, RecordsOf(k))
  /\ pc[r] = "insert" => rec[r].date = today

RecordFollows(e) == e.combo - 1 \in Nat /\ Follows(e.combo - 1, e.date, RecordsOf(<<e.user, e.act>>))

StreakInv ==
  /\ \A e \in records : Streaky(e.user) => RecordFollows(e)
  /\ \A r \in Reqs : \A k \in Key :
       pc[r] \in Running /\ k = KeyOf(r) /\ Streaky(k[1]) => ReqStreak(r, k)

LEMMA StreakyBefore ==
  ASSUME Typed, [Next]_vars, NEW k \in Key, Streaky(k[1])'
  PROVE  Streaky(k[1]) /\ Smooth(k[1]) /\ Smooth(k[1])' /\ Solo(k[1])'
BY FaultsGrow DEF Smooth, Solo, Streaky, Key

LEMMA StepStreakOwn ==
  ASSUME Typed, Typed', AllBacked, RowInv, OneBusy, SmoothInv, StreakInv, NEW r \in Reqs, Step(r),
         NEW k \in Key, k = <<req'[r].user, req'[r].act>>, Streaky(k[1])', pc'[r] \in Running
  PROVE  ReqStreak(r, k)'
<1> Held /\ today \in Nat /\ today' = today
  BY SameDay DEF Typed
<1> USE DEF stores
<1>0. Next
  BY DEF Next
<1>1. pc[r] \in Running => k = KeyOf(r)
  BY TotalsSteps DEF KeyOf, Running
<1>2. pc[r] \in Running => ReqSmooth(r, k) /\ ReqStreak(r, k)
  BY <1>0, <1>1, StreakyBefore DEF SmoothInv, StreakInv
<1>3. UNCHANGED records => RecordsOf(k)' = RecordsOf(k)
  BY DEF RecordsOf
<1>4. \A e \in RecordsOf(k) : e.date \in 1 .. today
  BY DEF RowInv, RecordsOf
<1>5. CASE pc'[r] = "charge"
  <2>1. PICK fund \in Funds : GenerateMatchFund(r, fund)
    BY <1>5, CameBy
  <2>2. /\ pc[r] = "generate" /\ rec[r].date # today /\ UNCHANGED records /\ pc[r] \in Running
        /\ rec'[r].combo = IF rec[r].date # 0 /\ rec[r].date = today - 1 THEN rec[r].combo ELSE 0
    BY <2>1 DEF GenerateMatchFund, Running, Held
  <2>3. \A l \in Latest(k) : rec[r].date = l.date /\ rec[r].combo = l.combo
    BY <1>2, <2>2 DEF ReqSmooth, Asking, Matches, Newest, Latest
  <2>4. \A e \in RecordsOf(k) : e.date < today
    <3>1. \A l \in Latest(k) : l.date < today /\ l.date \in Nat
      BY <1>4, <2>2, <2>3 DEF Latest
    <3> QED BY <1>4, <3>1, LatestIsReached
  <2>5. ASSUME NEW f \in RecordsOf(k), f.date = today - 1 PROVE rec'[r].combo = f.combo
    <3>1. f \in Latest(k)
      BY <1>4, <2>4, <2>5 DEF Latest
    <3>2. rec[r].date = today - 1 /\ rec[r].date # 0
      BY <1>4, <2>3, <2>5, <3>1
    <3> QED BY <2>2, <2>3, <3>1, <3>2
  <2>6. ASSUME \A f \in RecordsOf(k) : f.date # today - 1 PROVE rec'[r].combo = 0
    <3>1. rec[r].date # 0 => Backed(k, rec[r])
      BY <1>1, <2>2 DEF AllBacked, RequestBacked, MayHold
    <3>2. ~ (rec[r].date # 0 /\ rec[r].date = today - 1)
      BY <2>6, <3>1 DEF Backed
    <3> QED BY <2>2, <3>2
  <2>7. Follows(rec'[r].combo, today, RecordsOf(k))
    BY <2>5, <2>6 DEF Follows
  <2>8. RecordsOf(k)' = RecordsOf(k)
    BY <1>3, <2>2
  <2> QED BY <1>5, <2>7, <2>8 DEF ReqStreak, Follows
<1>6. CASE pc'[r] = "stamp"
  <2>1. pc[r] = "charge" /\ UNCHANGED <<records, rec>> /\ pc[r] \in Running
    BY <1>6, CameBy DEF Charge, Running
  <2>2. Follows(rec[r].combo, today, RecordsOf(k)) /\ RecordsOf(k)' = RecordsOf(k)
    BY <1>2, <1>3, <2>1 DEF ReqStreak
  <2> QED BY <1>6, <2>1, <2>2 DEF ReqStreak, Follows
<1>7. CASE pc'[r] = "insert"
  <2>1. Stamp(r)
    BY <1>7, CameBy
  <2>2. /\ pc[r] = "stamp" /\ UNCHANGED records /\ pc[r] \in Running
        /\ rec'[r].date = today /\ rec'[r].combo = rec[r].combo
    BY <2>1 DEF Stamp, Running, Held, Match
  <2>3. Follows(rec[r].combo, today, RecordsOf(k)) /\ RecordsOf(k)' = RecordsOf(k)
    BY <1>2, <1>3, <2>2 DEF ReqStreak
  <2> QED BY <1>7, <2>2, <2>3 DEF ReqStreak, Follows
<1> QED BY <1>5, <1>6, <1>7 DEF ReqStreak

LEMMA StepStreakRecords ==
  ASSUME Typed, Typed', RowInv, OneBusy, SmoothInv, StreakInv, NEW r \in Reqs, Step(r),
         NEW e \in records', Streaky(e.user)'
  PROVE  RecordFollows(e)'
<1>0. Next
  BY DEF Next
<1> DEFINE k == <<e.user, e.act>>
<1>1. e \in Record /\ k \in Key
  BY DEF Typed, StoreTypes, Record, Key
<1>2. Streaky(e.user)
  BY <1>0, <1>1, StreakyBefore
<1>3. ASSUME e \in records, RecordsOf(k)' = RecordsOf(k) PROVE RecordFollows(e)'
  BY <1>2, <1>3 DEF StreakInv, RecordFollows, Follows
<1>4. CASE UNCHANGED records
  BY <1>3, <1>4 DEF RecordsOf
<1>5. CASE InsertRecord(r)
  <2>0. PICK n : n = NewRecord(r)
    OBVIOUS
  <2>1. /\ pc[r] = "insert" /\ pc[r] \in Running /\ records' = records \cup {n}
        /\ KeyOf(r) \in Key
    <3>1. pc[r] = "insert" /\ pc[r] \in Running /\ records' = records \cup {n}
      BY <1>5, <2>0 DEF InsertRecord, Running, NewRecord
    <3> QED BY <3>1, KeyOfRunning DEF Typed
  <2>2. n.user = req[r].user /\ n.act = req[r].act /\ n.date = rec[r].date
        /\ n.combo = rec[r].combo + 1 /\ rec[r].combo \in Nat
    BY <2>0 DEF NewRecord, Typed, Held, Match
  <2>3. CASE k # KeyOf(r)
    <3>1. e \in records
      BY <2>1, <2>2, <2>3 DEF KeyOf
    <3>2. RecordsOf(k)' = RecordsOf(k)
      BY <1>1, <2>3, StepElsewhere
    <3> QED BY <1>3, <3>1, <3>2
  <2>4. CASE k = KeyOf(r)
    <3>1. ReqStreak(r, k)
      BY <1>1, <1>2, <2>1, <2>4 DEF StreakInv
    <3>2. rec[r].date = today /\ Follows(rec[r].combo, today, RecordsOf(k)) /\ n.date = today
      BY <2>1, <2>2, <3>1 DEF ReqStreak
    <3>3. RecordsOf(k)' = RecordsOf(k) \cup {n}
      BY <1>5, <2>0, <2>4, InsertAdds
    <3>4. \A f \in records : f.date \in 1 .. today
      BY DEF RowInv
    <3>5. today \in Nat
      BY DEF Typed
    <3>6. CASE e \in records
      <4>1. n.date # e.date - 1
        BY <3>2, <3>4, <3>5, <3>6
      <4>2. RecordFollows(e)
        BY <1>2, <3>6 DEF StreakInv
      <4>3. \A f : f \in RecordsOf(k)' /\ f.date = e.date - 1
                   <=> f \in RecordsOf(k) /\ f.date = e.date - 1
        BY <3>3, <4>1
      <4> QED BY <4>2, <4>3 DEF RecordFollows, Follows
    <3>7. CASE e = n
      <4>1. n.date # n.date - 1
        BY <3>2, <3>5
      <4>2. e.combo - 1 = rec[r].combo /\ e.date = today /\ rec[r].combo \in Nat
        BY <2>2, <3>2, <3>7
      <4>3. Follows(e.combo - 1, e.date, RecordsOf(k))
        BY <3>2, <4>2
      <4>4. \A f : f \in RecordsOf(k)' /\ f.date = e.date - 1
                   <=> f \in RecordsOf(k) /\ f.date = e.date - 1
        BY <3>3, <3>7, <4>1
      <4> QED BY <4>2, <4>3, <4>4 DEF RecordFollows, Follows
    <3> QED BY <2>1, <3>6, <3>7
  <2> QED BY <2>3, <2>4
<1> QED BY <1>4, <1>5, TotalsSteps

LEMMA StepStreak ==
  ASSUME Typed, Typed', AllBacked, RowInv, OneBusy, SmoothInv, StreakInv, NEW r \in Reqs, Step(r)
  PROVE  StreakInv'
<1>0. Next
  BY DEF Next
<1>1. \A e \in records' : Streaky(e.user)' => RecordFollows(e)'
  BY StepStreakRecords
<1>2. ASSUME NEW x \in Reqs, NEW k \in Key, pc'[x] \in Running,
             k = <<req'[x].user, req'[x].act>>, Streaky(k[1])'
      PROVE  ReqStreak(x, k)'
  <2>1. CASE x = r
    BY <1>2, <2>1, StepStreakOwn
  <2>2. CASE x # r
    <3>1. Streaky(k[1]) /\ Solo(k[1])'
      BY <1>0, <1>2, StreakyBefore
    <3>2. ReqStreak(x, k)
      BY <1>2, <2>2, <3>1, OtherSteps DEF StreakInv
    <3>3. RecordsOf(k)' = RecordsOf(k) /\ pc'[x] = pc[x] /\ rec'[x] = rec[x] /\ today' = today
      BY <1>2, <2>2, <3>1, OtherSteps, StepElsewhere
    <3> QED BY <3>2, <3>3 DEF ReqStreak, Follows
  <2> QED BY <2>1, <2>2
<1>3. \A x \in Reqs : \A k \in Key :
        (pc[x] \in Running /\ k = KeyOf(x) /\ Streaky(k[1]))' => ReqStreak(x, k)'
  BY <1>2 DEF KeyOf
<1> QED BY <1>1, <1>3 DEF StreakInv, Key

(* Midnight marks the users whose requests are running.                     *)
LEMMA MidnightMarks ==
  ASSUME Typed, NextDay, NEW x \in Reqs, pc[x] \in Running
  PROVE  "midnight" \in faults'[req[x].user]
<1>1. req[x].user \in Users
  BY KeyOfRunning DEF Typed
<1>2. Busy(req[x].user) # {}
  BY DEF Busy
<1> QED BY <1>1, <1>2 DEF NextDay

LEMMA OthersStreak ==
  ASSUME Typed, Typed', StreakInv, Environment \/ UNCHANGED vars
  PROVE  StreakInv'
<1> USE DEF locals, stores, caches
<1>1. UNCHANGED <<pc, req, rec, records>>
  BY DEF Environment, EvictInfo, EvictSum, NextDay, vars
<1>2. [Next]_vars
  BY DEF Next
<1>3. \A k : RecordsOf(k)' = RecordsOf(k)
  BY <1>1 DEF RecordsOf
<1>4. ASSUME NEW e \in records, Streaky(e.user)' PROVE RecordFollows(e)'
  <2>1. <<e.user, e.act>> \in Key
    BY DEF Typed, StoreTypes, Record, Key
  <2>2. RecordFollows(e)
    BY <1>2, <1>4, <2>1, StreakyBefore DEF StreakInv
  <2> QED BY <1>3, <2>2 DEF RecordFollows, Follows
<1>5. ASSUME NEW x \in Reqs, NEW k \in Key, pc[x] \in Running, k = KeyOf(x), Streaky(k[1])'
      PROVE  ReqStreak(x, k)'
  <2>1. ReqStreak(x, k)
    BY <1>2, <1>5, StreakyBefore DEF StreakInv
  <2>2. today' = today
    <3>1. ~ NextDay
      <4>1. req[x].user = k[1]
        BY <1>5 DEF KeyOf
      <4> QED BY <1>5, <4>1, MidnightMarks DEF Streaky
    <3> QED BY <3>1 DEF Environment, EvictInfo, EvictSum, vars
  <2> QED BY <1>1, <1>3, <2>1, <2>2 DEF ReqStreak, Follows
<1>6. \A x \in Reqs : \A k \in Key :
         (pc[x] \in Running /\ k = KeyOf(x) /\ Streaky(k[1]))' => ReqStreak(x, k)'
  BY <1>1, <1>5 DEF KeyOf
<1> QED BY <1>1, <1>4, <1>6 DEF StreakInv, Key

(* Requests one at a time, none failing, none across midnight: the combo of *)
(* a record is the number of days in a row up to it.                        *)
THEOREM ComboCountsDays == Spec => []ComboIsStreak
<1>1. Init => StreakInv
  BY DEF Init, StreakInv, Running
<1>2. /\ Typed /\ Typed' /\ AllBacked /\ RowInv /\ OneBusy /\ SmoothInv /\ StreakInv
      /\ [Next]_vars
      => StreakInv'
  BY StepStreak, OthersStreak DEF Next
<1>3. Typed /\ StreakInv => ComboIsStreak
  <2> SUFFICES ASSUME Typed, StreakInv, NEW e \in records, Streaky(e.user),
                      NEW S, S = {f \in RecordsOf(<<e.user, e.act>>) : f.date = e.date - 1}
               PROVE  (S = {} => e.combo = 1) /\ \A f \in S : e.combo = f.combo + 1
    BY DEF ComboIsStreak, Only, Streaky
  <2>1. RecordFollows(e)
    BY DEF StreakInv
  <2>2. e.combo \in Nat /\ \A f \in S : f.combo \in Nat
    BY DEF Typed, StoreTypes, Record, RecordsOf
  <2>3. S = {} => e.combo - 1 = 0
    BY <2>1 DEF RecordFollows, Follows
  <2>4. \A f \in S : e.combo - 1 = f.combo
    BY <2>1 DEF RecordFollows, Follows
  <2> QED BY <2>2, <2>3, <2>4
<1> QED BY <1>1, <1>2, <1>3, TypedInv, BackedInv, RowsKept, OneBusyKept, SmoothKept, PTL DEF Spec

-----------------------------------------------------------------------------
(* The totals.  For a user whose requests came one at a time, did not stop  *)
(* and found the hashes where they were, every store has counted the records*)
(* of the requests that are past the step that writes it.                   *)
Tidy(u) == faults[u] \subseteq {"midnight"}

Exactly(t, S) == t.times = Cardinality(S) /\ t.funds = FundsOf(S)
CountedBy(u, L) == {e \in UserRecords(u) : pc[e.id] \notin L}

BeforeInfo == {"updateInfo"}
BeforeSum == {"updateInfo", "updateSum"}
BeforeStatus == {"updateInfo", "updateSum", "writeStatus"}
BeforeRank == {"updateInfo", "updateSum", "writeStatus", "writeRank"}
Stages == {BeforeInfo, BeforeSum, BeforeStatus, BeforeRank}

KeyTidy(k) ==
  /\ Exactly(status[k], Counted(k, BeforeStatus))
  /\ k \in cached => Exactly(cache[k], Counted(k, BeforeInfo))
  /\ k[2] # NoActivity => rank[k] = FundsOf(Counted(k, BeforeRank))

UserTidy(u) == u \in sumCached => Exactly(sumCache[u], CountedBy(u, BeforeSum))

ReqTidy(r, k) ==
  /\ pc[r] \in {"fillInfo", "updateSum", "writeStatus", "writeRank"} =>
       Exactly(totals[r], RecordsOf(k))
  /\ pc[r] = "fillSum" => Exactly(sum[r], UserRecords(k[1]))
  /\ Asking(r) \/ pc[r] \in {"charge", "stamp", "insert", "updateInfo"} => k \in cached
  /\ pc[r] \in {"generate", "charge", "stamp", "insert", "updateInfo", "updateSum"} =>
       k[1] \in sumCached

TidyInv ==
  /\ \A k \in Key : Tidy(k[1]) => KeyTidy(k)
  /\ \A u \in Users : Tidy(u) => UserTidy(u)
  /\ \A r \in Reqs : \A k \in Key :
       pc[r] \in Running /\ k = KeyOf(r) /\ Tidy(k[1]) => ReqTidy(r, k)

LEMMA StagesRun == \A L \in Stages : L \subseteq Running
BY DEF Stages, BeforeInfo, BeforeSum, BeforeStatus, BeforeRank, Running

LEMMA TidyBefore ==
  ASSUME Typed, [Next]_vars, NEW u \in Users, Tidy(u)'
  PROVE  Tidy(u) /\ Smooth(u) /\ Smooth(u)' /\ Solo(u) /\ Solo(u)' /\ "stop" \notin faults'[u]
BY FaultsGrow DEF Smooth, Solo, Tidy

(* What a step of request r writes of the other stores.                     *)
LEMMA StoreSteps ==
  ASSUME Typed, SummaryTypes, NEW r \in Reqs, Step(r)
  PROVE  /\ \A k \in Key : \/ rank'[k] = rank[k]
                           \/ k = KeyOf(r) /\ WriteRank(r)
         /\ \A k \in Key : k \in cached' => \/ k \in cached
                                            \/ k = KeyOf(r) /\ (FillInfo(r) \/ UpdateInfo(r))
         /\ cached \subseteq cached' /\ sumCached \subseteq sumCached'
         /\ \A u \in Users : \/ sumCache'[u] = sumCache[u] /\ (u \in sumCached' => u \in sumCached)
                             \/ u = req[r].user /\ (FillSum(r) \/ UpdateSum(r))
         /\ \A x \in Reqs \ {r} : sum'[x] = sum[x] /\ raw'[x] = raw[x]
<1> Held /\ rank \in [Key -> Nat]
  BY DEF Typed, StoreTypes
<1> USE DEF stores, caches
<1>1. WriteRank(r) \/ UNCHANGED rank
  BY DEF Step, Arrive, Reject, ReadStep, ReadInfoHit, ReadInfoMiss, ReadInfoError, ReadRecord,
     ReadStatus, FillInfo, SkipFillInfo, ReadSumHit, ReadSumMiss, ReadSumError, RecoverSum,
     FillSum, SkipFillSum, MatchStep, AlreadyMatched, GenerateMatchFund, Charge, Stamp,
     InsertRecord, InsertDuplicate, AdoptRecord, UpdateInfo, UpdateSum, WriteStatus, SkipRank, Stop
<1>2. FillInfo(r) \/ UpdateInfo(r) \/ UNCHANGED cached
  BY DEF Step, Arrive, Reject, ReadStep, ReadInfoHit, ReadInfoMiss, ReadInfoError, ReadRecord,
     ReadStatus, SkipFillInfo, ReadSumHit, ReadSumMiss, ReadSumError, RecoverSum,
     FillSum, SkipFillSum, MatchStep, AlreadyMatched, GenerateMatchFund, Charge, Stamp,
     InsertRecord, InsertDuplicate, AdoptRecord, UpdateSum, WriteStatus, WriteRank, SkipRank, Stop
<1>3. FillSum(r) \/ UpdateSum(r) \/ UNCHANGED <<sumCached, sumCache>>
  BY DEF Step, Arrive, Reject, ReadStep, ReadInfoHit, ReadInfoMiss, ReadInfoError, ReadRecord,
     ReadStatus, FillInfo, SkipFillInfo, ReadSumHit, ReadSumMiss, ReadSumError, RecoverSum,
     SkipFillSum, MatchStep, AlreadyMatched, GenerateMatchFund, Charge, Stamp,
     InsertRecord, InsertDuplicate, AdoptRecord, UpdateInfo, WriteStatus, WriteRank, SkipRank, Stop
<1>4. \A k \in Key : rank'[k] = rank[k] \/ (k = KeyOf(r) /\ WriteRank(r))
  BY <1>1 DEF WriteRank
<1>5. FillInfo(r) \/ UpdateInfo(r) => cached' = cached \cup {KeyOf(r)}
  BY DEF FillInfo, UpdateInfo
<1>6. FillSum(r) \/ UpdateSum(r) =>
        /\ sumCached' = sumCached \cup {req[r].user}
        /\ \A u \in Users : u # req[r].user => sumCache'[u] = sumCache[u]
  BY DEF FillSum, UpdateSum, SummaryTypes
<1>7. ASSUME NEW x \in Reqs \ {r} PROVE sum'[x] = sum[x] /\ raw'[x] = raw[x]
  <2>1. \A how, answer : Return(r, how, answer) => sum'[x] = sum[x] /\ raw'[x] = raw[x]
    BY DEF Return, SummaryTypes, Held
  <2>2. \A info : InfoIs(r, info) => sum'[x] = sum[x] /\ raw'[x] = raw[x]
    BY <2>1 DEF InfoIs
  <2>3. \A s : SumIs(r, s) => sum'[x] = sum[x] /\ raw'[x] = raw[x]
    BY <2>1 DEF SumIs, SummaryTypes
  <2>4. ReadStep(r) => sum'[x] = sum[x] /\ raw'[x] = raw[x]
    BY <2>2, <2>3 DEF ReadStep, ReadInfoHit, ReadInfoMiss, ReadInfoError, ReadRecord,
       ReadStatus, FillInfo, SkipFillInfo, ReadSumHit, ReadSumMiss, ReadSumError, RecoverSum,
       FillSum, SkipFillSum, SummaryTypes
  <2>5. MatchStep(r) => sum'[x] = sum[x] /\ raw'[x] = raw[x]
    BY <2>1 DEF MatchStep, AlreadyMatched, GenerateMatchFund, Charge, Stamp,
       InsertRecord, InsertDuplicate, AdoptRecord, UpdateInfo, UpdateSum, WriteStatus, WriteRank,
       SkipRank, Succeed, Held
  <2> QED BY <2>1, <2>4, <2>5 DEF Step, Arrive, Reject, Stop
<1> QED BY <1>2, <1>3, <1>4, <1>5, <1>6, <1>7

(* The steps of a request of such a user, and what they do to the table.    *)
LEMMA OwnMoves ==
  ASSUME Typed, SmoothInv, NEW r \in Reqs, Step(r), pc[r] \in Running, Smooth(req[r].user)'
  PROVE  \/ /\ pc[r] \notin BeforeRank /\ pc'[r] \notin BeforeRank /\ UNCHANGED records
            /\ ~ InsertRecord(r) /\ ~ UpdateInfo(r) /\ ~ UpdateSum(r) /\ ~ WriteStatus(r)
            /\ ~ WriteRank(r)
         \/ InsertRecord(r) /\ pc[r] = "insert" /\ pc'[r] = "updateInfo"
         \/ UpdateInfo(r) /\ pc[r] = "updateInfo" /\ pc'[r] = "updateSum" /\ UNCHANGED records
         \/ UpdateSum(r) /\ pc[r] = "updateSum" /\ pc'[r] = "writeStatus" /\ UNCHANGED records
         \/ /\ WriteStatus(r) /\ pc[r] = "writeStatus" /\ UNCHANGED records
            /\ pc'[r] = IF req[r].act = NoActivity THEN "succeeded" ELSE "writeRank"
         \/ WriteRank(r) /\ pc[r] = "writeRank" /\ pc'[r] = "succeeded" /\ UNCHANGED records
<1> Held
  BY DEF Typed
<1> USE DEF stores
<1>1. /\ InsertRecord(r) => pc[r] = "insert" /\ pc'[r] = "updateInfo"
      /\ UpdateInfo(r) => pc[r] = "updateInfo" /\ pc'[r] = "updateSum" /\ UNCHANGED records
      /\ UpdateSum(r) => pc[r] = "updateSum" /\ pc'[r] = "writeStatus" /\ UNCHANGED records
      /\ WriteStatus(r) =>
           /\ pc[r] = "writeStatus" /\ UNCHANGED records
           /\ pc'[r] = IF req[r].act = NoActivity THEN "succeeded" ELSE "writeRank"
      /\ WriteRank(r) => pc[r] = "writeRank" /\ pc'[r] = "succeeded" /\ UNCHANGED records
  BY DEF InsertRecord, UpdateInfo, UpdateSum, WriteStatus, WriteRank, Succeed, Return, Goto, Held
<1>2. ASSUME ~ InsertRecord(r), ~ UpdateInfo(r), ~ UpdateSum(r), ~ WriteStatus(r), ~ WriteRank(r)
      PROVE  pc[r] \notin BeforeRank /\ pc'[r] \notin BeforeRank /\ UNCHANGED records
  <2>1. ~ SkipRank(r) /\ ~ Stop(r) /\ pc[r] # "readDup"
    <3>1. req[r].user \in Users /\ KeyOf(r) \in Key /\ KeyOf(r)[1] = req[r].user
      BY KeyOfRunning DEF Typed, KeyOf
    <3>2. Next
      BY DEF Next
    <3>3. Smooth(KeyOf(r)[1])
      <4>1. faults[req[r].user] \subseteq faults'[req[r].user]
        BY <3>1, <3>2, FaultsGrow
      <4> QED BY <3>1, <4>1, TotalsSteps DEF Smooth, Running
    <3>4. ReqSmooth(r, KeyOf(r))
      BY <3>1, <3>3 DEF SmoothInv
    <3>5. "stop" \notin faults'[req[r].user]
      BY TotalsSteps DEF Smooth, Running
    <3> QED BY <3>4, <3>5, NoStops DEF ReqSmooth
  <2>2. pc[r] \in BeforeRank => FALSE
    BY <1>2, <2>1 DEF BeforeRank, Step, Arrive, Reject, ReadStep, ReadInfoHit, ReadInfoMiss,
       ReadInfoError, ReadRecord, ReadStatus, FillInfo, SkipFillInfo, ReadSumHit, ReadSumMiss,
       ReadSumError, RecoverSum, FillSum, SkipFillSum, MatchStep, AlreadyMatched,
       GenerateMatchFund, Charge, Stamp, InsertDuplicate, AdoptRecord
  <2>3. AdoptRecord(r) => pc[r] = "readDup"
    BY DEF AdoptRecord
  <2>4. pc'[r] \notin BeforeRank
    BY <1>2, <2>1, <2>3, CameBy DEF BeforeRank
  <2> QED BY <1>2, <2>2, <2>4, TotalsSteps
<1> QED BY <1>1, <1>2

(* What a step of such a request does to the records of its user that a     *)
(* store has counted: they stay the same, or the step that leaves the stage *)
(* adds the record of the request.                                          *)
LEMMA OwnPasses ==
  ASSUME Typed, RowInv, RowInv', OneBusy, SmoothInv, NEW r \in Reqs, Step(r), pc[r] \in Running,
         NEW u, u = req[r].user, Smooth(u)', Solo(u), NEW L \in Stages
  PROVE  /\ ~ (pc[r] \in L /\ pc'[r] \notin L) =>
              \A e : e.user = u => (e \in records' /\ pc'[e.id] \notin L
                                    <=> e \in records /\ pc[e.id] \notin L)
         /\ pc[r] \in L /\ pc'[r] \notin L =>
              /\ records' = records
              /\ \A e \in records : e.user = u => /\ pc'[e.id] \notin L
                                                  /\ pc[e.id] \notin L <=> e.id # r
<1>1. u \in Users
  BY KeyOfRunning DEF Typed
<1>2. L \subseteq Running
  BY StagesRun
<1>3. ASSUME NEW e \in records, e.user = u, e.id # r
      PROVE  pc'[e.id] = pc[e.id] /\ pc[e.id] \notin L
  <2>1. e.id \in Reqs /\ req[e.id].user = u
    BY <1>3 DEF RowInv, Typed, StoreTypes, Record
  <2>2. r \in Busy(u)
    BY DEF Busy
  <2>3. pc[e.id] \in Running => e.id \in Busy(u)
    BY <2>1 DEF Busy
  <2> QED BY <1>1, <1>2, <1>3, <2>1, <2>2, <2>3, TotalsSteps DEF OneBusy
<1>4. CASE InsertRecord(r)
  <2>1. PICK n : n = NewRecord(r)
    OBVIOUS
  <2>2. /\ records' = records \cup {n} /\ n.id = r /\ n.user = u
        /\ pc[r] = "insert" /\ pc'[r] = "updateInfo"
    BY <1>4, <2>1 DEF InsertRecord, NewRecord, Goto, Typed, Held
  <2>3. n \notin records
    <3>1. n \notin RecordsOf(KeyOf(r))
      BY <1>4, <2>1, InsertAdds
    <3> QED BY <2>1, <3>1 DEF RecordsOf, KeyOf, NewRecord
  <2>4. \A e \in records : e.id # r
    BY <2>2, <2>3 DEF RowInv
  <2>5. pc[r] \notin L /\ pc'[r] \in L
    BY <2>2 DEF Stages, BeforeInfo, BeforeSum, BeforeStatus, BeforeRank
  <2> QED BY <1>3, <2>2, <2>4, <2>5
<1>5. CASE ~ InsertRecord(r)
  <2>1. records' = records
    BY <1>5, TotalsSteps
  <2>2. Smooth(req[r].user)'
    BY TotalsSteps DEF Smooth, Running
  <2>3. pc'[r] \in L => pc[r] \in L
    BY <1>5, <2>2, OwnMoves DEF Stages, BeforeInfo, BeforeSum, BeforeStatus, BeforeRank
  <2> QED BY <1>3, <2>1, <2>3
<1> QED BY <1>4, <1>5

(* The same for the records of a key and for those of the user.             *)
LEMMA OwnCounts ==
  ASSUME Typed, RowInv, RowInv', OneBusy, SmoothInv, NEW r \in Reqs, Step(r), pc[r] \in Running,
         NEW u, u = req[r].user, Smooth(u)', Solo(u), NEW L \in Stages,
         NEW k \in Key, k[1] = u
  PROVE  /\ ~ (pc[r] \in L /\ pc'[r] \notin L) =>
              Counted(k, L)' = Counted(k, L) /\ CountedBy(u, L)' = CountedBy(u, L)
         /\ pc[r] \in L /\ pc'[r] \notin L =>
              /\ RecordsOf(k)' = RecordsOf(k) /\ UserRecords(u)' = UserRecords(u)
              /\ Counted(k, L)' = RecordsOf(k) /\ CountedBy(u, L)' = UserRecords(u)
              /\ Counted(k, L) = {e \in RecordsOf(k) : e.id # r}
              /\ CountedBy(u, L) = {e \in UserRecords(u) : e.id # r}
<1>1. CASE ~ (pc[r] \in L /\ pc'[r] \notin L)
  BY <1>1, OwnPasses DEF Counted, CountedBy, RecordsOf, UserRecords
<1>2. CASE pc[r] \in L /\ pc'[r] \notin L
  BY <1>2, OwnPasses DEF Counted, CountedBy, RecordsOf, UserRecords
<1> QED BY <1>1, <1>2

(* While a request of a user runs, alone, and books nothing, every record   *)
(* of his has been counted.                                                 *)
LEMMA AllCounted ==
  ASSUME Typed, RowInv, OneBusy, NEW r \in Reqs, pc[r] \in Running, NEW u, u = req[r].user,
         Solo(u), NEW L \in Stages, pc[r] \notin L, NEW k \in Key, k[1] = u
  PROVE  Counted(k, L) = RecordsOf(k) /\ CountedBy(u, L) = UserRecords(u)
<1>1. L \subseteq Running /\ u \in Users
  BY StagesRun DEF Key
<1>2. ASSUME NEW e \in records, e.user = u PROVE pc[e.id] \notin L
  <2>1. e.id \in Reqs /\ req[e.id].user = u
    BY <1>2 DEF RowInv, Typed, StoreTypes, Record
  <2> QED BY <1>1, <2>1 DEF OneBusy, Busy
<1> QED BY <1>2 DEF Counted, CountedBy, RecordsOf, UserRecords

(* Totals that leave out one record, and count it.                          *)
LEMMA ExactAdd ==
  ASSUME NEW S, IsFiniteSet(S), S \subseteq Record, NEW e \in S, NEW t, Exactly(t, S \ {e})
  PROVE  \A s : s.times = t.times + 1 /\ s.funds = t.funds + e.fund => Exactly(s, S)
<1>1. PICK T : T = S \ {e}
  OBVIOUS
<1>2. IsFiniteSet(T) /\ T \subseteq Record /\ e \in Record /\ e \notin T /\ S = T \cup {e}
  BY <1>1, FS_Subset
<1>3. Cardinality(T) \in Nat /\ FundsOf(T) \in Nat
  BY <1>2, RecordSetNat
<1>4. t.times = Cardinality(T) /\ t.funds = FundsOf(T) /\ Within(t, T)
  BY <1>1, <1>3 DEF Exactly, Within
<1> QED BY <1>2, <1>3, <1>4, WithinAdd DEF Exactly

(* The record that a request has booked is the only one under its name.     *)
LEMMA OwnRecord ==
  ASSUME Typed, RowInv, NEW r \in Reqs, NEW k \in Key, OwnBooked(r, k)
  PROVE  \E o \in RecordsOf(k) :
           /\ o.id = r /\ o.fund = rec[r].fund /\ o.date = rec[r].date
           /\ o \in UserRecords(k[1])
           /\ {e \in RecordsOf(k) : e.id # r} = RecordsOf(k) \ {o}
           /\ {e \in UserRecords(k[1]) : e.id # r} = UserRecords(k[1]) \ {o}
<1>1. PICK o \in RecordsOf(k) : o.id = r /\ o.fund = rec[r].fund /\ o.date = rec[r].date
  BY DEF OwnBooked, Latest
<1>2. \A e \in records : e.id = r => e = o
  BY <1>1 DEF RowInv, RecordsOf
<1> QED BY <1>1, <1>2 DEF RecordsOf, UserRecords

LEMMA UserRecordsFinite ==
  ASSUME Typed, Finite, NEW u
  PROVE  IsFiniteSet(UserRecords(u)) /\ UserRecords(u) \subseteq Record
BY FS_Subset DEF Typed, Finite, StoreTypes, UserRecords

(* Each store after a step of a request.                                    *)
LEMMA StepTidyKey ==
  ASSUME Typed, SummaryTypes, Finite, RowInv, RowInv', OneBusy, SmoothInv, TidyInv,
         NEW r \in Reqs, Step(r), NEW k \in Key, Tidy(k[1])'
  PROVE  KeyTidy(k)'
<1>0. Next
  BY DEF Next
<1>1. k[1] \in Users
  BY DEF Key
<1>2. Tidy(k[1]) /\ Smooth(k[1]) /\ Smooth(k[1])' /\ Solo(k[1])
  BY <1>0, <1>1, TidyBefore
<1>3. KeyTidy(k)
  BY <1>2 DEF TidyInv
<1>4. FillInfo(r) \/ UpdateInfo(r) \/ WriteRank(r) => pc[r] \in Running
  BY DEF FillInfo, UpdateInfo, WriteRank, Running
<1>5. /\ rank'[k] = rank[k] \/ (k = KeyOf(r) /\ WriteRank(r))
      /\ k \in cached' => k \in cached \/ (k = KeyOf(r) /\ (FillInfo(r) \/ UpdateInfo(r)))
      /\ cache'[k] = cache[k] \/ (k = KeyOf(r) /\ (FillInfo(r) \/ UpdateInfo(r)))
      /\ status'[k] = status[k] \/ (k = KeyOf(r) /\ WriteStatus(r))
  BY StoreSteps, TotalsSteps
<1>6. CASE ~ (pc[r] \in Running /\ k = KeyOf(r))
  <2>1. \A L \in Stages : Counted(k, L)' = Counted(k, L)
    BY <1>6, CountedElsewhere
  <2>2. /\ Counted(k, BeforeInfo)' = Counted(k, BeforeInfo)
        /\ Counted(k, BeforeStatus)' = Counted(k, BeforeStatus)
        /\ Counted(k, BeforeRank)' = Counted(k, BeforeRank)
    BY <2>1 DEF Stages
  <2>3. rank'[k] = rank[k] /\ (k \in cached' => k \in cached) /\ cache'[k] = cache[k]
        /\ status'[k] = status[k]
    BY <1>4, <1>5, <1>6, StepElsewhere
  <2> QED BY <1>3, <2>2, <2>3 DEF KeyTidy, Exactly
<1>7. CASE pc[r] \in Running /\ k = KeyOf(r)
  <2>1. ReqTidy(r, k) /\ ReqSmooth(r, k)
    BY <1>2, <1>7 DEF TidyInv, SmoothInv
  <2>2. k[1] = req[r].user /\ k[2] = req[r].act
    BY <1>7 DEF KeyOf
  <2>3. /\ FillInfo(r) => pc[r] = "fillInfo"
        /\ UpdateInfo(r) => pc[r] = "updateInfo"
        /\ WriteStatus(r) => pc[r] = "writeStatus"
        /\ WriteRank(r) => pc[r] = "writeRank"
    BY DEF FillInfo, UpdateInfo, WriteStatus, WriteRank
  <2>4. Smooth(req[r].user)'
    BY <1>2, <1>7, <2>2, TotalsSteps DEF Smooth, Running
  <2>5. Exactly(status'[k], Counted(k, BeforeStatus)')
    <3>1. CASE WriteStatus(r)
      <4>1. pc[r] \in BeforeStatus /\ pc'[r] \notin BeforeStatus
        BY <1>7, <2>3, <2>4, <3>1, OwnMoves DEF BeforeStatus
      <4>2. Counted(k, BeforeStatus)' = RecordsOf(k)
        BY <1>2, <1>7, <2>2, <4>1, OwnCounts DEF Stages
      <4>3. Exactly(totals[r], RecordsOf(k))
        BY <2>1, <2>3, <3>1 DEF ReqTidy
      <4>4. status'[k].times = totals[r].times /\ status'[k].funds = totals[r].funds
        BY <1>7, <3>1 DEF WriteStatus, Typed, StoreTypes
      <4> QED BY <4>2, <4>3, <4>4 DEF Exactly
    <3>2. CASE ~ WriteStatus(r)
      <4>1. ~ (pc[r] \in BeforeStatus /\ pc'[r] \notin BeforeStatus)
        BY <1>7, <2>4, <3>2, OwnMoves DEF BeforeStatus, BeforeRank
      <4>2. Counted(k, BeforeStatus)' = Counted(k, BeforeStatus)
        BY <1>2, <1>7, <2>2, <4>1, OwnCounts DEF Stages
      <4> QED BY <1>3, <1>5, <3>2, <4>2 DEF KeyTidy
    <3> QED BY <3>1, <3>2
  <2>6. k \in cached' => Exactly(cache'[k], Counted(k, BeforeInfo)')
    <3>1. CASE UpdateInfo(r)
      <4>1. pc[r] \in BeforeInfo /\ pc'[r] \notin BeforeInfo
        BY <1>7, <2>3, <2>4, <3>1, OwnMoves DEF BeforeInfo
      <4>2. /\ Counted(k, BeforeInfo)' = RecordsOf(k)
            /\ Counted(k, BeforeInfo) = {e \in RecordsOf(k) : e.id # r}
        BY <1>2, <1>7, <2>2, <4>1, OwnCounts DEF Stages
      <4>3. PICK o \in RecordsOf(k) :
              o.fund = rec[r].fund /\ {e \in RecordsOf(k) : e.id # r} = RecordsOf(k) \ {o}
        BY <1>7, <2>1, <2>3, <3>1, OwnRecord DEF ReqSmooth
      <4>4. Exactly(cache[k], RecordsOf(k) \ {o})
        BY <1>3, <2>1, <2>3, <3>1, <4>2, <4>3 DEF KeyTidy, ReqTidy
      <4>5. cache'[k].times = cache[k].times + 1 /\ cache'[k].funds = cache[k].funds + o.fund
        BY <1>7, <3>1, <4>3 DEF UpdateInfo, Typed, CacheTypes
      <4>6. Exactly(cache'[k], RecordsOf(k))
        BY <4>4, <4>5, ExactAdd, RecordsOfFinite
      <4> QED BY <4>2, <4>6
    <3>2. CASE FillInfo(r)
      <4>1. pc[r] \notin BeforeInfo
        BY <2>3, <3>2 DEF BeforeInfo
      <4>2. Counted(k, BeforeInfo)' = Counted(k, BeforeInfo) /\ Counted(k, BeforeInfo) = RecordsOf(k)
        BY <1>2, <1>7, <2>2, <4>1, OwnCounts, AllCounted DEF Stages
      <4>3. Exactly(totals[r], RecordsOf(k))
        BY <2>1, <2>3, <3>2 DEF ReqTidy
      <4>4. cache'[k].times = totals[r].times /\ cache'[k].funds = totals[r].funds
        BY <1>7, <3>2 DEF FillInfo, Typed, CacheTypes
      <4> QED BY <4>2, <4>3, <4>4 DEF Exactly
    <3>3. CASE ~ UpdateInfo(r) /\ ~ FillInfo(r)
      <4>1. ~ (pc[r] \in BeforeInfo /\ pc'[r] \notin BeforeInfo)
        BY <1>7, <2>4, <3>3, OwnMoves DEF BeforeInfo, BeforeRank
      <4>2. Counted(k, BeforeInfo)' = Counted(k, BeforeInfo)
        BY <1>2, <1>7, <2>2, <4>1, OwnCounts DEF Stages
      <4> QED BY <1>3, <1>5, <3>3, <4>2 DEF KeyTidy
    <3> QED BY <3>1, <3>2, <3>3
  <2>7. k[2] # NoActivity => rank'[k] = FundsOf(Counted(k, BeforeRank)')
    <3>1. CASE WriteRank(r)
      <4>1. pc[r] \in BeforeRank /\ pc'[r] \notin BeforeRank
        BY <1>7, <2>3, <2>4, <3>1, OwnMoves DEF BeforeRank
      <4>2. Counted(k, BeforeRank)' = RecordsOf(k)
        BY <1>2, <1>7, <2>2, <4>1, OwnCounts DEF Stages
      <4>3. Exactly(totals[r], RecordsOf(k))
        BY <2>1, <2>3, <3>1 DEF ReqTidy
      <4>4. rank'[k] = totals[r].funds
        BY <1>7, <3>1 DEF WriteRank, Typed, StoreTypes
      <4> QED BY <4>2, <4>3, <4>4 DEF Exactly
    <3>2. CASE ~ WriteRank(r) /\ k[2] # NoActivity
      <4>1. ~ (pc[r] \in BeforeRank /\ pc'[r] \notin BeforeRank)
        BY <1>7, <2>2, <2>4, <3>2, OwnMoves DEF BeforeRank
      <4>2. Counted(k, BeforeRank)' = Counted(k, BeforeRank)
        BY <1>2, <1>7, <2>2, <4>1, OwnCounts DEF Stages
      <4> QED BY <1>3, <1>5, <3>2, <4>2 DEF KeyTidy
    <3> QED BY <3>1, <3>2
  <2> QED BY <2>5, <2>6, <2>7 DEF KeyTidy, Exactly
<1> QED BY <1>6, <1>7

(* The records of a user whose requests a step is not of stay where they    *)
(* are.                                                                     *)
LEMMA UserElsewhere ==
  ASSUME Typed, RowInv, NEW r \in Reqs, Step(r), NEW u, ~ (pc[r] \in Running /\ u = req[r].user),
         NEW L
  PROVE  UserRecords(u)' = UserRecords(u) /\ CountedBy(u, L)' = CountedBy(u, L)
<1>1. UserRecords(u)' = UserRecords(u)
  <2>1. InsertRecord(r) => records' = records \cup {NewRecord(r)} /\ pc[r] \in Running
    BY DEF InsertRecord, NewRecord, Running
  <2>2. NewRecord(r).user = req[r].user
    BY DEF NewRecord
  <2> QED BY <2>1, <2>2, TotalsSteps DEF UserRecords
<1>2. ASSUME NEW e \in UserRecords(u) PROVE pc'[e.id] = pc[e.id]
  <2>1. e.id \in Reqs /\ pc[e.id] # "idle" /\ req[e.id].user = u
    BY DEF UserRecords, RowInv, Typed, StoreTypes, Record
  <2>2. e.id # r
    BY <2>1, StepFrom
  <2> QED BY <2>1, <2>2, TotalsSteps
<1> QED BY <1>1, <1>2 DEF CountedBy

LEMMA StepTidyUser ==
  ASSUME Typed, SummaryTypes, Finite, RowInv, RowInv', OneBusy, SmoothInv, TidyInv,
         NEW r \in Reqs, Step(r), NEW u \in Users, Tidy(u)'
  PROVE  UserTidy(u)'
<1>0. Next
  BY DEF Next
<1>1. Tidy(u) /\ Smooth(u) /\ Smooth(u)' /\ Solo(u)
  BY <1>0, TidyBefore
<1>2. UserTidy(u)
  BY <1>1 DEF TidyInv
<1>3. /\ FillSum(r) => pc[r] = "fillSum"
      /\ UpdateSum(r) => pc[r] = "updateSum"
      /\ FillSum(r) \/ UpdateSum(r) => pc[r] \in Running
  BY DEF FillSum, UpdateSum, Running
<1>4. CASE ~ (pc[r] \in Running /\ u = req[r].user)
  <2>1. sumCache'[u] = sumCache[u] /\ (u \in sumCached' => u \in sumCached)
    BY <1>3, <1>4, StoreSteps
  <2>2. CountedBy(u, BeforeSum)' = CountedBy(u, BeforeSum)
    BY <1>4, UserElsewhere
  <2> QED BY <1>2, <2>1, <2>2 DEF UserTidy, Exactly
<1>5. CASE pc[r] \in Running /\ u = req[r].user
  <2>1. PICK k \in Key : k = KeyOf(r) /\ k[1] = u
    BY <1>5, KeyOfRunning DEF Typed, KeyOf
  <2>2. ReqTidy(r, k) /\ ReqSmooth(r, k)
    BY <1>1, <1>5, <2>1 DEF TidyInv, SmoothInv
  <2>3. Smooth(req[r].user)'
    BY <1>1, <1>5, TotalsSteps DEF Smooth, Running
  <2>4. BeforeSum \in Stages
    BY DEF Stages
  <2>5. CASE UpdateSum(r)
    <3>1. pc[r] \in BeforeSum /\ pc'[r] \notin BeforeSum
      BY <1>3, <2>3, <2>5, OwnMoves DEF BeforeSum
    <3>2. /\ CountedBy(u, BeforeSum)' = UserRecords(u)
          /\ CountedBy(u, BeforeSum) = {e \in UserRecords(u) : e.id # r}
      BY <1>1, <1>5, <2>1, <2>4, <3>1, OwnCounts
    <3>3. PICK o \in UserRecords(u) :
            o.fund = rec[r].fund /\ {e \in UserRecords(u) : e.id # r} = UserRecords(u) \ {o}
      BY <1>3, <1>5, <2>1, <2>2, <2>5, OwnRecord DEF ReqSmooth
    <3>4. Exactly(sumCache[u], UserRecords(u) \ {o})
      BY <1>2, <1>3, <2>1, <2>2, <2>5, <3>2, <3>3 DEF UserTidy, ReqTidy
    <3>5. sumCache'[u].times = sumCache[u].times + 1
          /\ sumCache'[u].funds = sumCache[u].funds + o.fund
      BY <1>5, <2>5, <3>3 DEF UpdateSum, SummaryTypes
    <3>6. Exactly(sumCache'[u], UserRecords(u))
      BY <3>4, <3>5, ExactAdd, UserRecordsFinite
    <3> QED BY <3>2, <3>6 DEF UserTidy, Exactly
  <2>6. CASE FillSum(r)
    <3>1. pc[r] \notin BeforeSum
      BY <1>3, <2>6 DEF BeforeSum
    <3>2. CountedBy(u, BeforeSum)' = CountedBy(u, BeforeSum)
          /\ CountedBy(u, BeforeSum) = UserRecords(u)
      BY <1>1, <1>5, <2>1, <2>4, <3>1, OwnCounts, AllCounted
    <3>3. Exactly(sum[r], UserRecords(u)) /\ sumCache'[u] = sum[r]
      BY <1>3, <1>5, <2>1, <2>2, <2>6 DEF ReqTidy, FillSum, SummaryTypes
    <3> QED BY <3>2, <3>3 DEF UserTidy, Exactly
  <2>7. CASE ~ UpdateSum(r) /\ ~ FillSum(r)
    <3>1. ~ (pc[r] \in BeforeSum /\ pc'[r] \notin BeforeSum)
      BY <1>5, <2>3, <2>7, OwnMoves DEF BeforeSum, BeforeRank
    <3>2. CountedBy(u, BeforeSum)' = CountedBy(u, BeforeSum)
      BY <1>1, <1>5, <2>1, <2>4, <3>1, OwnCounts
    <3>3. sumCache'[u] = sumCache[u] /\ (u \in sumCached' => u \in sumCached)
      BY <2>7, StoreSteps
    <3> QED BY <1>2, <3>2, <3>3 DEF UserTidy, Exactly
  <2> QED BY <2>5, <2>6, <2>7
<1> QED BY <1>4, <1>5

(* A request asks after the hash of its key is there.                       *)
LEMMA AskingHasHash ==
  ASSUME Typed, NEW r \in Reqs, Step(r), Asking(r)',
         ~ ReadInfoError(r), ~ SkipFillInfo(r), ~ ReadSumError(r), ~ SkipFillSum(r)
  PROVE  Asking(r) \/ KeyOf(r) \in cached'
<1> Held
  BY DEF Typed
<1>1. /\ ReadInfoHit(r) \/ FillInfo(r) => KeyOf(r) \in cached'
      /\ ReadSumMiss(r) => pc[r] = "readSum" /\ UNCHANGED req
      /\ RecoverSum(r) => pc[r] = "recoverSum" /\ UNCHANGED req
      /\ ReadSumHit(r) /\ pc'[r] = "generate" => pc[r] = "readSum" /\ req[r].op = "match"
      /\ FillSum(r) /\ pc'[r] = "generate" => pc[r] = "fillSum" /\ req[r].op = "match"
  BY DEF ReadInfoHit, FillInfo, ReadSumMiss, RecoverSum, ReadSumHit, FillSum, caches, SumIs,
     Return, Held
<1>2. ASSUME NEW q \in Request, Arrive(r, q), q.op = "summary" PROVE ~ Asking(r)'
  BY <1>2 DEF Arrive, Goto, Asking, Held
<1> QED BY <1>1, <1>2, CameBy DEF Asking

(* A request after its step.                                                *)
LEMMA StepTidyOwn ==
  ASSUME Typed, SummaryTypes, Finite, RowInv, RowInv', OneBusy, SmoothInv, TidyInv,
         NEW r \in Reqs, Step(r), NEW k \in Key, k = <<req'[r].user, req'[r].act>>,
         Tidy(k[1])', pc'[r] \in Running
  PROVE  ReqTidy(r, k)'
<1> Held
  BY DEF Typed
<1> USE DEF stores
<1>0. Next
  BY DEF Next
<1>1. k[1] \in Users
  BY DEF Key
<1>2. Tidy(k[1]) /\ Smooth(k[1]) /\ Smooth(k[1])' /\ Solo(k[1]) /\ "stop" \notin faults'[k[1]]
  BY <1>0, <1>1, TidyBefore
<1>3. pc[r] \in Running =>
        /\ k = KeyOf(r) /\ k[1] = req[r].user /\ ReqTidy(r, k) /\ ReqSmooth(r, k)
        /\ ~ ReadInfoError(r) /\ ~ SkipFillInfo(r) /\ ~ ReadSumError(r)
        /\ ~ SkipFillSum(r) /\ ~ SkipRank(r) /\ ~ Stop(r)
  <2> SUFFICES ASSUME pc[r] \in Running
               PROVE  /\ k = KeyOf(r) /\ k[1] = req[r].user /\ ReqTidy(r, k) /\ ReqSmooth(r, k)
                      /\ ~ ReadInfoError(r) /\ ~ SkipFillInfo(r) /\ ~ ReadSumError(r)
                      /\ ~ SkipFillSum(r) /\ ~ SkipRank(r) /\ ~ Stop(r)
    OBVIOUS
  <2>1. k = KeyOf(r) /\ k[1] = req[r].user
    BY TotalsSteps DEF KeyOf, Running
  <2> QED BY <1>2, <2>1, NoStops DEF TidyInv, SmoothInv
<1>4. /\ UNCHANGED records => RecordsOf(k)' = RecordsOf(k) /\ UserRecords(k[1])' = UserRecords(k[1])
      /\ cached \subseteq cached' /\ sumCached \subseteq sumCached'
  BY StoreSteps DEF RecordsOf, UserRecords
<1>5. pc'[r] \in {"fillInfo", "updateSum", "writeStatus", "writeRank"} =>
        Exactly(totals'[r], RecordsOf(k)')
  <2>1. CASE pc'[r] = "fillInfo"
    <3>1. /\ pc[r] = "readStatus" /\ pc[r] \in Running /\ UNCHANGED records
          /\ totals'[r].times = status[KeyOf(r)].times /\ totals'[r].funds = status[KeyOf(r)].funds
      BY <2>1, CameBy DEF ReadStatus, Running, Held
    <3>2. Counted(k, BeforeStatus) = RecordsOf(k)
      BY <1>2, <1>3, <3>1, AllCounted DEF Stages, BeforeStatus
    <3>3. Exactly(status[k], RecordsOf(k))
      BY <1>2, <3>2 DEF TidyInv, KeyTidy
    <3> QED BY <1>3, <1>4, <3>1, <3>3 DEF Exactly
  <2>2. CASE pc'[r] = "updateSum"
    <3>1. UpdateInfo(r) /\ pc[r] = "updateInfo" /\ pc[r] \in Running /\ UNCHANGED records
      BY <2>2, CameBy DEF UpdateInfo, Running
    <3>2. /\ k \in cached' /\ totals'[r].times = cache'[k].times
          /\ totals'[r].funds = cache'[k].funds
      BY <1>3, <3>1 DEF UpdateInfo, Typed, CacheTypes, Held
    <3>3. Counted(k, BeforeInfo)' = RecordsOf(k)
      BY <1>2, <1>3, <2>2, <3>1, OwnCounts DEF Stages, BeforeInfo
    <3>4. KeyTidy(k)'
      BY StepTidyKey
    <3> QED BY <1>4, <3>1, <3>2, <3>3, <3>4 DEF KeyTidy, Exactly
  <2>3. CASE pc'[r] \in {"writeStatus", "writeRank"}
    <3>1. /\ pc[r] \in {"updateSum", "writeStatus"} /\ pc[r] \in Running
          /\ UNCHANGED records /\ totals'[r] = totals[r]
      <4>1. UpdateSum(r) \/ (WriteStatus(r) /\ pc'[r] = "writeRank")
        BY <2>3, CameBy
      <4>2. WriteStatus(r) /\ pc'[r] = "writeRank" => totals'[r] = totals[r]
        BY DEF WriteStatus, Succeed, Return, Held
      <4> QED BY <4>1, <4>2 DEF UpdateSum, WriteStatus, Running
    <3> QED BY <1>3, <1>4, <3>1 DEF ReqTidy
  <2> QED BY <2>1, <2>2, <2>3
<1>6. pc'[r] = "fillSum" => Exactly(sum'[r], UserRecords(k[1])')
  <2> SUFFICES ASSUME pc'[r] = "fillSum" PROVE Exactly(sum'[r], UserRecords(k[1])')
    OBVIOUS
  <2>1. pc[r] \in Running /\ UNCHANGED records /\ sum'[r] = SummaryOf(req[r].user)
    BY CameBy DEF RecoverSum, Running, SummaryTypes
  <2>2. Exactly(sum'[r], UserRecords(k[1]))
    BY <1>3, <2>1 DEF SummaryOf, Exactly
  <2> QED BY <1>4, <2>1, <2>2
<1>7. Asking(r)' => k \in cached'
  <2> SUFFICES ASSUME Asking(r)' PROVE k \in cached'
    OBVIOUS
  <2>1. pc[r] \in Running
    BY <1>3, AskingFrom
  <2>2. Asking(r) \/ k \in cached'
    BY <1>3, <2>1, AskingHasHash
  <2> QED BY <1>3, <1>4, <2>1, <2>2 DEF ReqTidy
<1>8. pc'[r] \in {"charge", "stamp", "insert", "updateInfo"} =>
        /\ pc[r] \in {"generate", "charge", "stamp", "insert"} /\ pc[r] \in Running
  <2>1. AdoptRecord(r) => pc[r] = "readDup" /\ pc[r] \in Running
    BY DEF AdoptRecord, Running
  <2>2. ~ AdoptRecord(r)
    BY <1>3, <2>1 DEF ReqSmooth
  <2> QED BY <2>2, CameBy DEF GenerateMatchFund, Charge, Stamp, InsertRecord, Running
<1>9. pc'[r] \in {"charge", "stamp", "insert", "updateInfo"} => k \in cached'
  BY <1>3, <1>4, <1>8 DEF ReqTidy, Asking
<1>10. pc'[r] \in {"generate", "charge", "stamp", "insert", "updateInfo", "updateSum"} =>
         k[1] \in sumCached'
  <2>1. CASE pc'[r] = "generate"
    <3>1. ReadSumHit(r) \/ FillSum(r)
      <4>1. ReadSumError(r) \/ SkipFillSum(r) => pc[r] \in Running
        BY DEF ReadSumError, SkipFillSum, Running
      <4> QED BY <1>3, <2>1, <4>1, CameBy
    <3>2. pc[r] \in Running /\ req[r].user \in sumCached'
      BY <3>1 DEF ReadSumHit, FillSum, Running, caches
    <3> QED BY <1>3, <3>2
  <2>2. CASE pc'[r] = "updateSum"
    <3>1. pc[r] = "updateInfo" /\ pc[r] \in Running
      BY <2>2, CameBy DEF UpdateInfo, Running
    <3> QED BY <1>3, <1>4, <3>1 DEF ReqTidy
  <2>3. CASE pc'[r] \in {"charge", "stamp", "insert", "updateInfo"}
    BY <1>3, <1>4, <1>8, <2>3 DEF ReqTidy
  <2> QED BY <2>1, <2>2, <2>3
<1> QED BY <1>5, <1>6, <1>7, <1>9, <1>10 DEF ReqTidy, Exactly

LEMMA StepTidy ==
  ASSUME Typed, Typed', SummaryTypes, Finite, RowInv, RowInv', OneBusy, SmoothInv, TidyInv,
         NEW r \in Reqs, Step(r)
  PROVE  TidyInv'
<1>0. Next
  BY DEF Next
<1>1. /\ \A k \in Key : Tidy(k[1])' => KeyTidy(k)'
      /\ \A u \in Users : Tidy(u)' => UserTidy(u)'
  BY StepTidyKey, StepTidyUser
<1>2. ASSUME NEW x \in Reqs, NEW k \in Key, pc'[x] \in Running,
             k = <<req'[x].user, req'[x].act>>, Tidy(k[1])'
      PROVE  ReqTidy(x, k)'
  <2>1. CASE x = r
    BY <1>2, <2>1, StepTidyOwn
  <2>2. CASE x # r
    <3>1. k[1] \in Users
      BY DEF Key
    <3>2. Tidy(k[1]) /\ Solo(k[1])'
      BY <1>0, <1>2, <3>1, TidyBefore
    <3>3. /\ pc[x] \in Running /\ k = KeyOf(x) /\ pc'[x] = pc[x] /\ req'[x] = req[x]
          /\ totals'[x] = totals[x] /\ ~ (pc[r] \in Running /\ k = KeyOf(r))
          /\ ~ (pc[r] \in Running /\ k[1] = req[r].user)
      BY <1>2, <2>2, <3>2, OtherSteps
    <3>4. ReqTidy(x, k)
      BY <3>2, <3>3 DEF TidyInv
    <3>5. RecordsOf(k)' = RecordsOf(k) /\ UserRecords(k[1])' = UserRecords(k[1])
      BY <3>3, StepElsewhere, UserElsewhere
    <3>6. cached \subseteq cached' /\ sumCached \subseteq sumCached' /\ sum'[x] = sum[x]
      BY <2>2, StoreSteps
    <3>7. Asking(x)' <=> Asking(x)
      BY <3>3 DEF Asking
    <3> QED BY <3>3, <3>4, <3>5, <3>6, <3>7 DEF ReqTidy, Exactly
  <2> QED BY <2>1, <2>2
<1>3. \A x \in Reqs : \A k \in Key :
        (pc[x] \in Running /\ k = KeyOf(x) /\ Tidy(k[1]))' => ReqTidy(x, k)'
  BY <1>2 DEF KeyOf
<1> QED BY <1>1, <1>3 DEF TidyInv, Key

(* A hash that Redis loses is not one of a user whose request is running,   *)
(* or the user is marked.                                                   *)
LEMMA EvictionMarks ==
  ASSUME Typed, Environment \/ UNCHANGED vars, NEW u \in Users, "evict" \notin faults'[u],
         Busy(u) # {}
  PROVE  /\ \A k \in Key : k[1] = u => (k \in cached => k \in cached')
         /\ u \in sumCached => u \in sumCached'
<1>1. \A v \in Users : Disturbed(v, "evict") => "evict" \in faults'[v]
  BY DEF Disturbed, Typed
<1>2. ASSUME NEW l \in Key, EvictInfo(l)
      PROVE  /\ \A k \in Key : k[1] = u => (k \in cached => k \in cached')
             /\ UNCHANGED sumCached
  <2>1. l[1] # u
    BY <1>1, <1>2 DEF EvictInfo, DisturbedIfBusy
  <2> QED BY <1>2, <2>1 DEF EvictInfo
<1>3. ASSUME NEW v \in Users, EvictSum(v)
      PROVE  UNCHANGED cached /\ (u \in sumCached => u \in sumCached')
  <2>1. v # u
    BY <1>1, <1>3 DEF EvictSum, DisturbedIfBusy
  <2> QED BY <1>3, <2>1 DEF EvictSum
<1>4. NextDay \/ UNCHANGED vars => UNCHANGED <<cached, sumCached>>
  BY DEF NextDay, vars, caches
<1> QED BY <1>2, <1>3, <1>4 DEF Environment

LEMMA OthersTidy ==
  ASSUME Typed, SummaryTypes, TidyInv, Environment \/ UNCHANGED vars
  PROVE  TidyInv'
<1> USE DEF locals, stores, caches
<1>1. UNCHANGED <<pc, req, rec, totals, sum, records, status, rank>>
  BY DEF Environment, EvictInfo, EvictSum, NextDay, vars
<1>2. \A u \in Users : Tidy(u)' => Tidy(u) /\ "evict" \notin faults'[u]
  <2>1. [Next]_vars
    BY DEF Next
  <2> QED BY <2>1, TidyBefore DEF Tidy
<1>3. \A k, u, L : /\ RecordsOf(k)' = RecordsOf(k) /\ Counted(k, L)' = Counted(k, L)
                   /\ UserRecords(u)' = UserRecords(u) /\ CountedBy(u, L)' = CountedBy(u, L)
  BY <1>1 DEF RecordsOf, Counted, UserRecords, CountedBy
<1>4. \A k \in Key : k \in cached' => k \in cached /\ cache'[k] = cache[k]
  BY DEF Environment, EvictInfo, EvictSum, NextDay, vars, Typed, CacheTypes
<1>5. \A u \in Users : u \in sumCached' => u \in sumCached /\ sumCache'[u] = sumCache[u]
  BY DEF Environment, EvictInfo, EvictSum, NextDay, vars, SummaryTypes
<1>6. ASSUME NEW k \in Key, Tidy(k[1]) PROVE KeyTidy(k)'
  BY <1>1, <1>3, <1>4, <1>6 DEF TidyInv, KeyTidy, Exactly
<1>7. ASSUME NEW u \in Users, Tidy(u) PROVE UserTidy(u)'
  BY <1>3, <1>5, <1>7 DEF TidyInv, UserTidy, Exactly
<1>8. ASSUME NEW x \in Reqs, NEW k \in Key, pc[x] \in Running, k = KeyOf(x), Tidy(k[1])'
      PROVE  ReqTidy(x, k)'
  <2>1. k[1] \in Users /\ k[1] = req[x].user
    BY <1>8 DEF Key, KeyOf
  <2>2. ReqTidy(x, k) /\ "evict" \notin faults'[k[1]]
    BY <1>2, <1>8, <2>1 DEF TidyInv
  <2>3. Busy(k[1]) # {}
    BY <1>8, <2>1 DEF Busy
  <2>4. (k \in cached => k \in cached') /\ (k[1] \in sumCached => k[1] \in sumCached')
    BY <2>1, <2>2, <2>3, EvictionMarks
  <2>5. Asking(x)' <=> Asking(x)
    BY <1>1 DEF Asking
  <2> QED BY <1>1, <1>3, <2>2, <2>4, <2>5 DEF ReqTidy, Exactly
<1>9. \A x \in Reqs : \A k \in Key :
         (pc[x] \in Running /\ k = KeyOf(x) /\ Tidy(k[1]))' => ReqTidy(x, k)'
  BY <1>1, <1>8 DEF KeyOf
<1> QED BY <1>2, <1>6, <1>7, <1>9 DEF TidyInv, Key

LEMMA TidyKept == Spec => []TidyInv
<1>1. Init => TidyInv
  <2> SUFFICES ASSUME Init PROVE TidyInv
    OBVIOUS
  <2>1. \A r \in Reqs : pc[r] \notin Running
    BY DEF Init, Running
  <2>2. cached = {} /\ sumCached = {}
    BY DEF Init
  <2>3. \A k, L : Counted(k, L) = {}
    BY DEF Init, Counted, RecordsOf
  <2>4. Cardinality({}) = 0 /\ FundsOf({}) = 0
    BY FS_EmptySet, FundsOfNone
  <2>5. \A k \in Key : status[k].times = 0 /\ status[k].funds = 0 /\ rank[k] = 0
    BY DEF Init, NullStatus
  <2> QED BY <2>1, <2>2, <2>3, <2>4, <2>5 DEF TidyInv, KeyTidy, UserTidy, Exactly
<1>2. /\ Typed /\ Typed' /\ SummaryTypes /\ Finite /\ RowInv /\ RowInv' /\ OneBusy /\ SmoothInv
      /\ TidyInv /\ [Next]_vars
      => TidyInv'
  BY StepTidy, OthersTidy DEF Next
<1>3. Spec => []SummaryTypes
  BY TypeCorrect, PTL DEF TypeOK
<1> QED BY <1>1, <1>2, <1>3, TypedInv, FiniteInv, RowsKept, OneBusyKept, SmoothKept, PTL DEF Spec

(* The days.  For a user who was not disturbed at all, the summary that a   *)
(* request has read before it charged is still the last day when it decides *)
(* whether it adds one.                                                     *)
Plain(u) == faults[u] = {}
Upto(S) == Max(DatesOf(S) \cup {0})
DaysOf(s, S) == s.days = Cardinality(DatesOf(S)) /\ s.date = Upto(S)

UserDays(u) == u \in sumCached => DaysOf(sumCache[u], CountedBy(u, BeforeSum))

ReqDays(r, u) ==
  /\ pc[r] = "fillSum" => DaysOf(sum[r], UserRecords(u))
  /\ pc[r] \in {"generate", "charge", "stamp", "insert", "updateInfo", "updateSum"} =>
       sum[r].date = Upto(CountedBy(u, BeforeSum))
  /\ pc[r] \in {"stamp", "insert", "updateInfo", "updateSum"} => raw[r] = today
  /\ pc[r] \in {"insert", "updateInfo", "updateSum"} => rec[r].date = today

DaysInv ==
  /\ \A u \in Users : Plain(u) => UserDays(u)
  /\ \A r \in Reqs : \A u \in Users :
       pc[r] \in Running /\ u = req[r].user /\ Plain(u) => ReqDays(r, u)

LEMMA PlainBefore ==
  ASSUME Typed, [Next]_vars, NEW u \in Users, Plain(u)'
  PROVE  Plain(u) /\ Tidy(u) /\ Tidy(u)'
BY FaultsGrow DEF Plain, Tidy

(* A record of today adds a day to those of the other records, unless one   *)
(* of them is of today.                                                     *)
LEMMA DayAdds ==
  ASSUME today \in 1 .. MaxDay, RowInv, Finite, NEW S, S \subseteq records,
         NEW o \in S, o.date = today
  PROVE  /\ Upto(S) = today
         /\ Upto(S \ {o}) = today => Cardinality(DatesOf(S)) = Cardinality(DatesOf(S \ {o}))
         /\ Upto(S \ {o}) # today => Cardinality(DatesOf(S)) = Cardinality(DatesOf(S \ {o})) + 1
<1>1. PICK D : D = DatesOf(S \ {o})
  OBVIOUS
<1>2. DatesOf(S) = D \cup {today}
  BY <1>1 DEF DatesOf
<1>3. D \subseteq 1 .. today /\ D \subseteq Day
  <2>1. D \subseteq 1 .. today
    BY <1>1 DEF DatesOf, RowInv
  <2>2. 1 .. today \subseteq Day
    BY DEF Day
  <2> QED BY <2>1, <2>2
<1>3a. today \in Nat /\ 1 <= today /\ \A d \in D : d \in Nat /\ d <= today
  <2>1. today \in Nat /\ 1 <= today
    OBVIOUS
  <2>2. \A d \in 1 .. today : d \in Nat /\ d <= today
    BY <2>1
  <2> QED BY <1>3, <2>1, <2>2
<1>4. IsFiniteSet(D)
  <2>1. IsFiniteSet(1 .. today)
    BY FS_Interval
  <2> QED BY <1>3, <2>1, FS_Subset
<1>5. 0 \in Day /\ today \in Day
  BY DEF Day
<1>6. Max(D \cup {0}) \in D \cup {0} /\ \A d \in D \cup {0} : d <= Max(D \cup {0})
  BY <1>3, <1>5, DaysHaveMax
<1>7. Max((D \cup {today}) \cup {0}) \in (D \cup {today}) \cup {0}
      /\ \A d \in (D \cup {today}) \cup {0} : d <= Max((D \cup {today}) \cup {0})
  BY <1>3, <1>5, DaysHaveMax
<1>8. Max((D \cup {today}) \cup {0}) = today
  <2>1. PICK m : m = Max((D \cup {today}) \cup {0})
    OBVIOUS
  <2>2. /\ m \in (D \cup {today}) \cup {0}
        /\ \A d \in (D \cup {today}) \cup {0} : d <= m
    BY <1>7, <2>1
  <2>3. today <= m /\ (m \in D \/ m = today \/ m = 0)
    BY <2>2
  <2>4. m = today
    BY <1>3a, <2>3
  <2> QED BY <2>1, <2>4
<1>9. Max(D \cup {0}) = today <=> today \in D
  <2>1. PICK m : m = Max(D \cup {0})
    OBVIOUS
  <2>2. (m \in D \/ m = 0) /\ (today \in D => today <= m)
    BY <1>6, <2>1
  <2>3. m = today => today \in D
    BY <1>3a, <2>2
  <2>4. today \in D => m = today
    <3>1. m \in D => m \in Nat /\ m <= today
      BY <1>3a
    <3>2. today \in D /\ m = 0 => FALSE
      BY <1>3a, <2>2
    <3>3. today \in D => today <= m /\ m \in D
      BY <2>2, <3>2
    <3> QED BY <1>3a, <3>1, <3>3
  <2> QED BY <2>1, <2>3, <2>4
<1>10. today \in D => Cardinality(D \cup {today}) = Cardinality(D)
  <2>1. today \in D => D \cup {today} = D
    OBVIOUS
  <2> QED BY <2>1
<1>11. today \notin D => Cardinality(D \cup {today}) = Cardinality(D) + 1
  BY <1>4, FS_AddElement
<1> QED BY <1>1, <1>2, <1>8, <1>9, <1>10, <1>11 DEF Upto

LEMMA StepDaysUser ==
  ASSUME Typed, SummaryTypes, Finite, RowInv, RowInv', OneBusy, SmoothInv, TidyInv, DaysInv,
         NEW r \in Reqs, Step(r), NEW u \in Users, Plain(u)'
  PROVE  UserDays(u)'
<1>0. Next
  BY DEF Next
<1>1. Plain(u) /\ Tidy(u) /\ Tidy(u)' /\ Smooth(u) /\ Smooth(u)' /\ Solo(u)
  BY <1>0, PlainBefore, TidyBefore
<1>2. UserDays(u)
  BY <1>1 DEF DaysInv
<1>3. /\ FillSum(r) => pc[r] = "fillSum"
      /\ UpdateSum(r) => pc[r] = "updateSum"
      /\ FillSum(r) \/ UpdateSum(r) => pc[r] \in Running
  BY DEF FillSum, UpdateSum, Running
<1>4. CASE ~ (pc[r] \in Running /\ u = req[r].user)
  <2>1. sumCache'[u] = sumCache[u] /\ (u \in sumCached' => u \in sumCached)
    BY <1>3, <1>4, StoreSteps
  <2>2. CountedBy(u, BeforeSum)' = CountedBy(u, BeforeSum)
    BY <1>4, UserElsewhere
  <2> QED BY <1>2, <2>1, <2>2 DEF UserDays, DaysOf, Upto, DatesOf
<1>5. CASE pc[r] \in Running /\ u = req[r].user
  <2>1. PICK k \in Key : k = KeyOf(r) /\ k[1] = u
    BY <1>5, KeyOfRunning DEF Typed, KeyOf
  <2>2. ReqTidy(r, k) /\ ReqSmooth(r, k) /\ ReqDays(r, u)
    BY <1>1, <1>5, <2>1 DEF TidyInv, SmoothInv, DaysInv
  <2>3. Smooth(req[r].user)'
    BY <1>1, <1>5, TotalsSteps DEF Smooth, Running
  <2>4. BeforeSum \in Stages
    BY DEF Stages
  <2>5. CASE UpdateSum(r)
    <3>1. pc[r] \in BeforeSum /\ pc'[r] \notin BeforeSum
      BY <1>3, <1>5, <2>3, <2>5, OwnMoves DEF BeforeSum
    <3>2. PICK S : S = UserRecords(u)
      OBVIOUS
    <3>3. /\ CountedBy(u, BeforeSum)' = S
          /\ CountedBy(u, BeforeSum) = {e \in S : e.id # r}
      BY <1>1, <1>5, <2>1, <2>4, <3>1, <3>2, OwnCounts
    <3>4. PICK o \in S : o.date = rec[r].date /\ {e \in S : e.id # r} = S \ {o}
      BY <1>3, <1>5, <2>1, <2>2, <2>5, <3>2, OwnRecord DEF ReqSmooth
    <3>5. sumCache[u].days = Cardinality(DatesOf(S \ {o})) /\ sum[r].date = Upto(S \ {o})
          /\ raw[r] = today /\ o.date = today
      BY <1>2, <1>3, <2>1, <2>2, <2>5, <3>3, <3>4 DEF UserDays, DaysOf, ReqTidy, ReqDays
    <3>6. /\ sumCache'[u].days = sumCache[u].days + (IF sum[r].date # raw[r] THEN 1 ELSE 0)
          /\ sumCache'[u].date = raw[r] /\ sumCache[u].days \in Nat
      BY <1>5, <2>5 DEF UpdateSum, SummaryTypes, Summary, Counter
    <3>7. S \subseteq records /\ today \in 1 .. MaxDay
      BY <3>2 DEF UserRecords, Typed
    <3>8. DaysOf(sumCache'[u], S)
      BY <3>5, <3>6, <3>7, DayAdds DEF DaysOf
    <3> QED BY <3>3, <3>8 DEF UserDays, DaysOf, Upto, DatesOf
  <2>6. CASE FillSum(r)
    <3>1. pc[r] \notin BeforeSum
      BY <1>3, <2>6 DEF BeforeSum
    <3>2. CountedBy(u, BeforeSum)' = CountedBy(u, BeforeSum)
          /\ CountedBy(u, BeforeSum) = UserRecords(u)
      BY <1>1, <1>5, <2>1, <2>4, <3>1, OwnCounts, AllCounted
    <3>3. DaysOf(sum[r], UserRecords(u)) /\ sumCache'[u] = sum[r]
      BY <1>3, <1>5, <2>2, <2>6 DEF ReqDays, FillSum, SummaryTypes
    <3> QED BY <3>2, <3>3 DEF UserDays, DaysOf, Upto, DatesOf
  <2>7. CASE ~ UpdateSum(r) /\ ~ FillSum(r)
    <3>1. ~ (pc[r] \in BeforeSum /\ pc'[r] \notin BeforeSum)
      BY <1>5, <2>3, <2>7, OwnMoves DEF BeforeSum, BeforeRank
    <3>2. CountedBy(u, BeforeSum)' = CountedBy(u, BeforeSum)
      BY <1>1, <1>5, <2>1, <2>4, <3>1, OwnCounts
    <3>3. sumCache'[u] = sumCache[u] /\ (u \in sumCached' => u \in sumCached)
      BY <2>7, StoreSteps
    <3> QED BY <1>2, <3>2, <3>3 DEF UserDays, DaysOf, Upto, DatesOf
  <2> QED BY <2>5, <2>6, <2>7
<1> QED BY <1>4, <1>5

LEMMA StepDaysOwn ==
  ASSUME Typed, SummaryTypes, Finite, RowInv, RowInv', OneBusy, SmoothInv, TidyInv, DaysInv,
         NEW r \in Reqs, Step(r), NEW u \in Users, u = req'[r].user, Plain(u)', pc'[r] \in Running
  PROVE  ReqDays(r, u)'
<1> Held /\ today' = today
  BY SameDay DEF Typed
<1> USE DEF stores
<1>0. Next
  BY DEF Next
<1>1. Plain(u) /\ Tidy(u) /\ Tidy(u)' /\ Smooth(u) /\ Smooth(u)' /\ Solo(u) /\ Solo(u)'
      /\ "stop" \notin faults'[u]
  BY <1>0, PlainBefore, TidyBefore
<1>2. pc[r] \in Running =>
        /\ req[r].user = u /\ KeyOf(r) \in Key /\ KeyOf(r)[1] = u
        /\ ReqSmooth(r, KeyOf(r)) /\ ReqDays(r, u)
        /\ ~ ReadInfoError(r) /\ ~ SkipFillInfo(r) /\ ~ ReadSumError(r)
        /\ ~ SkipFillSum(r) /\ ~ SkipRank(r) /\ ~ Stop(r)
  <2> SUFFICES ASSUME pc[r] \in Running
               PROVE  /\ req[r].user = u /\ KeyOf(r) \in Key /\ KeyOf(r)[1] = u
                      /\ ReqSmooth(r, KeyOf(r)) /\ ReqDays(r, u)
                      /\ ~ ReadInfoError(r) /\ ~ SkipFillInfo(r) /\ ~ ReadSumError(r)
                      /\ ~ SkipFillSum(r) /\ ~ SkipRank(r) /\ ~ Stop(r)
    OBVIOUS
  <2>1. req[r].user = u /\ KeyOf(r) \in Key /\ KeyOf(r)[1] = u
    BY KeyOfRunning, TotalsSteps DEF Typed, KeyOf, Running
  <2> QED BY <1>1, <2>1, NoStops DEF DaysInv, SmoothInv
<1>3. UserDays(u)
  BY <1>1 DEF DaysInv
<1>4. pc'[r] = "fillSum" => DaysOf(sum'[r], UserRecords(u)')
  <2> SUFFICES ASSUME pc'[r] = "fillSum" PROVE DaysOf(sum'[r], UserRecords(u)')
    OBVIOUS
  <2>1. pc[r] \in Running /\ UNCHANGED records /\ sum'[r] = SummaryOf(req[r].user)
    BY CameBy DEF RecoverSum, Running, SummaryTypes
  <2>2. DaysOf(sum'[r], UserRecords(u))
    BY <1>2, <2>1 DEF SummaryOf, DaysOf, Upto
  <2>3. UserRecords(u)' = UserRecords(u)
    BY <2>1 DEF UserRecords
  <2> QED BY <2>2, <2>3
<1>5. pc'[r] = "generate" => sum'[r].date = Upto(CountedBy(u, BeforeSum)')
  <2> SUFFICES ASSUME pc'[r] = "generate" PROVE sum'[r].date = Upto(CountedBy(u, BeforeSum)')
    OBVIOUS
  <2>1. ReadSumError(r) \/ SkipFillSum(r) => pc[r] \in Running
    BY DEF ReadSumError, SkipFillSum, Running
  <2>2. ReadSumHit(r) \/ FillSum(r)
    BY <1>2, <2>1, CameBy
  <2>3. pc[r] \in Running /\ pc[r] \notin BeforeSum /\ (FillSum(r) => pc[r] = "fillSum")
    BY <2>2 DEF ReadSumHit, FillSum, Running, BeforeSum
  <2>4. CountedBy(u, BeforeSum)' = CountedBy(u, BeforeSum)
        /\ CountedBy(u, BeforeSum) = UserRecords(u)
    BY <1>1, <1>2, <2>3, OwnCounts, AllCounted DEF Stages
  <2>5. CASE ReadSumHit(r)
    <3>1. u \in sumCached /\ sum'[r] = sumCache[u]
      BY <1>2, <2>3, <2>5 DEF ReadSumHit, SumIs, Return, SummaryTypes, Held
    <3> QED BY <1>3, <2>4, <3>1 DEF UserDays, DaysOf
  <2>6. CASE FillSum(r)
    <3>1. sum'[r] = sum[r]
      BY <2>6 DEF FillSum, SumIs, Return, SummaryTypes, Held
    <3> QED BY <1>2, <2>3, <2>4, <2>6, <3>1 DEF ReqDays, DaysOf
  <2> QED BY <2>2, <2>5, <2>6
<1>6. pc'[r] \in {"charge", "stamp", "insert", "updateInfo", "updateSum"} =>
        /\ pc[r] \in {"generate", "charge", "stamp", "insert", "updateInfo"}
        /\ pc[r] = "updateInfo" => pc'[r] = "updateSum"
        /\ pc[r] \in Running /\ sum'[r] = sum[r]
        /\ pc'[r] \in {"stamp", "insert", "updateInfo", "updateSum"} => raw'[r] = today
        /\ pc'[r] \in {"insert", "updateInfo", "updateSum"} => rec'[r].date = today
  <2>1. AdoptRecord(r) => pc[r] = "readDup" /\ pc[r] \in Running
    BY DEF AdoptRecord, Running
  <2>2. ~ AdoptRecord(r)
    BY <1>2, <2>1 DEF ReqSmooth
  <2>3. CASE pc'[r] = "charge"
    BY <2>3, CameBy DEF GenerateMatchFund, Running
  <2>4. CASE pc'[r] = "stamp"
    BY <2>4, CameBy DEF Charge, Running, Held
  <2>5. CASE pc'[r] = "insert"
    <3>1. Stamp(r) /\ pc[r] = "stamp" /\ pc[r] \in Running
      BY <2>5, CameBy DEF Stamp, Running
    <3>2. raw[r] = today
      BY <1>2, <3>1 DEF ReqDays
    <3> QED BY <2>5, <3>1, <3>2 DEF Stamp, Held
  <2>6. CASE pc'[r] \in {"updateInfo", "updateSum"}
    <3>1. InsertRecord(r) \/ UpdateInfo(r)
      BY <2>2, <2>6, CameBy
    <3>2. /\ pc[r] \in {"insert", "updateInfo"} /\ pc[r] \in Running
          /\ pc[r] = "updateInfo" => pc'[r] = "updateSum"
          /\ UNCHANGED <<sum, raw, rec>>
      BY <3>1 DEF InsertRecord, UpdateInfo, Running, Goto, Held
    <3>3. raw[r] = today /\ rec[r].date = today
      BY <1>2, <3>2 DEF ReqDays
    <3> QED BY <2>6, <3>2, <3>3
  <2> QED BY <2>3, <2>4, <2>5, <2>6
<1>7. pc'[r] \in {"charge", "stamp", "insert", "updateInfo", "updateSum"} =>
        sum'[r].date = Upto(CountedBy(u, BeforeSum)')
  <2> SUFFICES ASSUME pc'[r] \in {"charge", "stamp", "insert", "updateInfo", "updateSum"}
               PROVE  sum'[r].date = Upto(CountedBy(u, BeforeSum)')
    OBVIOUS
  <2>1. pc[r] \in Running /\ sum'[r].date = Upto(CountedBy(u, BeforeSum))
    BY <1>2, <1>6 DEF ReqDays
  <2>2. ~ (pc[r] \in BeforeSum /\ pc'[r] \notin BeforeSum)
    BY <1>6 DEF BeforeSum
  <2>3. CountedBy(u, BeforeSum)' = CountedBy(u, BeforeSum)
    BY <1>1, <1>2, <2>1, <2>2, OwnCounts DEF Stages
  <2> QED BY <2>1, <2>3
<1> QED BY <1>4, <1>5, <1>6, <1>7 DEF ReqDays, DaysOf, Upto, DatesOf

LEMMA StepDays ==
  ASSUME Typed, Typed', SummaryTypes, Finite, RowInv, RowInv', OneBusy, SmoothInv, TidyInv,
         DaysInv, NEW r \in Reqs, Step(r)
  PROVE  DaysInv'
<1>0. Next
  BY DEF Next
<1>1. \A u \in Users : Plain(u)' => UserDays(u)'
  BY StepDaysUser
<1>2. ASSUME NEW x \in Reqs, NEW u \in Users, pc'[x] \in Running, u = req'[x].user, Plain(u)'
      PROVE  ReqDays(x, u)'
  <2>1. CASE x = r
    BY <1>2, <2>1, StepDaysOwn
  <2>2. CASE x # r
    <3>1. PICK k \in Key : k = <<req'[x].user, req'[x].act>> /\ k[1] = u
      <4>1. pc[x] \in Running /\ req'[x] = req[x]
        BY <1>2, <2>2, TotalsSteps
      <4>2. KeyOf(x) \in Key
        BY <4>1, KeyOfRunning DEF Typed
      <4> QED BY <1>2, <4>1, <4>2 DEF KeyOf
    <3>2. Plain(u) /\ Solo(k[1])'
      BY <1>0, <1>2, <3>1, PlainBefore, TidyBefore
    <3>3. /\ pc[x] \in Running /\ k = KeyOf(x) /\ pc'[x] = pc[x] /\ req'[x] = req[x]
          /\ rec'[x] = rec[x] /\ today' = today /\ ~ (pc[r] \in Running /\ u = req[r].user)
      BY <1>2, <2>2, <3>1, <3>2, OtherSteps
    <3>4. ReqDays(x, u)
      BY <1>2, <3>2, <3>3 DEF DaysInv
    <3>5. /\ UserRecords(u)' = UserRecords(u)
          /\ CountedBy(u, BeforeSum)' = CountedBy(u, BeforeSum)
      BY <3>3, UserElsewhere
    <3>6. sum'[x] = sum[x] /\ raw'[x] = raw[x]
      BY <2>2, StoreSteps
    <3> QED BY <3>3, <3>4, <3>5, <3>6 DEF ReqDays, DaysOf, Upto, DatesOf
  <2> QED BY <2>1, <2>2
<1> QED BY <1>1, <1>2 DEF DaysInv

LEMMA OthersDays ==
  ASSUME Typed, SummaryTypes, DaysInv, Environment \/ UNCHANGED vars
  PROVE  DaysInv'
<1> USE DEF locals, stores, caches
<1>1. UNCHANGED <<pc, req, rec, sum, raw, records>>
  BY DEF Environment, EvictInfo, EvictSum, NextDay, vars
<1>2. \A u \in Users : Plain(u)' => Plain(u)
  <2>1. [Next]_vars
    BY DEF Next
  <2> QED BY <2>1, PlainBefore
<1>3. \A u, L : UserRecords(u)' = UserRecords(u) /\ CountedBy(u, L)' = CountedBy(u, L)
  BY <1>1 DEF UserRecords, CountedBy
<1>4. \A u \in Users : u \in sumCached' => u \in sumCached /\ sumCache'[u] = sumCache[u]
  BY DEF Environment, EvictInfo, EvictSum, NextDay, vars, SummaryTypes
<1>5. ASSUME NEW u \in Users, Plain(u) PROVE UserDays(u)'
  BY <1>3, <1>4, <1>5 DEF DaysInv, UserDays, DaysOf, Upto, DatesOf
<1>6. ASSUME NEW x \in Reqs, NEW u \in Users, pc[x] \in Running, u = req[x].user, Plain(u)'
      PROVE  ReqDays(x, u)'
  <2>1. ReqDays(x, u)
    BY <1>2, <1>6 DEF DaysInv
  <2>2. today' = today
    <3>1. ~ NextDay
      BY <1>6, MidnightMarks DEF Plain
    <3> QED BY <3>1 DEF Environment, EvictInfo, EvictSum, vars
  <2> QED BY <1>1, <1>3, <2>1, <2>2 DEF ReqDays, DaysOf, Upto, DatesOf
<1> QED BY <1>1, <1>2, <1>5, <1>6 DEF DaysInv

LEMMA DaysKept == Spec => []DaysInv
<1>1. Init => DaysInv
  BY DEF Init, DaysInv, UserDays, Running
<1>2. /\ Typed /\ Typed' /\ SummaryTypes /\ Finite /\ RowInv /\ RowInv' /\ OneBusy /\ SmoothInv
      /\ TidyInv /\ DaysInv /\ [Next]_vars
      => DaysInv'
  BY StepDays, OthersDays DEF Next
<1>3. Spec => []SummaryTypes
  BY TypeCorrect, PTL DEF TypeOK
<1> QED BY <1>1, <1>2, <1>3, TypedInv, FiniteInv, RowsKept, OneBusyKept, SmoothKept, TidyKept, PTL
        DEF Spec

(* A user whose requests came one at a time and all ran to their end: the   *)
(* totals of the table, of Redis and of the rank, and the summary, are what *)
(* the records add up to; without a midnight the summary also counts the    *)
(* days.                                                                    *)
THEOREM TotalsAreExact == Spec => []ExactTotals
<1>1. RowInv /\ Typed /\ TidyInv /\ DaysInv => ExactTotals
  <2> SUFFICES ASSUME RowInv, Typed, TidyInv, DaysInv, NEW u \in Users, Quiet(u),
                      Only(u, {"midnight"})
               PROVE  /\ \A a \in Activities :
                           /\ Exactly(status[<<u, a>>], RecordsOf(<<u, a>>))
                           /\ <<u, a>> \in cached =>
                                Exactly(cache[<<u, a>>], RecordsOf(<<u, a>>))
                           /\ a # NoActivity =>
                                rank[<<u, a>>] = FundsOf(RecordsOf(<<u, a>>))
                      /\ u \in sumCached => Exactly(sumCache[u], UserRecords(u))
                      /\ u \in sumCached /\ faults[u] = {} =>
                           DaysOf(sumCache[u], UserRecords(u))
    BY DEF ExactTotals, Exactly, DaysOf, Upto, SummaryOf
  <2>1. \A e \in records : e.user = u => pc[e.id] \notin Running
    BY DEF Quiet, Busy, RowInv, Typed, StoreTypes, Record
  <2>2. \A L \in Stages : \A e \in records : e.user = u => pc[e.id] \notin L
    BY <2>1, StagesRun
  <2>3. \A L \in Stages : /\ CountedBy(u, L) = UserRecords(u)
                          /\ \A a : Counted(<<u, a>>, L) = RecordsOf(<<u, a>>)
    BY <2>2 DEF CountedBy, UserRecords, Counted, RecordsOf
  <2>4. Tidy(u) /\ (faults[u] = {} => Plain(u))
    BY DEF Tidy, Plain, Only
  <2>5. ASSUME NEW a \in Activities, NEW k, k = <<u, a>>
        PROVE  /\ Exactly(status[k], RecordsOf(k))
               /\ k \in cached => Exactly(cache[k], RecordsOf(k))
               /\ a # NoActivity => rank[k] = FundsOf(RecordsOf(k))
    <3>1. k \in Key /\ k[1] = u /\ k[2] = a
      BY <2>5 DEF Key
    <3>2. KeyTidy(k)
      BY <2>4, <3>1 DEF TidyInv
    <3> QED BY <2>3, <2>5, <3>1, <3>2 DEF KeyTidy, Stages
  <2>6. u \in sumCached => Exactly(sumCache[u], UserRecords(u))
    BY <2>3, <2>4 DEF TidyInv, UserTidy, Stages
  <2>7. u \in sumCached /\ faults[u] = {} => DaysOf(sumCache[u], UserRecords(u))
    BY <2>3, <2>4 DEF DaysInv, UserDays, Stages
  <2> QED BY <2>5, <2>6, <2>7
<1> QED BY <1>1, TypedInv, RowsKept, TidyKept, DaysKept, PTL

-----------------------------------------------------------------------------
(* The funds that a match can pay.                                          *)

(* What is capped does not exceed what is left, and is negative only if it  *)
(* was.                                                                     *)
LEMMA CappedBounds ==
  ASSUME NEW funds \in SUBSET Int, NEW remain \in Nat, NEW f \in Capped(funds, remain)
  PROVE  /\ f \in Int /\ f <= remain
         /\ ((\A g \in funds : g >= 0) => f >= 0)
<1>1. PICK g \in funds : f = IF g > remain THEN remain ELSE g
  BY DEF Capped
<1>2. g \in Int
  OBVIOUS
<1> QED BY <1>1, <1>2

(* An element of a sequence.                                                *)
LEMMA ElementOf ==
  ASSUME NEW S, NEW s \in Seq(S), NEW i \in 1 .. Len(s)
  PROVE  s[i] \in S
OBVIOUS

(* Whatever the random numbers are, the remain rule and both buff rules pay *)
(* no more than what is left of the match item (GenerateMatchFund), and not *)
(* less than nothing if no wave is larger than its fund.                    *)
THEOREM RulesPayWhatIsLeft ==
  ASSUME NEW remain \in Nat,
         NEW meta \in [basic : Nat, basicWave : Nat, buff : Nat, buffWave : Nat],
         NEW rules \in Seq([start : Int, end : Int, from : Nat, to : Nat]),
         NEW percent \in Nat, NEW buffed \in BOOLEAN
  PROVE  /\ \A f \in RemainFunds(rules, remain) : 0 <= f /\ f <= remain
         /\ \A f \in BuffFunds(meta, buffed, remain) \cup PercentFunds(meta, percent, remain) :
              f <= remain /\ (meta.buffWave <= meta.buff => 0 <= f)
<1>1. ASSUME NEW f \in RemainFunds(rules, remain) PROVE 0 <= f /\ f <= remain
  <2>1. CASE f = 0
    BY <2>1
  <2>2. ASSUME NEW i \in 1 .. Len(rules), f \in Capped(rules[i].from .. rules[i].to, remain)
        PROVE  0 <= f /\ f <= remain
    <3>0. rules[i] \in [start : Int, end : Int, from : Nat, to : Nat]
      BY ElementOf
    <3>1. rules[i].from \in Nat /\ rules[i].to \in Nat
      BY <3>0
    <3> DEFINE lo == rules[i].from
               hi == rules[i].to
    <3> HIDE DEF lo, hi
    <3>2. ASSUME lo \in Nat, hi \in Nat
          PROVE  lo .. hi \in SUBSET Int /\ \A g \in lo .. hi : g >= 0
      BY <3>2
    <3>3. /\ rules[i].from .. rules[i].to \in SUBSET Int
          /\ \A g \in rules[i].from .. rules[i].to : g >= 0
      BY <3>1, <3>2 DEF lo, hi
    <3> QED BY <2>2, <3>3, CappedBounds
  <2> QED BY <1>1, <2>1, <2>2 DEF RemainFunds
<1>2. ASSUME NEW b \in BOOLEAN, NEW f \in BuffFunds(meta, b, remain)
      PROVE  f <= remain /\ (meta.buffWave <= meta.buff => 0 <= f)
  <2>1. /\ {meta.basic} \in SUBSET Int /\ \A g \in {meta.basic} : g >= 0
        /\ Wave(meta.buff, meta.buffWave) \in SUBSET Int
        /\ meta.buffWave <= meta.buff => \A g \in Wave(meta.buff, meta.buffWave) : g >= 0
        /\ Wave(meta.basic, meta.basicWave) \in SUBSET Int
        /\ ~(meta.basic < meta.basicWave) =>
             \A g \in Wave(meta.basic, meta.basicWave) : g >= 0
    BY DEF Wave
  <2> QED BY <1>2, <2>1, CappedBounds DEF BuffFunds
<1>3. ASSUME NEW f \in PercentFunds(meta, percent, remain)
      PROVE  f <= remain /\ (meta.buffWave <= meta.buff => 0 <= f)
  <2>1. PICK n \in 0 .. 99 : f \in BuffFunds(meta, n < percent, remain)
    BY <1>3 DEF PercentFunds
  <2>2. (n < percent) \in BOOLEAN
    OBVIOUS
  <2> QED BY <1>2, <2>1, <2>2
<1> QED BY <1>1, <1>2, <1>3

(* Arithmetic of shares.                                                    *)
LEMMA ProductMonotone ==
  ASSUME NEW d \in Nat, NEW m \in Nat, NEW n \in Nat, m <= n
  PROVE  d * m <= d * n /\ d * m \in Nat
OBVIOUS

(* More divided is more.                                                    *)
LEMMA DivMonotone ==
  ASSUME NEW a \in Nat, NEW c \in Nat, NEW b \in Nat \ {0}, a <= c
  PROVE  a \div b <= c \div b /\ a \div b \in Nat
OBVIOUS

(* A product divided by a factor.                                           *)
LEMMA DivProduct ==
  ASSUME NEW d \in Nat, NEW b \in Nat \ {0}
  PROVE  (d * b) \div b = d
OBVIOUS

(* A number that fits stays what it is.                                     *)
LEMMA WrapFits ==
  ASSUME NEW x \in Int, -Half <= x, x < Half
  PROVE  Wrap(x) = x
BY HalfAssumption DEF Wrap

(* The step rule pays between the two funds from the minimum of steps on,   *)
(* and never less for more steps, as long as the largest product fits an    *)
(* int32 (GenerateMatchFund, MatchRule_STEP_RELATIVE).                      *)
THEOREM StepShareIsBetween ==
  ASSUME NEW rule \in [minSteps : Nat, maxSteps : Nat, minMatch : Nat, maxMatch : Nat],
         rule.minSteps < rule.maxSteps, rule.minMatch <= rule.maxMatch, rule.maxMatch < Half,
         (rule.maxMatch - rule.minMatch) * (rule.maxSteps - rule.minSteps) < Half,
         NEW step \in Nat, rule.minSteps <= step,
         NEW more \in Nat, step <= more
  PROVE  /\ rule.minMatch <= StepShare(rule, step) /\ StepShare(rule, step) <= rule.maxMatch
         /\ StepShare(rule, step) <= StepShare(rule, more)
<1> DEFINE d == rule.maxMatch - rule.minMatch
           b == rule.maxSteps - rule.minSteps
           share(n) == (d * (n - rule.minSteps)) \div b
<1>1. d \in Nat /\ b \in Nat \ {0} /\ d * b < Half
  OBVIOUS
<1>2. ASSUME NEW n \in Nat, rule.minSteps <= n, n < rule.maxSteps
      PROVE  /\ share(n) \in Nat /\ share(n) <= d
             /\ StepShare(rule, n) = rule.minMatch + share(n)
  <2> DEFINE m == n - rule.minSteps
             a == d * m
  <2>1. m \in Nat /\ m <= b
    BY <1>2
  <2>2. a \in Nat /\ a <= d * b
    BY <1>1, <2>1, ProductMonotone
  <2>3. a < Half /\ d * b \in Nat
    BY <1>1, <2>2, HalfAssumption
  <2>4. a \div b \in Nat /\ a \div b <= d
    <3>1. (d * b) \div b = d
      BY <1>1, DivProduct
    <3>2. a \div b <= (d * b) \div b /\ a \div b \in Nat
      BY <1>1, <2>2, <2>3, DivMonotone
    <3> QED BY <3>1, <3>2
  <2>5. Wrap(a) = a
    BY <2>2, <2>3, HalfAssumption, WrapFits
  <2> HIDE DEF a, m
  <2>6. Quotient(Wrap(a), b) = a \div b
    BY <2>2, <2>5 DEF Quotient
  <2> HIDE DEF b
  <2>7. Wrap(rule.minMatch + (a \div b)) = rule.minMatch + (a \div b)
    BY <2>4, HalfAssumption, WrapFits DEF d
  <2>8. StepShare(rule, n) = Wrap(rule.minMatch + Quotient(Wrap(a), b))
    BY <1>2 DEF StepShare, a, m, b
  <2> QED BY <2>4, <2>6, <2>7, <2>8 DEF a, m
<1>3. ASSUME NEW n \in Nat, rule.maxSteps <= n
      PROVE  StepShare(rule, n) = rule.maxMatch
  BY <1>3 DEF StepShare
<1>4. CASE more < rule.maxSteps
  <2>1. d * (step - rule.minSteps) <= d * (more - rule.minSteps)
        /\ d * (step - rule.minSteps) \in Nat /\ d * (more - rule.minSteps) \in Nat
    <3>1. step - rule.minSteps \in Nat /\ more - rule.minSteps \in Nat
          /\ step - rule.minSteps <= more - rule.minSteps
      OBVIOUS
    <3> QED BY <1>1, <3>1, ProductMonotone
  <2>2. share(step) <= share(more)
    BY <1>1, <2>1, DivMonotone
  <2> HIDE DEF share
  <2>3. step < rule.maxSteps /\ rule.minSteps <= more
    BY <1>4
  <2>4. /\ StepShare(rule, step) = rule.minMatch + share(step) /\ share(step) \in Nat
        /\ StepShare(rule, more) = rule.minMatch + share(more) /\ share(more) \in Nat
        /\ share(step) <= d
    BY <1>2, <1>4, <2>3
  <2> QED BY <2>2, <2>4
<1>5. CASE rule.maxSteps <= more
  <2> HIDE DEF share
  <2>1. StepShare(rule, more) = rule.maxMatch
    BY <1>3, <1>5
  <2>2. CASE step < rule.maxSteps
    <3>1. /\ StepShare(rule, step) = rule.minMatch + share(step) /\ share(step) \in Nat
          /\ share(step) <= d
      BY <1>2, <2>2
    <3> QED BY <2>1, <3>1
  <2>3. CASE rule.maxSteps <= step
    BY <1>3, <2>1, <2>3
  <2> QED BY <2>2, <2>3
<1> QED BY <1>4, <1>5

(* On a streak the buff comes on the days that the threshold divides, but   *)
(* never on the first, even if the threshold is one: combo counts the days  *)
(* before today, and without a match yesterday it is 0.                     *)
THEOREM BuffEveryThreshold ==
  ASSUME NEW combo \in Nat, NEW threshold \in Nat \ {0}
  PROVE  Buffed(combo > 0, combo, threshold)
           <=> (combo + 1 >= 2 /\ (combo + 1) % threshold = 0)
<1>1. combo + 1 < threshold => (combo + 1) % threshold = combo + 1
  OBVIOUS
<1> QED BY <1>1 DEF Buffed
=============================================================================
