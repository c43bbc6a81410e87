--------------------------- MODULE MatchRankProofs ---------------------------
(* What holds of the donation ranks for any activities, users, workers and  *)
(* page size: the queue stays a set, every variable keeps its type, a rank  *)
(* never shows more than the table of totals has, and all of it in the end. *)
EXTENDS MatchRank, CollectionLemmas

-----------------------------------------------------------------------------
(* The queue.                                                               *)

(* Whatever is pushed, popped and lost, the set beside a recovery queue     *)
(* holds what its list holds, and the list holds it once.                   *)
THEOREM QueueSafe == Queue!Spec => []Queue!QueueIsSet
<1> DEFINE Listing == queue \in Seq(Activities) /\ Lists(queue, queueSet)
<1>1. Queue!Init => Listing
  BY DEF Queue!Init, Lists
<1>2. Listing /\ [Queue!Next]_<<queue, queueSet>> => Listing'
  <2> SUFFICES ASSUME Listing, [Queue!Next]_<<queue, queueSet>> PROVE Listing'
    OBVIOUS
  <2>1. \/ \E e \in Activities \ queueSet : queue' = Append(queue, e) /\ queueSet' = queueSet \cup {e}
        \/ queue # <<>> /\ queue' = Tail(queue) /\ queueSet' = queueSet \ {Head(queue)}
        \/ queue' = <<>> /\ queueSet' = {}
        \/ queue' = queue /\ queueSet' = queueSet
    BY DEF Queue!Next, Queue!Push, Queue!Pop, Queue!Lose
  <2> QED BY <2>1, QueueStepLists
<1>3. Listing => Queue!QueueIsSet
  BY DEF Lists, Queue!Lists, Queue!QueueIsSet
<1> QED BY <1>1, <1>2, <1>3, PTL DEF Queue!Spec

(* The readers and the workers use the queue as RecoverQueue describes it.  *)
THEOREM QueueImplemented == Spec => Queue!Spec
<1>1. Init => Queue!Init
  BY DEF Init
<1>2. [Next]_vars => [Queue!Next]_<<queue, queueSet>>
  <2> SUFFICES ASSUME [Next]_vars PROVE [Queue!Next]_<<queue, queueSet>>
    OBVIOUS
  <2> USE DEF queueVars
  <2>1. ASSUME NEW a \in Activities, ReadRank(a) PROVE Queue!Next
    BY <2>1 DEF ReadRank, Queue!Next
  <2>2. ASSUME NEW w \in Workers, WorkerStep(w)
        PROVE  [Queue!Next]_<<queue, queueSet>>
    <3>1. CASE \E a \in Activities : PopElement(w, a)
      BY <3>1 DEF PopElement, Queue!Next
    <3>2. CASE FetchPage(w) \/ (\E r \in rows[w] : RestoreUser(w, r)) \/ RestoreDefault(w)
      BY <3>2 DEF FetchPage, RestoreUser, RestoreDefault
    <3> QED BY <2>2, <3>1, <3>2 DEF WorkerStep
  <2>3. CASE LoseRedis
    BY <2>3 DEF LoseRedis, Queue!Next
  <2>4. ASSUME NEW a \in Activities,
               (\E u \in Users : Match(a, u)) \/ LoseRank(a)
        PROVE  UNCHANGED <<queue, queueSet>>
    BY <2>4 DEF Match, LoseRank
  <2>5. ASSUME NEW m \in inflight, AddRank(m) \/ FailRank(m)
        PROVE  UNCHANGED <<queue, queueSet>>
    BY <2>5 DEF AddRank, FailRank
  <2>6. ASSUME NEW w \in Workers, FailRecover(w) PROVE UNCHANGED <<queue, queueSet>>
    BY <2>6 DEF FailRecover
  <2>7. CASE UNCHANGED vars
    BY <2>7 DEF vars
  <2> QED BY <2>1, <2>2, <2>3, <2>4, <2>5, <2>6, <2>7 DEF Next
<1> QED BY <1>1, <1>2, PTL DEF Spec, Queue!Spec

(* The set beside the queue holds what the queue holds, and the queue holds *)
(* it once, whatever readers and workers do.                                *)
THEOREM QueueStaysSet == Spec => []QueueIsSet
<1> QED BY QueueSafe, QueueImplemented, PTL DEF QueueIsSet

-----------------------------------------------------------------------------
(* Types.                                                                   *)

(* A page holds finitely many users. *)
LEMMA PageIsFinite ==
  ASSUME NEW a, NEW i
  PROVE  PageOf(a, i) \subseteq Users /\ Cardinality(PageOf(a, i)) \in Nat
<1>1. PageOf(a, i) \subseteq Users
  BY DEF PageOf, Listed
<1>2. IsFiniteSet(Users)
  BY ConstantsAssumption
<1>3. IsFiniteSet(PageOf(a, i))
  BY <1>1, <1>2, FS_Subset
<1> QED BY <1>1, <1>3, FS_CardinalityType

LEMMA NoteTypes ==
  ASSUME TypeOK, NEW a, NEW f \in Fault, NEW b, Note(a, f, b)
  PROVE  faults' \in [Activities -> SUBSET Fault]
BY DEF TypeOK, Note

LEMMA ZAddTypes ==
  ASSUME TypeOK, NEW a \in Activities, NEW m \in Member, NEW s \in Nat, ZAdd(a, m, s)
  PROVE  ranked' \in [Activities -> SUBSET Member] /\ score' \in [Activities -> [Member -> Nat]]
BY DEF TypeOK, ZAdd

LEMMA LeaveTypes ==
  ASSUME TypeOK, NEW w \in Workers, Leave(w)
  PROVE  /\ pc' \in [Workers -> {"idle", "fetch", "default", "restore"}]
         /\ job' \in [Workers -> Activities \cup {NoActivity}]
         /\ \A v \in Workers : job'[v] = NoActivity <=> pc'[v] = "idle"
         /\ page' \in [Workers -> Nat] /\ fetched' \in [Workers -> Nat]
         /\ rows' \in [Workers -> SUBSET Row]
BY DEF TypeOK, Leave

(* A worker that is not idle has an activity. *)
LEMMA JobOfBusy ==
  ASSUME TypeOK, NEW w \in Workers, pc[w] # "idle" PROVE job[w] \in Activities
BY DEF TypeOK

LEMMA TypesOfMatches ==
  ASSUME TypeOK, NEW a \in Activities, NEW u \in Users, Match(a, u) PROVE TypeOK'
<1>1. total[a][u] \in Nat
  BY DEF TypeOK
<1>2. total' \in [Activities -> [Users -> Nat]] /\ inflight' \subseteq Inflight
  BY <1>1 DEF TypeOK, Match, Inflight
<1>3. faults' \in [Activities -> SUBSET Fault]
  BY NoteTypes DEF Match, Fault
<1> QED BY <1>2, <1>3 DEF TypeOK, Match, queueVars, rankVars, work

LEMMA TypesOfRankUpdates ==
  ASSUME TypeOK, NEW m \in inflight, AddRank(m) \/ FailRank(m) PROVE TypeOK'
<1>1. m.act \in Activities /\ m.user \in Member /\ m.total \in Nat
  BY DEF TypeOK, Inflight, Member
<1>2. faults' \in [Activities -> SUBSET Fault]
  BY NoteTypes DEF AddRank, FailRank, Fault
<1>3. CASE AddRank(m)
  <2>1. ranked' \in [Activities -> SUBSET Member] /\ score' \in [Activities -> [Member -> Nat]]
    BY <1>1, <1>3, ZAddTypes DEF AddRank
  <2> QED BY <1>2, <1>3, <2>1 DEF TypeOK, AddRank, queueVars, work
<1>4. CASE FailRank(m)
  BY <1>2, <1>4 DEF TypeOK, FailRank, queueVars, rankVars, work
<1> QED BY <1>3, <1>4

LEMMA TypesOfQueue ==
  ASSUME TypeOK, NEW a \in Activities, Queue!Push(a) \/ Queue!Pop(a)
  PROVE  queue' \in Seq(Activities) /\ queueSet' \subseteq Activities
<1>1. queue \in Seq(Activities) /\ queueSet \subseteq Activities
  BY DEF TypeOK
<1>2. CASE Queue!Push(a)
  BY <1>1, <1>2 DEF Queue!Push
<1>3. CASE Queue!Pop(a)
  <2>1. queue # <<>> /\ queue' = Tail(queue) /\ queueSet' = queueSet \ {a}
    BY <1>3 DEF Queue!Pop
  <2>2. queue' \in Seq(Activities)
    BY <1>1, <2>1
  <2> QED BY <1>1, <2>1, <2>2
<1> QED BY <1>2, <1>3

LEMMA TypesOfFetch ==
  ASSUME TypeOK, NEW w \in Workers, FetchPage(w) PROVE TypeOK'
<1> DEFINE users == PageOf(job[w], page[w])
           count == fetched[w] + Cardinality(users)
           new == {[user |-> u, fund |-> total[job[w]][u]] : u \in users}
<1>1. users \subseteq Users /\ Cardinality(users) \in Nat
  BY PageIsFinite
<1>2. job[w] \in Activities
  BY JobOfBusy DEF FetchPage
<1>3. count \in Nat
  BY <1>1 DEF TypeOK
<1>4. new \subseteq Row
  BY <1>1, <1>2 DEF TypeOK, Row
<1>5. MaxPage \in Nat
  BY FS_CardinalityType, ConstantsAssumption DEF MaxPage
<1>6. fetched' \in [Workers -> Nat]
  BY <1>3 DEF TypeOK, FetchPage
<1>7. rows' \in [Workers -> SUBSET Row]
  <2>1. rows' = [rows EXCEPT ![w] = {r \in @ : r.user \notin users} \cup new]
    BY DEF FetchPage
  <2> DEFINE kept == {r \in rows[w] : r.user \notin users} \cup new
  <2>2. rows' = [rows EXCEPT ![w] = kept]
    BY <2>1
  <2>3. kept \subseteq Row
    <3> HIDE DEF users, new
    <3> QED BY <1>4 DEF TypeOK
  <2> HIDE DEF kept
  <2> QED BY <2>2, <2>3 DEF TypeOK
<1>8. /\ page' \in [Workers -> Nat]
      /\ pc' \in [Workers -> {"idle", "fetch", "default", "restore"}]
      /\ \A v \in Workers : pc'[v] = "idle" <=> pc[v] = "idle"
  <2>1. CASE count = PageSize
    <3>1. /\ page' = [page EXCEPT ![w] = IF @ < MaxPage THEN @ + 1 ELSE @]
          /\ pc' = pc
      BY <2>1 DEF FetchPage
    <3> QED BY <3>1 DEF TypeOK
  <2>2. CASE count # PageSize
    BY <2>2 DEF TypeOK, FetchPage
  <2> QED BY <2>1, <2>2
<1>9. UNCHANGED <<queueVars, total, inflight, rankVars, job, losses, faults>>
  BY DEF FetchPage
<1> QED BY <1>6, <1>7, <1>8, <1>9 DEF TypeOK, queueVars, rankVars

LEMMA TypesOfRestore ==
  ASSUME TypeOK, NEW w \in Workers, NEW r \in rows[w], RestoreUser(w, r) PROVE TypeOK'
<1>1. job[w] \in Activities
  BY JobOfBusy DEF RestoreUser
<1>2. r.user \in Member /\ r.fund \in Nat
  BY DEF TypeOK, Row, Member
<1>3. ranked' \in [Activities -> SUBSET Member] /\ score' \in [Activities -> [Member -> Nat]]
  BY <1>1, <1>2, ZAddTypes DEF RestoreUser
<1>4. CASE rows[w] = {r}
  <2>1. Leave(w) /\ UNCHANGED <<queue, queueSet, total, inflight, losses, faults>>
    BY <1>4 DEF RestoreUser, queueVars
  <2> QED BY <1>3, <2>1, LeaveTypes DEF TypeOK
<1>5. CASE rows[w] # {r}
  <2>1. rows' \in [Workers -> SUBSET Row]
    BY <1>5 DEF TypeOK, RestoreUser
  <2>2. UNCHANGED <<queue, queueSet, pc, job, page, fetched, total, inflight, losses, faults>>
    BY <1>5 DEF RestoreUser, queueVars
  <2> QED BY <1>3, <2>1, <2>2 DEF TypeOK
<1> QED BY <1>4, <1>5

LEMMA TypesOfWorkers ==
  ASSUME TypeOK, NEW w \in Workers, WorkerStep(w) \/ FailRecover(w) PROVE TypeOK'
<1>1. ASSUME NEW a \in Activities, PopElement(w, a) PROVE TypeOK'
  <2>1. queue' \in Seq(Activities) /\ queueSet' \subseteq Activities
    BY <1>1, TypesOfQueue DEF PopElement
  <2>2. a # NoActivity
    BY ConstantsAssumption
  <2> QED BY <1>1, <2>1, <2>2 DEF TypeOK, PopElement, rankVars
<1>2. CASE RestoreDefault(w)
  <2>1. job[w] \in Activities
    BY <1>2, JobOfBusy DEF RestoreDefault
  <2>2. DefaultOid \in Member /\ 0 \in Nat
    BY DEF Member
  <2>3. ranked' \in [Activities -> SUBSET Member] /\ score' \in [Activities -> [Member -> Nat]]
    BY <1>2, <2>1, <2>2, ZAddTypes DEF RestoreDefault
  <2> QED BY <1>2, <2>3, LeaveTypes DEF TypeOK, RestoreDefault, queueVars
<1>3. CASE FailRecover(w)
  <2>1. faults' \in [Activities -> SUBSET Fault]
    BY <1>3, NoteTypes DEF FailRecover, Fault
  <2> QED BY <1>3, <2>1, LeaveTypes DEF TypeOK, FailRecover, queueVars, rankVars
<1> QED BY <1>1, <1>2, <1>3, TypesOfFetch, TypesOfRestore DEF WorkerStep

LEMMA TypesOfLosses ==
  ASSUME TypeOK, LoseRedis \/ (\E a \in Activities : LoseRank(a)) PROVE TypeOK'
<1>1. CASE LoseRedis
  <2>1. queue' = <<>> /\ queueSet' = {}
    BY <1>1 DEF LoseRedis, Queue!Lose
  <2>2. faults' \in [Activities -> SUBSET Fault]
    BY <1>1 DEF LoseRedis, TypeOK, Fault
  <2> QED BY <1>1, <2>1, <2>2 DEF TypeOK, LoseRedis, work
<1>2. ASSUME NEW a \in Activities, LoseRank(a) PROVE TypeOK'
  <2>1. faults' \in [Activities -> SUBSET Fault]
    BY <1>2, NoteTypes DEF LoseRank, Fault
  <2>2. ranked' \in [Activities -> SUBSET Member]
    BY <1>2 DEF TypeOK, LoseRank
  <2>3. score' \in [Activities -> [Member -> Nat]]
    BY <1>2 DEF TypeOK, LoseRank
  <2>4. UNCHANGED <<queue, queueSet, total, inflight, pc, job, page, fetched, rows>>
    BY <1>2 DEF LoseRank, queueVars, work
  <2>5. losses' \in Nat
    BY <1>2 DEF TypeOK, LoseRank
  <2> QED BY <2>1, <2>2, <2>3, <2>4, <2>5 DEF TypeOK
<1> QED BY <1>1, <1>2

LEMMA TypesAtInit == Init => TypeOK
BY DEF Init, Queue!Init, TypeOK, Inflight, Member, Fault

LEMMA TypesKept == TypeOK /\ [Next]_vars => TypeOK'
<1> SUFFICES ASSUME TypeOK, [Next]_vars PROVE TypeOK'
  OBVIOUS
<1>1. ASSUME NEW a \in Activities, ReadRank(a) PROVE TypeOK'
  BY <1>1, TypesOfQueue DEF ReadRank, TypeOK, rankVars, work
<1>2. CASE UNCHANGED vars
  BY <1>2 DEF vars, queueVars, rankVars, work, TypeOK
<1> QED BY <1>1, <1>2, TypesOfMatches, TypesOfRankUpdates, TypesOfWorkers, TypesOfLosses
        DEF Next

(* Every run of matches, readers and workers keeps the types of the queue,  *)
(* the table, the sorted sets and the workers.                              *)
THEOREM TypesCorrect == Spec => []TypeOK
BY TypesAtInit, TypesKept, PTL DEF Spec

-----------------------------------------------------------------------------
(* What a rank shows.                                                       *)

(* An idle worker holds no rows: what it held does not outlive its job.     *)
IdleIsEmpty == \A w \in Workers : pc[w] = "idle" => rows[w] = {}

ScoreInv == TypeOK /\ IdleIsEmpty /\ ScoresWithinTotals

(* The three parts of the bound, so that a step is checked against the part *)
(* it can disturb.                                                          *)
RanksBounded == \A a \in Activities, u \in Users : score[a][u] <= total[a][u]
InflightBounded == \A m \in inflight : m.total <= total[m.act][m.user]
RowsBounded == \A w \in Workers : \A r \in rows[w] : r.fund <= total[job[w]][r.user]

LEMMA BoundParts ==
  ScoresWithinTotals <=> RanksBounded /\ InflightBounded /\ RowsBounded
BY DEF ScoresWithinTotals, RanksBounded, InflightBounded, RowsBounded

LEMMA JobOfRows ==
  ASSUME TypeOK, IdleIsEmpty, NEW w \in Workers, NEW r \in rows[w]
  PROVE  job[w] \in Activities /\ r.user \in Users /\ r.fund \in Nat
BY DEF TypeOK, IdleIsEmpty, Row

(* ZADD of a score that the table reaches. *)
LEMMA ZAddBounded ==
  ASSUME TypeOK, RanksBounded, NEW a \in Activities, NEW m \in Member, NEW s \in Nat,
         ZAdd(a, m, s), m \in Users => s <= total[a][m], total' = total
  PROVE  RanksBounded'
<1>1. score' = [score EXCEPT ![a][m] = s]
  BY DEF ZAdd
<1>2. SUFFICES ASSUME NEW b \in Activities, NEW u \in Users
               PROVE  score'[b][u] <= total[b][u]
  BY DEF RanksBounded
<1>3. CASE b = a /\ u = m
  BY <1>1, <1>3 DEF TypeOK
<1>4. CASE ~ (b = a /\ u = m)
  BY <1>1, <1>4 DEF TypeOK, RanksBounded, Member
<1> QED BY <1>3, <1>4

LEMMA LeaveBounded ==
  ASSUME TypeOK, IdleIsEmpty, RowsBounded, NEW w \in Workers, Leave(w), total' = total
  PROVE  IdleIsEmpty' /\ RowsBounded'
BY DEF Leave, TypeOK, IdleIsEmpty, RowsBounded

LEMMA BoundOfMatch ==
  ASSUME ScoreInv, NEW a \in Activities, NEW u \in Users, Match(a, u)
  PROVE  IdleIsEmpty' /\ ScoresWithinTotals'
<1> USE DEF ScoreInv
<1>1. /\ total \in [Activities -> [Users -> Nat]]
      /\ total' = [total EXCEPT ![a][u] = @ + 1]
      /\ inflight' = inflight \cup {[act |-> a, user |-> u, total |-> total[a][u] + 1]}
      /\ UNCHANGED <<ranked, score, pc, job, rows>>
  BY DEF Match, TypeOK, rankVars, work
<1>2. \A b \in Activities, v \in Users : total[b][v] <= total'[b][v] /\ total'[b][v] \in Nat
  BY <1>1
<1>3. total'[a][u] = total[a][u] + 1
  BY <1>1
<1>4. RanksBounded'
  BY <1>1, <1>2 DEF ScoresWithinTotals, RanksBounded, TypeOK, Member
<1>5. InflightBounded'
  <2> SUFFICES ASSUME NEW m \in inflight' PROVE m.total <= total'[m.act][m.user]
    BY DEF InflightBounded
  <2>1. CASE m \in inflight
    <3>1. m.act \in Activities /\ m.user \in Users /\ m.total \in Nat
      BY <2>1 DEF TypeOK, Inflight
    <3>2. m.total <= total[m.act][m.user]
      BY <2>1 DEF ScoresWithinTotals
    <3>3. total[m.act][m.user] \in Nat
      BY <3>1, <1>1
    <3> QED BY <3>1, <3>2, <3>3, <1>2
  <2>2. CASE m = [act |-> a, user |-> u, total |-> total[a][u] + 1]
    <3>1. total'[a][u] \in Nat
      BY <1>2
    <3> QED BY <2>2, <1>3, <3>1
  <2> QED BY <2>1, <2>2, <1>1
<1>6. RowsBounded'
  <2> SUFFICES ASSUME NEW w \in Workers, NEW r \in rows[w]
               PROVE  r.fund <= total'[job[w]][r.user]
    BY <1>1 DEF RowsBounded
  <2>1. job[w] \in Activities /\ r.user \in Users /\ r.fund \in Nat
    BY JobOfRows
  <2>2. r.fund <= total[job[w]][r.user] /\ total[job[w]][r.user] \in Nat
    BY <2>1, <1>1 DEF ScoresWithinTotals
  <2> QED BY <2>1, <2>2, <1>2
<1>7. IdleIsEmpty'
  BY <1>1 DEF IdleIsEmpty
<1> QED BY <1>4, <1>5, <1>6, <1>7
        DEF ScoresWithinTotals, RanksBounded, InflightBounded, RowsBounded

LEMMA BoundOfRankUpdates ==
  ASSUME ScoreInv, NEW m \in inflight, AddRank(m) \/ FailRank(m)
  PROVE  IdleIsEmpty' /\ ScoresWithinTotals'
<1> USE DEF ScoreInv
<1>1. /\ total' = total /\ inflight' \subseteq inflight
      /\ UNCHANGED <<pc, job, rows>>
  BY DEF AddRank, FailRank, work
<1>2. RanksBounded /\ InflightBounded /\ RowsBounded
  BY BoundParts
<1>3. m.act \in Activities /\ m.user \in Users /\ m.total \in Nat
      /\ m.total <= total[m.act][m.user]
  BY <1>2 DEF TypeOK, Inflight, InflightBounded
<1>4. RanksBounded'
  <2>1. CASE AddRank(m)
    BY <2>1, <1>1, <1>2, <1>3, ZAddBounded DEF AddRank, Member
  <2>2. CASE FailRank(m)
    BY <2>2, <1>1, <1>2 DEF FailRank, RanksBounded, rankVars
  <2> QED BY <2>1, <2>2
<1>5. InflightBounded' /\ RowsBounded' /\ IdleIsEmpty'
  BY <1>1, <1>2 DEF InflightBounded, RowsBounded, IdleIsEmpty
<1> QED BY <1>4, <1>5
        DEF ScoresWithinTotals, RanksBounded, InflightBounded, RowsBounded

LEMMA BoundOfFetch ==
  ASSUME ScoreInv, NEW w \in Workers, FetchPage(w)
  PROVE  IdleIsEmpty' /\ ScoresWithinTotals'
<1> USE DEF ScoreInv
<1> DEFINE users == PageOf(job[w], page[w])
           new == {[user |-> u, fund |-> total[job[w]][u]] : u \in users}
<1>1. users \subseteq Users /\ job[w] \in Activities
  BY PageIsFinite, JobOfBusy DEF FetchPage
<1>2. /\ rows' = [rows EXCEPT ![w] = {r \in @ : r.user \notin users} \cup new]
      /\ UNCHANGED <<total, inflight, score, job>> /\ pc[w] = "fetch"
      /\ pc' = pc \/ pc' = [pc EXCEPT ![w] = "default"] \/ pc' = [pc EXCEPT ![w] = "restore"]
  BY DEF FetchPage, rankVars
<1>3. \A r \in new : r.fund = total[job[w]][r.user] /\ r.fund \in Nat
  BY <1>1 DEF TypeOK
<1>4. RowsBounded'
  <2> SUFFICES ASSUME NEW v \in Workers, NEW r \in rows'[v]
               PROVE  r.fund <= total[job[v]][r.user]
    BY <1>2 DEF RowsBounded
  <2>1. CASE v = w /\ r \in new
    BY <2>1, <1>3
  <2>2. CASE r \in rows[v]
    BY <2>2 DEF ScoresWithinTotals
  <2>3. r \in rows[v] \/ (v = w /\ r \in new)
    <3> HIDE DEF users, new
    <3> QED BY <1>2 DEF TypeOK
  <2> QED BY <2>1, <2>2, <2>3
<1>5. IdleIsEmpty'
  <2> HIDE DEF users, new
  <2> QED BY <1>2 DEF IdleIsEmpty, TypeOK
<1>6. RanksBounded' /\ InflightBounded'
  BY <1>2 DEF ScoresWithinTotals, RanksBounded, InflightBounded
<1> QED BY <1>4, <1>5, <1>6
        DEF ScoresWithinTotals, RanksBounded, InflightBounded, RowsBounded

LEMMA BoundOfWorkers ==
  ASSUME ScoreInv, NEW w \in Workers, WorkerStep(w) \/ FailRecover(w)
  PROVE  IdleIsEmpty' /\ ScoresWithinTotals'
<1> USE DEF ScoreInv
<1>1. RanksBounded /\ InflightBounded /\ RowsBounded
  BY BoundParts
<1> SUFFICES IdleIsEmpty' /\ RanksBounded' /\ InflightBounded' /\ RowsBounded'
  BY DEF ScoresWithinTotals, RanksBounded, InflightBounded, RowsBounded
<1>2. ASSUME NEW a \in Activities, PopElement(w, a)
      PROVE  IdleIsEmpty' /\ RanksBounded' /\ InflightBounded' /\ RowsBounded'
  <2>1. /\ rows' = [rows EXCEPT ![w] = {}] /\ job' = [job EXCEPT ![w] = a]
        /\ pc' = [pc EXCEPT ![w] = "fetch"]
        /\ UNCHANGED <<total, inflight, score>>
    BY <1>2 DEF PopElement, rankVars
  <2>2. RowsBounded' /\ IdleIsEmpty'
    BY <2>1, <1>1 DEF TypeOK, RowsBounded, IdleIsEmpty
  <2> QED BY <2>1, <2>2, <1>1 DEF RanksBounded, InflightBounded
<1>3. ASSUME NEW r \in rows[w], RestoreUser(w, r)
      PROVE  IdleIsEmpty' /\ RanksBounded' /\ InflightBounded' /\ RowsBounded'
  <2>1. /\ job[w] \in Activities /\ r.user \in Member /\ r.fund \in Nat
        /\ r.fund <= total[job[w]][r.user]
    BY <1>1, JobOfRows DEF RowsBounded, Member
  <2>2. total' = total /\ inflight' = inflight
    BY <1>3 DEF RestoreUser
  <2>3. RanksBounded'
    BY <1>1, <1>3, <2>1, <2>2, ZAddBounded DEF RestoreUser
  <2>4. IdleIsEmpty' /\ RowsBounded'
    <3>1. CASE rows[w] = {r}
      BY <3>1, <1>1, <1>3, <2>2, LeaveBounded DEF RestoreUser
    <3>2. CASE rows[w] # {r}
      <4>1. rows' = [rows EXCEPT ![w] = @ \ {r}] /\ job' = job /\ pc' = pc
        BY <3>2, <1>3 DEF RestoreUser
      <4>2. \A v \in Workers : rows'[v] \subseteq rows[v]
        BY <4>1 DEF TypeOK
      <4>3. IdleIsEmpty'
        BY <4>1, <4>2 DEF IdleIsEmpty
      <4> QED BY <1>1, <2>2, <4>1, <4>2, <4>3 DEF RowsBounded
    <3> QED BY <3>1, <3>2
  <2> QED BY <1>1, <2>2, <2>3, <2>4 DEF InflightBounded
<1>4. CASE RestoreDefault(w)
  <2>1. job[w] \in Activities
    BY <1>4, JobOfBusy DEF RestoreDefault
  <2>2. DefaultOid \in Member /\ DefaultOid \notin Users
    BY ConstantsAssumption DEF Member
  <2>3. total' = total /\ inflight' = inflight /\ Leave(w)
    BY <1>4 DEF RestoreDefault
  <2>4. RanksBounded'
    BY <1>1, <1>4, <2>1, <2>2, <2>3, ZAddBounded DEF RestoreDefault
  <2> QED BY <1>1, <2>3, <2>4, LeaveBounded DEF InflightBounded
<1>5. CASE FailRecover(w)
  <2>1. total' = total /\ inflight' = inflight /\ Leave(w) /\ score' = score
    BY <1>5 DEF FailRecover, rankVars
  <2> QED BY <1>1, <2>1, LeaveBounded DEF InflightBounded, RanksBounded
<1>6. CASE FetchPage(w)
  BY <1>6, BoundOfFetch
     DEF ScoresWithinTotals, RanksBounded, InflightBounded, RowsBounded
<1> QED BY <1>2, <1>3, <1>4, <1>5, <1>6 DEF WorkerStep

LEMMA BoundOfLosses ==
  ASSUME ScoreInv, LoseRedis \/ (\E a \in Activities : LoseRank(a))
  PROVE  IdleIsEmpty' /\ ScoresWithinTotals'
<1> USE DEF ScoreInv
<1>1. UNCHANGED <<total, inflight, pc, job, rows>>
  BY DEF LoseRedis, LoseRank, work
<1>2. RanksBounded /\ InflightBounded /\ RowsBounded
  BY BoundParts
<1>3. \A a \in Activities, u \in Users : score'[a][u] = score[a][u] \/ score'[a][u] = 0
  <2>1. CASE LoseRedis
    BY <2>1 DEF LoseRedis, Member
  <2>2. ASSUME NEW b \in Activities, LoseRank(b)
        PROVE  \A a \in Activities, u \in Users :
                 score'[a][u] = score[a][u] \/ score'[a][u] = 0
    <3>1. score' = [score EXCEPT ![b] = [m \in Member |-> 0]]
      BY <2>2 DEF LoseRank
    <3> QED BY <3>1 DEF TypeOK, Member
  <2> QED BY <2>1, <2>2
<1>4. \A a \in Activities, u \in Users : 0 <= total[a][u]
  BY DEF TypeOK
<1>5. RanksBounded'
  BY <1>1, <1>2, <1>3, <1>4 DEF RanksBounded
<1>6. InflightBounded' /\ RowsBounded' /\ IdleIsEmpty'
  BY <1>1, <1>2 DEF InflightBounded, RowsBounded, IdleIsEmpty
<1> QED BY <1>5, <1>6
        DEF ScoresWithinTotals, RanksBounded, InflightBounded, RowsBounded

LEMMA ScoreInvKept == ScoreInv /\ [Next]_vars => ScoreInv'
<1> SUFFICES ASSUME ScoreInv, [Next]_vars PROVE ScoreInv'
  OBVIOUS
<1>1. TypeOK'
  BY TypesKept DEF ScoreInv
<1>2. ASSUME UNCHANGED <<total, inflight, ranked, score, pc, job, rows>>
      PROVE  IdleIsEmpty' /\ ScoresWithinTotals'
  <2>1. RanksBounded /\ InflightBounded /\ RowsBounded /\ IdleIsEmpty
    BY BoundParts DEF ScoreInv
  <2>2. RanksBounded' /\ InflightBounded' /\ RowsBounded' /\ IdleIsEmpty'
    BY <1>2, <2>1 DEF RanksBounded, InflightBounded, RowsBounded, IdleIsEmpty
  <2> QED BY <2>2
          DEF ScoresWithinTotals, RanksBounded, InflightBounded, RowsBounded
<1>3. ASSUME UNCHANGED vars \/ (\E a \in Activities : ReadRank(a))
      PROVE  UNCHANGED <<total, inflight, ranked, score, pc, job, rows>>
  BY <1>3 DEF vars, ReadRank, rankVars, work
<1>4. IdleIsEmpty' /\ ScoresWithinTotals'
  BY <1>2, <1>3, BoundOfMatch, BoundOfRankUpdates, BoundOfWorkers, BoundOfLosses DEF Next
<1> QED BY <1>1, <1>4 DEF ScoreInv

(* Neither a rank, nor a ZADD on its way, nor a row a worker holds is ever  *)
(* ahead of the table of totals.                                            *)
THEOREM ScoresBounded == Spec => []ScoresWithinTotals
<1>1. Init => ScoreInv
  <2>1. Init => TypeOK
    BY TypesAtInit
  <2>2. Init => IdleIsEmpty /\ ScoresWithinTotals
    BY DEF Init, IdleIsEmpty, ScoresWithinTotals, Member
  <2> QED BY <2>1, <2>2 DEF ScoreInv
<1>2. ScoreInv => ScoresWithinTotals
  BY DEF ScoreInv
<1> QED BY <1>1, <1>2, ScoreInvKept, PTL DEF Spec

-----------------------------------------------------------------------------
(* When a rank is exact. Nothing is said of an activity that something      *)
(* disturbed (faults); of the others:                                       *)

Read(w) == {r.user : r \in rows[w]}
Shown(a) == {u \in Listed(a) : u \in ranked[a] /\ score[a][u] = total[a][u]}
OnTheWay(a) == {m.user : m \in {n \in inflight : n.act = a}}

(* A ZADD that is on its way carries the total of the table: a user has one *)
(* match at a time.                                                         *)
FlightsExact == \A m \in inflight : m.total = total[m.act][m.user]

(* A worker has read every row of the pages before its next one, and when   *)
(* it has read them all, each is shown or still to be added.                *)
FetchExact(w) ==
  /\ (page[w] = 0 /\ fetched[w] = 0) \/ (page[w] > 0 /\ fetched[w] = PageSize)
  /\ \A u \in Listed(job[w]) :
       Before(u, Listed(job[w])) < page[w] * PageSize => u \in Read(w)

WorkerExact(w) ==
  pc[w] # "idle" /\ faults[job[w]] = {} =>
    /\ \A r \in rows[w] : r.fund = total[job[w]][r.user]
    /\ pc[w] = "fetch" => FetchExact(w)
    /\ pc[w] = "restore" => Listed(job[w]) \subseteq Read(w) \cup Shown(job[w])
    /\ pc[w] = "default" => Listed(job[w]) = {}

(* A rank is empty, being rebuilt, or short of nobody but those whose ZADD  *)
(* is on its way.                                                           *)
RankComplete(a) ==
  faults[a] = {} =>
    \/ ranked[a] = {} \/ Recovering(a) # {}
    \/ Listed(a) \subseteq Shown(a) \cup OnTheWay(a)

ExactInv ==
  /\ FlightsExact
  /\ \A w \in Workers : WorkerExact(w)
  /\ \A a \in Activities : RankComplete(a)

LEMMA ListedSame ==
  ASSUME NEW a, total'[a] = total[a] PROVE Listed(a)' = Listed(a)
BY DEF Listed

LEMMA NoteGrows ==
  ASSUME TypeOK, NEW a \in Activities, NEW f, NEW h \in BOOLEAN, Note(a, f, h)
  PROVE  /\ \A b \in Activities : faults'[b] = {} => faults[b] = {}
         /\ h => faults'[a] # {}
BY DEF TypeOK, Note

(* A step that neither touches a worker nor the table of its activity, and  *)
(* takes nothing from the rank, leaves it as exact as it was.               *)
LEMMA WorkerKept ==
  ASSUME TypeOK, NEW v \in Workers, WorkerExact(v),
         pc'[v] = pc[v], job'[v] = job[v], page'[v] = page[v],
         fetched'[v] = fetched[v], rows'[v] = rows[v],
         \A a \in Activities : a = job[v] /\ pc[v] # "idle" /\ faults'[a] = {} =>
           faults[a] = {} /\ total'[a] = total[a] /\ Shown(a) \subseteq Shown(a)'
  PROVE  WorkerExact(v)'
<1> SUFFICES ASSUME pc[v] # "idle", faults'[job[v]] = {} PROVE WorkerExact(v)'
  BY DEF WorkerExact
<1>1. job[v] \in Activities
  BY JobOfBusy
<1>2. PICK a \in Activities : a = job[v]
  BY <1>1
<1>3. faults[a] = {} /\ total'[a] = total[a] /\ Shown(a) \subseteq Shown(a)'
  BY <1>2
<1>4. Listed(a)' = Listed(a)
  BY <1>3, ListedSame
<1>5. Read(v)' = Read(v)
  BY DEF Read
<1>6. /\ \A r \in rows[v] : r.fund = total[a][r.user]
      /\ pc[v] = "fetch" => FetchExact(v)
      /\ pc[v] = "restore" => Listed(a) \subseteq Read(v) \cup Shown(a)
      /\ pc[v] = "default" => Listed(a) = {}
  BY <1>2, <1>3 DEF WorkerExact
<1>7. pc[v] = "fetch" => FetchExact(v)'
  <2>1. FetchExact(v) => FetchExact(v)'
    BY <1>2, <1>4, <1>5 DEF FetchExact
  <2> QED BY <1>6, <2>1
<1>8. pc[v] = "restore" => Listed(a)' \subseteq Read(v)' \cup Shown(a)'
  BY <1>3, <1>4, <1>5, <1>6
<1>9. \A r \in rows'[v] : r.fund = total'[a][r.user]
  BY <1>3, <1>6
<1> QED BY <1>2, <1>4, <1>6, <1>7, <1>8, <1>9 DEF WorkerExact

(* The same for a rank. *)
LEMMA RankKept ==
  ASSUME NEW a \in Activities, RankComplete(a),
         faults'[a] = {} =>
           /\ faults[a] = {} /\ total'[a] = total[a] /\ ranked'[a] = ranked[a]
           /\ score'[a] = score[a] /\ (Recovering(a) # {} => Recovering(a)' # {})
           /\ OnTheWay(a) \subseteq OnTheWay(a)'
  PROVE  RankComplete(a)'
<1> SUFFICES ASSUME faults'[a] = {} PROVE RankComplete(a)'
  BY DEF RankComplete
<1>1. Listed(a)' = Listed(a)
  BY ListedSame
<1>2. Shown(a)' = Shown(a)
  BY <1>1 DEF Shown
<1> QED BY <1>1, <1>2 DEF RankComplete

(* ZADD shows its member, and takes nobody else from the rank, when it      *)
(* carries the total of the table.                                          *)
LEMMA ZAddShows ==
  ASSUME TypeOK, NEW a \in Activities, NEW m \in Member, NEW s, ZAdd(a, m, s), total' = total
  PROVE  /\ \A b \in Activities \ {a} :
              ranked'[b] = ranked[b] /\ score'[b] = score[b] /\ Shown(b)' = Shown(b)
         /\ (m \in Users => s = total[a][m]) =>
              /\ Shown(a) \subseteq Shown(a)'
              /\ m \in Listed(a) => m \in Shown(a)'
<1>1. /\ ranked' = [ranked EXCEPT ![a] = @ \cup {m}]
      /\ score' = [score EXCEPT ![a][m] = s]
  BY DEF ZAdd
<1>2. \A b \in Activities : Listed(b)' = Listed(b)
  BY ListedSame
<1>3. \A b \in Activities \ {a} : ranked'[b] = ranked[b] /\ score'[b] = score[b]
  BY <1>1 DEF TypeOK
<1>4. \A b \in Activities \ {a} : Shown(b)' = Shown(b)
  BY <1>2, <1>3 DEF Shown
<1>5. /\ ranked'[a] = ranked[a] \cup {m} /\ score'[a][m] = s
      /\ \A u \in Users : u # m => score'[a][u] = score[a][u]
  BY <1>1 DEF TypeOK, Member
<1>6. ASSUME m \in Users => s = total[a][m]
      PROVE  Shown(a) \subseteq Shown(a)' /\ (m \in Listed(a) => m \in Shown(a)')
  <2>1. Listed(a) \subseteq Users
    BY DEF Listed
  <2> QED BY <1>2, <1>5, <1>6, <2>1 DEF Shown
<1> QED BY <1>3, <1>4, <1>6

LEMMA ExactOfMatch ==
  ASSUME TypeOK, ExactInv, NEW a \in Activities, NEW u \in Users, Match(a, u)
  PROVE  ExactInv'
<1>1. /\ total' = [total EXCEPT ![a][u] = @ + 1]
      /\ inflight' = inflight \cup {[act |-> a, user |-> u, total |-> total[a][u] + 1]}
      /\ ~ \E m \in inflight : m.act = a /\ m.user = u
      /\ Note(a, "race", Recovering(a) # {})
      /\ UNCHANGED <<ranked, score, pc, job, page, fetched, rows>>
  BY DEF Match, rankVars, work
<1>2. /\ total'[a][u] = total[a][u] + 1
      /\ \A b \in Activities, v \in Users : ~ (b = a /\ v = u) => total'[b][v] = total[b][v]
      /\ \A b \in Activities \ {a} : total'[b] = total[b]
  BY <1>1 DEF TypeOK
<1>3. /\ \A b \in Activities : faults'[b] = {} => faults[b] = {}
      /\ Recovering(a) # {} => faults'[a] # {}
  BY <1>1, NoteGrows
<1>4. FlightsExact'
  <2> SUFFICES ASSUME NEW m \in inflight' PROVE m.total = total'[m.act][m.user]
    BY DEF FlightsExact
  <2>1. CASE m \in inflight
    <3>1. m.act \in Activities /\ m.user \in Users /\ ~ (m.act = a /\ m.user = u)
      BY <2>1, <1>1 DEF TypeOK, Inflight
    <3> QED BY <2>1, <3>1, <1>2 DEF ExactInv, FlightsExact
  <2>2. CASE m = [act |-> a, user |-> u, total |-> total[a][u] + 1]
    BY <2>2, <1>2
  <2> QED BY <2>1, <2>2, <1>1
<1>5. ASSUME NEW v \in Workers PROVE WorkerExact(v)'
  <2>1. ASSUME NEW b \in Activities, b = job[v], faults'[b] = {}
        PROVE  faults[b] = {} /\ total'[b] = total[b] /\ Shown(b) \subseteq Shown(b)'
    <3>1. b # a
      BY <1>3, <2>1 DEF Recovering
    <3>2. total'[b] = total[b] /\ Listed(b)' = Listed(b)
      BY <3>1, <1>2, ListedSame
    <3> QED BY <2>1, <3>2, <1>1, <1>3 DEF Shown
  <2> QED BY <1>1, <2>1, WorkerKept DEF ExactInv
<1>6. ASSUME NEW b \in Activities PROVE RankComplete(b)'
  <2>1. OnTheWay(b) \subseteq OnTheWay(b)'
    BY <1>1 DEF OnTheWay
  <2>2. CASE b # a
    <3>1. Recovering(b)' = Recovering(b)
      BY <1>1 DEF Recovering
    <3> QED BY <2>1, <2>2, <3>1, <1>1, <1>2, <1>3, RankKept DEF ExactInv
  <2>3. CASE b = a
    <3> SUFFICES ASSUME faults'[a] = {}, ranked[a] # {}
                 PROVE  Listed(a)' \subseteq Shown(a)' \cup OnTheWay(a)'
      BY <2>3, <1>1 DEF RankComplete
    <3>1. Listed(a) \subseteq Shown(a) \cup OnTheWay(a)
      BY <1>3 DEF ExactInv, RankComplete
    <3>2. u \in OnTheWay(a)'
      <4>1. [act |-> a, user |-> u, total |-> total[a][u] + 1] \in inflight'
        BY <1>1
      <4> QED BY <4>1 DEF OnTheWay
    <3>3. \A v \in Users \ {u} : v \in Listed(a)' => v \in Listed(a)
      BY <1>2 DEF Listed
    <3>4. \A v \in Users \ {u} : v \in Shown(a) => v \in Shown(a)'
      BY <1>1, <1>2 DEF Shown, Listed
    <3>5. Listed(a)' \subseteq Users
      BY DEF Listed
    <3> QED BY <2>1, <2>3, <3>1, <3>2, <3>3, <3>4, <3>5
  <2> QED BY <2>2, <2>3
<1> QED BY <1>4, <1>5, <1>6 DEF ExactInv

LEMMA ExactOfAdd ==
  ASSUME TypeOK, ExactInv, NEW m \in inflight, AddRank(m)
  PROVE  ExactInv'
<1> DEFINE a == m.act
<1>1. /\ inflight' = inflight \ {m} /\ ZAdd(a, m.user, m.total)
      /\ Note(a, "race", ranked[a] = {} /\ ~ AllOnTheWay(a))
      /\ UNCHANGED <<total, pc, job, page, fetched, rows>>
  BY DEF AddRank, work
<1>2. a \in Activities /\ m.user \in Member /\ m.user \in Users /\ m.total = total[a][m.user]
  BY DEF TypeOK, Inflight, ExactInv, FlightsExact, Member
<1>3. /\ \A b \in Activities : faults'[b] = {} => faults[b] = {}
      /\ ranked[a] = {} /\ ~ AllOnTheWay(a) => faults'[a] # {}
  BY <1>1, <1>2, NoteGrows
<1>4. /\ \A b \in Activities \ {a} :
           ranked'[b] = ranked[b] /\ score'[b] = score[b] /\ Shown(b)' = Shown(b)
      /\ Shown(a) \subseteq Shown(a)'
      /\ m.user \in Listed(a) => m.user \in Shown(a)'
  <2> HIDE DEF a
  <2> QED BY <1>1, <1>2, ZAddShows
<1>5. FlightsExact'
  BY <1>1 DEF ExactInv, FlightsExact
<1>6. ASSUME NEW v \in Workers PROVE WorkerExact(v)'
  <2> HIDE DEF a
  <2>1. \A b \in Activities : Shown(b) \subseteq Shown(b)'
    BY <1>4
  <2> QED BY <2>1, <1>1, <1>3, WorkerKept DEF ExactInv
<1>7. ASSUME NEW b \in Activities PROVE RankComplete(b)'
  <2>1. Recovering(b)' = Recovering(b)
    BY <1>1 DEF Recovering
  <2>2. CASE b # a
    <3>1. OnTheWay(b) \subseteq OnTheWay(b)'
      BY <1>1, <2>2 DEF OnTheWay
    <3> QED BY <2>1, <2>2, <3>1, <1>1, <1>3, <1>4, RankKept DEF ExactInv
  <2>3. CASE b = a
    <3> SUFFICES ASSUME faults'[a] = {}, Recovering(a) = {}
                 PROVE  Listed(a)' \subseteq Shown(a)' \cup OnTheWay(a)'
      BY <2>1, <2>3 DEF RankComplete
    <3>1. Listed(a)' = Listed(a)
      BY <1>1, ListedSame
    <3>2. OnTheWay(a) \subseteq OnTheWay(a)' \cup {m.user}
      BY <1>1 DEF OnTheWay
    <3>3. ASSUME ranked[a] = {} PROVE Listed(a) \subseteq OnTheWay(a)
      BY <1>3, <3>3 DEF AllOnTheWay, OnTheWay
    <3>4. Listed(a) \subseteq Shown(a) \cup OnTheWay(a)
      BY <3>3, <1>2, <1>3 DEF ExactInv, RankComplete
    <3> QED BY <2>3, <3>1, <3>2, <3>4, <1>4
  <2> QED BY <2>2, <2>3
<1> QED BY <1>5, <1>6, <1>7 DEF ExactInv

LEMMA ExactOfFailedAdd ==
  ASSUME TypeOK, ExactInv, NEW m \in inflight, FailRank(m)
  PROVE  ExactInv'
<1>1. /\ inflight' = inflight \ {m} /\ Note(m.act, "fail", TRUE)
      /\ UNCHANGED <<total, ranked, score, pc, job, page, fetched, rows>>
  BY DEF FailRank, rankVars, work
<1>2. m.act \in Activities
  BY DEF TypeOK, Inflight
<1>3. /\ \A b \in Activities : faults'[b] = {} => faults[b] = {}
      /\ faults'[m.act] # {}
  BY <1>1, <1>2, NoteGrows
<1>4. \A b \in Activities : Shown(b)' = Shown(b)
  BY <1>1 DEF Shown, Listed
<1>5. FlightsExact'
  BY <1>1 DEF ExactInv, FlightsExact
<1>6. ASSUME NEW v \in Workers PROVE WorkerExact(v)'
  BY <1>1, <1>3, <1>4, WorkerKept DEF ExactInv
<1>7. ASSUME NEW b \in Activities PROVE RankComplete(b)'
  <2>1. Recovering(b)' = Recovering(b)
    BY <1>1 DEF Recovering
  <2>2. b # m.act => OnTheWay(b) \subseteq OnTheWay(b)'
    BY <1>1 DEF OnTheWay
  <2> QED BY <2>1, <2>2, <1>1, <1>3, RankKept DEF ExactInv
<1> QED BY <1>5, <1>6, <1>7 DEF ExactInv

LEMMA ExactOfPop ==
  ASSUME TypeOK, ExactInv, NEW w \in Workers, NEW a \in Activities, PopElement(w, a)
  PROVE  ExactInv'
<1>1. /\ pc[w] = "idle" /\ pc' = [pc EXCEPT ![w] = "fetch"] /\ job' = [job EXCEPT ![w] = a]
      /\ page' = [page EXCEPT ![w] = 0] /\ fetched' = [fetched EXCEPT ![w] = 0]
      /\ rows' = [rows EXCEPT ![w] = {}]
      /\ UNCHANGED <<total, inflight, ranked, score, faults>>
  BY DEF PopElement, rankVars
<1>2. \A b \in Activities : Shown(b)' = Shown(b) /\ OnTheWay(b)' = OnTheWay(b)
  BY <1>1 DEF Shown, Listed, OnTheWay
<1>3. FlightsExact'
  BY <1>1 DEF ExactInv, FlightsExact
<1>4. ASSUME NEW v \in Workers PROVE WorkerExact(v)'
  <2>1. CASE v # w
    BY <2>1, <1>1, <1>2, WorkerKept DEF ExactInv, TypeOK
  <2>2. CASE v = w
    <3>1. pc'[w] = "fetch" /\ page'[w] = 0 /\ fetched'[w] = 0 /\ rows'[w] = {} /\ job'[w] = a
      BY <1>1 DEF TypeOK
    <3>2. \A u : Before(u, Listed(a)') \in Nat
      <4>1. Listed(a)' \in SUBSET Nat /\ IsFiniteSet(Listed(a)')
        <5>1. Listed(a)' \subseteq Users
          BY DEF Listed
        <5> QED BY <5>1, ConstantsAssumption, FS_Subset
      <4> QED BY <4>1, BeforeIsNat
    <3>3. FetchExact(w)'
      BY <3>1, <3>2, ConstantsAssumption DEF FetchExact
    <3> QED BY <2>2, <3>1, <3>3 DEF WorkerExact
  <2> QED BY <2>1, <2>2
<1>5. ASSUME NEW b \in Activities PROVE RankComplete(b)'
  <2>1. \A v \in Workers : job[v] = b => v # w
    BY <1>1, ConstantsAssumption DEF TypeOK
  <2>2. Recovering(b) \subseteq Recovering(b)'
    BY <2>1, <1>1 DEF Recovering, TypeOK
  <2> QED BY <2>2, <1>1, <1>2, RankKept DEF ExactInv
<1> QED BY <1>3, <1>4, <1>5 DEF ExactInv

(* The rows of an activity: how many there are, and where each stands.      *)
LEMMA ListedIs ==
  ASSUME NEW a
  PROVE  /\ Listed(a) \in SUBSET Nat /\ IsFiniteSet(Listed(a))
         /\ Cardinality(Listed(a)) \in Nat
         /\ Cardinality(Listed(a)) <= Cardinality(Users) /\ Cardinality(Users) \in Nat
         /\ \A u \in Listed(a) :
              Before(u, Listed(a)) \in Nat /\ Before(u, Listed(a)) < Cardinality(Listed(a))
<1>1. Listed(a) \subseteq Users
  BY DEF Listed
<1>2. /\ Listed(a) \in SUBSET Nat /\ IsFiniteSet(Listed(a))
      /\ Cardinality(Listed(a)) <= Cardinality(Users)
  BY <1>1, ConstantsAssumption, FS_Subset
<1> QED BY <1>2, ConstantsAssumption, FS_CardinalityType, BeforeIsNat, BeforeIsBelow

(* A page that is not full is the last one with rows.                       *)
LEMMA LastPage ==
  ASSUME NEW a, NEW p \in Nat, Cardinality(PageOf(a, p)) # PageSize, NEW u \in Listed(a)
  PROVE  Before(u, Listed(a)) < (p + 1) * PageSize
<1> DEFINE o == p * PageSize
<1>1. PageSize \in Nat
  BY ConstantsAssumption
<1>2. o \in Nat /\ (p + 1) * PageSize = o + PageSize
  BY <1>1
<1>3. PageOf(a, p) = {x \in Listed(a) : Before(x, Listed(a)) >= o
                                       /\ Before(x, Listed(a)) < o + PageSize}
  <2>1. \A x \in Listed(a) : Before(x, Listed(a)) \in Nat
    BY ListedIs
  <2> QED BY <2>1, <1>2 DEF PageOf
<1> HIDE DEF o
<1>4. ~ o + PageSize <= Before(u, Listed(a))
  BY <1>1, <1>2, <1>3, FullPage, ListedIs
<1> QED BY <1>1, <1>2, <1>4, ListedIs

LEMMA ExactOfFetch ==
  ASSUME Cardinality(Users) <= 2 * PageSize,
         TypeOK, ExactInv, NEW w \in Workers, FetchPage(w)
  PROVE  ExactInv'
<1>1. PICK a \in Activities : a = job[w]
  BY JobOfBusy DEF FetchPage
<1>2. PICK p \in Nat : p = page[w]
  BY DEF TypeOK
<1> DEFINE users == PageOf(a, p)
           n == Cardinality(users)
           count == fetched[w] + n
           new == {[user |-> u, fund |-> total[a][u]] : u \in users}
           B(u) == Before(u, Listed(a))
<1>3. /\ pc[w] = "fetch" /\ fetched'[w] = count
      /\ rows'[w] = {r \in rows[w] : r.user \notin users} \cup new
      /\ job'[w] = a
      /\ count = PageSize =>
           pc'[w] = "fetch" /\ page'[w] = IF p < MaxPage THEN p + 1 ELSE p
      /\ count # PageSize =>
           pc'[w] = IF count = 0 THEN "default" ELSE "restore"
  BY <1>1, <1>2 DEF FetchPage, TypeOK
<1>4. UNCHANGED <<total, inflight, ranked, score, job, faults>>
  BY DEF FetchPage, rankVars
<1>5. \A v \in Workers \ {w} : pc'[v] = pc[v] /\ page'[v] = page[v]
                              /\ fetched'[v] = fetched[v] /\ rows'[v] = rows[v]
  BY DEF FetchPage, TypeOK
<1>6. users \subseteq Listed(a) /\ users \subseteq Users /\ n \in Nat
      /\ IsFiniteSet(users)
  <2>1. users \subseteq Listed(a) /\ Listed(a) \subseteq Users
    BY DEF PageOf, Listed
  <2> QED BY <2>1, ListedIs, FS_Subset, FS_CardinalityType
<1>7. \A b \in Activities : /\ Shown(b)' = Shown(b) /\ OnTheWay(b)' = OnTheWay(b)
                            /\ Recovering(b)' = Recovering(b) /\ Listed(b)' = Listed(b)
  BY <1>4 DEF Shown, Listed, OnTheWay, Recovering
<1>8. FlightsExact' /\ \A b \in Activities : RankComplete(b)'
  <2>1. FlightsExact'
    BY <1>4 DEF ExactInv, FlightsExact
  <2> QED BY <2>1, <1>4, <1>7, RankKept DEF ExactInv
<1>9. \A v \in Workers \ {w} : WorkerExact(v)'
  BY <1>4, <1>5, <1>7, WorkerKept DEF ExactInv
<1>10. WorkerExact(w)'
  <2> SUFFICES ASSUME faults[a] = {} PROVE WorkerExact(w)'
    BY <1>1, <1>4 DEF WorkerExact
  <2>1. FetchExact(w) /\ \A r \in rows[w] : r.fund = total[a][r.user]
    BY <1>1, <1>3 DEF ExactInv, WorkerExact
  <2>2. \A r \in rows'[w] : r.fund = total'[a][r.user]
    BY <2>1, <1>3, <1>4
  <2>3. \A u \in Listed(a) : u \in Read(w) \/ u \in users => u \in Read(w)'
    <3> SUFFICES ASSUME NEW u \in Listed(a), u \in Read(w) \/ u \in users
                 PROVE  \E r \in rows'[w] : r.user = u
      BY DEF Read
    <3>1. CASE u \in users
      <4>1. [user |-> u, fund |-> total[a][u]] \in rows'[w]
        BY <3>1, <1>3
      <4> QED BY <4>1
    <3>2. CASE u \notin users
      <4>1. PICK r \in rows[w] : r.user = u
        BY <3>2 DEF Read
      <4> QED BY <3>2, <4>1, <1>3
    <3> QED BY <3>1, <3>2
  <2>4. PageSize \in Nat \ {0} /\ \A u \in Listed(a) : B(u) \in Nat
    BY ConstantsAssumption, ListedIs
  <2>5. /\ (p = 0 /\ fetched[w] = 0) \/ (p > 0 /\ fetched[w] = PageSize)
        /\ \A u \in Listed(a) : B(u) < p * PageSize => u \in Read(w)
    BY <2>1, <1>1, <1>2 DEF FetchExact
  <2>6. \A u \in Listed(a) : B(u) < (p + 1) * PageSize => u \in Read(w)'
    <3> SUFFICES ASSUME NEW u \in Listed(a), B(u) < (p + 1) * PageSize PROVE u \in Read(w)'
      OBVIOUS
    <3>1. CASE B(u) < p * PageSize
      BY <3>1, <2>3, <2>5
    <3>2. CASE p * PageSize <= B(u)
      <4>1. u \in users
        BY <3>2 DEF PageOf
      <4> QED BY <4>1, <2>3
    <3>3. p * PageSize \in Nat
      BY <2>4
    <3> QED BY <3>1, <3>2, <3>3, <2>4
  <2> HIDE DEF users, new, B, n
  <2>7. CASE count = PageSize
    <3>1. page'[w] = p + 1 \/ (page'[w] = p /\ p > 0)
      <4>1. MaxPage \in Nat /\ (p = 0 => n <= MaxPage)
        <5>1. n <= Cardinality(Listed(a))
          BY <1>6, ListedIs, FS_Subset DEF n
        <5> QED BY <5>1, ListedIs, <1>6 DEF MaxPage
      <4>2. p = 0 => n > 0
        BY <2>4, <2>5, <2>7, <1>6
      <4> QED BY <4>1, <4>2, <1>3, <1>6, <2>7
    <3>2. \A u \in Listed(a) : B(u) < page'[w] * PageSize => u \in Read(w)'
      <4>1. CASE page'[w] = p + 1
        BY <4>1, <2>6
      <4>2. CASE page'[w] = p
        <5>1. \A u \in Listed(a) : B(u) < p * PageSize => B(u) < (p + 1) * PageSize
          BY <2>4
        <5> QED BY <4>2, <5>1, <2>6
      <4> QED BY <3>1, <4>1, <4>2
    <3>3. FetchExact(w)'
      BY <3>1, <3>2, <1>3, <1>7, <2>7 DEF FetchExact, B
    <3> QED BY <3>3, <2>2, <2>7, <1>3 DEF WorkerExact
  <2>8. CASE count # PageSize
    <3>1. \A u \in Listed(a) : B(u) < (p + 1) * PageSize
      <4>1. CASE p = 0
        <5>1. n # PageSize
          BY <4>1, <2>4, <2>5, <2>8, <1>6
        <5> QED BY <5>1, LastPage DEF n, users, B
      <4>2. CASE p > 0
        <5>1. 2 * PageSize <= (p + 1) * PageSize
          BY <4>2, <2>4
        <5>2. \A u \in Listed(a) : B(u) < 2 * PageSize
          BY <2>4, ListedIs DEF B
        <5>3. (p + 1) * PageSize \in Nat
          BY <2>4
        <5> QED BY <5>1, <5>2, <5>3, <2>4
      <4> QED BY <4>1, <4>2
    <3>2. Listed(a) \subseteq Read(w)'
      BY <3>1, <2>6
    <3>3. CASE count = 0
      <4>1. n = 0 /\ users = {} /\ p = 0
        <5>1. n = 0 /\ p = 0
          BY <3>3, <2>4, <2>5, <1>6
        <5> QED BY <5>1, <1>6, FS_EmptySet DEF n
      <4>2. Listed(a) = {}
        <5>1. \A u \in Listed(a) : u \in users
          BY <3>1, <4>1, <2>4 DEF PageOf, users, B
        <5> QED BY <4>1, <5>1
      <4> QED BY <3>3, <4>2, <2>2, <2>8, <1>3, <1>7 DEF WorkerExact
    <3>4. CASE count # 0
      BY <3>2, <3>4, <2>2, <2>8, <1>3, <1>7 DEF WorkerExact
    <3> QED BY <3>3, <3>4
  <2> QED BY <2>7, <2>8
<1> QED BY <1>8, <1>9, <1>10 DEF ExactInv

(* A worker that leaves is bound to nothing. *)
LEMMA LeaveExact ==
  ASSUME TypeOK, ExactInv, NEW w \in Workers, Leave(w), total' = total,
         \A b \in Activities : faults'[b] = {} => faults[b] = {},
         \A b \in Activities : b # job[w] \/ faults'[b] = {} => Shown(b) \subseteq Shown(b)',
         NEW v \in Workers
  PROVE  WorkerExact(v)'
<1>1. CASE v = w
  BY <1>1 DEF Leave, TypeOK, WorkerExact
<1>2. CASE v # w
  <2>1. /\ pc'[v] = pc[v] /\ job'[v] = job[v] /\ page'[v] = page[v]
        /\ fetched'[v] = fetched[v] /\ rows'[v] = rows[v]
    BY <1>2 DEF Leave, TypeOK
  <2> QED BY <2>1, WorkerKept DEF ExactInv
<1> QED BY <1>1, <1>2

LEMMA LeaveRecovering ==
  ASSUME TypeOK, NEW w \in Workers, Leave(w), NEW b \in Activities, b # job[w]
  PROVE  Recovering(b)' = Recovering(b)
BY ConstantsAssumption DEF Leave, TypeOK, Recovering

LEMMA ExactOfRestore ==
  ASSUME TypeOK, ExactInv, NEW w \in Workers, NEW r \in rows[w], RestoreUser(w, r)
  PROVE  ExactInv'
<1>1. PICK a \in Activities : a = job[w]
  BY JobOfBusy DEF RestoreUser
<1>2. /\ pc[w] = "restore" /\ ZAdd(a, r.user, r.fund)
      /\ UNCHANGED <<total, inflight, faults>>
  BY <1>1 DEF RestoreUser
<1>3. r.user \in Users /\ r.user \in Member
  BY DEF TypeOK, Row, Member
<1>4. \A b \in Activities \ {a} :
        ranked'[b] = ranked[b] /\ score'[b] = score[b] /\ Shown(b)' = Shown(b)
  BY <1>2, <1>3, ZAddShows
<1>5. ASSUME faults[a] = {}
      PROVE  /\ Shown(a) \subseteq Shown(a)' /\ (r.user \in Listed(a) => r.user \in Shown(a)')
             /\ Listed(a) \subseteq Read(w) \cup Shown(a)
             /\ \A q \in rows[w] : q.fund = total[a][q.user]
  <2>1. /\ \A q \in rows[w] : q.fund = total[a][q.user]
        /\ Listed(a) \subseteq Read(w) \cup Shown(a)
    BY <1>1, <1>2, <1>5 DEF ExactInv, WorkerExact
  <2> QED BY <2>1, <1>2, <1>3, ZAddShows
<1>6. \A b \in Activities : b # job[w] \/ faults'[b] = {} => Shown(b) \subseteq Shown(b)'
  BY <1>1, <1>2, <1>4, <1>5
<1>7. \A b \in Activities : Listed(b)' = Listed(b) /\ OnTheWay(b)' = OnTheWay(b)
  BY <1>2 DEF Listed, OnTheWay
<1>8. FlightsExact'
  BY <1>2 DEF ExactInv, FlightsExact
<1>9. CASE rows[w] = {r}
  <2>1. Leave(w)
    BY <1>9 DEF RestoreUser
  <2>2. \A v \in Workers : WorkerExact(v)'
    BY <2>1, <1>2, <1>6, LeaveExact
  <2>3. ASSUME NEW b \in Activities PROVE RankComplete(b)'
    <3>1. CASE b # a
      BY <3>1, <2>1, <1>1, <1>2, <1>4, <1>7, LeaveRecovering, RankKept DEF ExactInv
    <3>2. CASE b = a
      <4> SUFFICES ASSUME faults[a] = {} PROVE Listed(a) \subseteq Shown(a)'
        BY <3>2, <1>2, <1>7 DEF RankComplete
      <4>1. Read(w) = {r.user}
        BY <1>9 DEF Read
      <4> QED BY <4>1, <1>5
    <3> QED BY <3>1, <3>2
  <2> QED BY <2>2, <2>3, <1>8 DEF ExactInv
<1>10. CASE rows[w] # {r}
  <2>1. rows' = [rows EXCEPT ![w] = @ \ {r}] /\ UNCHANGED <<pc, job, page, fetched>>
    BY <1>10 DEF RestoreUser
  <2>2. ASSUME NEW v \in Workers, v # w PROVE WorkerExact(v)'
    <3>1. rows'[v] = rows[v]
      BY <2>1, <2>2 DEF TypeOK
    <3>2. \A b \in Activities : faults'[b] = {} => Shown(b) \subseteq Shown(b)'
      BY <1>6
    <3> QED BY <3>1, <3>2, <2>1, <1>2, WorkerKept DEF ExactInv
  <2>3. WorkerExact(w)'
    <3> SUFFICES ASSUME faults[a] = {} PROVE WorkerExact(w)'
      BY <1>1, <1>2, <2>1 DEF WorkerExact
    <3>1. rows'[w] = rows[w] \ {r}
      BY <2>1 DEF TypeOK
    <3>2. Read(w) \subseteq Read(w)' \cup {r.user}
      BY <3>1 DEF Read
    <3>3. Listed(a)' \subseteq Read(w)' \cup Shown(a)'
      BY <3>2, <1>5, <1>7
    <3>4. \A q \in rows'[w] : q.fund = total'[a][q.user]
      BY <3>1, <1>2, <1>5
    <3> QED BY <3>3, <3>4, <1>1, <1>2, <2>1 DEF WorkerExact
  <2>4. ASSUME NEW b \in Activities PROVE RankComplete(b)'
    <3>1. Recovering(b)' = Recovering(b)
      BY <2>1 DEF Recovering
    <3>2. CASE b # a
      BY <3>1, <3>2, <1>2, <1>4, <1>7, RankKept DEF ExactInv
    <3>3. CASE b = a
      <4>1. w \in Recovering(a)'
        BY <1>1, <2>1 DEF Recovering
      <4> QED BY <3>3, <4>1 DEF RankComplete
    <3> QED BY <3>2, <3>3
  <2> QED BY <2>2, <2>3, <2>4, <1>8 DEF ExactInv
<1> QED BY <1>9, <1>10

LEMMA ExactOfDefault ==
  ASSUME TypeOK, ExactInv, NEW w \in Workers, RestoreDefault(w)
  PROVE  ExactInv'
<1>1. PICK a \in Activities : a = job[w]
  BY JobOfBusy DEF RestoreDefault
<1>2. /\ pc[w] = "default" /\ ZAdd(a, DefaultOid, 0) /\ Leave(w)
      /\ UNCHANGED <<total, inflight, faults>>
  BY <1>1 DEF RestoreDefault
<1>3. DefaultOid \in Member /\ DefaultOid \notin Users
  BY ConstantsAssumption DEF Member
<1>4. /\ \A b \in Activities \ {a} :
           ranked'[b] = ranked[b] /\ score'[b] = score[b] /\ Shown(b)' = Shown(b)
      /\ Shown(a) \subseteq Shown(a)'
  BY <1>2, <1>3, ZAddShows
<1>5. \A b \in Activities : Listed(b)' = Listed(b) /\ OnTheWay(b)' = OnTheWay(b)
  BY <1>2 DEF Listed, OnTheWay
<1>6. FlightsExact'
  BY <1>2 DEF ExactInv, FlightsExact
<1>7. \A v \in Workers : WorkerExact(v)'
  BY <1>2, <1>4, LeaveExact
<1>8. ASSUME NEW b \in Activities PROVE RankComplete(b)'
  <2>1. CASE b # a
    BY <2>1, <1>1, <1>2, <1>4, <1>5, LeaveRecovering, RankKept DEF ExactInv
  <2>2. CASE b = a
    <3>1. faults[a] = {} => Listed(a) = {}
      BY <1>1, <1>2 DEF ExactInv, WorkerExact
    <3> QED BY <2>2, <3>1, <1>2, <1>5 DEF RankComplete
  <2> QED BY <2>1, <2>2
<1> QED BY <1>6, <1>7, <1>8 DEF ExactInv

LEMMA ExactOfFailure ==
  ASSUME TypeOK, ExactInv, NEW w \in Workers, FailRecover(w)
  PROVE  ExactInv'
<1>1. PICK a \in Activities : a = job[w]
  BY JobOfBusy DEF FailRecover
<1>2. /\ Note(a, "fail", TRUE) /\ Leave(w)
      /\ UNCHANGED <<total, inflight, ranked, score>>
  BY <1>1 DEF FailRecover, rankVars
<1>3. (\A b \in Activities : faults'[b] = {} => faults[b] = {}) /\ faults'[a] # {}
  BY <1>2, NoteGrows
<1>4. \A b \in Activities : Shown(b)' = Shown(b) /\ OnTheWay(b)' = OnTheWay(b)
  BY <1>2 DEF Shown, Listed, OnTheWay
<1>5. FlightsExact'
  BY <1>2 DEF ExactInv, FlightsExact
<1>6. \A v \in Workers : WorkerExact(v)'
  BY <1>2, <1>3, <1>4, LeaveExact
<1>7. ASSUME NEW b \in Activities PROVE RankComplete(b)'
  <2>1. CASE b # a
    BY <2>1, <1>1, <1>2, <1>3, <1>4, LeaveRecovering, RankKept DEF ExactInv
  <2>2. CASE b = a
    BY <2>2, <1>3 DEF RankComplete
  <2> QED BY <2>1, <2>2
<1> QED BY <1>5, <1>6, <1>7 DEF ExactInv

LEMMA ExactOfLosses ==
  ASSUME TypeOK, ExactInv, LoseRedis \/ (\E a \in Activities : LoseRank(a))
  PROVE  ExactInv'
<1>1. UNCHANGED <<total, inflight, pc, job, page, fetched, rows>>
  BY DEF LoseRedis, LoseRank, work
<1>2. ASSUME NEW b \in Activities
      PROVE  /\ faults'[b] = {} => faults[b] = {}
             /\ \/ ranked'[b] = ranked[b] /\ score'[b] = score[b]
                \/ ranked'[b] = {} /\ (Recovering(b) # {} => faults'[b] # {})
  <2>1. CASE LoseRedis
    BY <2>1 DEF LoseRedis
  <2>2. ASSUME NEW a \in Activities, LoseRank(a)
        PROVE  /\ faults'[b] = {} => faults[b] = {}
               /\ \/ ranked'[b] = ranked[b] /\ score'[b] = score[b]
                  \/ ranked'[b] = {} /\ (Recovering(b) # {} => faults'[b] # {})
    <3>1. /\ ranked' = [ranked EXCEPT ![a] = {}]
          /\ score' = [score EXCEPT ![a] = [m \in Member |-> 0]]
          /\ Note(a, "race", Recovering(a) # {})
      BY <2>2 DEF LoseRank
    <3>2. /\ \A c \in Activities : faults'[c] = {} => faults[c] = {}
          /\ Recovering(a) # {} => faults'[a] # {}
      BY <3>1, NoteGrows
    <3> QED BY <3>1, <3>2 DEF TypeOK
  <2> QED BY <2>1, <2>2
<1>3. \A b \in Activities : /\ Listed(b)' = Listed(b) /\ OnTheWay(b)' = OnTheWay(b)
                            /\ Recovering(b)' = Recovering(b)
  BY <1>1 DEF Listed, OnTheWay, Recovering
<1>4. FlightsExact'
  BY <1>1 DEF ExactInv, FlightsExact
<1>5. ASSUME NEW v \in Workers PROVE WorkerExact(v)'
  <2>1. ASSUME NEW b \in Activities, b = job[v], faults'[b] = {}
        PROVE  faults[b] = {} /\ total'[b] = total[b] /\ Shown(b) \subseteq Shown(b)'
    <3>1. v \in Recovering(b)
      BY <2>1 DEF Recovering
    <3>2. ranked'[b] = ranked[b] /\ score'[b] = score[b]
      BY <3>1, <2>1, <1>2
    <3> QED BY <3>2, <2>1, <1>1, <1>2, <1>3 DEF Shown
  <2> QED BY <2>1, <1>1, WorkerKept DEF ExactInv
<1>6. ASSUME NEW b \in Activities PROVE RankComplete(b)'
  <2>1. CASE ranked'[b] = {}
    BY <2>1 DEF RankComplete
  <2>2. CASE ranked'[b] = ranked[b] /\ score'[b] = score[b]
    BY <2>2, <1>1, <1>2, <1>3, RankKept DEF ExactInv
  <2> QED BY <2>1, <2>2, <1>2
<1> QED BY <1>4, <1>5, <1>6 DEF ExactInv

LEMMA ExactKept ==
  ASSUME Cardinality(Users) <= 2 * PageSize, TypeOK, ExactInv, [Next]_vars
  PROVE  ExactInv'
<1>1. ASSUME UNCHANGED <<total, inflight, ranked, score, pc, job, page, fetched, rows, faults>>
      PROVE  ExactInv'
  BY <1>1 DEF ExactInv, FlightsExact, WorkerExact, FetchExact, RankComplete,
              Shown, OnTheWay, Read, Listed, Recovering
<1>2. CASE UNCHANGED vars \/ (\E a \in Activities : ReadRank(a))
  BY <1>1, <1>2 DEF vars, ReadRank, rankVars, work
<1>3. ASSUME NEW w \in Workers, WorkerStep(w) \/ FailRecover(w) PROVE ExactInv'
  BY <1>3, ExactOfPop, ExactOfFetch, ExactOfRestore, ExactOfDefault, ExactOfFailure
     DEF WorkerStep
<1>4. ASSUME NEW m \in inflight, AddRank(m) \/ FailRank(m) PROVE ExactInv'
  BY <1>4, ExactOfAdd, ExactOfFailedAdd
<1> QED BY <1>2, <1>3, <1>4, ExactOfMatch, ExactOfLosses DEF Next

(* As soon as no match and no worker is busy with an activity, its rank     *)
(* shows exactly the totals of the table, for any number of workers and of  *)
(* losses and any activities, as long as none of them has more members than *)
(* two pages hold: of a third page fetchActivityMatchFromDB reads nothing.  *)
THEOREM RankBecomesExact ==
  ASSUME Cardinality(Users) <= 2 * PageSize
  PROVE  Spec => []ExactRank
<1> DEFINE Inv == ScoreInv /\ ExactInv
<1>1. Init => Inv
  <2>1. Init => TypeOK /\ IdleIsEmpty /\ ScoresWithinTotals
    BY TypesAtInit DEF Init, IdleIsEmpty, ScoresWithinTotals, Member
  <2>2. Init => ExactInv
    BY DEF Init, ExactInv, FlightsExact, WorkerExact, RankComplete
  <2> QED BY <2>1, <2>2 DEF ScoreInv
<1>2. Inv /\ [Next]_vars => Inv'
  BY ScoreInvKept, ExactKept DEF ScoreInv
<1>3. Inv => ExactRank
  <2> SUFFICES ASSUME Inv, NEW a \in Activities,
                      Settled(a), faults[a] = {}, ranked[a] # {}
               PROVE  /\ Listed(a) \subseteq ranked[a]
                      /\ \A u \in Users : score[a][u] = total[a][u]
    BY DEF ExactRank
  <2>1. OnTheWay(a) = {} /\ Recovering(a) = {}
    BY DEF Settled, OnTheWay
  <2>2. Listed(a) \subseteq Shown(a)
    BY <2>1 DEF ExactInv, RankComplete
  <2>3. ASSUME NEW u \in Users, u \notin Listed(a) PROVE score[a][u] = total[a][u]
    <3>1. total[a][u] = 0
      BY <2>3 DEF Listed
    <3>2. score[a][u] <= total[a][u] /\ score[a][u] \in Nat
      BY DEF ScoreInv, ScoresWithinTotals, TypeOK, Member
    <3> QED BY <3>1, <3>2
  <2> QED BY <2>2, <2>3 DEF Shown
<1> QED BY <1>1, <1>2, <1>3, PTL DEF Spec
=============================================================================
