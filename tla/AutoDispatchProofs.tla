------------------------- MODULE AutoDispatchProofs -------------------------
(* What holds of the dispatchers for any number of instances, any list and  *)
(* any size of the pages: each finds a number for itself that no other one  *)
(* that sees the same instances has, and so their pages never overlap and   *)
(* together leave out nobody.                                               *)
EXTENDS AutoDispatch, CollectionLemmas

-----------------------------------------------------------------------------
(* Pages.                                                                   *)

LEMMA TimesMonotone ==
  ASSUME NEW m \in Nat, NEW n \in Nat, NEW k \in Nat, m <= n
  PROVE  m * k <= n * k
OBVIOUS

(* A position is in one page only.                                          *)
LEMMA OnePage ==
  ASSUME NEW m \in Nat, NEW n \in Nat, NEW k \in Nat \ {0}, NEW p \in Nat,
         m * k <= p, p < m * k + k, n * k <= p, p < n * k + k
  PROVE  m = n
<1>1. ASSUME m < n PROVE FALSE
  <2>1. (m + 1) * k <= n * k
    BY <1>1, TimesMonotone
  <2> QED BY <2>1
<1>2. ASSUME n < m PROVE FALSE
  <2>1. (n + 1) * k <= m * k
    BY <1>2, TimesMonotone
  <2> QED BY <2>1
<1> QED BY <1>1, <1>2

(* A later page of a dispatcher begins where the one before ends, or later. *)
LEMMA LaterPage ==
  ASSUME NEW x \in Nat, NEW n \in Nat \ {0}, NEW p \in Nat, NEW a \in Nat, p < a, NEW k \in Nat
  PROVE  (x + n * a) * k >= (x + n * p) * k + k
<1>1. ASSUME NEW i \in Nat, NEW j \in Nat, i < j, NEW l \in Nat PROVE i * l + l <= j * l
  <2>1. i + 1 \in Nat /\ i + 1 <= j
    BY <1>1
  <2>2. (i + 1) * l <= j * l
    BY <1>1, <2>1, TimesMonotone
  <2>3. (i + 1) * l = i * l + l
    OBVIOUS
  <2> QED BY <2>2, <2>3
<1>2. p * n + n <= a * n
  BY <1>1
<1>3. n * p = p * n /\ n * a = a * n /\ p * n \in Nat /\ a * n \in Nat
  OBVIOUS
<1> DEFINE y == x + n * p
           z == x + n * a
<1>4. y \in Nat /\ z \in Nat /\ y < z
  BY <1>2, <1>3
<1> HIDE DEF y, z
<1>5. y * k + k <= z * k /\ y * k \in Nat /\ z * k \in Nat
  BY <1>1, <1>4
<1>6. z * k >= y * k + k
  BY <1>5
<1> QED BY <1>6 DEF y, z

(* The pages that dispatchers with different numbers take, one out of total *)
(* each, are different.                                                     *)
LEMMA DifferentPages ==
  ASSUME NEW n \in Nat \ {0}, NEW i \in 0 .. n - 1, NEW j \in 0 .. n - 1,
         NEW a \in Nat, NEW b \in Nat, i + n * a = j + n * b
  PROVE  i = j
<1>1. ASSUME NEW x \in Nat, NEW y \in Nat, x < y PROVE n * x + n <= n * y
  <2>1. (x + 1) * n <= y * n
    BY <1>1, TimesMonotone
  <2> QED BY <2>1
<1>2. a = b
  BY <1>1
<1> QED BY <1>2

-----------------------------------------------------------------------------
(* The invariant.                                                           *)

(* The round of a dispatcher that has seen others: its number is its place  *)
(* among them, and it has read nobody that is not on a page of its own.     *)
OnPage(u, i, a) ==
  LET p == Before(u, listed)
      offset == (index[i] + total[i] * a) * DBFetchBatch
  IN  offset <= p /\ p < offset + DBFetchBatch

Numbered(i) ==
  /\ i \in seen[i]
  /\ total[i] = Cardinality(seen[i])
  /\ index[i] = Before(i, seen[i])

Rounds ==
  \A i \in Instances : seen[i] # {} =>
    /\ Numbered(i)
    /\ \A u \in fetched[i] : \E a \in Nat : OnPage(u, i, a)

IInv == TypeOK /\ Rounds

LEMMA InitHolds == Init => IInv
BY ConstantsAssumption DEF Init, IInv, TypeOK, Rounds

(* A set of instances or of users is finite, and so is each page.           *)
LEMMA Finite ==
  /\ \A S \in SUBSET Instances : IsFiniteSet(S) /\ S \in SUBSET Nat /\ Cardinality(S) \in Nat
  /\ \A S \in SUBSET Users : IsFiniteSet(S) /\ S \in SUBSET Nat
BY ConstantsAssumption, FS_Subset, FS_CardinalityType

(* What does not touch the rounds keeps them.                               *)
LEMMA RoundsKept ==
  ASSUME IInv, UNCHANGED <<listed, total, index, seen, fetched>>
  PROVE  Rounds'
BY DEF IInv, Rounds, Numbered, OnPage

(* A new list ends what could be said of any round.                         *)
LEMMA SetListKeeps ==
  ASSUME IInv, NEW list \in SUBSET Users, SetList(list), UNCHANGED <<total, index>>
  PROVE  Rounds' /\ seen' \in [Instances -> SUBSET Instances]
         /\ fetched' \in [Instances -> SUBSET Users] /\ listed' \subseteq Users
<1>1. CASE list = listed
  <2>1. UNCHANGED <<listed, seen, fetched>>
    BY <1>1 DEF SetList
  <2> QED BY <2>1, RoundsKept DEF IInv, TypeOK
<1>2. CASE list # listed
  <2>1. seen' = [i \in Instances |-> {}] /\ fetched' = [i \in Instances |-> {}]
    BY <1>2 DEF SetList
  <2> QED BY <2>1 DEF SetList, Rounds
<1> QED BY <1>1, <1>2

(* Forgetting a round keeps those of the others.                            *)
LEMMA ForgetKeeps ==
  ASSUME IInv, NEW i \in Instances, Forget(i), listed' = listed,
         \A j \in Instances \ {i} : total'[j] = total[j] /\ index'[j] = index[j]
  PROVE  Rounds' /\ seen' \in [Instances -> SUBSET Instances]
         /\ fetched' \in [Instances -> SUBSET Users]
<1>1. seen' \in [Instances -> SUBSET Instances] /\ seen'[i] = {}
      /\ fetched' \in [Instances -> SUBSET Users]
  BY DEF IInv, TypeOK, Forget
<1>2. \A j \in Instances \ {i} : seen'[j] = seen[j] /\ fetched'[j] = fetched[j]
  BY DEF IInv, TypeOK, Forget
<1>3. ASSUME NEW j \in Instances, seen'[j] # {}
      PROVE  Numbered(j)' /\ \A u \in fetched'[j] : \E a \in Nat : OnPage(u, j, a)'
  <2>1. j # i
    BY <1>1, <1>3
  <2>2. /\ seen'[j] = seen[j] /\ fetched'[j] = fetched[j]
        /\ total'[j] = total[j] /\ index'[j] = index[j]
    BY <1>2, <2>1
  <2>3. Numbered(j) /\ \A u \in fetched[j] : \E a \in Nat : OnPage(u, j, a)
    BY <1>3, <2>2 DEF IInv, Rounds
  <2>4. \A u, a : OnPage(u, j, a)' <=> OnPage(u, j, a)
    BY <2>2 DEF OnPage
  <2> QED BY <2>2, <2>3, <2>4 DEF Numbered
<1>4. Rounds'
  BY <1>3 DEF Rounds
<1> QED BY <1>1, <1>4

(* A lookup that succeeds gives the dispatcher its place among the living.  *)
LEMMA LookupKeeps ==
  ASSUME IInv, NEW i \in Instances, GetWorkerCountAndIndex(i)
  PROVE  IInv'
<1> USE DEF IInv, TypeOK, GetWorkerCountAndIndex, StartRound
<1>1. Cardinality(alive) \in Nat /\ Index(i) \in Nat
  BY Finite, BeforeIsNat DEF Index
<1>2. TypeOK'
  <2>1. /\ total' \in [Instances -> Nat] /\ index' \in [Instances -> Nat]
        /\ page' \in [Instances -> Nat]
    BY <1>1
  <2>2. last' \in [Instances -> [total : Nat, index : Nat]]
    <3>1. [total |-> Cardinality(alive), index |-> Index(i)] \in [total : Nat, index : Nat]
      BY <1>1
    <3> QED BY <3>1
  <2>3. /\ seen' \in [Instances -> SUBSET Instances]
        /\ fetched' \in [Instances -> SUBSET Users]
    OBVIOUS
  <2>4. pc' \in [Instances -> {"wait", "query", "send"}]
    OBVIOUS
  <2> QED BY <2>1, <2>2, <2>3, <2>4
<1>3. Numbered(i)' /\ fetched'[i] = {}
  BY DEF Numbered, Index
<1>4. \A j \in Instances \ {i} :
        /\ seen'[j] = seen[j] /\ fetched'[j] = fetched[j]
        /\ total'[j] = total[j] /\ index'[j] = index[j] /\ listed' = listed
  OBVIOUS
<1>5. ASSUME NEW j \in Instances \ {i}, seen'[j] # {}
      PROVE  Numbered(j)' /\ \A u \in fetched'[j] : \E a \in Nat : OnPage(u, j, a)'
  <2>1. Numbered(j) /\ \A u \in fetched[j] : \E a \in Nat : OnPage(u, j, a)
    BY <1>4, <1>5 DEF Rounds
  <2>2. \A u, a : OnPage(u, j, a)' <=> OnPage(u, j, a)
    BY <1>4 DEF OnPage
  <2> QED BY <2>1, <2>2, <1>4 DEF Numbered
<1>6. Rounds'
  BY <1>3, <1>5 DEF Rounds
<1> QED BY <1>2, <1>6

(* Reading a page of the list the round began with adds users of one page.  *)
LEMMA QueryKeeps ==
  ASSUME IInv, NEW i \in Instances, QueryPage(i)
  PROVE  IInv'
<1> USE DEF IInv
<1>1. Page(i) \subseteq Users
  BY DEF Page, TypeOK
<1>2. page' \in [Instances -> Nat] /\ pc' \in [Instances -> {"wait", "query", "send"}]
  <2>1. page[i] + 1 \in Nat /\ 0 \in Nat
    BY DEF TypeOK
  <2>2. CASE Cardinality(Page(i)) = DBFetchBatch
    <3>1. NextPage(i) /\ pc' = pc
      BY <2>2 DEF QueryPage
    <3> QED BY <2>1, <3>1 DEF TypeOK, NextPage
  <2>3. CASE Cardinality(Page(i)) # DBFetchBatch
    <3>1. page' = page /\ pc' = [pc EXCEPT ![i] = "send"]
      BY <2>3 DEF QueryPage
    <3> QED BY <3>1 DEF TypeOK
  <2> QED BY <2>2, <2>3
<1>3. sending' \in [Instances -> SUBSET Users]
  BY <1>1 DEF TypeOK, QueryPage
<1>4. CASE seen[i] # {}
  <2>1. UNCHANGED <<listed, total, index, seen>> /\ fetched' = [fetched EXCEPT ![i] = @ \cup Page(i)]
    BY <1>4 DEF QueryPage
  <2>2. \A u \in Page(i) : OnPage(u, i, page[i])
    <3>1. index[i] \in Nat /\ total[i] \in Nat /\ page[i] \in Nat /\ DBFetchBatch \in Nat
      BY ConstantsAssumption DEF TypeOK
    <3>2. Offset(i) = (index[i] + total[i] * page[i]) * DBFetchBatch
      BY <3>1 DEF Offset
    <3> QED BY <1>4, <3>2 DEF OnPage, Page
  <2>3. page[i] \in Nat /\ fetched' \in [Instances -> SUBSET Users]
    BY <1>1, <2>1 DEF TypeOK
  <2>4. \A j \in Instances : \A u \in fetched'[j] : u \in fetched[j] \/ (j = i /\ u \in Page(i))
    BY <2>1 DEF TypeOK
  <2>5. Rounds'
    BY <2>1, <2>2, <2>3, <2>4 DEF Rounds, Numbered, OnPage
  <2> QED BY <1>2, <1>3, <2>1, <2>3, <2>5 DEF TypeOK, QueryPage
<1>5. CASE seen[i] = {}
  <2>1. Forget(i) /\ UNCHANGED <<listed, total, index>>
    BY <1>5 DEF IInv, TypeOK, QueryPage, Forget
  <2> QED BY <1>2, <1>3, <2>1, ForgetKeeps DEF TypeOK, QueryPage
<1> QED BY <1>4, <1>5

(* What stops an instance or fails its lookup leaves it without a round.    *)
LEMMA ZerosKeep ==
  ASSUME IInv, NEW i \in Instances, Stop(i) \/ LookupFails(i)
  PROVE  IInv'
<1>1. /\ Forget(i)
      /\ total' = [total EXCEPT ![i] = 0] /\ index' = [index EXCEPT ![i] = 0]
      /\ listed' = listed
  BY DEF Stop, Reset, LookupFails
<1>2. \A j \in Instances \ {i} : total'[j] = total[j] /\ index'[j] = index[j]
  BY <1>1 DEF IInv, TypeOK
<1>3. Rounds' /\ seen' \in [Instances -> SUBSET Instances]
      /\ fetched' \in [Instances -> SUBSET Users]
  BY <1>1, <1>2, ForgetKeeps
<1>4. CASE Stop(i)
  <2>1. /\ up' \subseteq Instances /\ alive' \subseteq Instances /\ faults' \in Nat
        /\ listed' \subseteq Users /\ revoked' \subseteq Users
    BY <1>4 DEF IInv, TypeOK, Stop, Fault
  <2>2. Reset(i)
    BY <1>4 DEF Stop
  <2>3. last' \in [Instances -> [total : Nat, index : Nat]]
    <3>1. [total |-> 0, index |-> 0] \in [total : Nat, index : Nat]
      OBVIOUS
    <3> QED BY <2>2, <3>1 DEF IInv, TypeOK, Reset
  <2>4. /\ pc' \in [Instances -> {"wait", "query", "send"}] /\ page' \in [Instances -> Nat]
        /\ total' \in [Instances -> Nat] /\ index' \in [Instances -> Nat]
        /\ sending' \in [Instances -> SUBSET Users] /\ queue' \in [Instances -> SUBSET Users]
        /\ late' \subseteq Instances
    BY <2>2 DEF IInv, TypeOK, Reset
  <2> QED BY <1>3, <2>1, <2>3, <2>4 DEF IInv, TypeOK
<1>5. CASE LookupFails(i)
  <2>1. /\ pc' \in [Instances -> {"wait", "query", "send"}] /\ page' \in [Instances -> Nat]
        /\ total' \in [Instances -> Nat] /\ index' \in [Instances -> Nat] /\ faults' \in Nat
    BY <1>5 DEF IInv, TypeOK, LookupFails, StartRound, Fault
  <2>2. UNCHANGED <<listed, revoked, up, alive, last, sending, late, queue>>
    BY <1>5 DEF LookupFails
  <2> QED BY <1>3, <2>1, <2>2 DEF IInv, TypeOK
<1> QED BY <1>4, <1>5

(* A query that fails ends what could be said of its round.                 *)
LEMMA QueryFailsKeeps ==
  ASSUME IInv, NEW i \in Instances, QueryFails(i)
  PROVE  IInv'
<1>1. Forget(i) /\ UNCHANGED <<listed, total, index>>
  BY DEF QueryFails
<1>2. Rounds' /\ seen' \in [Instances -> SUBSET Instances]
      /\ fetched' \in [Instances -> SUBSET Users]
  BY <1>1, ForgetKeeps
<1>3. page' \in [Instances -> Nat] /\ faults' \in Nat
  <2>1. page[i] + 1 \in Nat /\ 0 \in Nat
    BY DEF IInv, TypeOK
  <2> QED BY <2>1 DEF IInv, TypeOK, QueryFails, NextPage, Fault
<1>4. UNCHANGED <<listed, revoked, up, alive, pc, total, index, last, sending, late, queue>>
  BY DEF QueryFails
<1> QED BY <1>2, <1>3, <1>4 DEF IInv, TypeOK

(* The heartbeats, the sending and the update workers do not touch the      *)
(* rounds, except where these change the list.                              *)
LEMMA OthersKeep ==
  ASSUME IInv, NEW i \in Instances,
         \/ Heartbeat(i) \/ Expire(i) \/ Restart(i) \/ EndRound(i) \/ Timeout(i)
         \/ \E u \in Users : Send(i, u) \/ Drop(i, u)
         \/ \E users \in SUBSET queue[i] : UpdateUserSteps(i, users) \/ UpdateFails(i, users)
  PROVE  IInv'
<1>1. UNCHANGED <<revoked, total, index, last, page>>
  BY DEF Heartbeat, Expire, Restart, EndRound, Timeout, Send, Drop, UpdateUserSteps, UpdateFails,
         roundVars
<1>2. /\ Rounds' /\ seen' \in [Instances -> SUBSET Instances]
      /\ fetched' \in [Instances -> SUBSET Users] /\ listed' \subseteq Users
  <2>1. CASE UNCHANGED <<listed, seen, fetched>>
    BY <1>1, <2>1, RoundsKept DEF IInv, TypeOK
  <2>2. ASSUME NEW users \in SUBSET queue[i], UpdateUserSteps(i, users)
        PROVE  /\ Rounds' /\ seen' \in [Instances -> SUBSET Instances]
               /\ fetched' \in [Instances -> SUBSET Users] /\ listed' \subseteq Users
    <3>1. PICK list \in SUBSET Users : SetList(list)
      BY <2>2 DEF IInv, TypeOK, UpdateUserSteps, HandleRottenUsers
    <3> QED BY <1>1, <3>1, SetListKeeps
  <2> QED
    BY <2>1, <2>2 DEF Heartbeat, Expire, Restart, EndRound, Timeout, Send, Drop, UpdateFails,
                      roundVars
<1>4. up' \subseteq Instances /\ alive' \subseteq Instances /\ late' \subseteq Instances
  BY DEF IInv, TypeOK, Heartbeat, Expire, Restart, EndRound, Timeout, Send, Drop,
         UpdateUserSteps, UpdateFails
<1>5. faults' \in Nat
  <2>1. Fault \/ UNCHANGED faults
    BY DEF Heartbeat, Expire, Restart, EndRound, Timeout, Send, Drop, UpdateUserSteps, UpdateFails
  <2> QED BY <2>1 DEF IInv, TypeOK, Fault
<1>6. pc' \in [Instances -> {"wait", "query", "send"}]
  BY DEF IInv, TypeOK, Heartbeat, Expire, Restart, EndRound, Timeout, Send, Drop,
         UpdateUserSteps, UpdateFails
<1>7. sending' \in [Instances -> SUBSET Users] /\ queue' \in [Instances -> SUBSET Users]
  <2>1. CASE UNCHANGED <<sending, queue>>
    BY <2>1 DEF IInv, TypeOK
  <2>2. ASSUME NEW u \in Users, Drop(i, u)
        PROVE  sending' \in [Instances -> SUBSET Users] /\ queue' \in [Instances -> SUBSET Users]
    BY <2>2 DEF IInv, TypeOK, Drop
  <2>3. ASSUME NEW u \in Users, Send(i, u)
        PROVE  sending' \in [Instances -> SUBSET Users] /\ queue' \in [Instances -> SUBSET Users]
    <3>1. sending[i] \ {u} \in SUBSET Users /\ queue[i] \cup {u} \in SUBSET Users
      BY DEF IInv, TypeOK
    <3> QED BY <2>3, <3>1 DEF IInv, TypeOK, Send
  <2>4. ASSUME NEW users \in SUBSET queue[i], UpdateUserSteps(i, users) \/ UpdateFails(i, users)
        PROVE  sending' \in [Instances -> SUBSET Users] /\ queue' \in [Instances -> SUBSET Users]
    <3>1. queue[i] \ users \in SUBSET Users
      BY DEF IInv, TypeOK
    <3> QED BY <2>4, <3>1 DEF IInv, TypeOK, UpdateUserSteps, UpdateFails
  <2> QED
    BY <2>1, <2>2, <2>3, <2>4 DEF Heartbeat, Expire, Restart, EndRound, Timeout
<1> QED BY <1>1, <1>2, <1>4, <1>5, <1>6, <1>7 DEF IInv, TypeOK

(* A user may join while there are no instances at all.                     *)
LEMMA JoinKeeps ==
  ASSUME IInv, NEW u \in Users, Join(u)
  PROVE  IInv'
<1>1. listed \cup {u} \in SUBSET Users
  BY DEF IInv, TypeOK
<1>2. /\ Rounds' /\ seen' \in [Instances -> SUBSET Instances]
      /\ fetched' \in [Instances -> SUBSET Users] /\ listed' \subseteq Users
  BY <1>1, SetListKeeps DEF Join
<1> QED BY <1>2 DEF IInv, TypeOK, Join

LEMMA StepKeeps == IInv /\ [Next]_vars => IInv'
<1> SUFFICES ASSUME IInv, [Next]_vars PROVE IInv'
  OBVIOUS
<1>1. ASSUME NEW i \in Instances,
             \/ Heartbeat(i) \/ Expire(i) \/ Stop(i) \/ Restart(i)
             \/ Dispatch(i) \/ LookupFails(i) \/ QueryFails(i) \/ Timeout(i)
             \/ \E u \in Users : Send(i, u) \/ Drop(i, u)
             \/ Update(i) \/ \E users \in SUBSET queue[i] : UpdateFails(i, users)
      PROVE  IInv'
  BY <1>1, LookupKeeps, QueryKeeps, ZerosKeep, QueryFailsKeeps, OthersKeep DEF Dispatch, Update
<1>2. ASSUME NEW u \in Users, Join(u) PROVE IInv'
  BY <1>2, JoinKeeps
<1>3. CASE UNCHANGED vars
  <2>1. Rounds'
    BY <1>3, RoundsKept DEF vars, roundVars
  <2> QED BY <1>3, <2>1 DEF IInv, TypeOK, vars, roundVars
<1> QED BY <1>1, <1>2, <1>3 DEF Next

THEOREM RoundsInvariant == Spec => []IInv
BY InitHolds, StepKeeps, PTL DEF Spec

-----------------------------------------------------------------------------
(* What follows.                                                            *)

(* Every variable keeps its type, whatever the constants are.               *)
THEOREM DispatcherTypes == Spec => []TypeOK
<1>1. IInv => TypeOK
  BY DEF IInv
<1> QED BY <1>1, RoundsInvariant, PTL

(* The number that getWorkerCountAndIndex finds for an instance is below    *)
(* the number of the instances it has seen, for any heartbeats and stops.   *)
THEOREM NumberBelowTotal == Spec => []IndexBelowTotal
<1>1. IInv => IndexBelowTotal
  <2> SUFFICES ASSUME IInv, NEW i \in Instances, seen[i] # {}
               PROVE  index[i] < total[i] /\ total[i] = Cardinality(seen[i])
    BY DEF IndexBelowTotal
  <2>1. i \in seen[i] /\ total[i] = Cardinality(seen[i]) /\ index[i] = Before(i, seen[i])
    BY DEF IInv, Rounds, Numbered
  <2>2. seen[i] \in SUBSET Nat /\ IsFiniteSet(seen[i])
    BY Finite DEF IInv, TypeOK
  <2> QED BY <2>1, <2>2, BeforeIsBelow
<1> QED BY <1>1, RoundsInvariant, PTL

(* The parts of two dispatchers that have seen the same instances and the   *)
(* list as it is have no user in common, for any number of instances, any   *)
(* list and any size of the pages: their numbers and so their pages differ. *)
THEOREM PartsDisjoint == Spec => []PartsAreDisjoint
<1>1. IInv => PartsAreDisjoint
  <2> SUFFICES ASSUME IInv, NEW i \in Instances, NEW j \in Instances, i # j,
                      seen[i] # {}, seen[i] = seen[j],
                      NEW u \in fetched[i], u \in fetched[j]
               PROVE  FALSE
    BY DEF PartsAreDisjoint
  <2> DEFINE S == seen[i]
             n == Cardinality(S)
             p == Before(u, listed)
  <2>1. /\ i \in S /\ total[i] = n /\ index[i] = Before(i, S)
        /\ j \in S /\ total[j] = n /\ index[j] = Before(j, S)
    BY DEF IInv, Rounds, Numbered
  <2>2. S \in SUBSET Nat /\ IsFiniteSet(S)
    BY Finite DEF IInv, TypeOK
  <2>3. listed \in SUBSET Nat /\ IsFiniteSet(listed)
    BY Finite DEF IInv, TypeOK
  <2>4. p \in Nat
    BY <2>3, BeforeIsNat
  <2>5. PICK a \in Nat : OnPage(u, i, a)
    BY DEF IInv, Rounds
  <2>6. PICK b \in Nat : OnPage(u, j, b)
    BY DEF IInv, Rounds
  <2>7. index[i] \in Nat /\ index[j] \in Nat /\ n \in Nat /\ index[i] < n /\ index[j] < n
    BY <2>1, <2>2, BeforeIsBelow DEF IInv, TypeOK
  <2>8. index[i] # index[j]
    <3>1. i \in Nat /\ j \in Nat
      BY <2>1, <2>2
    <3>2. CASE i < j
      BY <2>1, <2>2, <3>2, BeforeIsStrict
    <3>3. CASE j < i
      BY <2>1, <2>2, <3>3, BeforeIsStrict
    <3> QED BY <3>1, <3>2, <3>3
  <2>9. index[i] + n * a = index[j] + n * b
    <3>1. index[i] + n * a \in Nat /\ index[j] + n * b \in Nat
      BY <2>7
    <3>2. /\ (index[i] + n * a) * DBFetchBatch <= p
          /\ p < (index[i] + n * a) * DBFetchBatch + DBFetchBatch
      BY <2>1, <2>5 DEF OnPage
    <3>3. /\ (index[j] + n * b) * DBFetchBatch <= p
          /\ p < (index[j] + n * b) * DBFetchBatch + DBFetchBatch
      BY <2>1, <2>6 DEF OnPage
    <3> HIDE DEF n, p
    <3> QED BY <2>4, <3>1, <3>2, <3>3, OnePage, ConstantsAssumption
  <2>10. index[i] = index[j]
    <3>1. n \in Nat \ {0} /\ index[i] \in 0 .. n - 1 /\ index[j] \in 0 .. n - 1
      BY <2>7
    <3> HIDE DEF n
    <3> QED BY <2>9, <3>1, DifferentPages
  <2> QED BY <2>8, <2>10
<1> QED BY <1>1, RoundsInvariant, PTL
-----------------------------------------------------------------------------
(* Nobody is left out.                                                      *)

(* A dispatcher has read everybody of the list on the pages it is through   *)
(* with: those before the next, and all of its own once it has stopped.     *)
Covered ==
  \A i \in Instances : seen[i] # {} =>
    /\ fetched[i] \subseteq listed
    /\ \A u \in listed : \A a \in Nat :
         OnPage(u, i, a) /\ (a < page[i] \/ pc[i] # "query") => u \in fetched[i]

(* What goes on with the page that a round is at, or leaves reading alone,  *)
(* keeps what was read.                                                     *)
LEMMA CoveredKept ==
  ASSUME IInv, Covered, listed' = listed,
         NEW I \in SUBSET Instances, \A i \in I : seen'[i] = {},
         \A i \in Instances \ I :
           /\ total'[i] = total[i] /\ index'[i] = index[i] /\ seen'[i] = seen[i]
           /\ fetched'[i] = fetched[i] /\ page'[i] = page[i]
           /\ pc'[i] # "query" => pc[i] # "query"
  PROVE  Covered'
BY DEF Covered, OnPage

(* A lookup begins a round that has read nothing.                           *)
LEMMA LookupCovers ==
  ASSUME IInv, Covered, NEW i \in Instances, GetWorkerCountAndIndex(i)
  PROVE  Covered'
<1>1. fetched'[i] = {} /\ page'[i] = 0 /\ pc'[i] = "query"
  BY DEF IInv, TypeOK, GetWorkerCountAndIndex, StartRound
<1>2. \A j \in Instances \ {i} :
        /\ seen'[j] = seen[j] /\ fetched'[j] = fetched[j]
        /\ total'[j] = total[j] /\ index'[j] = index[j] /\ page'[j] = page[j] /\ pc'[j] = pc[j]
        /\ listed' = listed
  BY DEF IInv, TypeOK, GetWorkerCountAndIndex, StartRound
<1> QED BY <1>1, <1>2 DEF Covered, OnPage

(* A page adds all that are on it, and one that is not full has nobody      *)
(* after it.                                                                *)
LEMMA QueryCovers ==
  ASSUME IInv, Covered, NEW i \in Instances, QueryPage(i)
  PROVE  Covered'
<1>1. \A j \in Instances \ {i} :
        /\ seen'[j] = seen[j] /\ fetched'[j] = fetched[j]
        /\ total'[j] = total[j] /\ index'[j] = index[j] /\ page'[j] = page[j] /\ pc'[j] = pc[j]
        /\ listed' = listed
  BY DEF IInv, TypeOK, QueryPage, NextPage
<1>2. CASE seen[i] = {}
  <2>1. seen'[i] = {}
    BY <1>2 DEF QueryPage
  <2> QED BY <1>1, <2>1 DEF Covered, OnPage
<1>3. CASE seen[i] # {}
  <2>1. /\ UNCHANGED <<listed, total, index, seen>>
        /\ fetched'[i] = fetched[i] \cup Page(i)
    BY <1>3 DEF IInv, TypeOK, QueryPage
  <2>2. Page(i) \subseteq listed
    BY <1>3 DEF Page
  <2>3. /\ index[i] \in Nat /\ total[i] \in Nat \ {0} /\ page[i] \in Nat
        /\ DBFetchBatch \in Nat \ {0} /\ pc[i] = "query"
        /\ listed \in SUBSET Nat /\ IsFiniteSet(listed)
    <3>1. i \in seen[i] /\ total[i] = Cardinality(seen[i]) /\ IsFiniteSet(seen[i])
      BY <1>3, Finite DEF IInv, TypeOK, Rounds, Numbered
    <3>2. total[i] # 0
      BY <3>1, FS_EmptySet
    <3> QED BY <3>2, Finite, ConstantsAssumption DEF IInv, TypeOK, QueryPage
  <2>4. Offset(i) = (index[i] + total[i] * page[i]) * DBFetchBatch /\ Offset(i) \in Nat
    BY <2>3 DEF Offset
  <2>5. \A u \in listed : Before(u, listed) \in Nat
    BY <2>3, BeforeIsNat
  <2>6. ASSUME NEW u \in listed, OnPage(u, i, page[i]) PROVE u \in Page(i)
    BY <1>3, <2>4, <2>5, <2>6 DEF OnPage, Page
  <2>7. CASE Cardinality(Page(i)) = DBFetchBatch
    <3>1. page'[i] = page[i] + 1 /\ pc'[i] = "query"
      BY <2>3, <2>7 DEF IInv, TypeOK, QueryPage, NextPage
    <3>2. ASSUME NEW u \in listed, NEW a \in Nat, OnPage(u, i, a), a < page[i] + 1
          PROVE  u \in fetched'[i]
      <4>1. CASE a < page[i]
        BY <1>3, <2>1, <3>2, <4>1 DEF Covered
      <4>2. CASE a = page[i]
        BY <2>1, <2>6, <3>2, <4>2
      <4> QED BY <2>3, <3>2, <4>1, <4>2
    <3> QED BY <1>1, <1>3, <2>1, <2>2, <3>1, <3>2 DEF Covered, OnPage
  <2>8. CASE Cardinality(Page(i)) # DBFetchBatch
    <3>1. page'[i] = page[i]
      BY <2>8 DEF QueryPage
    <3>2. ASSUME NEW u \in listed, NEW a \in Nat, OnPage(u, i, a)
          PROVE  u \in fetched'[i]
      <4>1. CASE a < page[i]
        BY <1>3, <2>1, <3>2, <4>1, <2>3 DEF Covered
      <4>2. CASE a = page[i]
        BY <2>1, <2>6, <3>2, <4>2
      <4>3. CASE a > page[i]
        <5>1. Before(u, listed) >= (index[i] + total[i] * a) * DBFetchBatch
          BY <2>3, <2>5, <3>2 DEF OnPage
        <5>2. (index[i] + total[i] * a) * DBFetchBatch >= Offset(i) + DBFetchBatch
          BY <2>3, <2>4, <4>3, LaterPage
        <5>3. Offset(i) + DBFetchBatch <= Before(u, listed)
          BY <2>3, <2>4, <2>5, <5>1, <5>2
        <5>4. Cardinality(Page(i)) = DBFetchBatch
          BY <1>3, <2>3, <2>4, <5>3, FullPage DEF Page
        <5> QED BY <2>8, <5>4
      <4> QED BY <2>3, <4>1, <4>2, <4>3
    <3> QED BY <1>1, <1>3, <2>1, <2>2, <3>1, <3>2 DEF Covered, OnPage
  <2> QED BY <2>7, <2>8
<1> QED BY <1>2, <1>3

LEMMA StepCovers == IInv /\ Covered /\ [Next]_vars => Covered'
<1> SUFFICES ASSUME IInv, Covered, [Next]_vars PROVE Covered'
  OBVIOUS
<1>1. ASSUME NEW i \in Instances, Stop(i) \/ LookupFails(i) \/ QueryFails(i)
      PROVE  Covered'
  <2>1. seen'[i] = {}
    BY <1>1 DEF IInv, TypeOK, Stop, Reset, LookupFails, QueryFails, Forget
  <2>2. \A j \in Instances \ {i} :
          /\ total'[j] = total[j] /\ index'[j] = index[j] /\ seen'[j] = seen[j]
          /\ fetched'[j] = fetched[j] /\ page'[j] = page[j]
          /\ pc'[j] = pc[j]
    BY <1>1 DEF IInv, TypeOK, Stop, Reset, LookupFails, QueryFails, Forget, StartRound, NextPage
  <2> DEFINE I == {i}
  <2>3. I \in SUBSET Instances /\ \A j \in I : seen'[j] = {}
    BY <2>1
  <2>4. \A j \in Instances \ I :
          /\ total'[j] = total[j] /\ index'[j] = index[j] /\ seen'[j] = seen[j]
          /\ fetched'[j] = fetched[j] /\ page'[j] = page[j]
          /\ pc'[j] # "query" => pc[j] # "query"
    BY <2>2
  <2>5. listed' = listed
    BY <1>1 DEF Stop, LookupFails, QueryFails
  <2> HIDE DEF I
  <2> QED BY <2>3, <2>4, <2>5, CoveredKept
<1>2. ASSUME UNCHANGED <<listed, roundVars>>,
             \A i \in Instances : pc'[i] # "query" => pc[i] # "query"
      PROVE  Covered'
  BY <1>2 DEF Covered, OnPage, roundVars
<1>3. ASSUME NEW i \in Instances,
             \/ Heartbeat(i) \/ Expire(i) \/ Restart(i) \/ EndRound(i) \/ Timeout(i)
             \/ \E u \in Users : Send(i, u) \/ Drop(i, u)
             \/ \E users \in SUBSET queue[i] : UpdateFails(i, users)
      PROVE  Covered'
  <2>1. UNCHANGED <<listed, roundVars>>
    BY <1>3 DEF Heartbeat, Expire, Restart, EndRound, Timeout, Send, Drop, UpdateFails
  <2>2. UNCHANGED pc \/ (pc[i] = "send" /\ pc' = [pc EXCEPT ![i] = "wait"])
    BY <1>3 DEF Heartbeat, Expire, Restart, EndRound, Timeout, Send, Drop, UpdateFails
  <2> QED BY <1>2, <2>1, <2>2 DEF IInv, TypeOK
<1>4. ASSUME NEW list, SetList(list), UNCHANGED <<total, index, page, pc>>
      PROVE  Covered'
  <2>1. CASE list = listed
    BY <1>2, <1>4, <2>1 DEF SetList, Covered, OnPage
  <2>2. CASE list # listed
    BY <1>4, <2>2 DEF SetList, Covered
  <2> QED BY <2>1, <2>2
<1>6. ASSUME (\E i \in Instances : Update(i)) \/ \E u \in Users : Join(u)
      PROVE  Covered'
  BY <1>4, <1>6 DEF Update, UpdateUserSteps, Join
<1>5. CASE UNCHANGED vars
  BY <1>2, <1>5 DEF vars
<1> QED BY <1>1, <1>3, <1>5, <1>6, LookupCovers, QueryCovers DEF Next, Dispatch

(* When all that see the same instances, and the list as it is, have read   *)
(* their pages, nobody of the list was left out, for any number of          *)
(* instances and users and any size of the pages: whatever page a user is   *)
(* on, one of the instances has the number whose turn it is.                *)
THEOREM PartsComplete == Spec => []PartsAreComplete
<1>1. Init => Covered
  BY DEF Init, Covered
<1>2. IInv /\ Covered => PartsAreComplete
  <2> SUFFICES ASSUME IInv, Covered, NEW i \in Instances, Read(i),
                      \A j \in seen[i] : Read(j) /\ seen[j] = seen[i]
               PROVE  UNION {fetched[j] : j \in seen[i]} = listed
    BY DEF PartsAreComplete
  <2> DEFINE S == seen[i]
             n == Cardinality(S)
             B == DBFetchBatch
  <2>1. S \in SUBSET Instances /\ S \in SUBSET Nat /\ IsFiniteSet(S) /\ n \in Nat /\ B \in Nat \ {0}
    BY Finite, ConstantsAssumption DEF IInv, TypeOK
  <2>2. \A j \in S : fetched[j] \subseteq listed
    <3>1. \A j \in S : j \in Instances /\ seen[j] # {}
      BY <2>1 DEF Read
    <3> HIDE DEF S
    <3> QED BY <3>1 DEF Covered
  <2>3. ASSUME NEW u \in listed PROVE \E j \in S : u \in fetched[j]
    <3> DEFINE p == Before(u, listed)
               q == p \div B
               k == q % n
               a == q \div n
    <3>1. p \in Nat
      BY Finite, BeforeIsNat DEF IInv, TypeOK
    <3>2. n # 0
      <4>1. S # {}
        BY DEF Read
      <4> QED BY <2>1, <4>1, FS_EmptySet
    <3>3. q \in Nat /\ B * q <= p /\ p < B * q + B
      <4> HIDE DEF p, B
      <4> QED BY <2>1, <3>1
    <3>4. k \in Nat /\ k < n /\ a \in Nat /\ q = k + n * a
      <4> HIDE DEF q, n
      <4> QED BY <2>1, <3>2, <3>3
    <3>5. PICK j \in S : Before(j, S) = k
      <4> HIDE DEF k
      <4> QED BY <2>1, <3>4, EveryNumberTaken
    <3>6. total[j] = n /\ index[j] = k /\ pc[j] # "query" /\ seen[j] # {}
      BY <2>1, <3>5 DEF IInv, Rounds, Numbered, Read
    <3>7. OnPage(u, j, a)
      <4>1. (k + n * a) * B <= p /\ p < (k + n * a) * B + B
        <5> HIDE DEF p, q, k, n, a, B
        <5> QED BY <2>1, <3>1, <3>3, <3>4
      <4> QED BY <3>6, <4>1 DEF OnPage
    <3> QED BY <2>1, <3>4, <3>5, <3>6, <3>7 DEF Covered
  <2> QED BY <2>2, <2>3
<1> QED BY <1>1, <1>2, StepCovers, RoundsInvariant, PTL DEF Spec
=============================================================================
