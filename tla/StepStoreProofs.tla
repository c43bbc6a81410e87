-------------------------- MODULE StepStoreProofs --------------------------
(* What holds of the store of steps for any users, dates, requests, clients *)
(* and workers: every variable keeps its type, through merged and replaced  *)
(* hashes, repeated pushes, losses and failures, both queues stay sets, and *)
(* the table and the hashes come to what each user has reported last.       *)
EXTENDS StepStore, CollectionLemmas

-----------------------------------------------------------------------------
(* Steps by date.                                                           *)

Hash == Partial(Days \cup {MinDate})
Rows == Partial(Days)

(* Steps by date are a function on some of the dates.                       *)
LEMMA PartialIs ==
  ASSUME NEW D, NEW f
  PROVE  f \in Partial(D) <=> DOMAIN f \subseteq D /\ f \in [DOMAIN f -> 0 .. MaxSteps]
<1>1. ASSUME f \in Partial(D)
      PROVE  DOMAIN f \subseteq D /\ f \in [DOMAIN f -> 0 .. MaxSteps]
  <2>1. PICK E \in SUBSET D : f \in [E -> 0 .. MaxSteps]
    BY <1>1 DEF Partial
  <2> QED BY <2>1
<1>2. ASSUME DOMAIN f \subseteq D, f \in [DOMAIN f -> 0 .. MaxSteps]
      PROVE  f \in Partial(D)
  BY <1>2 DEF Partial
<1> QED BY <1>1, <1>2

(* Merging adds no dates and no numbers.                                    *)
LEMMA OverIsPartial ==
  ASSUME NEW D, NEW f \in Partial(D), NEW g \in Partial(D)
  PROVE  Over(f, g) \in Partial(D) /\ DOMAIN Over(f, g) = DOMAIN f \cup DOMAIN g
<1>1. /\ DOMAIN f \subseteq D /\ f \in [DOMAIN f -> 0 .. MaxSteps]
      /\ DOMAIN g \subseteq D /\ g \in [DOMAIN g -> 0 .. MaxSteps]
  BY PartialIs
<1>2. /\ DOMAIN Over(f, g) = DOMAIN f \cup DOMAIN g
      /\ Over(f, g) \in [DOMAIN f \cup DOMAIN g -> 0 .. MaxSteps]
  BY <1>1 DEF Over
<1>3. DOMAIN Over(f, g) \subseteq D
  BY <1>1, <1>2
<1> QED BY <1>2, <1>3, PartialIs

LEMMA EmptyIsPartial == \A D : Empty \in Partial(D)
<1>1. DOMAIN Empty = {} /\ Empty \in [{} -> 0 .. MaxSteps]
  BY DEF Empty
<1> QED BY <1>1, PartialIs

LEMMA RowsAreHash == Rows \subseteq Hash
<1> SUFFICES ASSUME NEW f \in Rows PROVE f \in Hash
  OBVIOUS
<1>1. DOMAIN f \subseteq Days /\ f \in [DOMAIN f -> 0 .. MaxSteps]
  BY PartialIs DEF Rows
<1> QED BY <1>1, PartialIs DEF Hash

(* What a request leaves in the hash of a user has the type of a hash.      *)
LEMMA CachedIsHash ==
  ASSUME NEW u \in Users, cache[u] \in Hash, NEW s \in Hash
  PROVE  Cached(u, s) \in Hash
BY OverIsPartial DEF Cached, Hash

-----------------------------------------------------------------------------
(* The invariant: what the clients and the workers hold has a type too.     *)

Work ==
  /\ DOMAIN method = Users
  /\ todo \in [Clients -> SUBSET Report] /\ unpushed \in [Clients -> SUBSET Report]
  /\ read \in [RecoverWorkers -> Hash]

IInv == TypeOK /\ Work

(* The parts of the invariant that actions disturb one by one.              *)
StoresOK ==
  /\ cache \in [Users -> Hash] /\ table \in [Users -> Rows] /\ accepted \in [Users -> Rows]
  /\ DOMAIN method = Users
  /\ \A u \in Users : method[u] \in [DOMAIN table[u] -> BOOLEAN]

ClientsOK ==
  /\ task \in [Clients -> Requests \cup {NoTask}]
  /\ todo \in [Clients -> SUBSET Report] /\ unpushed \in [Clients -> SUBSET Report]
  /\ \A c \in Clients : todo[c] \cup unpushed[c] \subseteq task[c].items

SetOK == setQueue \in Seq(Message) /\ setSet \subseteq Message
RecoverOK == recoverQueue \in Seq(Users) /\ recoverSet \subseteq Users /\ missed \subseteq Users

WritingOK == writing \in [SetWorkers -> Report \cup {Nobody}]

FillingOK ==
  /\ filling \in [RecoverWorkers -> Users \cup {Nobody}]
  /\ read \in [RecoverWorkers -> Hash]
  /\ \A w \in RecoverWorkers : filling[w] = Nobody => read[w] = Empty

HistoryOK ==
  /\ faults \in [Users -> SUBSET Fault]
  /\ counts \in [{"requests", "losses", "fails", "misses"} -> Nat]

LEMMA Parts ==
  /\ IInv <=> /\ StoresOK /\ ClientsOK /\ SetOK /\ RecoverOK
              /\ WritingOK /\ FillingOK /\ HistoryOK
  /\ IInv' <=> /\ StoresOK' /\ ClientsOK' /\ SetOK' /\ RecoverOK'
               /\ WritingOK' /\ FillingOK' /\ HistoryOK'
BY DEF IInv, TypeOK, Work, StoresOK, ClientsOK, SetOK, RecoverOK, WritingOK, FillingOK,
       HistoryOK, Hash, Rows

LEMMA InitHolds == Init => IInv
<1> SUFFICES ASSUME Init PROVE IInv
  OBVIOUS
<1>1. Empty \in Hash /\ Empty \in Rows /\ DOMAIN Empty = {}
  BY EmptyIsPartial DEF Hash, Rows, Empty
<1>2. StoresOK
  <2>1. Empty \in [DOMAIN Empty -> BOOLEAN]
    BY DEF Empty
  <2> QED BY <1>1, <2>1 DEF Init, StoresOK
<1>3. ClientsOK
  BY DEF Init, ClientsOK, NoTask
<1>4. SetOK /\ RecoverOK
  BY DEF Init, SetOK, RecoverOK, SetQ!Init, RecoverQ!Init
<1>5. WritingOK /\ FillingOK /\ HistoryOK
  BY <1>1 DEF Init, WritingOK, FillingOK, HistoryOK
<1> QED BY <1>2, <1>3, <1>4, <1>5, Parts

(* What is noted is a fault, and what is counted stays a number.            *)
LEMMA NotedIsFault ==
  ASSUME HistoryOK, NEW S, NEW f \in Fault
  PROVE  Noted(S, f) \in [Users -> SUBSET Fault]
BY DEF HistoryOK, Noted

LEMMA BumpKeeps ==
  ASSUME HistoryOK, NEW n \in {"requests", "losses", "fails", "misses"}, Bump(n)
  PROVE  counts' \in [{"requests", "losses", "fails", "misses"} -> Nat]
<1>1. counts[n] + 1 \in Nat
  BY DEF HistoryOK
<1> QED BY <1>1 DEF HistoryOK, Bump

-----------------------------------------------------------------------------
(* The clients.                                                             *)

LEMMA BeginKeeps ==
  ASSUME IInv, NEW c \in Clients, NEW q \in Requests, Begin(c, q) PROVE IInv'
<1> USE Parts
<1>1. q.items \subseteq Report /\ task[c] = NoTask /\ unpushed[c] = {}
  BY ConstantsAssumption DEF Begin, ClientsOK, NoTask
<1>2. ClientsOK'
  BY <1>1 DEF ClientsOK, Begin
<1>3. HistoryOK'
  <2>1. "overlap" \in Fault
    BY DEF Fault
  <2> QED BY <2>1, NotedIsFault, BumpKeeps DEF HistoryOK, Begin
<1>4. StoresOK' /\ SetOK' /\ RecoverOK' /\ WritingOK' /\ FillingOK'
  BY DEF StoresOK, SetOK, RecoverOK, WritingOK, FillingOK, Begin, setQ, recoverQ, fillVars
<1> QED BY <1>2, <1>3, <1>4

LEMMA CacheKeeps ==
  ASSUME IInv, NEW c \in Clients, NEW i \in todo[c], SetUserStepsToCache(c, i) PROVE IInv'
<1> USE Parts
<1> DEFINE u == i.user
<1>1. i \in Report /\ u \in Users /\ i.steps \in Rows
  BY DEF ClientsOK, Report, Rows
<1>2. StoresOK'
  <2>1. Cached(u, i.steps) \in Hash
    BY <1>1, RowsAreHash, CachedIsHash DEF StoresOK
  <2>2. Over(i.steps, accepted[u]) \in Rows
    BY <1>1, OverIsPartial DEF StoresOK, Rows
  <2>3. /\ cache' = [cache EXCEPT ![u] = Cached(u, i.steps)]
        /\ accepted' = [accepted EXCEPT ![u] = Over(i.steps, accepted[u])]
        /\ UNCHANGED <<table, method>>
    BY DEF SetUserStepsToCache
  <2> QED BY <1>1, <2>1, <2>2, <2>3 DEF StoresOK
<1>3. ClientsOK'
  <2>1. AfterCaching(c, todo[c] \ {i}) \subseteq task[c].items /\ task[c].items \subseteq Report
    BY ConstantsAssumption DEF AfterCaching, ClientsOK, NoTask
  <2>2. /\ todo' = [todo EXCEPT ![c] = @ \ {i}]
        /\ unpushed' = [unpushed EXCEPT ![c] = AfterCaching(c, todo[c] \ {i})]
        /\ UNCHANGED task
    BY DEF SetUserStepsToCache
  <2> QED BY <2>1, <2>2 DEF ClientsOK
<1>4. HistoryOK'
  BY DEF HistoryOK, SetUserStepsToCache, Fault
<1>5. SetOK' /\ RecoverOK' /\ WritingOK' /\ FillingOK'
  BY DEF SetOK, RecoverOK, WritingOK, FillingOK, SetUserStepsToCache, setQ, recoverQ, fillVars
<1> QED BY <1>2, <1>3, <1>4, <1>5

(* A report that is pushed, or fails to be, is no longer to be pushed; the  *)
(* last one ends the request.                                               *)
LEMMA PushedKeeps ==
  ASSUME ClientsOK, NEW c \in Clients, NEW i \in unpushed[c],
         unpushed' = [unpushed EXCEPT ![c] = @ \ {i}], UNCHANGED todo,
         task' = [task EXCEPT ![c] = IF todo[c] = {} /\ unpushed[c] = {i} THEN NoTask ELSE @]
  PROVE  ClientsOK'
BY DEF ClientsOK, NoTask

LEMMA MessageTypes ==
  ASSUME NEW i \in Report, NEW form \in Forms(i)
  PROVE  [report |-> i, form |-> form] \in Message
<1>1. form \in 1 .. Encodings
  BY ConstantsAssumption DEF Forms
<1> QED BY <1>1 DEF Message

LEMMA PushKeeps ==
  ASSUME IInv, NEW c \in Clients, NEW i \in unpushed[c],
         (\E form \in Forms(i) : PushSetUser(c, i, form)) \/ PushFails(c, i)
  PROVE  IInv'
<1> USE Parts
<1>1. ClientsOK'
  BY PushedKeeps DEF PushSetUser, PushFails
<1>2. CASE PushFails(c, i)
  <2>1. HistoryOK'
    <3>1. "fail" \in Fault
      BY DEF Fault
    <3> QED BY <1>2, <3>1, NotedIsFault, BumpKeeps DEF HistoryOK, PushFails, Failing
  <2>2. StoresOK' /\ SetOK' /\ RecoverOK' /\ WritingOK' /\ FillingOK'
    BY <1>2 DEF StoresOK, SetOK, RecoverOK, WritingOK, FillingOK, PushFails, setQ, recoverQ, fillVars
  <2> QED BY <1>1, <2>1, <2>2
<1>3. ASSUME NEW form \in Forms(i), PushSetUser(c, i, form) PROVE IInv'
  <2> DEFINE e == [report |-> i, form |-> form]
  <2>1. e \in Message
    BY MessageTypes DEF ClientsOK
  <2>2. SetOK'
    <3>1. SetQ!Push(e)
      BY <1>3 DEF PushSetUser
    <3> QED BY <2>1, <3>1 DEF SetOK, SetQ!Push
  <2>3. HistoryOK'
    <3>1. "dup" \in Fault
      BY DEF Fault
    <3>2. \E S : faults' = Noted(S, "dup")
      BY <1>3 DEF PushSetUser
    <3> QED BY <1>3, <3>1, <3>2, NotedIsFault DEF HistoryOK, PushSetUser
  <2>4. StoresOK' /\ RecoverOK' /\ WritingOK' /\ FillingOK'
    BY <1>3 DEF StoresOK, RecoverOK, WritingOK, FillingOK, PushSetUser, recoverQ, fillVars
  <2> QED BY <1>1, <2>2, <2>3, <2>4
<1> QED BY <1>2, <1>3

LEMMA GiveUpKeeps ==
  ASSUME IInv, NEW c \in Clients, GiveUp(c) PROVE IInv'
<1> USE Parts
<1>1. ClientsOK'
  BY DEF ClientsOK, GiveUp, NoTask
<1>2. HistoryOK'
  <2>1. "fail" \in Fault
    BY DEF Fault
  <2>2. Failing \/ UNCHANGED counts
    BY DEF GiveUp
  <2> QED BY <2>1, <2>2, NotedIsFault, BumpKeeps DEF HistoryOK, GiveUp, Failing
<1>3. StoresOK' /\ SetOK' /\ RecoverOK' /\ WritingOK' /\ FillingOK'
  BY DEF StoresOK, SetOK, RecoverOK, WritingOK, FillingOK, GiveUp, setQ, recoverQ, fillVars
<1> QED BY <1>1, <1>2, <1>3

-----------------------------------------------------------------------------
(* The workers.                                                             *)

(* Both scripts leave sequences and sets of what is queued.                 *)
LEMMA PopTypes ==
  ASSUME NEW E, NEW q \in Seq(E), q # <<>>
  PROVE  Tail(q) \in Seq(E) /\ Head(q) \in E
OBVIOUS

LEMMA SetWorkerKeeps ==
  ASSUME IInv, NEW w \in SetWorkers, SetWorker(w) PROVE IInv'
<1> USE Parts
<1>1. ASSUME NEW e \in setSet, PopSetUser(w, e) PROVE IInv'
  <2>1. setQueue # <<>> /\ setQueue' = Tail(setQueue) /\ setSet' = setSet \ {e}
    BY <1>1 DEF PopSetUser, SetQ!Pop
  <2>2. SetOK'
    BY <2>1, PopTypes DEF SetOK
  <2>3. WritingOK'
    <3>1. e.report \in Report
      BY DEF SetOK, Message
    <3> QED BY <1>1, <3>1 DEF WritingOK, PopSetUser
  <2>4. HistoryOK'
    <3>1. "order" \in Fault
      BY DEF Fault
    <3>2. \E S : faults' = Noted(S, "order")
      BY <1>1 DEF PopSetUser
    <3> QED BY <1>1, <3>1, <3>2, NotedIsFault DEF HistoryOK, PopSetUser
  <2>5. StoresOK' /\ ClientsOK' /\ RecoverOK' /\ FillingOK'
    BY <1>1 DEF StoresOK, ClientsOK, RecoverOK, FillingOK, PopSetUser, clientVars, recoverQ, fillVars
  <2> QED BY <2>2, <2>3, <2>4, <2>5
<1>2. CASE SetUsersStepsToDB(w)
  <2> DEFINE i == writing[w]
             u == i.user
  <2>1. u \in Users /\ i.steps \in Rows
    BY <1>2 DEF SetUsersStepsToDB, WritingOK, Report, Rows
  <2>2. StoresOK'
    <3>1. Over(i.steps, table[u]) \in Rows
          /\ DOMAIN Over(i.steps, table[u]) = DOMAIN i.steps \cup DOMAIN table[u]
      <4> DEFINE f == i.steps
                 g == table[u]
      <4>1. f \in Partial(Days) /\ g \in Partial(Days)
        BY <2>1 DEF StoresOK, Rows
      <4> HIDE DEF f, g
      <4>2. Over(f, g) \in Partial(Days) /\ DOMAIN Over(f, g) = DOMAIN f \cup DOMAIN g
        BY <4>1, OverIsPartial
      <4> QED BY <4>2 DEF f, g, Rows
    <3>2. Over([d \in DOMAIN i.steps |-> FALSE], method[u])
            \in [DOMAIN i.steps \cup DOMAIN table[u] -> BOOLEAN]
      <4>1. method[u] \in [DOMAIN table[u] -> BOOLEAN]
        BY <2>1 DEF StoresOK
      <4> QED BY <4>1 DEF Over
    <3>3. /\ table' = [table EXCEPT ![u] = Over(i.steps, table[u])]
          /\ method' = [method EXCEPT ![u] = Over([d \in DOMAIN i.steps |-> FALSE], method[u])]
          /\ UNCHANGED <<cache, accepted>>
      BY <1>2 DEF SetUsersStepsToDB
    <3>4. table' \in [Users -> Rows] /\ DOMAIN method' = Users
      BY <3>1, <3>3 DEF StoresOK
    <3>5. ASSUME NEW v \in Users PROVE method'[v] \in [DOMAIN table'[v] -> BOOLEAN]
      <4> HIDE DEF u, i
      <4>1. CASE v = u
        <5>1. table'[v] = Over(i.steps, table[u])
              /\ method'[v] = Over([d \in DOMAIN i.steps |-> FALSE], method[u])
          BY <4>1, <3>3 DEF StoresOK
        <5> QED BY <5>1, <3>1, <3>2
      <4>2. CASE v # u
        <5>1. table'[v] = table[v] /\ method'[v] = method[v]
          BY <4>2, <3>3 DEF StoresOK
        <5> QED BY <5>1 DEF StoresOK
      <4> QED BY <4>1, <4>2
    <3> QED BY <3>3, <3>4, <3>5 DEF StoresOK
  <2>3. ClientsOK' /\ SetOK' /\ RecoverOK' /\ WritingOK' /\ FillingOK' /\ HistoryOK'
    BY <1>2 DEF ClientsOK, SetOK, RecoverOK, WritingOK, FillingOK, HistoryOK,
                SetUsersStepsToDB, clientVars, setQ, recoverQ, fillVars
  <2> QED BY <2>2, <2>3
<1>3. CASE SetWorkerFails(w)
  <2>1. HistoryOK'
    <3>1. "fail" \in Fault
      BY DEF Fault
    <3>2. Failing \/ UNCHANGED counts
      BY <1>3 DEF SetWorkerFails
    <3>3. \E S : faults' = Noted(S, "fail")
      BY <1>3 DEF SetWorkerFails
    <3> QED BY <3>1, <3>2, <3>3, NotedIsFault, BumpKeeps DEF HistoryOK, Failing
  <2>2. StoresOK' /\ ClientsOK' /\ SetOK' /\ RecoverOK' /\ WritingOK' /\ FillingOK'
    BY <1>3 DEF StoresOK, ClientsOK, SetOK, RecoverOK, WritingOK, FillingOK,
                SetWorkerFails, clientVars, setQ, recoverQ, fillVars
  <2> QED BY <2>1, <2>2
<1> QED BY <1>1, <1>2, <1>3 DEF SetWorker

(* The placeholder of a user without rows is a hash.                        *)
LEMMA PlaceholderIsHash == [d \in {MinDate} |-> 0] \in Hash
<1>1. [d \in {MinDate} |-> 0] \in [{MinDate} -> 0 .. MaxSteps]
  BY ConstantsAssumption
<1> QED BY <1>1, PartialIs DEF Hash

LEMMA RecoverWorkerKeeps ==
  ASSUME IInv, NEW w \in RecoverWorkers, RecoverWorker(w) PROVE IInv'
<1> USE Parts
<1>1. ASSUME NEW u \in Users, PopRecoverUser(w, u) PROVE IInv'
  <2>1. /\ recoverQueue # <<>> /\ recoverQueue' = Tail(recoverQueue)
        /\ recoverSet' = recoverSet \ {u} /\ UNCHANGED missed
    BY <1>1 DEF PopRecoverUser, RecoverQ!Pop
  <2>2. RecoverOK'
    BY <2>1, PopTypes DEF RecoverOK
  <2>3. FillingOK'
    <3>1. u # Nobody
      BY ConstantsAssumption
    <3> QED BY <1>1, <3>1 DEF FillingOK, PopRecoverUser
  <2>4. StoresOK' /\ ClientsOK' /\ SetOK' /\ WritingOK' /\ HistoryOK'
    BY <1>1 DEF StoresOK, ClientsOK, SetOK, WritingOK, HistoryOK, PopRecoverUser, clientVars, setQ
  <2> QED BY <2>2, <2>3, <2>4
<1>2. CASE GetUsersMonthStepsFromDB(w)
  <2> DEFINE u == filling[w]
             rows == IF DOMAIN table[u] = {} THEN [d \in {MinDate} |-> 0] ELSE table[u]
  <2>1. u \in Users
    BY <1>2 DEF GetUsersMonthStepsFromDB, FillingOK
  <2>2. rows \in Hash
    BY <2>1, PlaceholderIsHash, RowsAreHash DEF StoresOK
  <2>3. FillingOK'
    <3>1. read' = [read EXCEPT ![w] = rows] /\ UNCHANGED filling /\ u # Nobody
      BY <1>2 DEF GetUsersMonthStepsFromDB
    <3> HIDE DEF rows
    <3> QED BY <2>2, <3>1 DEF FillingOK
  <2>4. HistoryOK'
    <3>1. "race" \in Fault
      BY DEF Fault
    <3>2. (\E S : faults' = Noted(S, "race")) /\ UNCHANGED counts
      BY <1>2 DEF GetUsersMonthStepsFromDB
    <3> QED BY <3>1, <3>2, NotedIsFault DEF HistoryOK
  <2>5. StoresOK' /\ ClientsOK' /\ SetOK' /\ RecoverOK' /\ WritingOK'
    BY <1>2 DEF StoresOK, ClientsOK, SetOK, RecoverOK, WritingOK, GetUsersMonthStepsFromDB,
                clientVars, setQ, recoverQ
  <2> QED BY <2>3, <2>4, <2>5
<1>3. CASE FillCache(w)
  <2> DEFINE u == filling[w]
  <2>1. u \in Users /\ read[w] \in Hash
    BY <1>3 DEF FillCache, FillingOK
  <2>2. StoresOK'
    <3>1. Cached(u, read[w]) \in Hash
      BY <2>1, CachedIsHash DEF StoresOK
    <3> QED BY <1>3, <2>1, <3>1 DEF FillCache, StoresOK
  <2>3. FillingOK'
    BY <1>3, EmptyIsPartial DEF FillCache, FillingOK, Hash
  <2>4. ClientsOK' /\ SetOK' /\ RecoverOK' /\ WritingOK' /\ HistoryOK'
    BY <1>3 DEF ClientsOK, SetOK, RecoverOK, WritingOK, HistoryOK, FillCache, clientVars, setQ,
                recoverQ
  <2> QED BY <2>2, <2>3, <2>4
<1>4. CASE RecoverFails(w)
  <2>1. HistoryOK'
    <3>1. "fail" \in Fault
      BY DEF Fault
    <3> QED BY <1>4, <3>1, NotedIsFault, BumpKeeps DEF HistoryOK, RecoverFails, Failing
  <2>2. FillingOK'
    BY <1>4, EmptyIsPartial DEF RecoverFails, FillingOK, Hash
  <2>3. StoresOK' /\ ClientsOK' /\ SetOK' /\ RecoverOK' /\ WritingOK'
    BY <1>4 DEF StoresOK, ClientsOK, SetOK, RecoverOK, WritingOK, RecoverFails, clientVars, setQ,
                recoverQ
  <2> QED BY <2>1, <2>2, <2>3
<1> QED BY <1>1, <1>2, <1>3, <1>4 DEF RecoverWorker

(* The readers, and the loss of a hash.                                     *)
LEMMA ReaderKeeps ==
  ASSUME IInv, NEW u \in Users, Reader(u) \/ LoseKey(u) PROVE IInv'
<1> USE Parts
<1>1. StoresOK'
  <2>1. CASE LoseKey(u)
    BY <2>1, EmptyIsPartial DEF StoresOK, LoseKey, Hash
  <2>2. CASE Reader(u)
    BY <2>2 DEF StoresOK, Reader, MissCache, PushRecoverUser, PushRecoverFails
  <2> QED BY <2>1, <2>2
<1>2. RecoverOK'
  <2>1. CASE PushRecoverUser(u)
    BY <2>1 DEF RecoverOK, PushRecoverUser, RecoverQ!Push
  <2>2. CASE MissCache(u) \/ PushRecoverFails(u) \/ LoseKey(u)
    BY <2>2 DEF RecoverOK, MissCache, PushRecoverFails, LoseKey, recoverQ
  <2> QED BY <2>1, <2>2 DEF Reader
<1>3. HistoryOK'
  BY BumpKeeps DEF HistoryOK, Reader, MissCache, PushRecoverUser, PushRecoverFails, LoseKey
<1>4. ClientsOK' /\ SetOK' /\ WritingOK' /\ FillingOK'
  BY DEF ClientsOK, SetOK, WritingOK, FillingOK, Reader, MissCache, PushRecoverUser,
         PushRecoverFails, LoseKey, clientVars, setQ, fillVars
<1> QED BY <1>1, <1>2, <1>3, <1>4

LEMMA StepKeeps == IInv /\ [Next]_vars => IInv'
<1> SUFFICES ASSUME IInv, [Next]_vars PROVE IInv'
  OBVIOUS
<1>1. ASSUME NEW c \in Clients, (\E q \in Requests : Begin(c, q)) \/ Handle(c) PROVE IInv'
  BY <1>1, BeginKeeps, CacheKeeps, PushKeeps, GiveUpKeeps DEF Handle
<1>2. CASE UNCHANGED vars
  BY <1>2 DEF IInv, TypeOK, Work, vars, setQ, recoverQ, clientVars, fillVars
<1> QED BY <1>1, <1>2, SetWorkerKeeps, RecoverWorkerKeeps, ReaderKeeps DEF Next

THEOREM StoreInvariant == Spec => []IInv
BY InitHolds, StepKeeps, PTL DEF Spec

-----------------------------------------------------------------------------
(* What follows.                                                            *)

(* Hashes and rows are steps by date, each row has a flag, the queues hold  *)
(* reports and users, and what a request has left to do is part of it, for  *)
(* any requests and whatever gets lost.                                     *)
THEOREM StoreTypes == Spec => []TypeOK
<1>1. IInv => TypeOK
  BY DEF IInv
<1> QED BY <1>1, StoreInvariant, PTL

(* The clients and the workers use the queue of reports as RecoverQueue     *)
(* describes it.                                                            *)
THEOREM SetQueueImplemented == Spec => SetQ!Spec
<1>1. Init => SetQ!Init
  BY DEF Init
<1>2. IInv /\ [Next]_vars => [SetQ!Next]_<<setQueue, setSet>>
  <2> SUFFICES ASSUME IInv, [Next]_vars PROVE [SetQ!Next]_<<setQueue, setSet>>
    OBVIOUS
  <2>1. ASSUME NEW c \in Clients, NEW i \in unpushed[c], NEW form \in Forms(i), PushSetUser(c, i, form)
        PROVE  SetQ!Next
    <3>1. [report |-> i, form |-> form] \in Message
      BY Parts, MessageTypes DEF ClientsOK
    <3> QED BY <2>1, <3>1 DEF PushSetUser, SetQ!Next
  <2>2. ASSUME NEW w \in SetWorkers, NEW e \in setSet, PopSetUser(w, e) PROVE SetQ!Next
    <3>1. e \in Message
      BY Parts DEF SetOK
    <3> QED BY <2>2, <3>1 DEF PopSetUser, SetQ!Next
  <2>3. ASSUME NEW c \in Clients,
               \/ \E q \in Requests : Begin(c, q)
               \/ \E i \in todo[c] : SetUserStepsToCache(c, i)
               \/ \E i \in unpushed[c] : PushFails(c, i)
               \/ GiveUp(c)
        PROVE  UNCHANGED <<setQueue, setSet>>
    BY <2>3 DEF Begin, SetUserStepsToCache, PushFails, GiveUp, setQ
  <2>4. ASSUME NEW w \in SetWorkers, SetUsersStepsToDB(w) \/ SetWorkerFails(w)
        PROVE  UNCHANGED <<setQueue, setSet>>
    BY <2>4 DEF SetUsersStepsToDB, SetWorkerFails, setQ
  <2>5. ASSUME NEW w \in RecoverWorkers, RecoverWorker(w)
        PROVE  UNCHANGED <<setQueue, setSet>>
    BY <2>5 DEF RecoverWorker, PopRecoverUser, GetUsersMonthStepsFromDB, FillCache, RecoverFails, setQ
  <2>6. ASSUME NEW u \in Users, Reader(u) \/ LoseKey(u)
        PROVE  UNCHANGED <<setQueue, setSet>>
    BY <2>6 DEF Reader, MissCache, PushRecoverUser, PushRecoverFails, LoseKey, setQ
  <2>7. CASE UNCHANGED vars
    BY <2>7 DEF vars, setQ
  <2> QED BY <2>1, <2>2, <2>3, <2>4, <2>5, <2>6, <2>7 DEF Next, Handle, SetWorker
<1> QED BY <1>1, <1>2, StoreInvariant, PTL DEF Spec, SetQ!Spec

(* So do the readers and the workers that fill hashes with theirs.          *)
THEOREM RecoverQueueImplemented == Spec => RecoverQ!Spec
<1>1. Init => RecoverQ!Init
  BY DEF Init
<1>2. [Next]_vars => [RecoverQ!Next]_<<recoverQueue, recoverSet>>
  <2> SUFFICES ASSUME [Next]_vars PROVE [RecoverQ!Next]_<<recoverQueue, recoverSet>>
    OBVIOUS
  <2>1. ASSUME NEW u \in Users, PushRecoverUser(u) PROVE RecoverQ!Next
    BY <2>1 DEF PushRecoverUser, RecoverQ!Next
  <2>2. ASSUME NEW w \in RecoverWorkers, NEW u \in Users, PopRecoverUser(w, u)
        PROVE  RecoverQ!Next
    BY <2>2 DEF PopRecoverUser, RecoverQ!Next
  <2>3. ASSUME NEW c \in Clients, (\E q \in Requests : Begin(c, q)) \/ Handle(c)
        PROVE  UNCHANGED <<recoverQueue, recoverSet>>
    BY <2>3 DEF Handle, Begin, SetUserStepsToCache, PushSetUser, PushFails, GiveUp, recoverQ
  <2>4. ASSUME NEW w \in SetWorkers, SetWorker(w)
        PROVE  UNCHANGED <<recoverQueue, recoverSet>>
    BY <2>4 DEF SetWorker, PopSetUser, SetUsersStepsToDB, SetWorkerFails, recoverQ
  <2>5. ASSUME NEW w \in RecoverWorkers,
               GetUsersMonthStepsFromDB(w) \/ FillCache(w) \/ RecoverFails(w)
        PROVE  UNCHANGED <<recoverQueue, recoverSet>>
    BY <2>5 DEF GetUsersMonthStepsFromDB, FillCache, RecoverFails, recoverQ
  <2>6. ASSUME NEW u \in Users, MissCache(u) \/ PushRecoverFails(u) \/ LoseKey(u)
        PROVE  UNCHANGED <<recoverQueue, recoverSet>>
    BY <2>6 DEF MissCache, PushRecoverFails, LoseKey, recoverQ
  <2>7. CASE UNCHANGED vars
    BY <2>7 DEF vars, recoverQ
  <2> QED BY <2>1, <2>2, <2>3, <2>4, <2>5, <2>6, <2>7 DEF Next, RecoverWorker, Reader
<1> QED BY <1>1, <1>2, PTL DEF Spec, RecoverQ!Spec

(* Whatever is pushed, popped and lost, the set beside the queue of step    *)
(* updates holds what its list holds, and the list holds it once.           *)
THEOREM SetQueueSafe == SetQ!Spec => []SetQ!QueueIsSet
<1> DEFINE Listing == setQueue \in Seq(Message) /\ Lists(setQueue, setSet)
<1>1. SetQ!Init => Listing
  BY DEF SetQ!Init, Lists
<1>2. Listing /\ [SetQ!Next]_<<setQueue, setSet>> => Listing'
  <2> SUFFICES ASSUME Listing, [SetQ!Next]_<<setQueue, setSet>> PROVE Listing'
    OBVIOUS
  <2>1. \/ \E e \in Message \ setSet : setQueue' = Append(setQueue, e) /\ setSet' = setSet \cup {e}
        \/ setQueue # <<>> /\ setQueue' = Tail(setQueue) /\ setSet' = setSet \ {Head(setQueue)}
        \/ setQueue' = <<>> /\ setSet' = {}
        \/ setQueue' = setQueue /\ setSet' = setSet
    BY DEF SetQ!Next, SetQ!Push, SetQ!Pop, SetQ!Lose
  <2> QED BY <2>1, QueueStepLists
<1>3. Listing => SetQ!QueueIsSet
  BY DEF Lists, SetQ!Lists, SetQ!QueueIsSet
<1> QED BY <1>1, <1>2, <1>3, PTL DEF SetQ!Spec

(* So do the set and the list of the users to recover. *)
THEOREM RecoverQueueSafe == RecoverQ!Spec => []RecoverQ!QueueIsSet
<1> DEFINE Listing == recoverQueue \in Seq(Users) /\ Lists(recoverQueue, recoverSet)
<1>1. RecoverQ!Init => Listing
  BY DEF RecoverQ!Init, Lists
<1>2. Listing /\ [RecoverQ!Next]_<<recoverQueue, recoverSet>> => Listing'
  <2> SUFFICES ASSUME Listing, [RecoverQ!Next]_<<recoverQueue, recoverSet>> PROVE Listing'
    OBVIOUS
  <2>1. \/ \E e \in Users \ recoverSet : recoverQueue' = Append(recoverQueue, e) /\ recoverSet' = recoverSet \cup {e}
        \/ recoverQueue # <<>> /\ recoverQueue' = Tail(recoverQueue) /\ recoverSet' = recoverSet \ {Head(recoverQueue)}
        \/ recoverQueue' = <<>> /\ recoverSet' = {}
        \/ recoverQueue' = recoverQueue /\ recoverSet' = recoverSet
    BY DEF RecoverQ!Next, RecoverQ!Push, RecoverQ!Pop, RecoverQ!Lose
  <2> QED BY <2>1, QueueStepLists
<1>3. Listing => RecoverQ!QueueIsSet
  BY DEF Lists, RecoverQ!Lists, RecoverQ!QueueIsSet
<1> QED BY <1>1, <1>2, <1>3, PTL DEF RecoverQ!Spec

(* Neither queue holds a report or a user twice, and neither keeps out what *)
(* it does not hold, for any clients and workers.                           *)
THEOREM QueuesStaySets == Spec => []QueuesAreSets
<1>1. SetQ!QueueIsSet /\ RecoverQ!QueueIsSet => QueuesAreSets
  BY DEF QueuesAreSets
<1> QED BY <1>1, SetQueueSafe, RecoverQueueSafe, SetQueueImplemented, RecoverQueueImplemented, PTL

-----------------------------------------------------------------------------
(* What the table has. A date of a user is told by the reports of his that  *)
(* wait in the queue, the last of them first, then by the one a worker      *)
(* holds, and then by the table.                                            *)

Ordered(u) == Only(u, {"race", "partial"})

Tells(n, u, d) == n \in Queued(u) /\ d \in DOMAIN setQueue[n].report.steps
Holds(w, u, d) == w \in Held(u) /\ d \in DOMAIN writing[w].steps
Agrees(u, d, steps) == d \in DOMAIN accepted[u] /\ accepted[u][d] = steps[d]

(* The dates of u that a request has still to push. *)
Open(u) ==
  {d \in Days : \E c \in Clients : \E i \in task[c].items :
     i.user = u /\ d \in DOMAIN i.steps /\ (todo[c] # {} \/ i \in unpushed[c])}

(* Who tells the date tells what was accepted last. *)
QueueTells(u, d) ==
  \A n \in Nat :
    Tells(n, u, d) /\ (\A m \in Nat : Tells(m, u, d) => m <= n) =>
      Agrees(u, d, setQueue[n].report.steps)

HolderTells(u, d) == \A w \in SetWorkers : Holds(w, u, d) => Agrees(u, d, writing[w].steps)

RowTells(u, d) ==
  /\ d \in DOMAIN table[u] => Agrees(u, d, table[u])
  /\ d \in DOMAIN accepted[u] => d \in DOMAIN table[u]

DateInv(u, d) ==
  /\ QueueTells(u, d)
  /\ (\A n \in Nat : ~ Tells(n, u, d)) =>
       /\ HolderTells(u, d)
       /\ (\A w \in SetWorkers : ~ Holds(w, u, d)) => RowTells(u, d)

(* One request and one worker have reports of a user at a time, what a      *)
(* request has cached was accepted last, and so is what a date is told.     *)
UserInv(u) ==
  Ordered(u) =>
    /\ \A b, c \in Asking(u) : b = c
    /\ \A v, w \in Held(u) : v = w
    /\ \A c \in Clients : \A i \in task[c].items \ todo[c] :
         i.user = u => \A d \in DOMAIN i.steps : Agrees(u, d, i.steps)
    /\ \A d \in Days \ Open(u) : DateInv(u, d)

TableInv == \A u \in Users : UserInv(u)

(* What a worker has read is what the user reported, and so is what the     *)
(* hash has; it has all of it unless a part was written alone.              *)
HashInv(u) ==
  Only(u, {"partial"}) =>
    /\ \A w \in Filling(u) : read[w] # Empty =>
         read[w] = IF DOMAIN accepted[u] = {} THEN [d \in {MinDate} |-> 0] ELSE accepted[u]
    /\ \A d \in DOMAIN cache[u] \ {MinDate} : Agrees(u, d, cache[u])
    /\ Only(u, {}) /\ DOMAIN cache[u] # {} => DOMAIN accepted[u] \subseteq DOMAIN cache[u]

CacheInv == \A u \in Users : HashInv(u)

(* Two functions are the same at a date.                                    *)
SameAt(f, g, d) == (d \in DOMAIN f <=> d \in DOMAIN g) /\ (d \in DOMAIN g => f[d] = g[d])

(* What tells a date of a user may move along the queue together.           *)
LEMMA DateKept ==
  ASSUME NEW u, NEW d, NEW s \in Nat, DateInv(u, d),
         \A n \in Nat : Tells(n, u, d)' =>
           Tells(n + s, u, d) /\ setQueue'[n].report = setQueue[n + s].report,
         \A n \in Nat : Tells(n, u, d) => n - s \in Nat /\ Tells(n - s, u, d)',
         \A w \in SetWorkers :
           /\ Holds(w, u, d)' <=> Holds(w, u, d)
           /\ Holds(w, u, d) => writing'[w] = writing[w],
         SameAt(table'[u], table[u], d), SameAt(accepted'[u], accepted[u], d)
  PROVE  DateInv(u, d)'
<1>1. QueueTells(u, d)'
  <2> SUFFICES ASSUME NEW n \in Nat, Tells(n, u, d)', \A m \in Nat : Tells(m, u, d)' => m <= n
               PROVE  Agrees(u, d, setQueue[n].report.steps)'
    BY DEF QueueTells
  <2>1. Tells(n + s, u, d) /\ setQueue'[n].report = setQueue[n + s].report /\ n + s \in Nat
    OBVIOUS
  <2>2. ASSUME NEW m \in Nat, Tells(m, u, d) PROVE m <= n + s
    <3>1. m - s \in Nat /\ m - s <= n
      BY <2>2
    <3> QED BY <3>1
  <2>3. Agrees(u, d, setQueue[n + s].report.steps)
    BY <2>1, <2>2 DEF DateInv, QueueTells
  <2> QED BY <2>1, <2>3 DEF Agrees, SameAt
<1>2. ASSUME \A n \in Nat : ~ Tells(n, u, d)' PROVE \A n \in Nat : ~ Tells(n, u, d)
  BY <1>2
<1>3. HolderTells(u, d) => HolderTells(u, d)'
  BY DEF HolderTells, Agrees, SameAt
<1>4. RowTells(u, d) => RowTells(u, d)'
  BY DEF RowTells, Agrees, SameAt
<1> QED BY <1>1, <1>2, <1>3, <1>4 DEF DateInv

(* A queue and a report that nobody touches.                                *)
LEMMA DateSame ==
  ASSUME NEW u \in Users, NEW d, DateInv(u, d), setQueue' = setQueue,
         Held(u)' = Held(u), \A w \in Held(u) : writing'[w] = writing[w],
         SameAt(table'[u], table[u], d), SameAt(accepted'[u], accepted[u], d)
  PROVE  DateInv(u, d)'
<1>1. \A n : Tells(n, u, d)' <=> Tells(n, u, d)
  BY DEF Tells, Queued
<1>2. \A w \in SetWorkers :
        (Holds(w, u, d)' <=> Holds(w, u, d)) /\ (Holds(w, u, d) => writing'[w] = writing[w])
  BY DEF Holds
<1>3. \A n \in Nat : n + 0 = n /\ n - 0 = n
  OBVIOUS
<1> QED BY <1>1, <1>2, <1>3, DateKept

(* A report pushed behind that says nothing of the date.                    *)
LEMMA DateAppend ==
  ASSUME SetOK, NEW u \in Users, NEW d, DateInv(u, d), NEW e \in Message,
         setQueue' = Append(setQueue, e), e.report.user # u \/ d \notin DOMAIN e.report.steps,
         UNCHANGED <<writing, table, accepted>>
  PROVE  DateInv(u, d)'
<1>1. /\ Len(setQueue') = Len(setQueue) + 1 /\ Len(setQueue) \in Nat
      /\ setQueue'[Len(setQueue) + 1] = e
      /\ \A n \in 1 .. Len(setQueue) : setQueue'[n] = setQueue[n]
  BY DEF SetOK
<1>2. \A n \in Nat : n \in 1 .. Len(setQueue') <=> n \in 1 .. Len(setQueue) \/ n = Len(setQueue) + 1
  BY <1>1
<1>3. \A n \in Nat : /\ Tells(n, u, d)' <=> Tells(n, u, d)
                     /\ Tells(n, u, d) => setQueue'[n] = setQueue[n]
  BY <1>1, <1>2 DEF Tells, Queued
<1>4. \A w \in SetWorkers : Holds(w, u, d)' <=> Holds(w, u, d)
  BY DEF Holds, Held
<1>6. ASSUME NEW n \in Nat, Tells(n, u, d)'
      PROVE  Tells(n + 0, u, d) /\ setQueue'[n].report = setQueue[n + 0].report
  <2>1. n + 0 = n
    OBVIOUS
  <2>2. Tells(n, u, d) /\ setQueue'[n] = setQueue[n]
    BY <1>3, <1>6
  <2> QED BY <2>1, <2>2
<1>7. ASSUME NEW n \in Nat, Tells(n, u, d) PROVE n - 0 \in Nat /\ Tells(n - 0, u, d)'
  <2>1. n - 0 = n
    OBVIOUS
  <2>2. Tells(n, u, d)'
    BY <1>3, <1>7
  <2> QED BY <2>1, <2>2
<1>8. /\ UNCHANGED writing /\ 0 \in Nat
      /\ SameAt(table'[u], table[u], d) /\ SameAt(accepted'[u], accepted[u], d)
  BY DEF SameAt
<1> QED BY <1>4, <1>6, <1>7, <1>8, DateKept

(* The first report of the queue, popped by a worker without work.          *)
LEMMA DatePop ==
  ASSUME SetOK, WritingOK, NEW u \in Users, NEW d, DateInv(u, d), NEW e \in Message,
         setQueue # <<>>, e = Head(setQueue), setQueue' = Tail(setQueue),
         NEW w \in SetWorkers, writing[w] = Nobody,
         writing' = [writing EXCEPT ![w] = e.report],
         UNCHANGED <<table, accepted>>,
         \A v \in Held(u) : e.report.user # u
  PROVE  DateInv(u, d)'
<1>1. /\ Len(setQueue') = Len(setQueue) - 1 /\ Len(setQueue) \in Nat /\ Len(setQueue) >= 1
      /\ setQueue[1] = e
      /\ \A n \in 1 .. Len(setQueue') : setQueue'[n] = setQueue[n + 1]
  BY DEF SetOK
<1>2. \A n \in Nat : /\ n \in 1 .. Len(setQueue') => n + 1 \in 1 .. Len(setQueue)
                     /\ n \in 1 .. Len(setQueue) /\ n # 1 =>
                         n - 1 \in Nat /\ n - 1 \in 1 .. Len(setQueue') /\ (n - 1) + 1 = n
  BY <1>1
<1>3. \A n \in Nat : Tells(n, u, d)' =>
        Tells(n + 1, u, d) /\ setQueue'[n].report = setQueue[n + 1].report
  BY <1>1, <1>2 DEF Tells, Queued
<1>4. \A n \in Nat \ {1} : Tells(n, u, d) => n - 1 \in Nat /\ Tells(n - 1, u, d)'
  <2> TAKE n \in Nat \ {1}
  <2> HAVE Tells(n, u, d)
  <2>1. n \in 1 .. Len(setQueue) /\ setQueue[n].report.user = u
        /\ d \in DOMAIN setQueue[n].report.steps
    BY DEF Tells, Queued
  <2>2. n - 1 \in Nat /\ n - 1 \in 1 .. Len(setQueue') /\ setQueue'[n - 1] = setQueue[n]
    BY <2>1, <1>1, <1>2
  <2> QED BY <2>1, <2>2 DEF Tells, Queued
<1>5. \A v \in SetWorkers : v # w => writing'[v] = writing[v]
  BY DEF WritingOK
<1>6. writing'[w] = e.report /\ e.report # Nobody
  BY ConstantsAssumption DEF WritingOK, Message
<1>7. CASE Tells(1, u, d)
  <2>1. e.report.user = u /\ d \in DOMAIN e.report.steps /\ Held(u) = {}
    BY <1>1, <1>7 DEF Tells, Queued
  <2>2. QueueTells(u, d)'
    <3> SUFFICES ASSUME NEW n \in Nat, Tells(n, u, d)', \A m \in Nat : Tells(m, u, d)' => m <= n
                 PROVE  Agrees(u, d, setQueue[n].report.steps)'
      BY DEF QueueTells
    <3> n + 1 \in Nat
      OBVIOUS
    <3>1. Tells(n + 1, u, d) /\ setQueue'[n].report = setQueue[n + 1].report
      BY <1>3
    <3>2. ASSUME NEW m \in Nat, Tells(m, u, d) PROVE m <= n + 1
      <4>1. CASE m = 1
        BY <4>1
      <4>2. CASE m # 1
        <5>1. m - 1 \in Nat /\ m - 1 <= n
          BY <4>2, <3>2, <1>4
        <5> QED BY <5>1
      <4> QED BY <4>1, <4>2
    <3>3. Agrees(u, d, setQueue[n + 1].report.steps)
      BY <3>1, <3>2 DEF DateInv, QueueTells
    <3> QED BY <3>1, <3>3 DEF Agrees
  <2>3. Holds(w, u, d)'
    BY <2>1, <1>6 DEF Holds, Held
  <2>4. ASSUME \A n \in Nat : ~ Tells(n, u, d)' PROVE HolderTells(u, d)'
    <3>1. \A n \in Nat : Tells(n, u, d) => n = 1
      BY <2>4, <1>4
    <3>2. Agrees(u, d, e.report.steps)
      BY <3>1, <1>1, <1>7 DEF DateInv, QueueTells
    <3>3. \A v \in SetWorkers : Holds(v, u, d)' => v = w
      BY <2>1, <1>5 DEF Holds, Held
    <3> QED BY <3>2, <3>3, <1>6 DEF HolderTells, Agrees
  <2> QED BY <2>2, <2>3, <2>4 DEF DateInv
<1>8. CASE ~ Tells(1, u, d)
  <2>1. \A n \in Nat : Tells(n, u, d) => n - 1 \in Nat /\ Tells(n - 1, u, d)'
    BY <1>4, <1>8
  <2>2. ~ (e.report.user = u /\ d \in DOMAIN e.report.steps)
    BY <1>1, <1>8 DEF Tells, Queued
  <2>3. ASSUME NEW v \in SetWorkers
        PROVE  /\ Holds(v, u, d)' <=> Holds(v, u, d)
               /\ Holds(v, u, d) => writing'[v] = writing[v]
    BY <2>2, <1>5, <1>6 DEF Holds, Held
  <2>4. SameAt(table'[u], table[u], d) /\ SameAt(accepted'[u], accepted[u], d)
    BY DEF SameAt
  <2> QED BY <2>1, <2>3, <2>4, <1>3, DateKept
<1> QED BY <1>7, <1>8

(* What a step has to leave alone for a user whose accepted steps it does   *)
(* not change.                                                              *)
LEMMA UserKept ==
  ASSUME NEW u \in Users, UserInv(u),
         Ordered(u)' =>
           /\ Ordered(u) /\ accepted'[u] = accepted[u]
           /\ Asking(u)' \subseteq Asking(u) /\ Held(u)' \subseteq Held(u)
           /\ \A c \in Clients : \A i \in task'[c].items \ todo'[c] :
                i.user = u => i \in task[c].items \ todo[c]
           /\ \A d \in Days \ Open(u)' : DateInv(u, d)'
  PROVE  UserInv(u)'
<1> SUFFICES ASSUME Ordered(u)' PROVE UserInv(u)'
  BY DEF UserInv
<1>1. \A b, c \in Asking(u)' : b = c
  BY DEF UserInv
<1>2. \A v, w \in Held(u)' : v = w
  BY DEF UserInv
<1>3. \A c \in Clients : \A i \in task'[c].items \ todo'[c] :
        i.user = u => \A d \in DOMAIN i.steps : Agrees(u, d, i.steps)'
  <2>1. \A c \in Clients : \A i \in task[c].items \ todo[c] :
          i.user = u => \A d \in DOMAIN i.steps : Agrees(u, d, i.steps)
    BY DEF UserInv
  <2>2. \A d, f : Agrees(u, d, f) => Agrees(u, d, f)'
    BY DEF Agrees
  <2> QED BY <2>1, <2>2
<1> QED BY <1>1, <1>2, <1>3 DEF UserInv

(* Reports of one user in a request are one.                                *)
LEMMA OneReport ==
  ASSUME ClientsOK, NEW c \in Clients, NEW i \in task[c].items, NEW j \in task[c].items,
         i.user = j.user
  PROVE  i = j
BY ConstantsAssumption DEF ClientsOK, NoTask

LEMMA FaultsGrow ==
  ASSUME HistoryOK, NEW S, NEW f, faults' = Noted(S, f), NEW u \in Users
  PROVE  faults[u] \subseteq faults'[u] /\ (u \in S => f \in faults'[u])
BY DEF HistoryOK, Noted

LEMMA OrderedBefore ==
  ASSUME NEW u \in Users, faults[u] \subseteq faults'[u], Ordered(u)' PROVE Ordered(u)
BY DEF Ordered, Only

(* A step that changes nothing of the reports, the table and the history.   *)
LEMMA UserUntouched ==
  ASSUME NEW u \in Users, UserInv(u), faults[u] \subseteq faults'[u],
         UNCHANGED <<task, todo, unpushed, setQueue, writing, table, accepted>>
  PROVE  UserInv(u)'
<1>1. Ordered(u)' => Ordered(u)
  BY OrderedBefore
<1>2. Asking(u)' = Asking(u) /\ Held(u)' = Held(u)
  BY DEF Asking, Held
<1>3. Open(u)' = Open(u)
  BY DEF Open
<1>4. \A d : SameAt(table'[u], table[u], d) /\ SameAt(accepted'[u], accepted[u], d)
  BY DEF SameAt
<1>5. ASSUME Ordered(u)', NEW d \in Days \ Open(u)' PROVE DateInv(u, d)'
  BY <1>1, <1>2, <1>3, <1>4, <1>5, DateSame DEF UserInv
<1> QED BY <1>1, <1>2, <1>5, UserKept

LEMMA BeginOrdered ==
  ASSUME IInv, NEW c \in Clients, NEW q \in Requests, Begin(c, q),
         NEW u \in Users, UserInv(u)
  PROVE  UserInv(u)'
<1> USE Parts
<1>1. /\ task[c] = NoTask /\ task' = [task EXCEPT ![c] = q] /\ todo' = [todo EXCEPT ![c] = q.items]
      /\ UNCHANGED <<unpushed, setQueue, writing, table, accepted>>
      /\ faults' = Noted({v \in UsersOf(q.items) : Asking(v) # {}}, "overlap")
  BY DEF Begin, setQ
<1>2. /\ faults[u] \subseteq faults'[u]
      /\ u \in UsersOf(q.items) /\ Asking(u) # {} => "overlap" \in faults'[u]
  <2> DEFINE S == {v \in UsersOf(q.items) : Asking(v) # {}}
  <2>1. u \in UsersOf(q.items) /\ Asking(u) # {} => u \in S
    OBVIOUS
  <2>2. faults' = Noted(S, "overlap")
    BY <1>1
  <2> HIDE DEF S
  <2> QED BY <2>1, <2>2, FaultsGrow
<1> SUFFICES ASSUME Ordered(u)' PROVE UserInv(u)'
  BY DEF UserInv
<1>3. Ordered(u) /\ ~ (u \in UsersOf(q.items) /\ Asking(u) # {})
  BY <1>2, OrderedBefore DEF Ordered, Only
<1>4. /\ task'[c] = q /\ todo'[c] = q.items
      /\ \A b \in Clients \ {c} : task'[b] = task[b] /\ todo'[b] = todo[b]
  BY <1>1 DEF ClientsOK
<1>5. Held(u)' = Held(u)
  BY <1>1 DEF Held
<1>6. Open(u) \subseteq Open(u)'
  <2>1. task[c].items = {}
    BY <1>1 DEF NoTask
  <2> QED BY <2>1, <1>1, <1>4 DEF Open
<1>7. \A d \in Days \ Open(u)' : DateInv(u, d)'
  <2>1. \A d : SameAt(table'[u], table[u], d) /\ SameAt(accepted'[u], accepted[u], d)
    BY <1>1 DEF SameAt
  <2> QED BY <2>1, <1>1, <1>3, <1>5, <1>6, DateSame DEF UserInv
<1>8. \A b \in Clients : \A i \in task'[b].items \ todo'[b] : i \in task[b].items \ todo[b]
  BY <1>4
<1>9. CASE u \notin UsersOf(q.items)
  <2>1. Asking(u)' \subseteq Asking(u)
    BY <1>4, <1>9 DEF Asking
  <2> QED BY <2>1, <1>1, <1>3, <1>5, <1>7, <1>8, UserKept
<1>10. CASE Asking(u) = {}
  <2>1. \A b \in Asking(u)' : b = c
    BY <1>4, <1>10 DEF Asking
  <2>2. \A b \in Clients : \A i \in task'[b].items \ todo'[b] :
          i.user = u => \A d \in DOMAIN i.steps : Agrees(u, d, i.steps)'
    BY <1>4, <1>10 DEF Asking, UsersOf
  <2> QED BY <2>1, <2>2, <1>3, <1>5, <1>7 DEF UserInv
<1> QED BY <1>3, <1>9, <1>10

(* What a request has still to push is not less after one of its reports    *)
(* was cached: the last one opens all of them again.                        *)
LEMMA CacheOrdered ==
  ASSUME IInv, NEW c \in Clients, NEW i \in todo[c], SetUserStepsToCache(c, i),
         NEW u \in Users, UserInv(u)
  PROVE  UserInv(u)'
<1> USE Parts
<1> DEFINE v == i.user
<1>1. /\ accepted' = [accepted EXCEPT ![v] = Over(i.steps, accepted[v])]
      /\ todo' = [todo EXCEPT ![c] = @ \ {i}]
      /\ unpushed' = [unpushed EXCEPT ![c] = AfterCaching(c, todo[c] \ {i})]
      /\ UNCHANGED <<task, setQueue, writing, table>>
  BY DEF SetUserStepsToCache, setQ
<1>2. faults[u] \subseteq faults'[u]
  BY DEF SetUserStepsToCache, HistoryOK
<1> SUFFICES ASSUME Ordered(u)' PROVE UserInv(u)'
  BY DEF UserInv
<1>3. Ordered(u)
  BY <1>2, OrderedBefore
<1>4. /\ todo'[c] = todo[c] \ {i} /\ (todo'[c] = {} => unpushed'[c] = task[c].items)
      /\ \A b \in Clients \ {c} : todo'[b] = todo[b] /\ unpushed'[b] = unpushed[b]
  BY <1>1 DEF ClientsOK, AfterCaching
<1>5. Asking(u)' = Asking(u) /\ Held(u)' = Held(u)
  BY <1>1 DEF Asking, Held
<1>6. Open(u) \subseteq Open(u)'
  BY <1>1, <1>4 DEF Open
<1>7. v \in Users /\ i \in task[c].items
  BY DEF ClientsOK, Report
<1>8. v = u => DOMAIN i.steps \cap Days \subseteq Open(u)'
  BY <1>1, <1>4, <1>7 DEF Open
<1>9. ASSUME NEW d \in Days \ Open(u)' PROVE SameAt(accepted'[u], accepted[u], d)
  <2>1. CASE v = u
    <3>1. accepted'[u] = Over(i.steps, accepted[u]) /\ d \notin DOMAIN i.steps
      BY <2>1, <1>1, <1>8, <1>9 DEF StoresOK
    <3> QED BY <3>1 DEF SameAt, Over
  <2>2. CASE v # u
    BY <2>2, <1>1 DEF SameAt, StoresOK
  <2> QED BY <2>1, <2>2
<1>10. \A d \in Days \ Open(u)' : DateInv(u, d)'
  <2>1. \A d : SameAt(table'[u], table[u], d)
    BY <1>1 DEF SameAt
  <2> QED BY <2>1, <1>1, <1>3, <1>5, <1>6, <1>9, DateSame DEF UserInv
<1>11. ASSUME NEW b \in Clients, NEW j \in task'[b].items \ todo'[b], j.user = u,
              NEW d \in DOMAIN j.steps
       PROVE  Agrees(u, d, j.steps)'
  <2>1. CASE v = u
    <3>1. b \in Asking(u) /\ c \in Asking(u)
      BY <2>1, <1>1, <1>7, <1>11 DEF Asking, UsersOf
    <3>2. b = c
      BY <3>1, <1>3 DEF UserInv
    <3>3. j = i
      BY <3>2, <2>1, <1>1, <1>7, <1>11, OneReport
    <3>4. accepted'[u] = Over(i.steps, accepted[u])
      BY <2>1, <1>1 DEF StoresOK
    <3> QED BY <3>3, <3>4, <1>11 DEF Agrees, Over
  <2>2. CASE v # u
    <3>1. accepted'[u] = accepted[u]
      BY <2>2, <1>1
    <3>2. j # i
      BY <2>2, <1>11
    <3>3. j \in task[b].items \ todo[b]
      BY <3>2, <1>1, <1>4, <1>11
    <3> QED BY <3>1, <3>3, <1>3, <1>11 DEF UserInv, Agrees
  <2> QED BY <2>1, <2>2
<1> QED BY <1>3, <1>5, <1>10, <1>11 DEF UserInv

(* The last report of a user, pushed behind all others of his, tells its    *)
(* dates.                                                                   *)
LEMMA DateFromLast ==
  ASSUME NEW u, NEW d, NEW p \in Nat, Tells(p, u, d)',
         \A m \in Nat : Tells(m, u, d)' => m <= p,
         Agrees(u, d, setQueue[p].report.steps)'
  PROVE  DateInv(u, d)'
<1>1. \A n \in Nat : Tells(n, u, d)' /\ (\A m \in Nat : Tells(m, u, d)' => m <= n) => n = p
  OBVIOUS
<1>2. QueueTells(u, d)'
  BY <1>1 DEF QueueTells
<1> QED BY <1>2 DEF DateInv

(* A report that is pushed, or fails to be: what a request has still to     *)
(* push of others, and what they ask for, stays.                            *)
LEMMA PushedOpen ==
  ASSUME ClientsOK, NEW c \in Clients, NEW i \in unpushed[c],
         unpushed' = [unpushed EXCEPT ![c] = @ \ {i}], UNCHANGED todo,
         task' = [task EXCEPT ![c] = IF todo[c] = {} /\ unpushed[c] = {i} THEN NoTask ELSE @],
         NEW u \in Users
  PROVE  /\ Asking(u)' \subseteq Asking(u)
         /\ \A b \in Clients : \A j \in task'[b].items \ todo'[b] : j \in task[b].items \ todo[b]
         /\ \A d \in Open(u) \ Open(u)' : i.user = u /\ d \in DOMAIN i.steps
         /\ todo[c] # {} /\ i.user = u => DOMAIN i.steps \cap Days \subseteq Open(u)'
<1>1. /\ \A b \in Clients : task'[b] = task[b] \/ task'[b].items = {}
      /\ \A b \in Clients \ {c} : task'[b] = task[b] /\ unpushed'[b] = unpushed[b]
      /\ unpushed'[c] = unpushed[c] \ {i}
      /\ todo[c] # {} \/ unpushed[c] # {i} => task'[c] = task[c]
      /\ i \in task[c].items
  BY DEF ClientsOK, NoTask
<1>2. Asking(u)' \subseteq Asking(u)
  BY <1>1 DEF Asking, UsersOf
<1>3. \A b \in Clients : \A j \in task'[b].items \ todo'[b] : j \in task[b].items \ todo[b]
  BY <1>1
<1>4. ASSUME NEW d \in Open(u), d \notin Open(u)' PROVE i.user = u /\ d \in DOMAIN i.steps
  <2>0. PICK b \in Clients : \E j \in task[b].items :
          j.user = u /\ d \in DOMAIN j.steps /\ (todo[b] # {} \/ j \in unpushed[b])
    BY <1>4 DEF Open
  <2>1. PICK j \in task[b].items :
          j.user = u /\ d \in DOMAIN j.steps /\ (todo[b] # {} \/ j \in unpushed[b])
    BY <2>0
  <2>2. d \in Days
    BY <1>4 DEF Open
  <2>3. CASE j = i
    BY <2>1, <2>3
  <2>4. CASE j # i
    <3>1. j \in task'[b].items /\ (todo'[b] # {} \/ j \in unpushed'[b])
      BY <2>1, <2>4, <1>1
    <3>2. d \in Open(u)'
      BY <3>1, <2>1, <2>2 DEF Open
    <3> QED BY <3>2, <1>4
  <2> QED BY <2>3, <2>4
<1>5. todo[c] # {} /\ i.user = u => DOMAIN i.steps \cap Days \subseteq Open(u)'
  BY <1>1 DEF Open
<1> QED BY <1>2, <1>3, <1>4, <1>5

(* A push is in vain when the same string waits already, and then nothing   *)
(* of the user waits behind it, or a fault is noted.                        *)
LEMMA PushOrdered ==
  ASSUME IInv, SetQ!QueueIsSet, NEW c \in Clients, NEW i \in unpushed[c], NEW form \in Forms(i),
         PushSetUser(c, i, form), NEW u \in Users, UserInv(u)
  PROVE  UserInv(u)'
<1> USE Parts
<1> DEFINE e == [report |-> i, form |-> form]
           behind == \E m, n \in Queued(i.user) : m < n /\ setQueue[m] = e
<1>1. /\ SetQ!Push(e) /\ faults' = Noted(IF behind THEN {i.user} ELSE {}, "dup")
      /\ unpushed' = [unpushed EXCEPT ![c] = @ \ {i}]
      /\ task' = [task EXCEPT ![c] = IF todo[c] = {} /\ unpushed[c] = {i} THEN NoTask ELSE @]
      /\ UNCHANGED <<todo, writing, table, accepted>>
  BY DEF PushSetUser
<1>2. faults[u] \subseteq faults'[u] /\ (behind /\ i.user = u => "dup" \in faults'[u])
  <2> DEFINE S == IF behind THEN {i.user} ELSE {}
  <2>1. behind /\ i.user = u => u \in S
    OBVIOUS
  <2>2. faults' = Noted(S, "dup")
    BY <1>1
  <2> HIDE DEF S, behind
  <2> QED BY <2>1, <2>2, FaultsGrow
<1> SUFFICES ASSUME Ordered(u)' PROVE UserInv(u)'
  BY DEF UserInv
<1>3. Ordered(u) /\ ~ (behind /\ i.user = u)
  BY <1>2, OrderedBefore DEF Ordered, Only
<1>4. i \in task[c].items /\ i \in Report /\ e \in Message
  BY MessageTypes DEF ClientsOK
<1>5. /\ Asking(u)' \subseteq Asking(u) /\ Held(u)' = Held(u)
      /\ \A b \in Clients : \A j \in task'[b].items \ todo'[b] : j \in task[b].items \ todo[b]
      /\ \A d \in Open(u) \ Open(u)' : i.user = u /\ d \in DOMAIN i.steps
      /\ todo[c] # {} /\ i.user = u => DOMAIN i.steps \cap Days \subseteq Open(u)'
  <2>1. Held(u)' = Held(u)
    BY <1>1 DEF Held
  <2> QED BY <2>1, <1>1, PushedOpen
<1>6. (setQueue' = setQueue /\ e \in setSet) \/ setQueue' = Append(setQueue, e)
  BY <1>1 DEF SetQ!Push
<1>7. ASSUME NEW d \in Days \ Open(u)', ~ (i.user = u /\ d \in DOMAIN i.steps)
      PROVE  DateInv(u, d)'
  <2>1. DateInv(u, d)
    BY <1>3, <1>5, <1>7 DEF UserInv
  <2>2. CASE setQueue' = setQueue
    <3>1. SameAt(table'[u], table[u], d) /\ SameAt(accepted'[u], accepted[u], d)
      BY <1>1 DEF SameAt
    <3> QED BY <2>1, <2>2, <3>1, <1>1, <1>5, DateSame
  <2>3. CASE setQueue' = Append(setQueue, e)
    <3>1. e.report.user # u \/ d \notin DOMAIN e.report.steps
      BY <1>7
    <3> HIDE DEF e
    <3> QED BY <2>1, <2>3, <3>1, <1>1, <1>4, DateAppend
  <2> QED BY <2>2, <2>3, <1>6
<1>8. ASSUME NEW d \in Days \ Open(u)', i.user = u, d \in DOMAIN i.steps
      PROVE  DateInv(u, d)'
  <2>1. i \in task[c].items \ todo[c]
    BY <1>4, <1>5, <1>8
  <2>2. Agrees(u, d, i.steps)
    BY <2>1, <1>3, <1>8 DEF UserInv
  <2>3. PICK p \in Nat : /\ p \in 1 .. Len(setQueue') /\ setQueue'[p] = e
                         /\ \A m \in Nat : Tells(m, u, d)' => m <= p
    <3>1. CASE setQueue' = setQueue /\ e \in setSet
      <4>1. PICK p \in 1 .. Len(setQueue) : setQueue[p] = e
        BY <3>1 DEF SetQ!QueueIsSet, SetQ!Lists
      <4>2. p \in Queued(i.user)
        BY <4>1 DEF Queued
      <4>3. \A n \in Queued(i.user) : ~ p < n
        BY <4>1, <4>2, <1>3, <1>8
      <4>4. Len(setQueue) \in Nat
        BY DEF SetOK
      <4>5. \A m \in Nat : Tells(m, u, d)' => m <= p
        BY <4>3, <4>4, <3>1, <1>8 DEF Tells, Queued
      <4> QED BY <4>1, <4>4, <4>5, <3>1
    <3>2. CASE setQueue' = Append(setQueue, e)
      <4>1. /\ Len(setQueue') = Len(setQueue) + 1 /\ Len(setQueue) \in Nat
            /\ setQueue'[Len(setQueue) + 1] = e
        BY <3>2, <1>4 DEF SetOK
      <4>2. \A m \in Nat : Tells(m, u, d)' => m <= Len(setQueue) + 1
        BY <4>1 DEF Tells, Queued
      <4> QED BY <4>1, <4>2
    <3> QED BY <3>1, <3>2, <1>6
  <2>4. Tells(p, u, d)'
    BY <2>3, <1>8 DEF Tells, Queued
  <2>5. Agrees(u, d, setQueue[p].report.steps)'
    BY <2>2, <2>3, <1>1 DEF Agrees
  <2> QED BY <2>3, <2>4, <2>5, DateFromLast
<1>9. \A d \in Days \ Open(u)' : DateInv(u, d)'
  BY <1>7, <1>8
<1> QED BY <1>1, <1>3, <1>5, <1>9, UserKept

(* Who had a failure is not ordered any more.                               *)
LEMMA FailedIsNotOrdered ==
  ASSUME HistoryOK, NEW S, faults' = Noted(S, "fail"), NEW u \in Users, Ordered(u)'
  PROVE  u \notin S /\ Ordered(u)
<1>1. faults[u] \subseteq faults'[u] /\ (u \in S => "fail" \in faults'[u])
  BY FaultsGrow
<1> QED BY <1>1 DEF Ordered, Only

LEMMA FailOrdered ==
  ASSUME IInv, NEW c \in Clients,
         (\E i \in unpushed[c] : PushFails(c, i)) \/ GiveUp(c),
         NEW u \in Users, UserInv(u)
  PROVE  UserInv(u)'
<1> USE Parts
<1> SUFFICES ASSUME Ordered(u)' PROVE UserInv(u)'
  BY DEF UserInv
<1>1. UNCHANGED <<setQueue, writing, table, accepted>>
  BY DEF PushFails, GiveUp, setQ
<1>2. Held(u)' = Held(u)
  BY <1>1 DEF Held
<1>3. ASSUME Ordered(u), Open(u) \subseteq Open(u)', NEW d \in Days \ Open(u)'
      PROVE  DateInv(u, d)'
  <2>1. SameAt(table'[u], table[u], d) /\ SameAt(accepted'[u], accepted[u], d)
    BY <1>1 DEF SameAt
  <2> QED BY <2>1, <1>1, <1>2, <1>3, DateSame DEF UserInv
<1>4. ASSUME NEW i \in unpushed[c], PushFails(c, i) PROVE UserInv(u)'
  <2>1. u # i.user /\ Ordered(u)
    BY <1>4, FailedIsNotOrdered DEF PushFails
  <2>2. /\ Asking(u)' \subseteq Asking(u)
        /\ \A b \in Clients : \A j \in task'[b].items \ todo'[b] : j \in task[b].items \ todo[b]
        /\ Open(u) \subseteq Open(u)'
    BY <1>4, <2>1, PushedOpen DEF PushFails
  <2>3. \A d \in Days \ Open(u)' : DateInv(u, d)'
    BY <2>1, <2>2, <1>3
  <2> QED BY <2>1, <2>2, <2>3, <1>1, <1>2, UserKept
<1>5. CASE GiveUp(c)
  <2>1. u \notin UsersOf(task[c].items) /\ Ordered(u)
    BY <1>5, FailedIsNotOrdered DEF GiveUp
  <2>2. /\ task'[c] = NoTask
        /\ \A b \in Clients \ {c} : /\ task'[b] = task[b] /\ todo'[b] = todo[b]
                                    /\ unpushed'[b] = unpushed[b]
    BY <1>5 DEF GiveUp, ClientsOK
  <2>3. Asking(u)' \subseteq Asking(u)
    BY <2>2 DEF Asking, UsersOf, NoTask
  <2>4. \A b \in Clients : \A j \in task'[b].items \ todo'[b] : j \in task[b].items \ todo[b]
    BY <2>2 DEF NoTask
  <2>5. Open(u) \subseteq Open(u)'
    BY <2>1, <2>2 DEF Open, UsersOf
  <2>6. \A d \in Days \ Open(u)' : DateInv(u, d)'
    BY <2>1, <2>5, <1>3
  <2> QED BY <2>1, <2>3, <2>4, <2>6, <1>1, <1>2, UserKept
<1> QED BY <1>4, <1>5

(* A worker pops a report: no other had one of the user, or a fault is      *)
(* noted.                                                                   *)
LEMMA PopOrdered ==
  ASSUME IInv, NEW w \in SetWorkers, NEW e \in setSet, PopSetUser(w, e),
         NEW u \in Users, UserInv(u)
  PROVE  UserInv(u)'
<1> USE Parts
<1> SUFFICES ASSUME Ordered(u)' PROVE UserInv(u)'
  BY DEF UserInv
<1> DEFINE v == e.report.user
<1>1. /\ writing[w] = Nobody /\ setQueue # <<>> /\ e = Head(setQueue)
      /\ setQueue' = Tail(setQueue) /\ writing' = [writing EXCEPT ![w] = e.report]
      /\ faults' = Noted(IF Held(v) # {} THEN {v} ELSE {}, "order")
      /\ UNCHANGED <<task, todo, unpushed, table, accepted>>
  BY DEF PopSetUser, SetQ!Pop, clientVars
<1>2. faults[u] \subseteq faults'[u] /\ (Held(v) # {} /\ v = u => "order" \in faults'[u])
  <2> DEFINE S == IF Held(v) # {} THEN {v} ELSE {}
  <2>1. Held(v) # {} /\ v = u => u \in S
    OBVIOUS
  <2>2. faults' = Noted(S, "order")
    BY <1>1
  <2> HIDE DEF S, v
  <2> QED BY <2>1, <2>2, FaultsGrow
<1>3. Ordered(u) /\ (v = u => Held(u) = {})
  BY <1>2, OrderedBefore DEF Ordered, Only
<1>4. e \in Message
  BY DEF SetOK
<1>5. Asking(u)' = Asking(u) /\ Open(u)' = Open(u)
  BY <1>1 DEF Asking, Open
<1>6. \A d \in Days \ Open(u)' : DateInv(u, d)'
  <2>1. \A x \in Held(u) : e.report.user # u
    BY <1>3
  <2> HIDE DEF v
  <2> QED BY <2>1, <1>1, <1>3, <1>4, <1>5, DatePop DEF UserInv
<1>7. \A x, y \in Held(u)' : x = y
  <2>1. \A x \in Held(u)' : (x = w /\ v = u) \/ x \in Held(u)
    BY <1>1 DEF Held, WritingOK
  <2>2. w \notin Held(u)
    BY <1>1 DEF Held
  <2>3. \A x, y \in Held(u) : x = y
    BY <1>3 DEF UserInv
  <2>4. w \in Held(u)' => v = u
    BY <2>1, <2>2
  <2> QED BY <2>1, <2>3, <2>4, <1>3
<1>8. \A b \in Clients : \A i \in task'[b].items \ todo'[b] :
        i.user = u => \A d \in DOMAIN i.steps : Agrees(u, d, i.steps)'
  BY <1>1, <1>3 DEF UserInv, Agrees
<1> QED BY <1>3, <1>5, <1>6, <1>7, <1>8 DEF UserInv

(* The only worker with a report of the user writes it, and then the rows   *)
(* tell what it told.                                                       *)
LEMMA WriteOrdered ==
  ASSUME IInv, NEW w \in SetWorkers, SetUsersStepsToDB(w), NEW u \in Users, UserInv(u)
  PROVE  UserInv(u)'
<1> USE Parts
<1> SUFFICES ASSUME Ordered(u)' PROVE UserInv(u)'
  BY DEF UserInv
<1> DEFINE i == writing[w]
<1>1. /\ i # Nobody /\ table' = [table EXCEPT ![i.user] = Over(i.steps, @)]
      /\ writing' = [writing EXCEPT ![w] = Nobody]
      /\ UNCHANGED <<task, todo, unpushed, setQueue, accepted, faults>>
  BY DEF SetUsersStepsToDB, setQ, clientVars
<1>2. Ordered(u)
  BY <1>1 DEF Ordered, Only
<1>3. /\ Asking(u)' = Asking(u) /\ Open(u)' = Open(u)
      /\ \A n, d : Tells(n, u, d)' <=> Tells(n, u, d)
  BY <1>1 DEF Asking, Open, Tells, Queued
<1>4. /\ writing'[w] = Nobody /\ \A x \in SetWorkers \ {w} : writing'[x] = writing[x]
      /\ Held(u)' = Held(u) \ {w}
  BY <1>1 DEF Held, WritingOK
<1>5. CASE i.user # u
  <2>1. w \notin Held(u) /\ table'[u] = table[u]
    BY <1>1, <1>5 DEF Held, StoresOK
  <2>2. \A d : SameAt(table'[u], table[u], d) /\ SameAt(accepted'[u], accepted[u], d)
    BY <2>1, <1>1 DEF SameAt
  <2>3. Held(u)' = Held(u) /\ \A x \in Held(u) : writing'[x] = writing[x]
    BY <2>1, <1>4 DEF Held
  <2>4. \A d \in Days \ Open(u)' : DateInv(u, d)'
    BY <2>2, <2>3, <1>1, <1>2, <1>3, DateSame DEF UserInv
  <2> QED BY <2>4, <1>1, <1>2, <1>3, <1>4, UserKept
<1>6. CASE i.user = u
  <2>1. Held(u) = {w}
    BY <1>1, <1>2, <1>6 DEF Held, UserInv
  <2>2. \A x \in SetWorkers : ~ (x \in Held(u)')
    BY <2>1, <1>4
  <2>3. table'[u] = Over(i.steps, table[u])
    BY <1>1, <1>6 DEF StoresOK
  <2>4. ASSUME NEW d \in Days \ Open(u)' PROVE DateInv(u, d)'
    <3>1. DateInv(u, d)
      BY <1>2, <1>3 DEF UserInv
    <3>2. QueueTells(u, d)'
      BY <3>1, <1>1, <1>3 DEF DateInv, QueueTells, Agrees
    <3>3. HolderTells(u, d)'
      BY <2>2 DEF HolderTells, Holds
    <3>4. ASSUME \A n \in Nat : ~ Tells(n, u, d)' PROVE RowTells(u, d)'
      <4>1. /\ HolderTells(u, d)
            /\ (\A x \in SetWorkers : ~ Holds(x, u, d)) => RowTells(u, d)
        BY <3>1, <3>4, <1>3 DEF DateInv
      <4>2. CASE d \in DOMAIN i.steps
        <5>1. Agrees(u, d, i.steps)
          BY <4>1, <4>2, <2>1 DEF HolderTells, Holds
        <5> QED BY <5>1, <4>2, <2>3, <1>1 DEF RowTells, Agrees, Over
      <4>3. CASE d \notin DOMAIN i.steps
        <5>1. RowTells(u, d)
          BY <4>1, <4>3, <2>1 DEF Holds
        <5> QED BY <5>1, <4>3, <2>3, <1>1 DEF RowTells, Agrees, Over
      <4> QED BY <4>2, <4>3
    <3> QED BY <3>2, <3>3, <3>4 DEF DateInv
  <2> QED BY <2>4, <1>1, <1>2, <1>3, <1>4, UserKept
<1> QED BY <1>5, <1>6

LEMMA SetWorkerFailsOrdered ==
  ASSUME IInv, NEW w \in SetWorkers, SetWorkerFails(w), NEW u \in Users, UserInv(u)
  PROVE  UserInv(u)'
<1> USE Parts
<1> SUFFICES ASSUME Ordered(u)' PROVE UserInv(u)'
  BY DEF UserInv
<1>1. /\ writing[w] # Nobody /\ writing' = [writing EXCEPT ![w] = Nobody]
      /\ faults' = Noted({writing[w].user}, "fail")
      /\ UNCHANGED <<task, todo, unpushed, setQueue, table, accepted>>
  BY DEF SetWorkerFails, setQ, clientVars
<1>2. u # writing[w].user /\ Ordered(u)
  BY <1>1, FailedIsNotOrdered
<1>3. Held(u)' = Held(u) /\ \A x \in Held(u) : writing'[x] = writing[x]
  BY <1>1, <1>2 DEF Held, WritingOK
<1>4. Asking(u)' = Asking(u) /\ Open(u)' = Open(u)
  BY <1>1 DEF Asking, Open
<1>5. \A d : SameAt(table'[u], table[u], d) /\ SameAt(accepted'[u], accepted[u], d)
  BY <1>1 DEF SameAt
<1>6. \A d \in Days \ Open(u)' : DateInv(u, d)'
  BY <1>1, <1>2, <1>3, <1>4, <1>5, DateSame DEF UserInv
<1> QED BY <1>1, <1>2, <1>3, <1>4, <1>6, UserKept

LEMMA InitOrdered == Init => TableInv
<1> SUFFICES ASSUME Init, NEW u \in Users PROVE UserInv(u)
  BY DEF TableInv
<1>1. Asking(u) = {} /\ Held(u) = {} /\ Queued(u) = {}
  BY DEF Init, Asking, Held, Queued, NoTask, UsersOf, SetQ!Init
<1>2. table[u] = Empty /\ accepted[u] = Empty /\ DOMAIN Empty = {}
  BY DEF Init, Empty
<1>3. \A d : DateInv(u, d)
  BY <1>1, <1>2 DEF DateInv, QueueTells, HolderTells, RowTells, Tells, Holds
<1>4. \A c \in Clients : task[c].items = {}
  BY DEF Init, NoTask
<1> QED BY <1>1, <1>3, <1>4 DEF UserInv

LEMMA TableStep == IInv /\ SetQ!QueueIsSet /\ TableInv /\ [Next]_vars => TableInv'
<1> SUFFICES ASSUME IInv, SetQ!QueueIsSet, TableInv, [Next]_vars, NEW u \in Users
             PROVE  UserInv(u)'
  BY DEF TableInv
<1> USE Parts
<1>1. UserInv(u)
  BY DEF TableInv
<1>2. ASSUME NEW c \in Clients, (\E q \in Requests : Begin(c, q)) \/ Handle(c)
      PROVE  UserInv(u)'
  <2>1. CASE \E q \in Requests : Begin(c, q)
    BY <2>1, <1>1, BeginOrdered
  <2>2. CASE \E i \in todo[c] : SetUserStepsToCache(c, i)
    BY <2>2, <1>1, CacheOrdered
  <2>3. CASE \E i \in unpushed[c] : \E form \in Forms(i) : PushSetUser(c, i, form)
    BY <2>3, <1>1, PushOrdered
  <2>4. CASE (\E i \in unpushed[c] : PushFails(c, i)) \/ GiveUp(c)
    BY <2>4, <1>1, FailOrdered
  <2> QED BY <2>1, <2>2, <2>3, <2>4, <1>2 DEF Handle
<1>3. ASSUME NEW w \in SetWorkers, SetWorker(w) PROVE UserInv(u)'
  BY <1>1, <1>3, PopOrdered, WriteOrdered, SetWorkerFailsOrdered DEF SetWorker
<1>4. ASSUME faults[u] \subseteq faults'[u],
             UNCHANGED <<task, todo, unpushed, setQueue, writing, table, accepted>>
      PROVE  UserInv(u)'
  BY <1>1, <1>4, UserUntouched
<1>5. ASSUME NEW w \in RecoverWorkers, RecoverWorker(w) PROVE UserInv(u)'
  <2>1. UNCHANGED <<task, todo, unpushed, setQueue, writing, table, accepted>>
    BY <1>5 DEF RecoverWorker, PopRecoverUser, GetUsersMonthStepsFromDB, FillCache, RecoverFails,
                clientVars, setQ
  <2>2. faults' = faults \/ \E S, f : faults' = Noted(S, f)
    BY <1>5 DEF RecoverWorker, PopRecoverUser, GetUsersMonthStepsFromDB, FillCache, RecoverFails
  <2> QED BY <2>1, <2>2, <1>4, FaultsGrow
<1>6. ASSUME NEW v \in Users, Reader(v) \/ LoseKey(v) PROVE UserInv(u)'
  BY <1>4, <1>6 DEF Reader, MissCache, PushRecoverUser, PushRecoverFails, LoseKey, clientVars, setQ
<1>7. CASE UNCHANGED vars
  BY <1>4, <1>7 DEF vars, clientVars, setQ
<1> QED BY <1>2, <1>3, <1>5, <1>6, <1>7 DEF Next

(* When nothing of the user is under way, the rows tell all his dates.      *)
LEMMA TableTold == IInv /\ TableInv => TableIsLast
<1> SUFFICES ASSUME IInv, TableInv, NEW u \in Users, Written(u), Ordered(u)
             PROVE  table[u] = accepted[u]
  BY DEF TableIsLast, Ordered
<1>1. Queued(u) = {} /\ Held(u) = {} /\ Asking(u) = {}
  BY DEF Written
<1>2. Open(u) = {}
  BY <1>1 DEF Open, Asking, UsersOf
<1>3. \A d \in Days : RowTells(u, d)
  BY <1>1, <1>2 DEF TableInv, UserInv, DateInv, Tells, Holds
<1>4. table[u] \in Rows /\ accepted[u] \in Rows
  BY Parts DEF StoresOK
<1>5. /\ table[u] = [d \in DOMAIN table[u] |-> table[u][d]] /\ DOMAIN table[u] \subseteq Days
      /\ accepted[u] = [d \in DOMAIN accepted[u] |-> accepted[u][d]]
      /\ DOMAIN accepted[u] \subseteq Days
  BY <1>4, PartialIs DEF Rows
<1>6. DOMAIN table[u] = DOMAIN accepted[u]
  BY <1>3, <1>5 DEF RowTells, Agrees
<1>7. \A d \in DOMAIN table[u] : table[u][d] = accepted[u][d]
  BY <1>3, <1>5 DEF RowTells, Agrees
<1> QED BY <1>5, <1>6, <1>7

LEMMA TableInvHolds == Spec => []TableInv
<1>1. QueuesAreSets => SetQ!QueueIsSet
  BY DEF QueuesAreSets
<1> QED BY <1>1, InitOrdered, TableStep, StoreInvariant, QueuesStaySets, PTL DEF Spec

(* Once the reports of a user are through the queue, the table has what he  *)
(* reported last, unless his requests overlapped, one failed, two workers   *)
(* had reports of his, or a stale report was pushed again.                  *)
THEOREM TableEndsLast == Spec => []TableIsLast
BY TableInvHolds, TableTold, StoreInvariant, PTL

-----------------------------------------------------------------------------
(* What the hash has. Days are the dates of one month, so that a report     *)
(* long enough to replace the hash has all of them.                         *)

Told(u) == IF DOMAIN accepted[u] = {} THEN [d \in {MinDate} |-> 0] ELSE accepted[u]

LEMMA HashKept ==
  ASSUME NEW u \in Users, HashInv(u), faults[u] \subseteq faults'[u],
         cache'[u] = cache[u] \/ DOMAIN cache'[u] = {}, accepted'[u] = accepted[u],
         \A w \in Filling(u)' : read'[w] = Empty \/ (w \in Filling(u) /\ read'[w] = read[w])
  PROVE  HashInv(u)'
BY DEF HashInv, Only, Agrees

(* A report merged into the hash and into the history.                      *)
LEMMA ReportCached ==
  ASSUME Cardinality(Days) <= MonthDays,
         IInv, NEW c \in Clients, NEW i \in todo[c], SetUserStepsToCache(c, i),
         NEW u \in Users, HashInv(u)
  PROVE  HashInv(u)'
<1> USE Parts
<1> DEFINE v == i.user
<1>1. /\ cache' = [cache EXCEPT ![v] = Cached(v, i.steps)]
      /\ accepted' = [accepted EXCEPT ![v] = Over(i.steps, accepted[v])]
      /\ faults' = [faults EXCEPT ![v] = @
           \cup (IF \E w \in Filling(v) : read[w] # Empty THEN {"race"} ELSE {})
           \cup (IF IsPartial(v, i.steps) THEN {"partial"} ELSE {})]
      /\ UNCHANGED <<filling, read>>
  BY DEF SetUserStepsToCache, fillVars
<1>2. faults[u] \subseteq faults'[u] /\ Filling(u)' = Filling(u)
  BY <1>1 DEF HistoryOK, Filling
<1>3. CASE v # u
  <2>1. cache'[u] = cache[u] /\ accepted'[u] = accepted[u]
    BY <1>1, <1>3
  <2> QED BY <2>1, <1>1, <1>2, HashKept
<1>4. CASE v = u
  <2> SUFFICES ASSUME Only(u, {"partial"})' PROVE HashInv(u)'
    BY DEF HashInv
  <2>1. /\ cache'[u] = Cached(u, i.steps) /\ accepted'[u] = Over(i.steps, accepted[u])
        /\ "race" \notin faults'[u]
        /\ (\E w \in Filling(u) : read[w] # Empty) => "race" \in faults'[u]
        /\ IsPartial(u, i.steps) => "partial" \in faults'[u]
    BY <1>1, <1>4 DEF StoresOK, HistoryOK, Only
  <2>2. \A w \in Filling(u)' : read'[w] = Empty
    BY <2>1, <1>1, <1>2
  <2>3. \A d \in DOMAIN cache[u] \ {MinDate} : Agrees(u, d, cache[u])
    BY <1>2 DEF HashInv, Only
  <2>4. \A d \in DOMAIN cache'[u] \ {MinDate} : Agrees(u, d, cache[u])'
    BY <2>1, <2>3 DEF Agrees, Cached, Over
  <2>5. ASSUME Only(u, {})' PROVE DOMAIN accepted'[u] \subseteq DOMAIN cache'[u]
    <3>1. ~ IsPartial(u, i.steps) /\ Only(u, {})
      BY <2>1, <2>5, <1>2 DEF Only
    <3>2. DOMAIN accepted[u] \subseteq DOMAIN i.steps \/ DOMAIN accepted[u] \subseteq DOMAIN cache[u]
      BY <3>1 DEF IsPartial, HashInv, Only
    <3>3. CASE Cardinality(DOMAIN i.steps) >= MonthDays
      <4>1. DOMAIN i.steps \subseteq Days /\ DOMAIN accepted[u] \subseteq Days
        BY PartialIs DEF ClientsOK, StoresOK, Report, Rows
      <4>2. IsFiniteSet(DOMAIN i.steps) /\ Cardinality(DOMAIN i.steps) \in Nat
            /\ Cardinality(Days) \in Nat /\ MonthDays \in Nat
        BY <4>1, ConstantsAssumption, FS_Subset, FS_CardinalityType
      <4>3. Cardinality(DOMAIN i.steps) <= Cardinality(Days)
        BY <4>1, ConstantsAssumption, FS_Subset
      <4>4. Cardinality(DOMAIN i.steps) = Cardinality(Days)
        BY <3>3, <4>2, <4>3
      <4>5. DOMAIN i.steps = Days
        BY <4>1, <4>4, ConstantsAssumption, FS_Subset
      <4> QED BY <3>3, <4>1, <4>5, <2>1 DEF Cached, Over
    <3>4. CASE ~ Cardinality(DOMAIN i.steps) >= MonthDays
      BY <3>2, <3>4, <2>1 DEF Cached, Over
    <3> QED BY <3>3, <3>4
  <2> QED BY <2>2, <2>4, <2>5 DEF HashInv
<1> QED BY <1>3, <1>4

(* The table is read when nothing of the user is on its way to it, or a     *)
(* fault is noted.                                                          *)
LEMMA RowsRead ==
  ASSUME IInv, TableIsLast, NEW w \in RecoverWorkers, GetUsersMonthStepsFromDB(w),
         NEW u \in Users, HashInv(u)
  PROVE  HashInv(u)'
<1> USE Parts
<1> SUFFICES ASSUME Only(u, {"partial"})' PROVE HashInv(u)'
  BY DEF HashInv
<1> DEFINE v == filling[w]
           rows == IF DOMAIN table[v] = {} THEN [d \in {MinDate} |-> 0] ELSE table[v]
           S == IF Queued(v) \cup Held(v) \cup Asking(v) # {} THEN {v} ELSE {}
<1>1. /\ read' = [read EXCEPT ![w] = rows] /\ faults' = Noted(S, "race")
      /\ UNCHANGED <<cache, filling, accepted>>
  BY DEF GetUsersMonthStepsFromDB
<1>2. Filling(u)' = Filling(u) /\ \A x \in RecoverWorkers \ {w} : read'[x] = read[x]
  BY <1>1 DEF Filling, FillingOK
<1>3. faults[u] \subseteq faults'[u] /\ u \notin S
  <2> HIDE DEF S
  <2> QED BY <1>1, FaultsGrow DEF Only
<1>4. v = u => read'[w] = Told(u)
  <2> SUFFICES ASSUME v = u PROVE read'[w] = Told(u)
    OBVIOUS
  <2>1. Written(u)
    BY <1>3 DEF Written
  <2>2. table[u] = accepted[u]
    BY <2>1, <1>3 DEF TableIsLast, Only
  <2> QED BY <2>2, <1>1 DEF Told, FillingOK
<1>5. Only(u, {"partial"})
  BY <1>3 DEF Only
<1>6. \A x \in Filling(u)' : read'[x] # Empty => read'[x] = Told(u)'
  <2>1. Told(u)' = Told(u)
    BY <1>1 DEF Told
  <2>2. w \in Filling(u) => v = u
    BY DEF Filling
  <2>3. \A x \in Filling(u) : read[x] # Empty => read[x] = Told(u)
    BY <1>5 DEF HashInv, Told
  <2>4. Filling(u) \subseteq RecoverWorkers
    BY DEF Filling
  <2> QED BY <2>1, <2>2, <2>3, <2>4, <1>2, <1>4
<1>7. Only(u, {})' => Only(u, {})
  BY <1>3 DEF Only
<1> QED BY <1>1, <1>5, <1>6, <1>7 DEF HashInv, Told, Agrees

(* What was read is put over what the hash has.                             *)
LEMMA HashFilled ==
  ASSUME IInv, NEW w \in RecoverWorkers, FillCache(w), NEW u \in Users, HashInv(u)
  PROVE  HashInv(u)'
<1> USE Parts
<1> DEFINE v == filling[w]
<1>1. /\ cache' = [cache EXCEPT ![v] = Cached(v, read[w])]
      /\ filling' = [filling EXCEPT ![w] = Nobody] /\ read' = [read EXCEPT ![w] = Empty]
      /\ read[w] # Empty /\ v \in Users
      /\ UNCHANGED <<accepted, faults>>
  BY DEF FillCache, FillingOK
<1>2. \A x \in Filling(u)' : x \in Filling(u) /\ read'[x] = read[x]
  BY <1>1, ConstantsAssumption DEF Filling, FillingOK
<1>3. CASE v # u
  <2>1. cache'[u] = cache[u]
    BY <1>1, <1>3 DEF StoresOK
  <2> QED BY <2>1, <1>1, <1>2, HashKept
<1>4. CASE v = u
  <2> SUFFICES ASSUME Only(u, {"partial"}) PROVE HashInv(u)'
    BY <1>1 DEF HashInv, Only
  <2>1. cache'[u] = Cached(u, read[w]) /\ w \in Filling(u)
    BY <1>1, <1>4 DEF StoresOK, Filling
  <2>2. read[w] = Told(u) /\ \A d \in DOMAIN cache[u] \ {MinDate} : Agrees(u, d, cache[u])
    BY <2>1, <1>1 DEF HashInv, Told
  <2>3. \A d \in DOMAIN cache'[u] \ {MinDate} : Agrees(u, d, cache[u])'
    BY <2>1, <2>2, <1>1 DEF Agrees, Cached, Over, Told
  <2>4. DOMAIN accepted[u] \subseteq DOMAIN cache'[u]
    BY <2>1, <2>2 DEF Cached, Over, Told
  <2> QED BY <2>3, <2>4, <1>1, <1>2 DEF HashInv, Told
<1> QED BY <1>3, <1>4

LEMMA CacheStep ==
  ASSUME Cardinality(Days) <= MonthDays
  PROVE  IInv /\ TableIsLast /\ CacheInv /\ [Next]_vars => CacheInv'
<1> SUFFICES ASSUME IInv, TableIsLast, CacheInv, [Next]_vars, NEW u \in Users
             PROVE  HashInv(u)'
  BY DEF CacheInv
<1> USE Parts
<1>1. HashInv(u)
  BY DEF CacheInv
<1>2. ASSUME faults[u] \subseteq faults'[u], UNCHANGED <<cache, accepted, fillVars>>
      PROVE  HashInv(u)'
  <2>1. Filling(u)' = Filling(u)
    BY <1>2 DEF Filling, fillVars
  <2> QED BY <2>1, <1>1, <1>2, HashKept DEF fillVars
<1>3. ASSUME NEW c \in Clients, (\E q \in Requests : Begin(c, q)) \/ Handle(c)
      PROVE  HashInv(u)'
  <2>1. CASE \E i \in todo[c] : SetUserStepsToCache(c, i)
    BY <2>1, <1>1, ReportCached
  <2>2. CASE \/ \E q \in Requests : Begin(c, q)
             \/ \E i \in unpushed[c] :
                  (\E form \in Forms(i) : PushSetUser(c, i, form)) \/ PushFails(c, i)
             \/ GiveUp(c)
    <3>1. UNCHANGED <<cache, accepted, fillVars>> /\ \E S, f : faults' = Noted(S, f)
      BY <2>2 DEF Begin, PushSetUser, PushFails, GiveUp
    <3> QED BY <3>1, <1>2, FaultsGrow
  <2> QED BY <2>1, <2>2, <1>3 DEF Handle
<1>4. ASSUME NEW w \in SetWorkers, SetWorker(w) PROVE HashInv(u)'
  <2>1. UNCHANGED <<cache, accepted, fillVars>>
    BY <1>4 DEF SetWorker, PopSetUser, SetUsersStepsToDB, SetWorkerFails
  <2>2. faults' = faults \/ \E S, f : faults' = Noted(S, f)
    BY <1>4 DEF SetWorker, PopSetUser, SetUsersStepsToDB, SetWorkerFails
  <2> QED BY <2>1, <2>2, <1>2, FaultsGrow
<1>5. ASSUME NEW w \in RecoverWorkers, RecoverWorker(w) PROVE HashInv(u)'
  <2>1. ASSUME NEW x \in Users, PopRecoverUser(w, x) PROVE HashInv(u)'
    <3>1. /\ filling[w] = Nobody /\ read[w] = Empty
          /\ filling' = [filling EXCEPT ![w] = x] /\ UNCHANGED <<cache, read, accepted, faults>>
      BY <2>1 DEF PopRecoverUser, FillingOK
    <3>2. \A y \in Filling(u)' : read'[y] = Empty \/ (y \in Filling(u) /\ read'[y] = read[y])
      BY <3>1 DEF Filling, FillingOK
    <3> QED BY <3>1, <3>2, <1>1, HashKept
  <2>2. CASE GetUsersMonthStepsFromDB(w)
    BY <2>2, <1>1, RowsRead
  <2>3. CASE FillCache(w)
    BY <2>3, <1>1, HashFilled
  <2>4. CASE RecoverFails(w)
    <3>1. /\ filling' = [filling EXCEPT ![w] = Nobody] /\ read' = [read EXCEPT ![w] = Empty]
          /\ UNCHANGED <<cache, accepted>> /\ \E S, f : faults' = Noted(S, f)
      BY <2>4 DEF RecoverFails
    <3>2. \A y \in Filling(u)' : read'[y] = Empty \/ (y \in Filling(u) /\ read'[y] = read[y])
      BY <3>1 DEF Filling, FillingOK
    <3> QED BY <3>1, <3>2, <1>1, FaultsGrow, HashKept
  <2> QED BY <2>1, <2>2, <2>3, <2>4, <1>5 DEF RecoverWorker
<1>6. ASSUME NEW x \in Users, Reader(x) \/ LoseKey(x) PROVE HashInv(u)'
  <2>1. CASE Reader(x)
    BY <2>1, <1>2 DEF Reader, MissCache, PushRecoverUser, PushRecoverFails
  <2>2. CASE LoseKey(x)
    <3>1. /\ cache' = [cache EXCEPT ![x] = Empty] /\ UNCHANGED <<accepted, faults, filling, read>>
      BY <2>2 DEF LoseKey, fillVars
    <3>2. cache'[u] = cache[u] \/ DOMAIN cache'[u] = {}
      BY <3>1 DEF StoresOK, Empty
    <3>3. Filling(u)' = Filling(u)
      BY <3>1 DEF Filling
    <3> QED BY <3>1, <3>2, <3>3, <1>1, HashKept
  <2> QED BY <2>1, <2>2, <1>6
<1>7. CASE UNCHANGED vars
  BY <1>2, <1>7 DEF vars
<1> QED BY <1>3, <1>4, <1>5, <1>6, <1>7 DEF Next

LEMMA InitCached == Init => CacheInv
<1> SUFFICES ASSUME Init, NEW u \in Users PROVE HashInv(u)
  BY DEF CacheInv
<1>1. \A w \in Filling(u) : read[w] = Empty
  BY DEF Init, Filling
<1>2. cache[u] = Empty /\ DOMAIN Empty = {}
  BY DEF Init, Empty
<1> QED BY <1>1, <1>2 DEF HashInv

(* The hash never has an older number than the last reported, and lacks no  *)
(* date, unless filling it overlapped with a report or a report of a few    *)
(* dates was the first after a loss.                                        *)
THEOREM HashStaysCurrent ==
  ASSUME Cardinality(Days) <= MonthDays
  PROVE  Spec => []CacheIsCurrent
<1>1. IInv /\ TableIsLast /\ CacheInv /\ [Next]_vars => CacheInv'
  BY CacheStep
<1>2. CacheInv => CacheIsCurrent
  BY DEF CacheInv, HashInv, CacheIsCurrent, Only, Agrees
<1> QED BY <1>1, <1>2, InitCached, StoreInvariant, TableEndsLast, PTL DEF Spec
=============================================================================
