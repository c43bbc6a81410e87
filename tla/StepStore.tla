----------------------------- MODULE StepStore -----------------------------
(* The daily steps of stepmgr: a Redis hash per user with his last month,   *)
(* in front of the table t_step. A request writes the hash and puts what it *)
(* was given into a queue, from which workers write the table; a reader who *)
(* finds no hash puts the user into another queue, from which workers fill  *)
(* the hash from the table. Both queues use the scripts of RecoverQueue.    *)
EXTENDS Integers, FiniteSets, Sequences

CONSTANTS Users, Days,
          MinDate,        \* STEP_MIN_DATE, the one field of a user without rows
          Nobody,         \* what a worker without work has
          Requests,       \* the requests that may come
          Clients,        \* goroutines of HandleSetUsersSteps and of the dispatcher
          SetWorkers, RecoverWorkers,
          MaxSteps,       \* steps of a day (bound)
          MonthDays,      \* from so many dates on the hash is replaced (30)
          DBUpdateBatch,  \* so many users are cached between two rounds of pushes
          Encodings,      \* byte strings proto.Marshal may make of one map (bound)
          MaxRequests, MaxMisses,
          MaxFaults       \* losses and failures altogether (bounds)

Partial(D) == UNION {[E -> 0 .. MaxSteps] : E \in SUBSET D}
Report == [user : Users, steps : Partial(Days)]

ASSUME ConstantsAssumption ==
  /\ IsFiniteSet(Days) /\ MinDate \notin Days /\ Nobody \notin Users /\ Nobody \notin Report
  /\ Requests \subseteq [items : SUBSET Report, background : BOOLEAN]
  /\ \A q \in Requests : IsFiniteSet(q.items)
                         /\ \A a, b \in q.items : a.user = b.user => a = b
  /\ MaxSteps \in Nat /\ MonthDays \in Nat \ {0} /\ DBUpdateBatch \in Nat \ {0}
  /\ Encodings \in Nat \ {0}
  /\ MaxRequests \in Nat /\ MaxMisses \in Nat /\ MaxFaults \in Nat

VARIABLES
  cache,     \* the hash of each user, without fields when there is no key
  table,     \* t_step, f_step by user and date
  method,    \* t_step, f_update_method by user and date: is it an auto update
  setQueue, setSet,          \* yqz:stepmgr:{stepDB}
  recoverQueue, recoverSet,  \* yqz:stepmgr:{recover}
  missed,    \* users whose hash a reader has found missing, not yet pushed
  task,      \* task[c]: the request of client c
  todo,      \* todo[c]: the reports c has not cached
  unpushed,  \* unpushed[c]: the reports c has to push before it goes on
  writing,   \* writing[w]: the report set worker w has popped
  filling,   \* filling[w]: the user recover worker w has popped
  read,      \* read[w]: the rows w has read for him, none before
  accepted,  \* the steps of each user as he reported them last (history)
  faults,    \* what has disturbed each user so far (history)
  counts     \* how many requests, losses, failures and misses there were

setQ == <<setQueue, setSet>>
recoverQ == <<recoverQueue, recoverSet>>
clientVars == <<task, todo, unpushed>>
fillVars == <<filling, read>>
vars == <<cache, table, method, setQ, recoverQ, missed, clientVars, writing, fillVars,
          accepted, faults, counts>>

(* A report as it is put into the queue. The order of a map with several    *)
(* dates differs from one encoding to the next.                             *)
Message == [report : Report, form : 1 .. Encodings]
Forms(i) == IF Cardinality(DOMAIN i.steps) > 1 THEN 1 .. Encodings ELSE {1}

SetQ == INSTANCE RecoverQueue WITH Elements <- Message, queue <- setQueue, queueSet <- setSet
RecoverQ == INSTANCE RecoverQueue WITH Elements <- Users, queue <- recoverQueue,
                                       queueSet <- recoverSet

Empty == [d \in {} |-> 0]
NoTask == [items |-> {}, background |-> FALSE]

Init ==
  /\ cache = [u \in Users |-> Empty] /\ table = [u \in Users |-> Empty]
  /\ method = [u \in Users |-> Empty]
  /\ SetQ!Init /\ RecoverQ!Init /\ missed = {}
  /\ task = [c \in Clients |-> NoTask]
  /\ todo = [c \in Clients |-> {}] /\ unpushed = [c \in Clients |-> {}]
  /\ writing = [w \in SetWorkers |-> Nobody]
  /\ filling = [w \in RecoverWorkers |-> Nobody]
  /\ read = [w \in RecoverWorkers |-> Empty]
  /\ accepted = [u \in Users |-> Empty]
  /\ faults = [u \in Users |-> {}]
  /\ counts = [requests |-> 0, losses |-> 0, fails |-> 0, misses |-> 0]

UsersOf(items) == {i.user : i \in items}
Over(new, old) ==
  [d \in DOMAIN new \cup DOMAIN old |-> IF d \in DOMAIN new THEN new[d] ELSE old[d]]

(* The reports of a user that are on their way to the table. *)
Queued(u) == {i \in 1 .. Len(setQueue) : setQueue[i].report.user = u}
Held(u) == {w \in SetWorkers : writing[w] # Nobody /\ writing[w].user = u}
Asking(u) == {c \in Clients : u \in UsersOf(task[c].items)}
Filling(u) == {w \in RecoverWorkers : filling[w] = u}
Noted(S, f) == [u \in Users |-> faults[u] \cup IF u \in S THEN {f} ELSE {}]
Bump(n) == counts' = [counts EXCEPT ![n] = @ + 1]

-----------------------------------------------------------------------------
(* SetUsersSteps.                                                           *)

(* A request comes; two of one user may overlap, and then nobody can say    *)
(* which is the last.                                                       *)
Begin(c, q) ==
  /\ task[c] = NoTask /\ q # NoTask /\ counts.requests < MaxRequests
  /\ task' = [task EXCEPT ![c] = q]
  /\ todo' = [todo EXCEPT ![c] = q.items]
  /\ faults' = Noted({u \in UsersOf(q.items) : Asking(u) # {}}, "overlap")
  /\ Bump("requests")
  /\ UNCHANGED <<cache, table, method, setQ, recoverQ, missed, unpushed, writing, fillVars,
                 accepted>>

(* What SetUsersStepsToCache leaves in the hash of u. The field of the date *)
(* of 30 days ago, which it deletes, is outside of Days.                    *)
Cached(u, steps) ==
  IF Cardinality(DOMAIN steps) >= MonthDays THEN steps ELSE Over(steps, cache[u])

(* Mutant: the pushes wait for a full batch. *)
AfterCaching_FullBatches(c, left) ==
  IF Cardinality(task[c].items \ left) % DBUpdateBatch = 0 THEN task[c].items ELSE {}

(* After each full batch and at the end all reports of the request are      *)
(* pushed, also those that are not cached yet and those pushed before.      *)
AfterCaching(c, left) ==
  IF left = {} \/ Cardinality(task[c].items \ left) % DBUpdateBatch = 0
  THEN task[c].items ELSE {}

(* Part of the hash of a user is written although the rest is missing.      *)
IsPartial(u, steps) ==
  DOMAIN cache[u] = {} /\ ~ DOMAIN accepted[u] \subseteq DOMAIN steps

(* One report is cached; the map is ranged over in any order. The pipeline  *)
(* is not a transaction, but no command of it leaves something a reader     *)
(* would take for less than no hash.                                        *)
SetUserStepsToCache(c, i) ==
  LET u == i.user IN
  /\ unpushed[c] = {} /\ i \in todo[c] /\ DOMAIN i.steps # {}
  /\ cache' = [cache EXCEPT ![u] = Cached(u, i.steps)]
  /\ accepted' = [accepted EXCEPT ![u] = Over(i.steps, @)]
  /\ todo' = [todo EXCEPT ![c] = @ \ {i}]
  /\ unpushed' = [unpushed EXCEPT ![c] = AfterCaching(c, todo[c] \ {i})]
  /\ faults' = [faults EXCEPT ![u] = @
       \cup (IF \E w \in Filling(u) : read[w] # Empty THEN {"race"} ELSE {})
       \cup (IF IsPartial(u, i.steps) THEN {"partial"} ELSE {})]
  /\ UNCHANGED <<table, method, setQ, recoverQ, missed, task, writing, fillVars, counts>>

(* pushSetUser; the same string may be in the queue already, perhaps with   *)
(* a later one of the user behind it. The last push ends the request.       *)
PushSetUser(c, i, form) ==
  LET u == i.user
      e == [report |-> i, form |-> form]
      behind == \E m, n \in Queued(u) : m < n /\ setQueue[m] = e
  IN
  /\ i \in unpushed[c] /\ form \in Forms(i)
  /\ SetQ!Push(e)
  /\ faults' = Noted(IF behind THEN {u} ELSE {}, "dup")
  /\ unpushed' = [unpushed EXCEPT ![c] = @ \ {i}]
  /\ task' = [task EXCEPT ![c] = IF todo[c] = {} /\ unpushed[c] = {i} THEN NoTask ELSE @]
  /\ UNCHANGED <<cache, table, method, recoverQ, missed, todo, writing, fillVars, accepted,
                 counts>>

MayFail == counts.losses + counts.fails < MaxFaults
Failing == MayFail /\ Bump("fails")

(* A push fails, which is only logged. *)
PushFails(c, i) ==
  /\ i \in unpushed[c] /\ Failing
  /\ faults' = Noted({i.user}, "fail")
  /\ unpushed' = [unpushed EXCEPT ![c] = @ \ {i}]
  /\ task' = [task EXCEPT ![c] = IF todo[c] = {} /\ unpushed[c] = {i} THEN NoTask ELSE @]
  /\ UNCHANGED <<cache, table, method, setQ, recoverQ, missed, todo, writing, fillVars, accepted>>

(* The cache fails, as it always does for a report without dates, or the    *)
(* process stops: the rest of the request is given up.                      *)
GiveUp(c) ==
  /\ task[c] # NoTask
  /\ \/ Failing
     \/ unpushed[c] = {} /\ (\E i \in todo[c] : DOMAIN i.steps = {}) /\ UNCHANGED counts
  /\ faults' = Noted(UsersOf(task[c].items), "fail")
  /\ task' = [task EXCEPT ![c] = NoTask]
  /\ todo' = [todo EXCEPT ![c] = {}]
  /\ unpushed' = [unpushed EXCEPT ![c] = {}]
  /\ UNCHANGED <<cache, table, method, setQ, recoverQ, missed, writing, fillVars, accepted>>

-----------------------------------------------------------------------------
(* The workers of the set queue.                                            *)

PopSetUser(w, e) ==
  LET u == e.report.user IN
  /\ writing[w] = Nobody
  /\ SetQ!Pop(e)
  /\ writing' = [writing EXCEPT ![w] = e.report]
  /\ faults' = Noted(IF Held(u) # {} THEN {u} ELSE {}, "order")
  /\ UNCHANGED <<cache, table, method, recoverQ, missed, clientVars, fillVars, accepted, counts>>

(* Mutant: a row that is there is left as it is. *)
SetUsersStepsToDB_Ignore(w) ==
  LET i == writing[w]
      u == i.user
  IN
  /\ i # Nobody /\ DOMAIN i.steps # {}
  /\ table' = [table EXCEPT ![u] = Over(@, i.steps)]
  /\ method' = [method EXCEPT ![u] = Over(@, [d \in DOMAIN i.steps |-> FALSE])]
  /\ writing' = [writing EXCEPT ![w] = Nobody]
  /\ UNCHANGED <<cache, setQ, recoverQ, missed, clientVars, fillVars, accepted, faults, counts>>

(* SetUsersStepsToDB, one statement. The worker does not know whether the   *)
(* steps came in the background and says they did not.                      *)
SetUsersStepsToDB(w) ==
  LET i == writing[w]
      u == i.user
  IN
  /\ i # Nobody /\ DOMAIN i.steps # {}
  /\ table' = [table EXCEPT ![u] = Over(i.steps, @)]
  /\ method' = [method EXCEPT ![u] = Over([d \in DOMAIN i.steps |-> FALSE], @)]
  /\ writing' = [writing EXCEPT ![w] = Nobody]
  /\ UNCHANGED <<cache, setQ, recoverQ, missed, clientVars, fillVars, accepted, faults, counts>>

(* The statement fails, as without rows, or the process stops: the report   *)
(* is gone.                                                                 *)
SetWorkerFails(w) ==
  LET i == writing[w] IN
  /\ i # Nobody
  /\ Failing \/ (DOMAIN i.steps = {} /\ UNCHANGED counts)
  /\ faults' = Noted({i.user}, "fail")
  /\ writing' = [writing EXCEPT ![w] = Nobody]
  /\ UNCHANGED <<cache, table, method, setQ, recoverQ, missed, clientVars, fillVars, accepted>>

-----------------------------------------------------------------------------
(* Readers, and the recovery of the hash.                                   *)

(* The key expires after a month without writes, or Redis loses it. *)
LoseKey(u) ==
  /\ DOMAIN cache[u] # {} /\ MayFail
  /\ cache' = [cache EXCEPT ![u] = Empty]
  /\ Bump("losses")
  /\ UNCHANGED <<table, method, setQ, recoverQ, missed, clientVars, writing, fillVars, accepted,
                 faults>>

(* GetUsersStepsFromCache finds no hash; the others answer and change       *)
(* nothing.                                                                 *)
MissCache(u) ==
  /\ DOMAIN cache[u] = {} /\ u \notin missed /\ counts.misses < MaxMisses
  /\ missed' = missed \cup {u}
  /\ Bump("misses")
  /\ UNCHANGED <<cache, table, method, setQ, recoverQ, clientVars, writing, fillVars, accepted,
                 faults>>

PushRecoverUser(u) ==
  /\ u \in missed
  /\ RecoverQ!Push(u)
  /\ missed' = missed \ {u}
  /\ UNCHANGED <<cache, table, method, setQ, clientVars, writing, fillVars, accepted, faults,
                 counts>>

PushRecoverFails(u) ==
  /\ u \in missed
  /\ missed' = missed \ {u}
  /\ UNCHANGED <<cache, table, method, setQ, recoverQ, clientVars, writing, fillVars, accepted,
                 faults, counts>>

PopRecoverUser(w, u) ==
  /\ filling[w] = Nobody
  /\ RecoverQ!Pop(u)
  /\ filling' = [filling EXCEPT ![w] = u]
  /\ UNCHANGED <<cache, table, method, setQ, missed, clientVars, writing, read, accepted, faults,
                 counts>>

(* Mutant: nothing is put in for a user without rows. *)
GetUsersMonthStepsFromDB_NoPlaceholder(w) ==
  LET u == filling[w] IN
  /\ u # Nobody /\ read[w] = Empty
  /\ read' = [read EXCEPT ![w] = table[u]]
  /\ UNCHANGED <<cache, table, method, setQ, recoverQ, missed, clientVars, writing, filling,
                 accepted, faults, counts>>

(* The month of the user is read from the table, perhaps before all his     *)
(* reports are there.                                                       *)
GetUsersMonthStepsFromDB(w) ==
  LET u == filling[w]
      rows == IF DOMAIN table[u] = {} THEN [d \in {MinDate} |-> 0] ELSE table[u]
  IN
  /\ u # Nobody /\ read[w] = Empty
  /\ read' = [read EXCEPT ![w] = rows]
  /\ faults' = Noted(IF Queued(u) \cup Held(u) \cup Asking(u) # {} THEN {u} ELSE {}, "race")
  /\ UNCHANGED <<cache, table, method, setQ, recoverQ, missed, clientVars, writing, filling,
                 accepted, counts>>

(* Mutant: the placeholder is written for users with rows too. *)
FillCache_Placeholder(w) ==
  LET u == filling[w] IN
  /\ u # Nobody /\ read[w] # Empty
  /\ cache' = [cache EXCEPT ![u] = Over([d \in {MinDate} |-> 0], @)]
  /\ filling' = [filling EXCEPT ![w] = Nobody]
  /\ read' = [read EXCEPT ![w] = Empty]
  /\ UNCHANGED <<table, method, setQ, recoverQ, missed, clientVars, writing, accepted, faults,
                 counts>>

FillCache(w) ==
  LET u == filling[w] IN
  /\ u # Nobody /\ read[w] # Empty
  /\ cache' = [cache EXCEPT ![u] = Cached(u, read[w])]
  /\ filling' = [filling EXCEPT ![w] = Nobody]
  /\ read' = [read EXCEPT ![w] = Empty]
  /\ UNCHANGED <<table, method, setQ, recoverQ, missed, clientVars, writing, accepted, faults,
                 counts>>

(* Mutant: what was read stays behind for the next user. *)
RecoverFails_KeepsRows(w) ==
  LET u == filling[w] IN
  /\ u # Nobody /\ Failing
  /\ faults' = Noted({u}, "fail")
  /\ filling' = [filling EXCEPT ![w] = Nobody]
  /\ UNCHANGED <<cache, table, method, setQ, recoverQ, missed, clientVars, writing, read,
                 accepted>>

RecoverFails(w) ==
  LET u == filling[w] IN
  /\ u # Nobody /\ Failing
  /\ faults' = Noted({u}, "fail")
  /\ filling' = [filling EXCEPT ![w] = Nobody]
  /\ read' = [read EXCEPT ![w] = Empty]
  /\ UNCHANGED <<cache, table, method, setQ, recoverQ, missed, clientVars, writing, accepted>>

-----------------------------------------------------------------------------

Handle(c) ==
  \/ \E i \in todo[c] : SetUserStepsToCache(c, i)
  \/ \E i \in unpushed[c] : (\E form \in Forms(i) : PushSetUser(c, i, form)) \/ PushFails(c, i)
  \/ GiveUp(c)

SetWorker(w) ==
  (\E e \in setSet : PopSetUser(w, e)) \/ SetUsersStepsToDB(w) \/ SetWorkerFails(w)

RecoverWorker(w) ==
  \/ \E u \in Users : PopRecoverUser(w, u)
  \/ GetUsersMonthStepsFromDB(w) \/ FillCache(w) \/ RecoverFails(w)

Reader(u) == MissCache(u) \/ PushRecoverUser(u) \/ PushRecoverFails(u)

Next ==
  \/ \E c \in Clients : (\E q \in Requests : Begin(c, q)) \/ Handle(c)
  \/ \E w \in SetWorkers : SetWorker(w)
  \/ \E w \in RecoverWorkers : RecoverWorker(w)
  \/ \E u \in Users : Reader(u) \/ LoseKey(u)

Spec == Init /\ [][Next]_vars

(* Requests end and the loops of the workers go on for ever. *)
Fairness ==
  /\ \A c \in Clients : WF_vars(Handle(c))
  /\ \A w \in SetWorkers : WF_vars(SetWorker(w))
  /\ \A w \in RecoverWorkers : WF_vars(RecoverWorker(w))

FairSpec == Spec /\ Fairness

-----------------------------------------------------------------------------
(* Properties.                                                              *)

Fault == {"overlap", "fail", "order", "dup", "race", "partial"}

(* Every variable has its type; what a request has left to cache and to     *)
(* push is part of it, and a worker reads only for the user it has popped.  *)
TypeOK ==
  /\ cache \in [Users -> Partial(Days \cup {MinDate})]
  /\ table \in [Users -> Partial(Days)] /\ accepted \in [Users -> Partial(Days)]
  /\ \A u \in Users : method[u] \in [DOMAIN table[u] -> BOOLEAN]
  /\ setQueue \in Seq(Message) /\ setSet \subseteq Message
  /\ recoverQueue \in Seq(Users) /\ recoverSet \subseteq Users /\ missed \subseteq Users
  /\ task \in [Clients -> Requests \cup {NoTask}]
  /\ \A c \in Clients : todo[c] \cup unpushed[c] \subseteq task[c].items
  /\ writing \in [SetWorkers -> Report \cup {Nobody}]
  /\ filling \in [RecoverWorkers -> Users \cup {Nobody}]
  /\ \A w \in RecoverWorkers : filling[w] = Nobody => read[w] = Empty
  /\ faults \in [Users -> SUBSET Fault]
  /\ counts \in [{"requests", "losses", "fails", "misses"} -> Nat]

(* A user and a report wait at most once in their queue, and nothing is     *)
(* kept out of it that does not wait.                                       *)
QueuesAreSets == SetQ!QueueIsSet /\ RecoverQ!QueueIsSet

Only(u, tolerated) == faults[u] \subseteq tolerated
Written(u) == Queued(u) \cup Held(u) \cup Asking(u) = {}
Recovered(u) == Filling(u) = {} /\ u \notin recoverSet

(* Once the reports of a user are through the queue the table has, for each *)
(* date, what he reported last, though requests push their reports several  *)
(* times, before and after they are cached, and whatever happens to the     *)
(* hash. It need not be so if his requests overlapped, one failed, two      *)
(* workers had reports of his at once, or a report was pushed again while a *)
(* later one waited behind it.                                              *)
TableIsLast ==
  \A u \in Users : Written(u) /\ Only(u, {"race", "partial"}) => table[u] = accepted[u]

(* The hash never has an older number of steps than the last reported, and  *)
(* it lacks no date, though keys get lost and are filled again, unless the  *)
(* filling overlapped with a report or a report of a few dates was the      *)
(* first to be written after the loss.                                      *)
CacheIsCurrent ==
  \A u \in Users : Written(u) /\ Recovered(u) /\ Only(u, {"partial"}) =>
    /\ \A d \in DOMAIN cache[u] \ {MinDate} :
         d \in DOMAIN accepted[u] /\ cache[u][d] = accepted[u][d]
    /\ Only(u, {}) /\ DOMAIN cache[u] # {} => DOMAIN accepted[u] \subseteq DOMAIN cache[u]

(* What the users report gets into the table in the end. *)
EventuallyStored ==
  \A u \in Users : []<>(Only(u, {"race", "partial"}) => table[u] = accepted[u])

(* A user who is queued for recovery has a hash in the end, be it the       *)
(* placeholder, unless the recovery failed.                                 *)
EventuallyReadable ==
  \A u \in Users : u \in recoverSet ~> (DOMAIN cache[u] # {} \/ "fail" \in faults[u])
=============================================================================
