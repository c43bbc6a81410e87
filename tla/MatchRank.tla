------------------------------ MODULE MatchRank ------------------------------
(* The donation rank of an activity: a Redis sorted set that every match    *)
(* updates after it has written the table of totals, that readers find      *)
(* empty when Redis lost it, and that the recovery workers then rebuild     *)
(* from the table, page by page and member by member, while matches go on.  *)
EXTENDS Naturals, FiniteSets, Sequences, Collections

CONSTANTS Activities,
          Users,       \* user ids, in the order of the primary key
          DefaultOid,  \* DEFAULT_OID, the member of a rank nobody is in
          Workers,     \* recovery workers
          NoActivity,  \* what an idle worker holds
          PageSize,    \* USER_LIMIT
          MaxTotal,    \* matches of a user in an activity (bound)
          MaxLosses    \* losses of Redis data (bound)

ASSUME ConstantsAssumption ==
  /\ Users \subseteq Nat /\ IsFiniteSet(Users)
  /\ DefaultOid \notin Users
  /\ NoActivity \notin Activities
  /\ PageSize \in Nat \ {0}

VARIABLES
  queue, queueSet,   \* the recovery queue
  total,     \* total[a][u]: t_user_match_status; 0 when there is no row
  inflight,  \* matches whose total is in the table and not yet in the rank
  ranked,    \* ranked[a]: the members of the sorted set of the activity
  score,     \* score[a][m]: their scores; 0 when m is not a member
  pc,        \* pc[w]: where worker w is
  job,       \* job[w]: the activity it recovers
  page,      \* page[w]: the next page of the table it reads
  fetched,   \* fetched[w]: how many rows it has read (len(result))
  rows,      \* rows[w]: the rows it has read and not yet added to the rank
  losses,    \* how often Redis lost data
  faults     \* faults[a]: what disturbed the activity so far (history)

work == <<pc, job, page, fetched, rows>>
rankVars == <<ranked, score>>
queueVars == <<queue, queueSet>>
vars == <<queueVars, total, inflight, rankVars, work, losses, faults>>

Queue == INSTANCE RecoverQueue WITH Elements <- Activities

Member == Users \cup {DefaultOid}
Row == [user : Users, fund : Nat]
MaxPage == Cardinality(Users)   \* later pages are empty (bound)

(* What can disturb the rank of an activity:                                *)
(*   fail  its rank cannot be written, or its recovery fails or crashes     *)
(*   lost  Redis loses the queue it waits in                                *)
(*   race  it is matched, or its rank is lost, while a worker recovers it;  *)
(*         or it is matched when its rank is lost and not yet recovered     *)
Fault == {"fail", "lost", "race"}

Init ==
  /\ Queue!Init
  /\ total = [a \in Activities |-> [u \in Users |-> 0]]
  /\ inflight = {}
  /\ ranked = [a \in Activities |-> {}]
  /\ score = [a \in Activities |-> [m \in Member |-> 0]]
  /\ pc = [w \in Workers |-> "idle"]
  /\ job = [w \in Workers |-> NoActivity]
  /\ page = [w \in Workers |-> 0]
  /\ fetched = [w \in Workers |-> 0]
  /\ rows = [w \in Workers |-> {}]
  /\ losses = 0
  /\ faults = [a \in Activities |-> {}]

Listed(a) == {u \in Users : total[a][u] # 0}
Recovering(a) == {w \in Workers : job[w] = a}

(* Page i of the rows of the activity: select ... limit i * USER_LIMIT,     *)
(* USER_LIMIT, read along the primary key.                                  *)
PageOf(a, i) ==
  {u \in Listed(a) : /\ i * PageSize <= Before(u, Listed(a))
                     /\ Before(u, Listed(a)) < (i + 1) * PageSize}

(* UpdateActivityMatchRank: ZADD. *)
ZAdd(a, m, s) ==
  /\ ranked' = [ranked EXCEPT ![a] = @ \cup {m}]
  /\ score' = [score EXCEPT ![a][m] = s]

Note(a, f, happens) ==
  faults' = IF happens THEN [faults EXCEPT ![a] = @ \cup {f}] ELSE faults

-----------------------------------------------------------------------------
(* Matches.                                                                 *)

(* UserMatch writes the new total of the user. Requests of one user in one  *)
(* activity follow each other here; UserMatch.tla has them overlap.         *)
Match(a, u) ==
  /\ total[a][u] < MaxTotal
  /\ ~ \E m \in inflight : m.act = a /\ m.user = u
  /\ total' = [total EXCEPT ![a][u] = @ + 1]
  /\ inflight' = inflight \cup {[act |-> a, user |-> u, total |-> total[a][u] + 1]}
  /\ Note(a, "race", Recovering(a) # {})
  /\ UNCHANGED <<queueVars, rankVars, work, losses>>

AllOnTheWay(a) ==
  \A u \in Listed(a) : \E m \in inflight : m.act = a /\ m.user = u

AddRank(m) ==
  /\ m \in inflight
  /\ inflight' = inflight \ {m}
  /\ ZAdd(m.act, m.user, m.total)
  /\ Note(m.act, "race", ranked[m.act] = {} /\ ~ AllOnTheWay(m.act))
  /\ UNCHANGED <<queueVars, total, work, losses>>

(* ZADD fails, which is only logged, or the process stops before it. *)
FailRank(m) ==
  /\ m \in inflight
  /\ inflight' = inflight \ {m}
  /\ Note(m.act, "fail", TRUE)
  /\ UNCHANGED <<queueVars, total, rankVars, work, losses>>

(* GetActivityMatchRank finds the rank empty: the caller has to retry. *)
ReadRank(a) ==
  /\ ranked[a] = {}
  /\ Queue!Push(a)
  /\ UNCHANGED <<total, inflight, rankVars, work, losses, faults>>

-----------------------------------------------------------------------------
(* Recovery workers.                                                        *)

PopElement(w, a) ==
  /\ pc[w] = "idle"
  /\ Queue!Pop(a)
  /\ pc' = [pc EXCEPT ![w] = "fetch"]
  /\ job' = [job EXCEPT ![w] = a]
  /\ page' = [page EXCEPT ![w] = 0]
  /\ fetched' = [fetched EXCEPT ![w] = 0]
  /\ rows' = [rows EXCEPT ![w] = {}]
  /\ UNCHANGED <<total, inflight, rankVars, losses, faults>>

(* Mutant: only one page is read. *)
FetchPage_OnePage(w) ==
  /\ pc[w] = "fetch"
  /\ LET users == PageOf(job[w], page[w])
     IN /\ fetched' = [fetched EXCEPT ![w] = Cardinality(users)]
        /\ rows' = [rows EXCEPT ![w] =
             {[user |-> u, fund |-> total[job[w]][u]] : u \in users}]
        /\ pc' = [pc EXCEPT ![w] = IF users = {} THEN "default" ELSE "restore"]
  /\ UNCHANGED <<queueVars, total, inflight, rankVars, job, page, losses, faults>>

(* One query of fetchActivityMatchFromDB. The loop ends when the number of  *)
(* all the rows read so far is not USER_LIMIT. A row that moved to a later  *)
(* page meanwhile is read twice and the later one is added last.            *)
FetchPage(w) ==
  /\ pc[w] = "fetch"
  /\ LET users == PageOf(job[w], page[w])
         count == fetched[w] + Cardinality(users)
     IN /\ fetched' = [fetched EXCEPT ![w] = count]
        /\ rows' = [rows EXCEPT ![w] =
             {r \in @ : r.user \notin users}
               \cup {[user |-> u, fund |-> total[job[w]][u]] : u \in users}]
        /\ IF count = PageSize
           THEN /\ page' = [page EXCEPT ![w] = IF @ < MaxPage THEN @ + 1 ELSE @]
                /\ UNCHANGED pc
           ELSE /\ pc' = [pc EXCEPT ![w] = IF count = 0 THEN "default" ELSE "restore"]
                /\ UNCHANGED page
  /\ UNCHANGED <<queueVars, total, inflight, rankVars, job, losses, faults>>

(* Mutant: the worker does not let go of its element. *)
Leave_KeepsJob(w) ==
  /\ pc' = [pc EXCEPT ![w] = "idle"]
  /\ page' = [page EXCEPT ![w] = 0]
  /\ fetched' = [fetched EXCEPT ![w] = 0]
  /\ rows' = [rows EXCEPT ![w] = {}]
  /\ UNCHANGED job

(* The worker is done with its element. *)
Leave(w) ==
  /\ pc' = [pc EXCEPT ![w] = "idle"]
  /\ job' = [job EXCEPT ![w] = NoActivity]
  /\ page' = [page EXCEPT ![w] = 0]
  /\ fetched' = [fetched EXCEPT ![w] = 0]
  /\ rows' = [rows EXCEPT ![w] = {}]

(* Mutant: the total is added to the score that is there (ZINCRBY). *)
RestoreUser_Adds(w, r) ==
  /\ pc[w] = "restore" /\ r \in rows[w]
  /\ ZAdd(job[w], r.user, score[job[w]][r.user] + r.fund)
  /\ IF rows[w] = {r} THEN Leave(w)
     ELSE /\ rows' = [rows EXCEPT ![w] = @ \ {r}]
          /\ UNCHANGED <<pc, job, page, fetched>>
  /\ UNCHANGED <<queueVars, total, inflight, losses, faults>>

RestoreUser(w, r) ==
  /\ pc[w] = "restore" /\ r \in rows[w]
  /\ ZAdd(job[w], r.user, r.fund)
  /\ IF rows[w] = {r} THEN Leave(w)
     ELSE /\ rows' = [rows EXCEPT ![w] = @ \ {r}]
          /\ UNCHANGED <<pc, job, page, fetched>>
  /\ UNCHANGED <<queueVars, total, inflight, losses, faults>>

(* Mutant: nothing is added for an activity without matches. *)
RestoreDefault_Nothing(w) ==
  /\ pc[w] = "default"
  /\ Leave(w)
  /\ UNCHANGED <<queueVars, total, inflight, rankVars, losses, faults>>

(* Nobody matched: a member of score 0 keeps readers from asking again. *)
RestoreDefault(w) ==
  /\ pc[w] = "default"
  /\ ZAdd(job[w], DefaultOid, 0)
  /\ Leave(w)
  /\ UNCHANGED <<queueVars, total, inflight, losses, faults>>

(* A query or a ZADD of the recovery fails, or its process stops: the       *)
(* element is not pushed again.                                             *)
FailRecover(w) ==
  /\ pc[w] # "idle"
  /\ Note(job[w], "fail", TRUE)
  /\ Leave(w)
  /\ UNCHANGED <<queueVars, total, inflight, rankVars, losses>>

-----------------------------------------------------------------------------
(* Redis.                                                                   *)

(* The rank of one activity: it expires after 31 days without a match. *)
LoseRank(a) ==
  /\ losses < MaxLosses /\ ranked[a] # {}
  /\ losses' = losses + 1
  /\ ranked' = [ranked EXCEPT ![a] = {}]
  /\ score' = [score EXCEPT ![a] = [m \in Member |-> 0]]
  /\ Note(a, "race", Recovering(a) # {})
  /\ UNCHANGED <<queueVars, total, inflight, work>>

(* A new Redis instance. *)
LoseRedis ==
  /\ losses < MaxLosses
  /\ losses' = losses + 1
  /\ Queue!Lose
  /\ ranked' = [a \in Activities |-> {}]
  /\ score' = [a \in Activities |-> [m \in Member |-> 0]]
  /\ faults' = [a \in Activities |->
       faults[a] \cup (IF a \in queueSet THEN {"lost"} ELSE {})
                 \cup (IF Recovering(a) # {} THEN {"race"} ELSE {})]
  /\ UNCHANGED <<total, inflight, work>>

WorkerStep(w) ==
  \/ \E a \in Activities : PopElement(w, a)
  \/ FetchPage(w)
  \/ \E r \in rows[w] : RestoreUser(w, r)
  \/ RestoreDefault(w)

Next ==
  \/ \E a \in Activities : (\E u \in Users : Match(a, u)) \/ ReadRank(a) \/ LoseRank(a)
  \/ \E m \in inflight : AddRank(m) \/ FailRank(m)
  \/ \E w \in Workers : WorkerStep(w) \/ FailRecover(w)
  \/ LoseRedis

Spec == Init /\ [][Next]_vars

(* The loop of a worker goes on as long as its process lives. Nothing makes *)
(* a user match or a reader ask again.                                      *)
FairSpec == Spec /\ \A w \in Workers : WF_vars(WorkerStep(w))

-----------------------------------------------------------------------------
(* Properties.                                                              *)

Inflight == [act : Activities, user : Users, total : Nat]

(* Every variable has its type: the queue, the tables, the sorted sets and  *)
(* the workers of the match package.                                        *)
TypeOK ==
  /\ queue \in Seq(Activities) /\ queueSet \subseteq Activities
  /\ total \in [Activities -> [Users -> Nat]]
  /\ inflight \subseteq Inflight
  /\ ranked \in [Activities -> SUBSET Member]
  /\ score \in [Activities -> [Member -> Nat]]
  /\ pc \in [Workers -> {"idle", "fetch", "default", "restore"}]
  /\ job \in [Workers -> Activities \cup {NoActivity}]
  /\ \A w \in Workers : job[w] = NoActivity <=> pc[w] = "idle"
  /\ page \in [Workers -> Nat] /\ fetched \in [Workers -> Nat]
  /\ rows \in [Workers -> SUBSET Row]
  /\ losses \in Nat
  /\ faults \in [Activities -> SUBSET Fault]

(* The queue keeps its set in step with its list while readers and several  *)
(* workers use both.                                                        *)
QueueIsSet == Queue!QueueIsSet

(* Whatever late ZADDs, stale recoveries and losses do to a rank, it never  *)
(* shows more than the table of totals has, and neither does what is still  *)
(* on its way to it.                                                        *)
ScoresWithinTotals ==
  /\ \A a \in Activities, u \in Users : score[a][u] <= total[a][u]
  /\ \A m \in inflight : m.total <= total[m.act][m.user]
  /\ \A w \in Workers : \A r \in rows[w] : r.fund <= total[job[w]][r.user]

Settled(a) == Recovering(a) = {} /\ ~ \E m \in inflight : m.act = a

(* The rank of an activity that is not empty shows exactly the totals of    *)
(* the table as soon as no match and no worker is busy with it, however     *)
(* often Redis lost the rank before, as long as nothing failed and no match *)
(* or loss ran into a recovery.                                             *)
ExactRank ==
  \A a \in Activities : Settled(a) /\ faults[a] = {} /\ ranked[a] # {} =>
    /\ Listed(a) \subseteq ranked[a]
    /\ \A u \in Users : score[a][u] = total[a][u]

(* A worker that has read exactly one full page and finds no more rows: the *)
(* sum of the rows read stays USER_LIMIT, and its loop never ends.          *)
Endless ==
  \E w \in Workers : /\ pc[w] = "fetch" /\ fetched[w] = PageSize
                    /\ PageOf(job[w], page[w]) = {}

(* A rank whose recovery was asked for can be read in the end, even when    *)
(* nobody has matched and two workers race for it, unless the recovery      *)
(* fails, its queue is lost or a worker is caught in an endless loop.       *)
EventuallyRecovered ==
  \A a \in Activities :
    a \in queueSet ~>
      (ranked[a] # {} \/ faults[a] \cap {"fail", "lost"} # {} \/ Endless)

(* Claimed by the comment of fetchActivityMatchFromDB, refuted by its loop: *)
(* when it ends it has read all the rows, of an activity that nobody        *)
(* matched meanwhile.                                                       *)
FetchIsComplete ==
  \A w \in Workers : pc[w] = "restore" /\ faults[job[w]] = {} =>
    fetched[w] >= Cardinality(Listed(job[w]))
=============================================================================
