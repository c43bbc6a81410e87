---------------------------- MODULE AutoDispatch ----------------------------
(* The automatic update of steps by stepmgr. Every instance keeps itself in *)
(* a sorted set by heartbeats; in each round its dispatcher looks up how    *)
(* many instances there are and which of them it is, and pages through its  *)
(* part of the users that allow updates in the background. Update workers   *)
(* get what it has paged, ask WeChat for the steps and take users who have  *)
(* revoked their permission off the list.                                   *)
EXTENDS Integers, FiniteSets, Collections

CONSTANTS Users,           \* in the order of their rows in t_user
          Stepless,        \* users of whose steps WeChat has none
          Revocations,     \* sets of users that may have revoked their permission
          Instances,       \* in the order of their addresses
          DBFetchBatch,    \* rows of a page
          DBUpdateBatch,   \* users of an update
          ChanSize,        \* CHAN_SIZE
          MaxFaults        \* failures and stops altogether (bound)

ASSUME ConstantsAssumption ==
  /\ Users \subseteq Nat /\ IsFiniteSet(Users) /\ Stepless \subseteq Users
  /\ Revocations \subseteq SUBSET Users
  /\ Instances \subseteq Nat /\ IsFiniteSet(Instances)
  /\ DBFetchBatch \in Nat \ {0} /\ DBUpdateBatch \in Nat \ {0} /\ ChanSize \in Nat \ {0}
  /\ MaxFaults \in Nat

VARIABLES
  listed,    \* t_user: the users with f_backend_update = 2
  revoked,   \* users for whom WeChat answers 20070 or 20071
  up,        \* the instances that run
  alive,     \* those whose last heartbeat in yqz:stepmgr:member is a minute old at most
  pc,        \* where the dispatcher of each instance is
  total,     \* totalIns: how many instances there are, by its last lookup
  index,     \* indexIns: which of them it is
  last,      \* lastTotal and lastIndex
  page,      \* i, the page of its part it reads next
  sending,   \* users it has read and not put into dataChan
  late,      \* the instances the time of whose round is up
  queue,     \* users in dataChan and in the lists of the update workers
  seen,      \* the instances it has seen in its round, none once the lookup or a page
             \* has failed or the list has changed since it began (history)
  fetched,   \* the users it has read in that round (history)
  faults     \* how many failures and stops there were

roundVars == <<total, index, last, page, seen, fetched>>
vars == <<listed, revoked, up, alive, pc, roundVars, sending, late, queue, faults>>

Init ==
  /\ revoked \in Revocations /\ listed = revoked
  /\ up = Instances /\ alive = {}
  /\ pc = [i \in Instances |-> "wait"]
  /\ total = [i \in Instances |-> 0] /\ index = [i \in Instances |-> 0]
  /\ last = [i \in Instances |-> [total |-> 0, index |-> 0]]
  /\ page = [i \in Instances |-> 0]
  /\ late = {} /\ sending = [i \in Instances |-> {}] /\ queue = [i \in Instances |-> {}]
  /\ seen = [i \in Instances |-> {}] /\ fetched = seen
  /\ faults = 0

Fault == faults < MaxFaults /\ faults' = faults + 1

-----------------------------------------------------------------------------
(* Membership.                                                              *)

Heartbeat(i) ==
  /\ i \in up /\ i \notin alive
  /\ alive' = alive \cup {i}
  /\ UNCHANGED <<listed, revoked, up, pc, roundVars, sending, late, queue, faults>>

(* An instance has not been heard of for a minute: it is gone, or its       *)
(* ZADDs failed, which nobody looks at.                                     *)
Expire(i) ==
  /\ i \in alive
  /\ IF i \in up THEN Fault ELSE UNCHANGED faults
  /\ alive' = alive \ {i}
  /\ UNCHANGED <<listed, revoked, up, pc, roundVars, sending, late, queue>>

(* From here on the round of i is not one to compare with others. *)
Forget(i) ==
  /\ seen' = [seen EXCEPT ![i] = {}] /\ fetched' = [fetched EXCEPT ![i] = {}]

(* What the process of i held is gone. *)
Reset(i) ==
  /\ pc' = [pc EXCEPT ![i] = "wait"]
  /\ total' = [total EXCEPT ![i] = 0] /\ index' = [index EXCEPT ![i] = 0]
  /\ last' = [last EXCEPT ![i] = [total |-> 0, index |-> 0]]
  /\ page' = [page EXCEPT ![i] = 0]
  /\ sending' = [sending EXCEPT ![i] = {}] /\ queue' = [queue EXCEPT ![i] = {}]
  /\ late' = late \ {i}
  /\ Forget(i)

(* The instance is stopped and removes itself, or crashes and does not. *)
Stop(i) ==
  /\ i \in up /\ Fault
  /\ up' = up \ {i}
  /\ \/ alive' = alive \ {i}
     \/ UNCHANGED alive
  /\ Reset(i)
  /\ UNCHANGED <<listed, revoked>>

Restart(i) ==
  /\ i \notin up
  /\ up' = up \cup {i}
  /\ UNCHANGED <<listed, revoked, alive, pc, roundVars, sending, late, queue, faults>>

-----------------------------------------------------------------------------
(* The dispatcher.                                                          *)

(* Mutant: the first instance is number 1. *)
Index_FromOne(i) == Before(i, alive) + 1

Index(i) == Before(i, alive)

StartRound(i) == page' = [page EXCEPT ![i] = 0] /\ pc' = [pc EXCEPT ![i] = "query"]

(* Mutant: an instance that does not find itself goes on with index -1. *)
GetWorkerCountAndIndex_Unchecked(i) ==
  /\ i \in up /\ pc[i] = "wait"
  /\ total' = [total EXCEPT ![i] = Cardinality(alive)]
  /\ index' = [index EXCEPT ![i] = IF i \in alive THEN Index(i) ELSE -1]
  /\ UNCHANGED last
  /\ Forget(i)
  /\ StartRound(i)
  /\ UNCHANGED <<listed, revoked, up, alive, sending, late, queue, faults>>

(* Mutant: instances that have not been heard of are counted too. *)
GetWorkerCountAndIndex_NoWindow(i) ==
  /\ i \in up /\ pc[i] = "wait"
  /\ total' = [total EXCEPT ![i] = Cardinality(Instances)]
  /\ index' = [index EXCEPT ![i] = Before(i, Instances)]
  /\ UNCHANGED last
  /\ Forget(i)
  /\ StartRound(i)
  /\ UNCHANGED <<listed, revoked, up, alive, sending, late, queue, faults>>

(* getWorkerCountAndIndex. An instance that does not find itself tries      *)
(* again after the next heartbeat.                                          *)
GetWorkerCountAndIndex(i) ==
  /\ i \in up /\ pc[i] = "wait" /\ i \in alive
  /\ total' = [total EXCEPT ![i] = Cardinality(alive)]
  /\ index' = [index EXCEPT ![i] = Index(i)]
  /\ last' = [last EXCEPT ![i] = [total |-> Cardinality(alive), index |-> Index(i)]]
  /\ seen' = [seen EXCEPT ![i] = alive] /\ fetched' = [fetched EXCEPT ![i] = {}]
  /\ StartRound(i)
  /\ UNCHANGED <<listed, revoked, up, alive, sending, late, queue, faults>>

(* Redis answers with an error: the round goes on with the zeros that came  *)
(* with it.                                                                 *)
LookupFails(i) ==
  /\ i \in up /\ pc[i] = "wait" /\ Fault
  /\ total' = [total EXCEPT ![i] = 0] /\ index' = [index EXCEPT ![i] = 0]
  /\ Forget(i)
  /\ StartRound(i)
  /\ UNCHANGED <<listed, revoked, up, alive, last, sending, late, queue>>

(* Mutant: the pages of an instance follow each other. *)
Offset_Adjacent(i) == (index[i] + page[i]) * DBFetchBatch

Offset(i) == index[i] * DBFetchBatch + total[i] * page[i] * DBFetchBatch

(* The rows offset + 1 .. offset + DBFetchBatch of the list. *)
Page(i) ==
  {u \in listed : Before(u, listed) >= Offset(i) /\ Before(u, listed) < Offset(i) + DBFetchBatch}

(* With total 0 all pages are the same and the number of the page does not  *)
(* matter.                                                                  *)
NextPage(i) == page' = [page EXCEPT ![i] = IF total[i] = 0 THEN 0 ELSE @ + 1]

(* A page is read and a goroutine begins to send it; a page that is not     *)
(* full is the last.                                                        *)
QueryPage(i) ==
  /\ i \in up /\ pc[i] = "query"
  /\ sending' = [sending EXCEPT ![i] = @ \cup Page(i)]
  /\ fetched' = [fetched EXCEPT ![i] = IF seen[i] = {} THEN {} ELSE @ \cup Page(i)]
  /\ IF Cardinality(Page(i)) = DBFetchBatch
     THEN NextPage(i) /\ UNCHANGED pc
     ELSE pc' = [pc EXCEPT ![i] = "send"] /\ UNCHANGED page
  /\ UNCHANGED <<listed, revoked, up, alive, total, index, last, seen, late, queue, faults>>

(* A query that fails skips its page. *)
QueryFails(i) ==
  /\ i \in up /\ pc[i] = "query" /\ Fault
  /\ Forget(i)
  /\ NextPage(i)
  /\ UNCHANGED <<listed, revoked, up, alive, pc, total, index, last, sending, late, queue>>

Send(i, u) ==
  /\ u \in sending[i] /\ Cardinality(queue[i]) < ChanSize
  /\ sending' = [sending EXCEPT ![i] = @ \ {u}]
  /\ queue' = [queue EXCEPT ![i] = @ \cup {u}]
  /\ UNCHANGED <<listed, revoked, up, alive, pc, roundVars, late, faults>>

(* The time of the round is up, for its later pages too. *)
Timeout(i) ==
  /\ pc[i] # "wait" /\ i \notin late /\ Fault
  /\ late' = late \cup {i}
  /\ UNCHANGED <<listed, revoked, up, alive, pc, roundVars, sending, queue>>

(* From then on a user may be dropped instead of sent. *)
Drop(i, u) ==
  /\ i \in late /\ u \in sending[i]
  /\ sending' = [sending EXCEPT ![i] = @ \ {u}]
  /\ UNCHANGED <<listed, revoked, up, alive, pc, roundVars, late, queue, faults>>

(* All is sent; the next round follows after the interval. *)
EndRound(i) ==
  /\ pc[i] = "send" /\ sending[i] = {}
  /\ pc' = [pc EXCEPT ![i] = "wait"] /\ late' = late \ {i}
  /\ UNCHANGED <<listed, revoked, up, alive, roundVars, sending, queue, faults>>

-----------------------------------------------------------------------------
(* The update workers.                                                      *)

(* The list becomes another one, which no round has begun with. *)
SetList(list) ==
  /\ listed' = list
  /\ IF list = listed THEN UNCHANGED <<seen, fetched>>
     ELSE seen' = [i \in Instances |-> {}] /\ fetched' = seen'

(* Mutant: nobody is taken off the list. *)
HandleRottenUsers_None(rotten) == listed

(* handleRottenUsers writes the remainder after full batches first. A full  *)
(* batch leaves none, its statement ends in "in )" and nobody is written.   *)
HandleRottenUsers(rotten) ==
  IF Cardinality(rotten) < DBUpdateBatch THEN listed \ rotten ELSE listed

(* UpdateUserSteps: some users are collected, their steps asked for and     *)
(* stored (StepStore), and then the revoked are handled. One user without   *)
(* steps is an HMSET without fields: its error comes before the revoked.    *)
UpdateUserSteps(i, users) ==
  /\ users # {} /\ Cardinality(users) <= DBUpdateBatch
  /\ queue' = [queue EXCEPT ![i] = @ \ users]
  /\ SetList(IF (users \cap Stepless) \subseteq revoked
             THEN HandleRottenUsers(users \cap revoked) ELSE listed)
  /\ UNCHANGED <<revoked, up, alive, pc, total, index, last, page, sending, late, faults>>

(* WeChat or the store of the steps fails: the users wait for their next    *)
(* round.                                                                   *)
UpdateFails(i, users) ==
  /\ users # {} /\ Cardinality(users) <= DBUpdateBatch /\ Fault
  /\ queue' = [queue EXCEPT ![i] = @ \ users]
  /\ UNCHANGED <<listed, revoked, up, alive, pc, roundVars, sending, late>>

(* A user comes who allows background updates; who has revoked does not     *)
(* come back.                                                               *)
Join(u) ==
  /\ u \notin listed \cup revoked
  /\ SetList(listed \cup {u})
  /\ UNCHANGED <<revoked, up, alive, pc, total, index, last, page, sending, late, queue, faults>>

-----------------------------------------------------------------------------

Dispatch(i) == GetWorkerCountAndIndex(i) \/ QueryPage(i) \/ EndRound(i)

Update(i) == \E users \in SUBSET queue[i] : UpdateUserSteps(i, users)

Next ==
  \/ \E i \in Instances :
       \/ Heartbeat(i) \/ Expire(i) \/ Stop(i) \/ Restart(i)
       \/ Dispatch(i) \/ LookupFails(i) \/ QueryFails(i) \/ Timeout(i)
       \/ \E u \in Users : Send(i, u) \/ Drop(i, u)
       \/ Update(i) \/ \E users \in SUBSET queue[i] : UpdateFails(i, users)
  \/ \E u \in Users : Join(u)

Spec == Init /\ [][Next]_vars

(* Timers fire, goroutines go on, whatever waits in the channel is taken    *)
(* with every tick, and the entry of a dead instance gets old.              *)
Fairness ==
  \A i \in Instances :
    /\ WF_vars(Heartbeat(i)) /\ WF_vars(i \notin up /\ Expire(i))
    /\ WF_vars(Dispatch(i))
    /\ WF_vars(\E u \in Users : Send(i, u))
    /\ \A u \in Users : WF_vars(\E users \in SUBSET queue[i] :
                                  u \in users /\ UpdateUserSteps(i, users))

FairSpec == Spec /\ Fairness

-----------------------------------------------------------------------------
(* Properties.                                                              *)

(* Every variable has its type; no number of an instance is negative, as    *)
(* that of one that does not find itself among the living would be.         *)
TypeOK ==
  /\ listed \subseteq Users /\ revoked \subseteq Users
  /\ up \subseteq Instances /\ alive \subseteq Instances
  /\ pc \in [Instances -> {"wait", "query", "send"}]
  /\ total \in [Instances -> Nat] /\ index \in [Instances -> Nat]
  /\ last \in [Instances -> [total : Nat, index : Nat]]
  /\ page \in [Instances -> Nat]
  /\ sending \in [Instances -> SUBSET Users] /\ queue \in [Instances -> SUBSET Users]
  /\ late \subseteq Instances
  /\ seen \in [Instances -> SUBSET Instances]
  /\ fetched \in [Instances -> SUBSET Users]
  /\ faults \in Nat

(* The number of a dispatcher is below that of the instances it has seen,   *)
(* so that its first page is one of theirs.                                 *)
IndexBelowTotal ==
  \A i \in Instances : seen[i] # {} => index[i] < total[i] /\ total[i] = Cardinality(seen[i])

Read(i) == seen[i] # {} /\ pc[i] # "query"

(* No user is in the rounds of two dispatchers that have seen the same      *)
(* instances, while the list is the one they began with, though each        *)
(* computes its part alone and they read at different times.                *)
PartsAreDisjoint ==
  \A i, j \in Instances :
    i # j /\ seen[i] # {} /\ seen[i] = seen[j] =>
      fetched[i] \cap fetched[j] = {}

(* When all the instances they have seen are through with their pages every *)
(* user of the list was in a round, wherever the pages end.                 *)
PartsAreComplete ==
  \A i \in Instances :
    (Read(i) /\ \A j \in seen[i] : Read(j) /\ seen[j] = seen[i]) =>
      UNION {fetched[j] : j \in seen[i]} = listed

(* After a failed lookup a dispatcher reads the first page for ever if it   *)
(* is full.                                                                 *)
Endless(i) == pc[i] = "query" /\ total[i] = 0 /\ Cardinality(listed) >= DBFetchBatch

(* Every user who allows it is handed to the update workers, and taken by   *)
(* them, again and again, though instances come and go, rounds fail, and    *)
(* other users leave the list and shift the pages, unless a dispatcher      *)
(* never ends its round.                                                    *)
AllUpdated ==
  \A u \in Users :
    LET stuck == u \notin listed \ revoked \/ \E i \in Instances : Endless(i)
        waiting == \E i \in Instances : u \in queue[i]
    IN []<>(stuck \/ waiting) /\ []<>(stuck \/ ~ waiting)

(* An update with u takes nobody off the list: another user of it has no    *)
(* steps, or all of them are revoked and fill it.                           *)
Spoiled(u) ==
  \E i \in Instances : \E users \in SUBSET queue[i] :
    /\ u \in users
    /\ ~ (users \cap Stepless) \subseteq revoked \/ Cardinality(users \cap revoked) = DBUpdateBatch
    /\ UpdateUserSteps(i, users)

(* A user who has revoked his permission is off the list in the end, though *)
(* updates and rounds fail and instances come and go, unless his updates    *)
(* are spoiled again and again or a dispatcher never ends its round.        *)
RevokedLeave ==
  \A u \in Users :
    []<><<Spoiled(u)>>_vars \/ <>[](u \notin listed \cap revoked \/ \E i \in Instances : Endless(i))

(* What the log of initDispatcher says of a failed lookup ("use old result  *)
(* total: %v, index: %v"), refuted: the old result is kept and never read.  *)
OldResultUsed ==
  \A i \in Instances :
    pc[i] = "query" => total[i] = last[i].total /\ index[i] = last[i].index
=============================================================================
