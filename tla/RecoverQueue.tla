---------------------------- MODULE RecoverQueue ----------------------------
(* The recovery queue of fundmgr: a Redis list of what has to be rebuilt    *)
(* and, beside it, a Redis set of what the list holds. Each of the two      *)
(* scripts runs atomically on the Redis server.                             *)
EXTENDS Sequences, Collections

CONSTANT Elements   \* what can be rebuilt: activity ids, the company rank key

VARIABLES queue,    \* the list FUNDMGR_RECOVER_QUEUE
          queueSet  \* the set FUNDMGR_RECOVER_QUEUE_set

Init == queue = <<>> /\ queueSet = {}

(* Mutant: the set is not asked. *)
Push_Unchecked(e) ==
  /\ queueSet' = queueSet \cup {e}
  /\ queue' = Append(queue, e)

(* SCRIPT_PUSH: what is in the set already is not pushed again. *)
Push(e) ==
  IF e \in queueSet THEN UNCHANGED <<queue, queueSet>>
  ELSE /\ queueSet' = queueSet \cup {e}
       /\ queue' = Append(queue, e)

(* SCRIPT_POP *)
Pop(e) ==
  /\ queue # <<>> /\ e = Head(queue)
  /\ queue' = Tail(queue)
  /\ queueSet' = queueSet \ {e}

(* Redis loses both keys: they have no expiry and go together with their    *)
(* instance (the braces of the name put them into one slot).                *)
Lose == queue' = <<>> /\ queueSet' = {}

Next == (\E e \in Elements : Push(e) \/ Pop(e)) \/ Lose

Spec == Init /\ [][Next]_<<queue, queueSet>>

-----------------------------------------------------------------------------

(* The set holds exactly what the list holds and the list holds it once:    *)
(* nothing that waits is pushed again, and nothing that was popped is kept  *)
(* out of the queue for ever.                                               *)
QueueIsSet == Lists(queue, queueSet)
=============================================================================
