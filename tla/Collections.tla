---------------------------- MODULE Collections ----------------------------
(* What several models say of lists: where a member of an ordered list      *)
(* stands, and which set a sequence lists. Sums are SumFunctionOnSet and    *)
(* SumFunction of the community modules.                                    *)
EXTENDS Naturals, Sequences, FiniteSets

(* How many members of a list come before e: Redis lists a sorted set, and  *)
(* MySQL a primary key, in ascending order.                                 *)
Before(e, S) == Cardinality({x \in S : x < e})

(* The sequence lists the members of the set, each of them once.            *)
Lists(q, S) ==
  /\ S = {q[i] : i \in 1 .. Len(q)}
  /\ \A i, j \in 1 .. Len(q) : q[i] = q[j] => i = j
=============================================================================
