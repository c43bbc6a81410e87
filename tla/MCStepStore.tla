---------------------------- MODULE MCStepStore ----------------------------
(* StepStore for TLC: one request of two users, which is more than a batch, *)
(* and requests of one user with one date or with the whole month.          *)
EXTENDS StepStore, TLC

CONSTANTS u1, u2

One(u, d, n) == [user |-> u, steps |-> (d :> n)]
Month(u, n) == [user |-> u, steps |-> [d \in Days |-> n]]
Request(items) == [items |-> items, background |-> FALSE]

RequestsOfTwo == {Request({Month(u1, 1)}), Request({One(u1, 2, 2), One(u2, 1, 1)})}
Symmetry == Permutations(Clients) \cup Permutations(SetWorkers)
=============================================================================
