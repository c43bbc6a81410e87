---------------------------- MODULE MCUserMatch ----------------------------
(* UserMatch for TLC: requests are interchangeable, and the funds are those *)
(* that a remain rule of two fen can draw. The rules of MatchFund are       *)
(* compared with plain definitions for all small inputs.                    *)
EXTENDS UserMatch, MatchFund, TLC

Symmetry == Permutations(Reqs)

DrawnFunds ==
  LET rule == [start |-> 0, end |-> -1, from |-> 1, to |-> 2]
  IN  MatchFunds([type |-> "remain", rules |-> <<rule>>, remain |-> 5], FALSE, 0, 0, 0)

(* The share of the steps between the minimum and the maximum is the        *)
(* proportion, rounded down to a fen.                                       *)
ASSUME ShareIsProportion ==
  \A minSteps \in 0 .. 2, maxSteps \in 3 .. 5, minMatch \in 0 .. 3, maxMatch \in 3 .. 6 :
    \A step \in minSteps .. maxSteps :
      LET rule == [minSteps |-> minSteps, maxSteps |-> maxSteps,
                   minMatch |-> minMatch, maxMatch |-> maxMatch]
      IN  StepShare(rule, step) =
            CHOOSE f \in minMatch .. maxMatch :
              /\ (f - minMatch) * (maxSteps - minSteps) <= (maxMatch - minMatch) * (step - minSteps)
              /\ (f + 1 - minMatch) * (maxSteps - minSteps) > (maxMatch - minMatch) * (step - minSteps)

(* Of a streak of days, the buff comes on the multiples of the threshold,   *)
(* from the second day on.                                                  *)
ASSUME BuffDays ==
  \A threshold \in 1 .. 4 :
    {day \in 1 .. 9 : Buffed(day > 1, day - 1, threshold)}
      = {day \in 2 .. 9 : \E n \in 1 .. 9 : day = n * threshold}

(* The last of the intervals that hold what is left decides, without any    *)
(* nothing is paid, and what is left is all that can be paid.               *)
ASSUME RemainIntervals ==
  LET rules == <<[start |-> 0, end |-> 4, from |-> 1, to |-> 2],
                 [start |-> 3, end |-> 6, from |-> 4, to |-> 7]>>
  IN  [remain \in 1 .. 7 |-> RemainFunds(rules, remain)]
        = <<{1}, {1, 2}, {3}, {4}, {4, 5}, {0}, {0}>>
=============================================================================
