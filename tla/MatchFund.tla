------------------------------ MODULE MatchFund ------------------------------
(* How much a company pays for a match: the four rules of GenerateMatchFund *)
(* in match.go, and the filter against steps that nobody walks. What a rule *)
(* draws at random is the set of its outcomes, which is empty where         *)
(* rand.Intn would panic; funds are in fen.                                 *)
EXTENDS Integers, Sequences

CONSTANT Half  \* an int32 holds the numbers from -Half to Half - 1

ASSUME HalfAssumption == Half \in Nat \ {0}

(* What a product or sum of two of them is stored as. *)
Wrap(x) == ((x + Half) % (2 * Half)) - Half

(* What is left of the match item is never exceeded. *)
Capped(funds, remain) == {IF f > remain THEN remain ELSE f : f \in funds}

Wave(mean, wave) == mean - wave .. mean + wave

(* The remain rule: the last interval that what is left lies in; an end of  *)
(* -1 is none.                                                              *)
RemainFunds(rules, remain) ==
  LET hits == {i \in 1 .. Len(rules) :
                 rules[i].start <= remain /\ (rules[i].end = -1 \/ remain < rules[i].end)}
  IN  IF hits = {} THEN {0}
      ELSE UNION {Capped(rules[i].from .. rules[i].to, remain) :
                    i \in {j \in hits : \A k \in hits : k <= j}}

(* The two buff rules: the mean fund of the day with its wave. *)
BuffFunds(meta, buffed, remain) ==
  IF meta.basic < meta.basicWave THEN Capped({meta.basic}, remain)
  ELSE IF buffed THEN Capped(Wave(meta.buff, meta.buffWave), remain)
  ELSE Capped(Wave(meta.basic, meta.basicWave), remain)

(* The combo rule: every so many days of a streak; combo counts the days    *)
(* before today, of which the last has to be yesterday.                     *)
Buffed(yesterday, combo, threshold) ==
  yesterday /\ (threshold = 0 \/ (combo + 1 >= threshold /\ (combo + 1) % threshold = 0))

(* The percent rule: one number of a hundred. *)
PercentFunds(meta, percent, remain) ==
  UNION {BuffFunds(meta, n < percent, remain) : n \in 0 .. 99}

(* A quotient is rounded towards zero; b is positive. *)
Quotient(a, b) == IF a >= 0 THEN a \div b ELSE -((-a) \div b)

(* The step rule: a share between two funds, in the arithmetic of int32. *)
StepShare(rule, step) ==
  IF step >= rule.maxSteps \/ rule.maxSteps = rule.minSteps THEN rule.maxMatch
  ELSE Wrap(rule.minMatch
            + Quotient(Wrap((rule.maxMatch - rule.minMatch) * (step - rule.minSteps)),
                       rule.maxSteps - rule.minSteps))

StepFunds(rule, step, remain) == Capped({StepShare(rule, step)}, remain)

(* Suspicious steps get what the first filter of the hour says, whatever is *)
(* left; a combo rule whose wave is too large has returned before.          *)
Filtered(filters, hour, step, funds) ==
  LET hits == {i \in 1 .. Len(filters) :
                 filters[i].start < hour /\ hour < filters[i].end /\ step > filters[i].steps}
  IN  IF hits = {} THEN funds
      ELSE {filters[i].money : i \in {j \in hits : \A k \in hits : j <= k}}

ComboFunds(meta, buffed, remain, filters, hour, step) ==
  IF meta.basic < meta.basicWave THEN BuffFunds(meta, buffed, remain)
  ELSE Filtered(filters, hour, step, BuffFunds(meta, buffed, remain))

(* GenerateMatchFund, once the record has said that today is not matched.   *)
MatchFunds(item, yesterday, combo, step, hour) ==
  CASE item.type = "remain" -> RemainFunds(item.rules, item.remain)
    [] item.type = "percent" -> PercentFunds(item.meta, item.percent, item.remain)
    [] item.type = "combo" ->
         ComboFunds(item.meta, Buffed(yesterday, combo, item.threshold), item.remain,
                    item.filters, hour, step)
    [] item.type = "step" ->
         Filtered(item.filters, hour, step, StepFunds(item.share, step, item.remain))
=============================================================================
