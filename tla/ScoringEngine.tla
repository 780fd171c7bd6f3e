---------------------------- MODULE ScoringEngine ----------------------------
(***************************************************************************)
(* The Regret Risk engine: the pure function of scoring.engine.ts and the  *)
(* tables of scoring.config.ts it reads.                                   *)
(*                                                                         *)
(* Amounts are whole cents, ages whole hours, regret rates whole percents, *)
(* and a missing amount is 0, which the code treats alike.  Points are     *)
(* exact: a point is Point(budget) units, the least common denominator of  *)
(* the factors, where the code adds doubles.                               *)
(***************************************************************************)
EXTENDS Integers, Sequences

-----------------------------------------------------------------------------
(* scoring.config.ts.                                                      *)

weights == [priceVsBudget |-> 30, similarOwned |-> 20, saleUrgency |-> 15,
            recency |-> 15, categoryRegretRate |-> 20]

defaultWhenInsufficientData == 10
minSampleSize == 5

\* A band of a table: bounds are inclusive, null is no bound.
UpTo(max, value) == [open |-> FALSE, max |-> max, value |-> value]
Otherwise(value) == [open |-> TRUE, max |-> 0, value |-> value]

verdictThresholds ==
    <<UpTo(30, "GO_FOR_IT"), UpTo(50, "THINK_ABOUT_IT"), UpTo(70, "PAUSE"),
      UpTo(100, "LIKELY_REGRET")>>

pauseHoursByPrice == <<UpTo(15000, 24), UpTo(50000, 48), Otherwise(72)>>

PointsOutOfOrder ==  \* fault: the points of two buckets swapped
    <<UpTo(1, 10), UpTo(24, 15), UpTo(168, 5), Otherwise(0)>>

recencyBuckets == <<UpTo(1, 15), UpTo(24, 10), UpTo(168, 5), Otherwise(0)>>

Last(bands) == bands[Len(bands)]

\* bands.find(...) ?? lastOf(bands): the first band that fits.
FirstFit(bands, amount) ==
    LET fits == {k \in 1..Len(bands) : bands[k].open \/ amount <= bands[k].max}
    IN  IF fits = {} THEN Last(bands).value
        ELSE bands[CHOOSE k \in fits : \A j \in fits : k <= j].value

-----------------------------------------------------------------------------
(* The factors, each a label and a weight in units.                        *)

Point(budget) == 100 * budget

isUsableAmount(amount) == amount > 0

Lesser(x, y) == IF x < y THEN x ELSE y

priceVsBudgetPoints(price, budget) ==
    Lesser(weights.priceVsBudget * Point(budget),
           weights.priceVsBudget * 100 * price)

similarOwnedPoints(similarOwned) ==
    IF similarOwned THEN weights.similarOwned ELSE 0

saleUrgencyPoints(detectedSaleLanguage) ==
    IF detectedSaleLanguage THEN weights.saleUrgency ELSE 0

recencyPoints(ageHours) == FirstFit(recencyBuckets, ageHours)

\* No row in the table and a row without samples are treated alike.
Insufficient(stats) == stats.sampleSize < minSampleSize

categoryRegretRatePoints(stats, budget) ==
    IF Insufficient(stats) THEN defaultWhenInsufficientData * Point(budget)
    ELSE stats.regretRate * weights.categoryRegretRate * budget

priceVsBudgetLabel(weight, budget) ==
    LET max == weights.priceVsBudget * Point(budget)
    IN  CASE weight >= max -> "priceHigh"
          [] weight < max /\ 2 * weight >= max -> "priceModerate"
          [] 2 * weight < max -> "priceLow"

recencyLabel(points) ==
    CASE points = recencyBuckets[1].value -> "recencyHour"
      [] points = recencyBuckets[2].value -> "recencyDay"
      [] points = recencyBuckets[3].value -> "recencyWeek"
      [] OTHER -> "recencyOlder"

categoryRegretLabel(stats, weight, budget) ==
    LET max == weights.categoryRegretRate * Point(budget)
    IN  CASE Insufficient(stats) -> "categoryInsufficient"
          [] ~Insufficient(stats) /\ 2 * weight >= max -> "categoryHigh"
          [] ~Insufficient(stats) /\ 2 * weight < max /\ weight > 0 ->
                "categoryModerate"
          [] ~Insufficient(stats) /\ weight <= 0 -> "categoryLow"

Factor(label, weight) == [label |-> label, weight |-> weight]

\* in: what ScoringService hands to computeRegretScore.
Factors(in) ==
    LET budget == in.monthlyBudget
        priceVsBudget == priceVsBudgetPoints(in.price, budget)
        recency == recencyPoints(in.ageHours)
        category == categoryRegretRatePoints(in.stats, budget)
    IN  [priceVsBudget |->
            Factor(priceVsBudgetLabel(priceVsBudget, budget), priceVsBudget),
         similarOwned |->
            Factor(IF in.similarOwned THEN "similarOwnedYes"
                                      ELSE "similarOwnedNo",
                   similarOwnedPoints(in.similarOwned) * Point(budget)),
         saleUrgency |->
            Factor(IF in.detectedSaleLanguage THEN "saleYes" ELSE "saleNo",
                   saleUrgencyPoints(in.detectedSaleLanguage)
                       * Point(budget)),
         recency |->
            Factor(recencyLabel(recency), recency * Point(budget)),
         categoryRegretRate |->
            Factor(categoryRegretLabel(in.stats, category, budget),
                   category)]

-----------------------------------------------------------------------------
(* The score.                                                              *)

verdictFor(score) == FirstFit(verdictThresholds, score)

pauseHoursForPrice(price) == FirstFit(pauseHoursByPrice, price)

scoreCap == Last(verdictThresholds).max

\* Math.round of units over the units of a point: halves go up.
Rounded(units, budget) ==
    (2 * units + Point(budget)) \div (2 * Point(budget))

RawTotal(factors) ==
    factors.priceVsBudget.weight + factors.similarOwned.weight
    + factors.saleUrgency.weight + factors.recency.weight
    + factors.categoryRegretRate.weight

Uncapped(factors, budget) ==  \* fault: only the rounding
    Rounded(RawTotal(factors), budget)

CappedScore(factors, budget) ==
    Lesser(scoreCap, Rounded(RawTotal(factors), budget))

youDecide(label, pauseHours) ==
    [score |-> 0, verdict |-> "YOU_DECIDE",
     factors |-> [decide |-> Factor(label, 0)], pauseHours |-> pauseHours]

computeRegretScore(in) ==
    LET pauseHours == pauseHoursForPrice(
                          IF isUsableAmount(in.price) THEN in.price ELSE 0)
        factors == Factors(in)
        score == CappedScore(factors, in.monthlyBudget)
    IN  IF ~isUsableAmount(in.price)
        THEN youDecide("invalidPrice", pauseHours)
        ELSE IF ~isUsableAmount(in.monthlyBudget)
        THEN youDecide("missingBudget", pauseHours)
        ELSE [score |-> score, verdict |-> verdictFor(score),
              factors |-> factors, pauseHours |-> pauseHours]

=============================================================================
