------------------------ MODULE ScoringEngineProofs ------------------------
(***************************************************************************)
(* What the Regret Risk engine computes, for every price, budget, age and  *)
(* regret rate.                                                            *)
(***************************************************************************)
EXTENDS ScoringEngine, TLAPS

(* What first fit finds in a table of three bands and a last one.          *)
LEMMA FirstFitOfFour ==
    ASSUME NEW a, NEW b, NEW c, NEW d, NEW amount \in Int,
           NEW bands, bands = <<a, b, c, d>>,
           ~a.open, ~b.open, ~c.open,
           a.max \in Int, b.max \in Int, c.max \in Int,
           d.open \/ amount <= d.max
    PROVE  FirstFit(bands, amount) =
               IF amount <= a.max THEN a.value
               ELSE IF amount <= b.max THEN b.value
               ELSE IF amount <= c.max THEN c.value
               ELSE d.value
<1> DEFINE fits == {k \in 1..Len(bands) :
                        bands[k].open \/ amount <= bands[k].max}
           first == CHOOSE k \in fits : \A j \in fits : k <= j
<1>1. Len(bands) = 4 /\ bands[1] = a /\ bands[2] = b /\ bands[3] = c
      /\ bands[4] = d
  OBVIOUS
<1>2. 1..4 = {1, 2, 3, 4}
  OBVIOUS
<1>3. /\ 1 \in fits <=> amount <= a.max
      /\ 2 \in fits <=> amount <= b.max
      /\ 3 \in fits <=> amount <= c.max
      /\ 4 \in fits
      /\ fits \subseteq {1, 2, 3, 4}
  BY <1>1, <1>2
<1>4. FirstFit(bands, amount) = bands[first].value
  BY <1>3 DEF FirstFit
<1> HIDE DEF fits
<1>5. ASSUME NEW k \in fits, \A j \in fits : k <= j
      PROVE  first = k
  <2>1. \A m \in fits : (\A j \in fits : m <= j) => m = k
    BY <1>3, <1>5
  <2> QED  BY <1>5, <2>1
<1> HIDE DEF first
<1>6. CASE amount <= a.max
  BY <1>1, <1>3, <1>4, <1>5, <1>6
<1>7. CASE ~(amount <= a.max) /\ amount <= b.max
  BY <1>1, <1>3, <1>4, <1>5, <1>7
<1>8. CASE ~(amount <= a.max) /\ ~(amount <= b.max) /\ amount <= c.max
  BY <1>1, <1>3, <1>4, <1>5, <1>8
<1>9. CASE ~(amount <= a.max) /\ ~(amount <= b.max) /\ ~(amount <= c.max)
  BY <1>1, <1>3, <1>4, <1>5, <1>9
<1> QED  BY <1>6, <1>7, <1>8, <1>9

LEMMA VerdictBands ==
    ASSUME NEW n \in Int, n <= 100
    PROVE  verdictFor(n) = IF n <= 30 THEN "GO_FOR_IT"
                           ELSE IF n <= 50 THEN "THINK_ABOUT_IT"
                           ELSE IF n <= 70 THEN "PAUSE"
                           ELSE "LIKELY_REGRET"
BY FirstFitOfFour DEF verdictFor, verdictThresholds, UpTo

LEMMA RecencyBands ==
    ASSUME NEW age \in Int
    PROVE  recencyPoints(age) = IF age <= 1 THEN 15
                                ELSE IF age <= 24 THEN 10
                                ELSE IF age <= 168 THEN 5
                                ELSE 0
BY FirstFitOfFour DEF recencyPoints, recencyBuckets, UpTo, Otherwise

-----------------------------------------------------------------------------
(* Rounding.                                                               *)

LEMMA PointIsPositive ==
    ASSUME NEW budget \in Nat \ {0}
    PROVE  Point(budget) \in Nat \ {0}
BY DEF Point

(* The rounded sum is the whole number nearest to it.                      *)
LEMMA RoundedIsNearest ==
    ASSUME NEW units \in Int, NEW budget \in Nat \ {0}
    PROVE  /\ Rounded(units, budget) \in Int
           /\ 2 * units < (2 * Rounded(units, budget) + 1) * Point(budget)
           /\ 2 * units >= (2 * Rounded(units, budget) - 1) * Point(budget)
<1> DEFINE p == Point(budget)
           n == Rounded(units, budget)
<1>1. p \in Nat \ {0}
  BY PointIsPositive
<1>2. n = (2 * units + p) \div (2 * p)
  BY DEF Rounded
<1> HIDE DEF p, n
<1>3. n \in Int /\ n * (2 * p) <= 2 * units + p
      /\ 2 * units + p < (n + 1) * (2 * p)
  BY <1>1, <1>2
<1>4. (2 * n + 1) * p = (n + 1) * (2 * p) - p
      /\ (2 * n - 1) * p = n * (2 * p) - p
  BY <1>1, <1>3
<1>5. n \in Int /\ 2 * units < (2 * n + 1) * p /\ 2 * units >= (2 * n - 1) * p
  BY <1>1, <1>3, <1>4
<1> QED  BY <1>5 DEF p, n

(* More units never round to less.                                         *)
LEMMA RoundedIsMonotone ==
    ASSUME NEW x \in Int, NEW y \in Int, NEW budget \in Nat \ {0}, x <= y
    PROVE  Rounded(x, budget) <= Rounded(y, budget)
<1> DEFINE p == Point(budget)
           m == Rounded(x, budget)
           n == Rounded(y, budget)
<1>1. p \in Nat \ {0}
  BY PointIsPositive
<1>2. /\ m \in Int /\ n \in Int
      /\ 2 * y < (2 * n + 1) * p
      /\ 2 * x >= (2 * m - 1) * p
  BY RoundedIsNearest
<1> HIDE DEF p, m, n
<1>3. ASSUME m >= n + 1
      PROVE  FALSE
  <2>1. 2 * m - 1 >= 2 * n + 1
    BY <1>2, <1>3
  <2>2. (2 * m - 1) * p >= (2 * n + 1) * p
    BY <1>1, <1>2, <2>1
  <2> QED  BY <1>1, <1>2, <2>2
<1>4. m <= n
  BY <1>2, <1>3
<1> QED  BY <1>4 DEF m, n

-----------------------------------------------------------------------------
(* Inputs, and what their factors add up to.                               *)

EngineInputs ==
    [price : Nat, monthlyBudget : Nat, ageHours : Int,
     detectedSaleLanguage : BOOLEAN, similarOwned : BOOLEAN,
     stats : [regretRate : Nat, sampleSize : Nat]]

Usable(in) == in.price > 0 /\ in.monthlyBudget > 0

(* A product with a literal is not left to the prover's mercy below.       *)
LEMMA Products ==
    ASSUME NEW a \in Nat, NEW b \in Nat
    PROVE  a * b \in Nat
OBVIOUS

LEMMA TimesKeepsOrder ==
    ASSUME NEW a \in Int, NEW b \in Int, NEW c \in Nat
    PROVE  /\ a <= b => a * c <= b * c
           /\ a < b /\ c # 0 => a * c < b * c
OBVIOUS

LEMMA PositiveTimes ==
    ASSUME NEW a \in Nat \ {0}, NEW b \in Nat \ {0}
    PROVE  a * b \in Nat \ {0}
OBVIOUS

LEMMA PricePoints ==
    ASSUME NEW price \in Nat, NEW budget \in Nat
    PROVE  priceVsBudgetPoints(price, budget) \in Nat
BY DEF priceVsBudgetPoints, Lesser, weights, Point

LEMMA OtherPoints ==
    ASSUME NEW in \in EngineInputs
    PROVE  /\ similarOwnedPoints(in.similarOwned) \in Nat
           /\ saleUrgencyPoints(in.detectedSaleLanguage) \in Nat
           /\ recencyPoints(in.ageHours) \in Nat
           /\ categoryRegretRatePoints(in.stats, in.monthlyBudget) \in Nat
<1>1. in.ageHours \in Int
  BY DEF EngineInputs
<1>2. recencyPoints(in.ageHours) \in {15, 10, 5, 0}
  BY <1>1, RecencyBands
<1>3. categoryRegretRatePoints(in.stats, in.monthlyBudget) \in Nat
  <2>1. in.stats.regretRate \in Nat /\ in.monthlyBudget \in Nat
    BY DEF EngineInputs
  <2>2. in.stats.regretRate * 20 \in Nat
    BY <2>1, Products
  <2>3. in.stats.regretRate * 20 * in.monthlyBudget \in Nat
    BY <2>1, <2>2, Products
  <2>4. 10 * (100 * in.monthlyBudget) \in Nat
    BY <2>1
  <2> QED
    BY <2>3, <2>4
    DEF categoryRegretRatePoints, weights, defaultWhenInsufficientData, Point
<1> QED
  BY <1>2, <1>3 DEF similarOwnedPoints, saleUrgencyPoints, weights

(* The sum, with the labels gone.                                          *)
LEMMA TotalOfFactors ==
    ASSUME NEW in \in EngineInputs
    PROVE  /\ RawTotal(Factors(in)) =
                 priceVsBudgetPoints(in.price, in.monthlyBudget)
                 + similarOwnedPoints(in.similarOwned) * Point(in.monthlyBudget)
                 + saleUrgencyPoints(in.detectedSaleLanguage)
                       * Point(in.monthlyBudget)
                 + recencyPoints(in.ageHours) * Point(in.monthlyBudget)
                 + categoryRegretRatePoints(in.stats, in.monthlyBudget)
           /\ RawTotal(Factors(in)) \in Nat
<1>1. Point(in.monthlyBudget) \in Nat
  BY DEF Point, EngineInputs
<1>2. priceVsBudgetPoints(in.price, in.monthlyBudget) \in Nat
  BY PricePoints DEF EngineInputs
<1>3. RawTotal(Factors(in)) =
                 priceVsBudgetPoints(in.price, in.monthlyBudget)
                 + similarOwnedPoints(in.similarOwned) * Point(in.monthlyBudget)
                 + saleUrgencyPoints(in.detectedSaleLanguage)
                       * Point(in.monthlyBudget)
                 + recencyPoints(in.ageHours) * Point(in.monthlyBudget)
                 + categoryRegretRatePoints(in.stats, in.monthlyBudget)
  BY DEF RawTotal, Factors, Factor
<1>4. /\ similarOwnedPoints(in.similarOwned) * Point(in.monthlyBudget) \in Nat
      /\ saleUrgencyPoints(in.detectedSaleLanguage) * Point(in.monthlyBudget)
            \in Nat
      /\ recencyPoints(in.ageHours) * Point(in.monthlyBudget) \in Nat
  BY <1>1, OtherPoints, Products
<1> QED  BY <1>2, <1>3, <1>4, OtherPoints

LEMMA ScoreOfUsable ==
    ASSUME NEW in \in EngineInputs, Usable(in)
    PROVE  LET total == RawTotal(Factors(in))
               score == computeRegretScore(in).score
           IN  /\ score = Lesser(100, Rounded(total, in.monthlyBudget))
               /\ computeRegretScore(in).verdict = verdictFor(score)
               /\ computeRegretScore(in).factors = Factors(in)
               /\ score \in 0..100
<1> DEFINE total == RawTotal(Factors(in))
           rounded == Rounded(total, in.monthlyBudget)
<1>1. scoreCap = 100
  BY DEF scoreCap, Last, verdictThresholds, UpTo
<1>2. total \in Nat
  BY TotalOfFactors
<1>3. in.monthlyBudget \in Nat \ {0}
  BY DEF EngineInputs, Usable
<1>4. /\ computeRegretScore(in).score = Lesser(100, rounded)
      /\ computeRegretScore(in).verdict = verdictFor(Lesser(100, rounded))
      /\ computeRegretScore(in).factors = Factors(in)
  <2>1. isUsableAmount(in.price) /\ isUsableAmount(in.monthlyBudget)
    BY DEF isUsableAmount, Usable
  <2>2. CappedScore(Factors(in), in.monthlyBudget) = Lesser(100, rounded)
    BY <1>1 DEF CappedScore
  <2> HIDE DEF rounded
  <2> QED  BY <2>1, <2>2 DEF computeRegretScore
<1>5. rounded \in Nat
  <2>0. total \in Int
    BY <1>2
  <2> HIDE DEF total
  <2>1. /\ rounded \in Int
        /\ 2 * total < (2 * rounded + 1) * Point(in.monthlyBudget)
    BY <2>0, <1>3, RoundedIsNearest
  <2>2. Point(in.monthlyBudget) \in Nat \ {0}
    BY <1>3, PointIsPositive
  <2> HIDE DEF rounded
  <2>3. ASSUME rounded < 0 PROVE FALSE
    <3>1. 2 * rounded + 1 <= -1
      BY <2>1, <2>3
    <3>2. (2 * rounded + 1) * Point(in.monthlyBudget) <= 0
      BY <2>1, <2>2, <3>1
    <3> QED  BY <1>2, <2>1, <2>2, <3>2
  <2> QED  BY <2>1, <2>3
<1> HIDE DEF rounded
<1>6. Lesser(100, rounded) \in 0..100
  BY <1>5 DEF Lesser
<1> QED  BY <1>4, <1>6 DEF rounded

-----------------------------------------------------------------------------
(* What the engine promises.                                               *)

(* A score is a whole number in 0..100, its verdict is the inclusive band  *)
(* it is in, and YOU_DECIDE is the verdict exactly when the price or the   *)
(* budget is unusable, always with the sentinel 0 (scoring.engine.ts       *)
(* computeRegretScore, youDecide).                                         *)
THEOREM ScoresAndVerdicts ==
    ASSUME NEW in \in EngineInputs
    PROVE  LET result == computeRegretScore(in)
           IN  /\ result.score \in 0..100
               /\ result.verdict = "YOU_DECIDE" <=> ~Usable(in)
               /\ ~Usable(in) => result.score = 0
               /\ Usable(in) =>
                     /\ result.verdict = "GO_FOR_IT" <=> result.score <= 30
                     /\ result.verdict = "THINK_ABOUT_IT" <=>
                           result.score \in 31..50
                     /\ result.verdict = "PAUSE" <=> result.score \in 51..70
                     /\ result.verdict = "LIKELY_REGRET" <=> result.score > 70
<1> DEFINE result == computeRegretScore(in)
<1>1. CASE Usable(in)
  <2>1. result.score \in 0..100 /\ result.verdict = verdictFor(result.score)
    BY <1>1, ScoreOfUsable
  <2> HIDE DEF result
  <2>2. result.verdict = IF result.score <= 30 THEN "GO_FOR_IT"
                         ELSE IF result.score <= 50 THEN "THINK_ABOUT_IT"
                         ELSE IF result.score <= 70 THEN "PAUSE"
                         ELSE "LIKELY_REGRET"
    BY <2>1, VerdictBands
  <2>3. /\ result.score \in 0..100
        /\ result.verdict # "YOU_DECIDE"
        /\ result.verdict = "GO_FOR_IT" <=> result.score <= 30
        /\ result.verdict = "THINK_ABOUT_IT" <=> result.score \in 31..50
        /\ result.verdict = "PAUSE" <=> result.score \in 51..70
        /\ result.verdict = "LIKELY_REGRET" <=> result.score > 70
    BY <2>1, <2>2
  <2> QED  BY <1>1, <2>3 DEF result
<1>2. CASE ~Usable(in)
  <2>1. ~isUsableAmount(in.price) \/ ~isUsableAmount(in.monthlyBudget)
    BY <1>2 DEF Usable, isUsableAmount
  <2>2. \E label, hours : result = youDecide(label, hours)
    <3>1. CASE ~isUsableAmount(in.price)
      BY <3>1 DEF computeRegretScore
    <3>2. CASE isUsableAmount(in.price) /\ ~isUsableAmount(in.monthlyBudget)
      BY <3>2 DEF computeRegretScore
    <3> QED  BY <2>1, <3>1, <3>2
  <2>3. result.score = 0 /\ result.verdict = "YOU_DECIDE"
    BY <2>2 DEF youDecide
  <2> QED  BY <1>2, <2>3
<1> QED  BY <1>1, <1>2

(* The breakdown explains the score: it is the whole number nearest to the *)
(* sum of the factors, halves rounded up, or the cap of 100 when they add  *)
(* up to at least that (scoring.engine.ts:174-175).                        *)
THEOREM FactorsExplainTheScore ==
    ASSUME NEW in \in EngineInputs, Usable(in)
    PROVE  LET result == computeRegretScore(in)
               total == RawTotal(result.factors)
               unit == Point(in.monthlyBudget)
           IN  \/ /\ 2 * total < (2 * result.score + 1) * unit
                  /\ 2 * total >= (2 * result.score - 1) * unit
               \/ result.score = 100 /\ total >= 100 * unit
<1> DEFINE total == RawTotal(Factors(in))
           unit == Point(in.monthlyBudget)
           rounded == Rounded(total, in.monthlyBudget)
           score == computeRegretScore(in).score
<1>1. /\ score = Lesser(100, rounded)
      /\ computeRegretScore(in).factors = Factors(in)
  BY ScoreOfUsable
<1>2. in.monthlyBudget \in Nat \ {0} /\ total \in Int
  BY TotalOfFactors DEF EngineInputs, Usable
<1>3. /\ rounded \in Int
      /\ 2 * total < (2 * rounded + 1) * unit
      /\ 2 * total >= (2 * rounded - 1) * unit
  BY <1>2, RoundedIsNearest
<1>4. unit \in Nat \ {0}
  BY <1>2, PointIsPositive
<1> HIDE DEF total, unit, rounded, score
<1>5. CASE rounded <= 100
  <2>1. score = rounded
    BY <1>1, <1>3, <1>5 DEF Lesser
  <2> QED  BY <1>1, <1>3, <2>1 DEF total, unit, score
<1>6. CASE rounded > 100
  <2>1. score = 100
    BY <1>1, <1>3, <1>6 DEF Lesser
  <2>2. 2 * rounded - 1 >= 200
    BY <1>3, <1>6
  <2>3. (2 * rounded - 1) * unit >= 200 * unit
    BY <1>3, <1>4, <2>2
  <2>4. total >= 100 * unit
    BY <1>2, <1>3, <1>4, <2>3
  <2> QED  BY <1>1, <2>1, <2>4 DEF total, unit, score
<1> QED  BY <1>3, <1>5, <1>6

(* A sum that is not smaller does not give a lower score.                  *)
LEMMA MoreUnitsMoreScore ==
    ASSUME NEW in \in EngineInputs, NEW other \in EngineInputs,
           Usable(in), Usable(other), in.monthlyBudget = other.monthlyBudget,
           RawTotal(Factors(in)) <= RawTotal(Factors(other))
    PROVE  computeRegretScore(in).score <= computeRegretScore(other).score
<1> DEFINE m == Rounded(RawTotal(Factors(in)), in.monthlyBudget)
           n == Rounded(RawTotal(Factors(other)), in.monthlyBudget)
<1>1. /\ in.monthlyBudget \in Nat \ {0}
      /\ RawTotal(Factors(in)) \in Int
      /\ RawTotal(Factors(other)) \in Int
  BY TotalOfFactors DEF EngineInputs, Usable
<1>2. m \in Int /\ n \in Int /\ m <= n
  BY <1>1, RoundedIsNearest, RoundedIsMonotone
<1>3. /\ computeRegretScore(in).score = Lesser(100, m)
      /\ computeRegretScore(other).score = Lesser(100, n)
  BY ScoreOfUsable
<1> HIDE DEF m, n
<1> QED  BY <1>2, <1>3 DEF Lesser

(* A dearer item never scores lower, all else equal (scoring.engine.ts     *)
(* priceVsBudgetPoints).                                                   *)
THEOREM DearerNeverScoresLower ==
    ASSUME NEW in \in EngineInputs, NEW price \in Nat,
           Usable(in), in.price <= price
    PROVE  computeRegretScore(in).score
               <= computeRegretScore([in EXCEPT !.price = price]).score
<1> DEFINE other == [in EXCEPT !.price = price]
<1>1. /\ other \in EngineInputs
      /\ Usable(other)
      /\ other.price = price
      /\ other.monthlyBudget = in.monthlyBudget
      /\ other.ageHours = in.ageHours
      /\ other.similarOwned = in.similarOwned
      /\ other.detectedSaleLanguage = in.detectedSaleLanguage
      /\ other.stats = in.stats
  BY DEF EngineInputs, Usable
<1> HIDE DEF other
<1>2. priceVsBudgetPoints(in.price, in.monthlyBudget)
          <= priceVsBudgetPoints(other.price, in.monthlyBudget)
  BY <1>1 DEF priceVsBudgetPoints, Lesser, weights, Point, EngineInputs
<1>3. RawTotal(Factors(in)) <= RawTotal(Factors(other))
  <2> DEFINE rest == similarOwnedPoints(in.similarOwned)
                         * Point(in.monthlyBudget)
                     + saleUrgencyPoints(in.detectedSaleLanguage)
                         * Point(in.monthlyBudget)
  <2>1. /\ in.monthlyBudget \in Nat
        /\ priceVsBudgetPoints(in.price, in.monthlyBudget) \in Nat
        /\ priceVsBudgetPoints(other.price, in.monthlyBudget) \in Nat
    BY <1>1, PricePoints DEF EngineInputs
  <2>2. /\ similarOwnedPoints(in.similarOwned) * Point(in.monthlyBudget)
              \in Nat
        /\ saleUrgencyPoints(in.detectedSaleLanguage)
              * Point(in.monthlyBudget) \in Nat
        /\ recencyPoints(in.ageHours) * Point(in.monthlyBudget) \in Nat
        /\ categoryRegretRatePoints(in.stats, in.monthlyBudget) \in Nat
    <3>1. Point(in.monthlyBudget) \in Nat
      BY <2>1 DEF Point
    <3> QED  BY <3>1, OtherPoints, Products
  <2> QED  BY <1>1, <1>2, <2>1, <2>2, TotalOfFactors
<1>4. computeRegretScore(in).score <= computeRegretScore(other).score
  BY <1>1, <1>3, MoreUnitsMoreScore
<1> QED  BY <1>4 DEF other

(* "Newer discoveries score higher" (scoring.config.ts:49-52): with age    *)
(* alone a score never rises.                                              *)
THEOREM OlderNeverScoresHigher ==
    ASSUME NEW in \in EngineInputs, NEW age \in Int,
           Usable(in), in.ageHours <= age
    PROVE  computeRegretScore([in EXCEPT !.ageHours = age]).score
               <= computeRegretScore(in).score
<1> DEFINE other == [in EXCEPT !.ageHours = age]
<1>1. /\ other \in EngineInputs
      /\ Usable(other)
      /\ other.price = in.price
      /\ other.monthlyBudget = in.monthlyBudget
      /\ other.ageHours = age
      /\ other.similarOwned = in.similarOwned
      /\ other.detectedSaleLanguage = in.detectedSaleLanguage
      /\ other.stats = in.stats
      /\ in.ageHours \in Int
  BY DEF EngineInputs, Usable
<1> HIDE DEF other
<1>2. /\ recencyPoints(other.ageHours) <= recencyPoints(in.ageHours)
      /\ recencyPoints(other.ageHours) \in Nat
      /\ recencyPoints(in.ageHours) \in Nat
  BY <1>1, RecencyBands
<1>3. RawTotal(Factors(other)) <= RawTotal(Factors(in))
  <2>0. in.price \in Nat /\ in.monthlyBudget \in Nat
    BY DEF EngineInputs
  <2>1. /\ Point(in.monthlyBudget) \in Nat
        /\ priceVsBudgetPoints(in.price, in.monthlyBudget) \in Nat
    <3>1. Point(in.monthlyBudget) \in Nat
      BY <2>0 DEF Point
    <3> QED  BY <2>0, <3>1, PricePoints
  <2>2. /\ similarOwnedPoints(in.similarOwned) * Point(in.monthlyBudget)
              \in Nat
        /\ saleUrgencyPoints(in.detectedSaleLanguage)
              * Point(in.monthlyBudget) \in Nat
        /\ recencyPoints(in.ageHours) * Point(in.monthlyBudget) \in Nat
        /\ recencyPoints(other.ageHours) * Point(in.monthlyBudget) \in Nat
        /\ categoryRegretRatePoints(in.stats, in.monthlyBudget) \in Nat
    BY <1>2, <2>1, OtherPoints, Products
  <2>3. recencyPoints(other.ageHours) * Point(in.monthlyBudget)
            <= recencyPoints(in.ageHours) * Point(in.monthlyBudget)
    BY <1>2, <2>1
  <2> QED  BY <1>1, <2>1, <2>2, <2>3, TotalOfFactors
<1>4. computeRegretScore(other).score <= computeRegretScore(in).score
  BY <1>1, <1>3, MoreUnitsMoreScore
<1> QED  BY <1>4 DEF other

(* The signals that speak against a purchase never lower the score: a      *)
(* similar item already owned, sale language, a category that was          *)
(* regretted more often (scoring.engine.ts similarOwnedPoints,             *)
(* saleUrgencyPoints, categoryRegretRatePoints).                           *)
THEOREM WarningsNeverLowerTheScore ==
    ASSUME NEW in \in EngineInputs, NEW other \in EngineInputs,
           Usable(in),
           other.price = in.price, other.monthlyBudget = in.monthlyBudget,
           other.ageHours = in.ageHours,
           in.similarOwned => other.similarOwned,
           in.detectedSaleLanguage => other.detectedSaleLanguage,
           Insufficient(in.stats) <=> Insufficient(other.stats),
           in.stats.regretRate <= other.stats.regretRate
    PROVE  computeRegretScore(in).score <= computeRegretScore(other).score
<1> DEFINE budget == in.monthlyBudget
<1>1. /\ in.price \in Nat /\ budget \in Nat
      /\ in.stats.regretRate \in Nat /\ other.stats.regretRate \in Nat
      /\ Point(budget) \in Nat
  <2>1. in.price \in Nat /\ budget \in Nat
    BY DEF EngineInputs
  <2> QED  BY <2>1 DEF EngineInputs, Point
<1>2. /\ similarOwnedPoints(in.similarOwned) <= similarOwnedPoints(other.similarOwned)
      /\ saleUrgencyPoints(in.detectedSaleLanguage)
            <= saleUrgencyPoints(other.detectedSaleLanguage)
  BY DEF similarOwnedPoints, saleUrgencyPoints, weights
<1>3. categoryRegretRatePoints(in.stats, budget)
          <= categoryRegretRatePoints(other.stats, budget)
  <2>1. CASE Insufficient(in.stats)
    BY <1>1, <2>1, Products
    DEF categoryRegretRatePoints, defaultWhenInsufficientData
  <2>2. CASE ~Insufficient(in.stats)
    <3>1. in.stats.regretRate * 20 <= other.stats.regretRate * 20
      BY <1>1
    <3>2. (in.stats.regretRate * 20) * budget <= (other.stats.regretRate * 20) * budget
      BY <1>1, <3>1, TimesKeepsOrder
    <3> QED  BY <2>2, <3>2 DEF categoryRegretRatePoints, weights
  <2> QED  BY <2>1, <2>2
<1>4. RawTotal(Factors(in)) <= RawTotal(Factors(other))
  <2> DEFINE unit == Point(budget)
  <2>1. /\ similarOwnedPoints(in.similarOwned) * unit
              <= similarOwnedPoints(other.similarOwned) * unit
        /\ saleUrgencyPoints(in.detectedSaleLanguage) * unit
              <= saleUrgencyPoints(other.detectedSaleLanguage) * unit
    BY <1>1, <1>2, OtherPoints, TimesKeepsOrder
  <2>2. /\ priceVsBudgetPoints(in.price, budget) \in Nat
        /\ recencyPoints(in.ageHours) * unit \in Nat
        /\ similarOwnedPoints(in.similarOwned) * unit \in Nat
        /\ similarOwnedPoints(other.similarOwned) * unit \in Nat
        /\ saleUrgencyPoints(in.detectedSaleLanguage) * unit \in Nat
        /\ saleUrgencyPoints(other.detectedSaleLanguage) * unit \in Nat
        /\ categoryRegretRatePoints(in.stats, budget) \in Nat
        /\ categoryRegretRatePoints(other.stats, budget) \in Nat
    BY <1>1, PricePoints, OtherPoints, Products
  <2> QED  BY <1>3, <2>1, <2>2, TotalOfFactors
<1> QED  BY <1>4, MoreUnitsMoreScore DEF Usable

(* Two sums over two units: the one that is not larger in points is not    *)
(* rounded to more points.                                                 *)
LEMMA RoundedInProportion ==
    ASSUME NEW x \in Nat, NEW y \in Nat, NEW b \in Nat \ {0}, NEW d \in Nat \ {0},
           x * d <= y * b
    PROVE  Rounded(x, b) <= Rounded(y, d)
<1> DEFINE m == Rounded(x, b)
           n == Rounded(y, d)
           unit == Point(b) * d
<1>1. /\ m \in Int /\ 2 * x >= (2 * m - 1) * Point(b)
      /\ n \in Int /\ 2 * y < (2 * n + 1) * Point(d)
      /\ Point(b) \in Nat \ {0} /\ Point(d) \in Nat \ {0}
  BY RoundedIsNearest, PointIsPositive
<1>2. unit = Point(d) * b /\ unit \in Nat \ {0}
  <2>1. (100 * b) * d = (100 * d) * b
    OBVIOUS
  <2> QED  BY <2>1, <1>1, PositiveTimes DEF Point
<1> HIDE DEF m, n
<1>3. ASSUME n < m PROVE FALSE
  <2> DEFINE low == 2 * n + 1
             high == 2 * m - 1
  <2>1. low \in Int /\ high \in Int /\ low <= high
    BY <1>1, <1>3
  <2>2. (high * Point(b)) * d <= (2 * x) * d
    BY <1>1, <2>1, TimesKeepsOrder
  <2>3. (2 * y) * b < (low * Point(d)) * b
    BY <1>1, <2>1, TimesKeepsOrder
  <2>4. (high * Point(b)) * d = high * unit /\ (low * Point(d)) * b = low * unit
    <3>1. \A k \in Int, p \in Int, q \in Int : (k * p) * q = k * (p * q)
      OBVIOUS
    <3> QED  BY <1>1, <1>2, <2>1, <3>1
  <2> HIDE DEF low, high, unit
  <2>5. low * unit <= high * unit
    BY <1>2, <2>1, TimesKeepsOrder
  <2>6. (2 * x) * d <= (2 * y) * b
    <3>1. (2 * x) * d = 2 * (x * d) /\ (2 * y) * b = 2 * (y * b)
      OBVIOUS
    <3>2. x * d \in Nat /\ y * b \in Nat
      BY Products
    <3> QED  BY <3>1, <3>2
  <2>7. /\ (2 * x) * d \in Int /\ (2 * y) * b \in Int
        /\ low * unit \in Int /\ high * unit \in Int
    BY <1>2, <2>1
  <2> QED  BY <2>2, <2>3, <2>4, <2>5, <2>6, <2>7
<1> QED  BY <1>1, <1>3 DEF m, n

(* A larger budget never raises the score, all else equal: the price       *)
(* weighs less against it, and nothing else changes (scoring.engine.ts     *)
(* priceVsBudgetPoints).                                                   *)
THEOREM LargerBudgetNeverScoresHigher ==
    ASSUME NEW in \in EngineInputs, NEW budget \in Nat,
           Usable(in), in.monthlyBudget <= budget
    PROVE  computeRegretScore([in EXCEPT !.monthlyBudget = budget]).score
               <= computeRegretScore(in).score
<1> DEFINE other == [in EXCEPT !.monthlyBudget = budget]
           b == in.monthlyBudget
           flat == similarOwnedPoints(in.similarOwned)
                       + saleUrgencyPoints(in.detectedSaleLanguage)
                       + recencyPoints(in.ageHours)
           rate == IF Insufficient(in.stats) THEN 1000 ELSE in.stats.regretRate * 20
           sum(x) == priceVsBudgetPoints(in.price, x) + (100 * flat + rate) * x
<1>1. /\ other \in EngineInputs
      /\ Usable(other)
      /\ other.price = in.price
      /\ other.monthlyBudget = budget
      /\ other.ageHours = in.ageHours
      /\ other.similarOwned = in.similarOwned
      /\ other.detectedSaleLanguage = in.detectedSaleLanguage
      /\ other.stats = in.stats
  BY DEF EngineInputs, Usable
<1> HIDE DEF other
<1>2. /\ b \in Nat \ {0} /\ budget \in Nat \ {0} /\ in.price \in Nat
      /\ rate \in Nat /\ flat \in Nat
  <2>1. /\ b \in Nat \ {0} /\ budget \in Nat \ {0} /\ in.price \in Nat
        /\ in.stats.regretRate \in Nat
    BY <1>1 DEF EngineInputs, Usable
  <2>2. rate \in Nat
    BY <2>1
  <2>3. flat \in Nat
    BY OtherPoints
  <2> QED  BY <2>1, <2>2, <2>3
<1>3. ASSUME NEW i \in {in, other}
      PROVE  RawTotal(Factors(i)) = sum(i.monthlyBudget)
  <2> DEFINE x == i.monthlyBudget
  <2>1. /\ i \in EngineInputs /\ x \in Nat /\ i.price = in.price
        /\ i.ageHours = in.ageHours /\ i.similarOwned = in.similarOwned
        /\ i.detectedSaleLanguage = in.detectedSaleLanguage
        /\ i.stats = in.stats
    BY <1>1, <1>2, <1>3
  <2>2. categoryRegretRatePoints(in.stats, x) = rate * x
    BY <2>1, <1>2
    DEF categoryRegretRatePoints, weights, defaultWhenInsufficientData, Point
  <2>3. \A p, q, r \in Nat : p * Point(x) + q * Point(x) + r * Point(x)
                                = (100 * (p + q + r)) * x
    BY <2>1 DEF Point
  <2> DEFINE p == similarOwnedPoints(in.similarOwned)
             q == saleUrgencyPoints(in.detectedSaleLanguage)
             r == recencyPoints(in.ageHours)
             price == priceVsBudgetPoints(in.price, x)
  <2>4. p \in Nat /\ q \in Nat /\ r \in Nat /\ price \in Nat /\ rate * x \in Nat
    <3>1. p \in Nat /\ q \in Nat /\ r \in Nat
      BY OtherPoints
    <3>2. price \in Nat
      BY <1>2, <2>1, PricePoints
    <3> HIDE DEF rate, x
    <3>3. rate * x \in Nat
      BY <1>2, <2>1, Products
    <3> QED  BY <3>1, <3>2, <3>3
  <2>5. RawTotal(Factors(i))
            = price + p * Point(x) + q * Point(x) + r * Point(x) + rate * x
    BY <2>1, <2>2, TotalOfFactors
  <2>6. flat = p + q + r
    OBVIOUS
  <2> HIDE DEF p, q, r, price, flat, rate, x
  <2>7. (100 * flat + rate) * x = (100 * (p + q + r)) * x + rate * x
    BY <1>2, <2>1, <2>6
  <2>8. p * Point(x) + q * Point(x) + r * Point(x) = (100 * (p + q + r)) * x
    BY <2>3, <2>4
  <2>9. /\ p * Point(x) \in Nat /\ q * Point(x) \in Nat /\ r * Point(x) \in Nat
        /\ (100 * (p + q + r)) * x \in Nat
    BY <2>1, <2>4, Products DEF Point
  <2>10. RawTotal(Factors(i)) = price + (100 * flat + rate) * x
    BY <2>4, <2>5, <2>7, <2>8, <2>9
  <2> QED  BY <2>10 DEF price, x
<1>4. sum(budget) * b <= sum(b) * budget
  <2> DEFINE k == 100 * flat + rate
             p == priceVsBudgetPoints(in.price, budget)
             q == priceVsBudgetPoints(in.price, b)
  <2> HIDE DEF flat, rate
  <2>1. k \in Nat /\ p \in Nat /\ q \in Nat
    <3>1. k \in Nat
      BY <1>2
    <3> QED  BY <1>2, <3>1, PricePoints
  <2>2. p * b <= q * budget
    <3>1. p = Lesser(3000 * budget, 3000 * in.price) /\ q = Lesser(3000 * b, 3000 * in.price)
      BY <1>2 DEF priceVsBudgetPoints, weights, Point
    <3>2. CASE in.price <= b
      BY <1>2, <3>1, <3>2 DEF Lesser
    <3>3. CASE b < in.price
      BY <1>2, <3>1, <3>3 DEF Lesser
    <3> QED  BY <1>2, <3>2, <3>3
  <2> HIDE DEF k, p, q
  <2>3. (p + k * budget) * b <= (q + k * b) * budget
    BY <1>2, <2>1, <2>2
  <2> QED  BY <2>3 DEF k, p, q
<1>5. /\ RawTotal(Factors(other)) = sum(budget) /\ sum(budget) \in Nat
      /\ RawTotal(Factors(in)) = sum(b) /\ sum(b) \in Nat
  BY <1>1, <1>3, TotalOfFactors
<1> HIDE DEF sum
<1>6. Rounded(sum(budget), budget) <= Rounded(sum(b), b)
  BY <1>2, <1>4, <1>5, RoundedInProportion
<1>7. /\ computeRegretScore(in).score = Lesser(100, Rounded(sum(b), b))
      /\ computeRegretScore(other).score = Lesser(100, Rounded(sum(budget), budget))
  BY <1>1, <1>5, ScoreOfUsable
<1>8. Rounded(sum(b), b) \in Int /\ Rounded(sum(budget), budget) \in Int
  <2>1. sum(b) \in Int /\ sum(budget) \in Int
    BY <1>5
  <2> QED  BY <1>2, <2>1, RoundedIsNearest
<1>9. computeRegretScore(other).score <= computeRegretScore(in).score
  BY <1>6, <1>7, <1>8 DEF Lesser
<1> QED  BY <1>9 DEF other

(* A dearer item is never given the shorter pause (scoring.engine.ts       *)
(* pauseHoursForPrice).                                                    *)
THEOREM DearerNeverPausesShorter ==
    ASSUME NEW low \in Nat, NEW high \in Nat, low <= high
    PROVE  /\ pauseHoursForPrice(low) \in {24, 48, 72}
           /\ pauseHoursForPrice(low) <= pauseHoursForPrice(high)
<1>1. ASSUME NEW price \in Nat
      PROVE  pauseHoursForPrice(price) = IF price <= 15000 THEN 24
                                         ELSE IF price <= 50000 THEN 48
                                         ELSE 72
  <2> DEFINE fits == {k \in 1..3 : pauseHoursByPrice[k].open
                                   \/ price <= pauseHoursByPrice[k].max}
             first == CHOOSE k \in fits : \A j \in fits : k <= j
  <2>1. Len(pauseHoursByPrice) = 3
    BY DEF pauseHoursByPrice
  <2>2. /\ pauseHoursByPrice[1] = UpTo(15000, 24)
        /\ pauseHoursByPrice[2] = UpTo(50000, 48)
        /\ pauseHoursByPrice[3] = Otherwise(72)
    BY DEF pauseHoursByPrice
  <2>3. /\ 1 \in fits <=> price <= 15000
        /\ 2 \in fits <=> price <= 50000
        /\ 3 \in fits
        /\ fits \subseteq {1, 2, 3}
    BY <2>2 DEF UpTo, Otherwise
  <2>4. pauseHoursForPrice(price) = pauseHoursByPrice[first].value
    BY <2>1, <2>3 DEF pauseHoursForPrice, FirstFit
  <2> HIDE DEF fits
  <2>5. ASSUME NEW k \in fits, \A j \in fits : k <= j
        PROVE  first = k
    <3>1. \A m \in fits : (\A j \in fits : m <= j) => m = k
      BY <2>3, <2>5
    <3> QED  BY <2>5, <3>1
  <2> HIDE DEF first
  <2>6. CASE price <= 15000
    BY <2>2, <2>3, <2>4, <2>5, <2>6 DEF UpTo
  <2>7. CASE ~(price <= 15000) /\ price <= 50000
    BY <2>2, <2>3, <2>4, <2>5, <2>7 DEF UpTo
  <2>8. CASE ~(price <= 15000) /\ ~(price <= 50000)
    BY <2>2, <2>3, <2>4, <2>5, <2>8 DEF Otherwise
  <2> QED  BY <2>6, <2>7, <2>8
<1> QED  BY <1>1

=============================================================================
