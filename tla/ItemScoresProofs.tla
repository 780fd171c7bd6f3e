-------------------------- MODULE ItemScoresProofs --------------------------
(***************************************************************************)
(* Theorems about regret scores, for every number of users, items and      *)
(* concurrent requests, every price, budget, age and regret rate, on top   *)
(* of those of ItemsProofs about the items and of ScoringEngineProofs      *)
(* about the engine.                                                       *)
(***************************************************************************)
EXTENDS ItemScores, ItemsProofs, ScoringEngineProofs

(* Scoring implements the item lifecycle: every step of the composition is *)
(* a step of Items or leaves its variables alone, so what is proved of     *)
(* items holds of items that are scored (ScoringService only reads them).  *)
THEOREM ScoringRefinesItems == Spec => ItemsSpec
<1>1. Init => ItemsInit
  BY DEF Init
<1>2. [Next]_<<itemVars, scoreVars>> => [ItemsNext]_itemVars
  BY DEF Next, ItemStep, UpdateProfile, Pass, ScorerStep, ScoreItem, ReadBudget,
         Compute, Upsert, AbandonScore
<1> QED  BY <1>1, <1>2, PTL DEF Spec, ItemsSpec

-----------------------------------------------------------------------------
(* Rows that the engine computed.                                          *)

LEMMA InputsAreUsable ==
    ASSUME NEW input \in Inputs
    PROVE  input \in EngineInputs /\ Usable(input)
<1>1. input.price \in Nat \ {0} /\ input.monthlyBudget \in Nat \ {0}
  BY BudgetsAssumption DEF Inputs
<1>2. input \in EngineInputs
  BY <1>1, BudgetsAssumption DEF Inputs, EngineInputs
<1> QED  BY <1>1, <1>2 DEF Usable

LEMMA InputsAreInputs ==
    ASSUME NEW basis \in Basis, NEW capture \in Capture, NEW now \in Hours,
           NEW claim \in BOOLEAN, NEW stats \in Stats
    PROVE  Input(basis, capture, now, claim, stats) \in Inputs
<1>1. Price[basis.details] \in Nat \ {0} /\ basis.monthlyBudget \in Budgets
  BY PriceAssumption DEF Basis
<1>2. now - capture.discoveredAt \in Int
  <2>1. capture.discoveredAt \in Hours
    BY DEF Capture
  <2>2. now \in Nat /\ capture.discoveredAt \in Nat
    BY <2>1, HoursAssumption
  <2> QED  BY <2>2
<1>3. capture.detectedSaleLanguage \in BOOLEAN
  BY DEF Capture
<1>4. stats \in [regretRate : Nat, sampleSize : Nat]
  BY StatsAssumption
<1> QED  BY <1>1, <1>2, <1>3, <1>4 DEF Input, Inputs

LEMMA ComputedRow ==
    ASSUME NEW row, IsComputed(row)
    PROVE  /\ row.score = computeRegretScore(row.input).score
           /\ row.verdict = computeRegretScore(row.input).verdict
           /\ row.factors = computeRegretScore(row.input).factors
           /\ row.input \in Inputs
<1> DEFINE made == ScoreRow(row.basis, row.input, row.computedAt)
<1>1. /\ made.score = computeRegretScore(row.input).score
      /\ made.verdict = computeRegretScore(row.input).verdict
      /\ made.factors = computeRegretScore(row.input).factors
  BY DEF ScoreRow
<1>2. row = made /\ row.input \in Inputs
  BY DEF IsComputed
<1> HIDE DEF made
<1> QED  BY <1>1, <1>2

LEMMA ComputedRowsAreRows ==
    ASSUME NEW row, IsComputed(row)
    PROVE  IsScoreRow(row)
<1>1. row.input \in EngineInputs /\ Usable(row.input)
  BY ComputedRow, InputsAreUsable
<1>2. /\ computeRegretScore(row.input).score \in 0..100
      /\ computeRegretScore(row.input).verdict \in Verdict
  BY <1>1, ScoreOfUsable, VerdictBands DEF Verdict
<1> QED  BY <1>2, ComputedRow DEF IsScoreRow, IsComputed

LEMMA RowsAreComputed ==
    ASSUME NEW basis \in Basis, NEW input \in Inputs, NEW now \in Hours
    PROVE  /\ IsComputed(ScoreRow(basis, input, now))
           /\ ScoreRow(basis, input, now).basis = basis
<1> DEFINE row == ScoreRow(basis, input, now)
<1>1. row.basis = basis /\ row.input = input /\ row.computedAt = now
  BY DEF ScoreRow
<1> HIDE DEF row
<1>2. row = ScoreRow(row.basis, row.input, row.computedAt)
  BY <1>1 DEF row
<1>3. IsComputed(row) /\ row.basis = basis
  BY <1>1, <1>2 DEF IsComputed
<1> QED  BY <1>3 DEF row

-----------------------------------------------------------------------------

LEMMA ScoresInit == Init => ScoresIndInv
<1> SUFFICES ASSUME Init PROVE ScoresIndInv
  OBVIOUS
<1>1. /\ clock \in Hours
      /\ budget \in [Users -> Budgets]
      /\ captured \in [Items -> Capture]
      /\ offered \in [Items -> SUBSET Basis]
      /\ DOMAIN score = Items /\ DOMAIN scorer = Scorers
  BY HoursAssumption, BudgetsAssumption DEF Init, NotCaptured, Capture
<1>2. \A i \in Items : item[i].status = "unborn"
  BY DEF Init, ItemsInit, Unborn
<1>3. \A i \in Items : ~HasScore(i)
  BY DEF Init, HasScore
<1>4. \A s \in Scorers : scorer[s].pc = "idle"
  BY DEF Init, NotScoring
<1> QED
  BY <1>1, <1>2, <1>3, <1>4
  DEF ScoresIndInv, OffersRecorded, ScorersAgree, Carries,
      ScoresBelongToItems, ScoredAsOffered, Stored, ItemStatus

(* What RecordOffers does: more is offered, among it what can be read now. *)
LEMMA OffersGrow ==
    ASSUME ScoresIndInv, ItemsTypeOK', RecordOffers,
           budget' \in [Users -> Budgets]
    PROVE  /\ offered' \in [Items -> SUBSET Basis]
           /\ \A i \in Items : offered[i] \subseteq offered'[i]
           /\ OffersRecorded'
<1> DEFINE seen(i) == ShownDetails(i) \union
                          IF Undecided(i)' THEN {item'[i].details} ELSE {}
           money(i) == budget'[item'[i].owner]
           new(i) == [details : seen(i), monthlyBudget : {money(i)}]
<1>1. \A i \in Items :
          offered'[i] = IF Stored(i)' THEN offered[i] \union new(i)
                        ELSE offered[i]
  BY DEF RecordOffers
<1>2. DOMAIN offered' = Items /\ offered' = [i \in Items |-> offered'[i]]
  BY DEF RecordOffers
<1>3. ASSUME NEW i \in Items, Stored(i)'
      PROVE  seen(i) \subseteq Details /\ money(i) \in Budgets
  <2>1. item'[i].owner \in Users /\ item'[i].details \in Details
    BY <1>3 DEF ItemsTypeOK
  <2>2. ShownDetails(i) \subseteq Details
    BY DEF ShownDetails, ScoresIndInv, Basis
  <2> QED  BY <2>1, <2>2
<1>4. ASSUME NEW i \in Items, Stored(i)'
      PROVE  ShownDetails(i)' = seen(i)
  <2>1. \A d \in seen(i) : [details |-> d, monthlyBudget |-> money(i)]
                                \in offered'[i]
    BY <1>1, <1>4
  <2>2. ASSUME NEW b \in offered'[i]
        PROVE  b.details \in seen(i)
    <3>1. CASE b \in offered[i]
      BY <3>1 DEF ShownDetails
    <3>2. CASE b \in new(i)
      <4> HIDE DEF seen, money
      <4> QED  BY <3>2
    <3> HIDE DEF seen, new
    <3> QED  BY <1>1, <1>4, <3>1, <3>2
  <2> HIDE DEF seen, money
  <2>3. ASSUME NEW d \in seen(i)
        PROVE  \E b \in offered'[i] : b.details = d
    <3>1. [details |-> d, monthlyBudget |-> money(i)].details = d
      OBVIOUS
    <3> QED  BY <2>1, <3>1
  <2> QED  BY <2>2, <2>3 DEF ShownDetails
<1>5. \A i \in Items : offered'[i] \in SUBSET Basis
  <2> SUFFICES ASSUME NEW i \in Items PROVE offered'[i] \subseteq Basis
    OBVIOUS
  <2>1. offered[i] \subseteq Basis
    BY DEF ScoresIndInv
  <2>2. CASE Stored(i)'
    <3>1. new(i) \subseteq Basis
      BY <1>3, <2>2 DEF Basis
    <3> HIDE DEF new
    <3> QED  BY <1>1, <2>1, <2>2, <3>1
  <2> QED  BY <1>1, <2>1, <2>2
<1>6. ASSUME NEW i \in Items, Stored(i)'
      PROVE  /\ Undecided(i)' => item'[i].details \in ShownDetails(i)'
             /\ [details : ShownDetails(i)', monthlyBudget : {money(i)}]
                    \subseteq offered'[i]
  BY <1>1, <1>4, <1>6
<1> QED
  <2> HIDE DEF seen, new
  <2>1. \A i \in Items : offered[i] \subseteq offered'[i]
    BY <1>1
  <2>2. OffersRecorded'
    BY <1>6 DEF OffersRecorded
  <2> QED  BY <1>2, <1>5, <2>1, <2>2

(* What there is of an item never comes back and never changes hands.      *)
ItemsStay ==
    \A i \in Items :
        item[i].status # "unborn" =>
            /\ item'[i].status # "unborn"
            /\ Stored(i)' => Stored(i) /\ item'[i].owner = item[i].owner

LEMMA ItemStepsStay == ItemsIndInv /\ ItemsNext => ItemsStay
<1> SUFFICES ASSUME ItemsIndInv, ItemsNext,
                    NEW i \in Items, item[i].status # "unborn"
             PROVE  /\ item'[i].status # "unborn"
                    /\ Stored(i)' => /\ Stored(i)
                                     /\ item'[i].owner = item[i].owner
  BY DEF ItemsStay
<1>1. ItemStepOf(i)
  BY StepShapes DEF ItemsIndInv
<1>2. CASE item'[i] = item[i]
  BY <1>2 DEF Stored
<1>3. ASSUME NEW r \in Requests, Written(r, i)
      PROVE  /\ item'[i].status # "unborn" /\ Stored(i)
             /\ Stored(i)' => item'[i].owner = item[i].owner
  BY <1>3 DEF Written, Gone, Unborn, Stored, ItemStatus, ItemsIndInv,
              RequestAgrees, requestableStatuses
<1>4. CASE Cascaded(i)
  BY <1>4 DEF Cascaded, Gone, Unborn, Stored, ItemStatus
<1> QED  BY <1>1, <1>2, <1>3, <1>4 DEF ItemStepOf, Creates

(* What a scoring request carries stays right while more is offered.       *)
LEMMA CarriedOn ==
    ASSUME ScorersAgree, ItemsStay, scorer' = scorer,
           \A i \in Items : offered[i] \subseteq offered'[i]
    PROVE  ScorersAgree'
<1> SUFFICES ASSUME NEW s \in Scorers
             PROVE  Carries(scorer[s])'
  BY DEF ScorersAgree
<1>1. Carries(scorer[s])
  BY DEF ScorersAgree
<1>2. \A i \in Items : ShownDetails(i) \subseteq ShownDetails(i)'
  BY DEF ShownDetails
<1> QED  BY <1>1, <1>2 DEF Carries, ItemsStay, IsComputed

(* A step of Items takes a score away only together with its item.         *)
LEMMA ItemStepKeepsScores ==
    ASSUME ScoresIndInv, ItemsIndInv, ItemsIndInv', ItemStep
    PROVE  ScoresIndInv'
<1>1. /\ offered' \in [Items -> SUBSET Basis]
      /\ \A i \in Items : offered[i] \subseteq offered'[i]
      /\ OffersRecorded'
  BY OffersGrow DEF ItemStep, ScoresIndInv, ItemsIndInv
<1>2. \A i \in Items : score'[i] = score[i] \/ score'[i] = NoScore
  BY DEF ItemStep, WithoutOrphans
<1>3. /\ clock' \in Hours /\ budget' \in [Users -> Budgets]
      /\ captured' \in [Items -> Capture]
      /\ DOMAIN score' = Items /\ DOMAIN scorer' = Scorers
  BY DEF ItemStep, WithoutOrphans, ScoresIndInv
<1>4. ItemsStay
  BY ItemStepsStay DEF ItemStep
<1>5. ScorersAgree'
  BY <1>1, <1>4, CarriedOn DEF ItemStep, ScoresIndInv
<1>6. \A i \in Items : HasScore(i)' => HasScore(i) /\ score'[i] = score[i]
  BY <1>2 DEF HasScore
<1>7. \A i \in Items : HasScore(i)' => IsComputed(score[i])'
  BY <1>6 DEF ScoresIndInv, IsComputed
<1>8. ScoresBelongToItems'
  <2> SUFFICES ASSUME NEW i \in Items, HasScore(i)'
               PROVE  Stored(i)'
    BY DEF ScoresBelongToItems
  <2>1. item'[i].status # "gone" /\ Stored(i)
    BY <1>6
    DEF ItemStep, WithoutOrphans, HasScore, ScoresIndInv, ScoresBelongToItems
  <2>2. item'[i].status # "unborn"
    BY <1>4, <2>1 DEF ItemsStay, Stored, ItemStatus
  <2>3. item'[i].status \in ItemStatus \union {"unborn", "gone"}
    BY DEF ItemsIndInv, ItemsTypeOK, Row
  <2> QED  BY <2>1, <2>2, <2>3 DEF Stored
<1>9. ScoredAsOffered'
  BY <1>1, <1>6 DEF ScoresIndInv, ScoredAsOffered
<1> QED  BY <1>1, <1>3, <1>5, <1>7, <1>8, <1>9 DEF ScoresIndInv

(* A changed budget and a passing hour change no row and no request.       *)
LEMMA SurroundingsKeepScores ==
    ASSUME ScoresIndInv, ItemsTypeOK,
           \/ \E u \in Users, b \in Budgets : UpdateProfile(u, b)
           \/ \E hour \in Hours : Pass(hour)
    PROVE  ScoresIndInv'
<1>1. /\ item' = item /\ score' = score /\ scorer' = scorer
      /\ captured' = captured
      /\ itemVars' = itemVars
  BY DEF UpdateProfile, Pass, itemVars
<1>2. clock' \in Hours /\ budget' \in [Users -> Budgets]
  BY DEF UpdateProfile, Pass, ScoresIndInv
<1>3. /\ offered' \in [Items -> SUBSET Basis]
      /\ \A i \in Items : offered[i] \subseteq offered'[i]
      /\ OffersRecorded'
  <2>1. CASE RecordOffers
    <3>1. ItemsTypeOK'
      BY <1>1 DEF ItemsTypeOK, itemVars, Stored
    <3> QED  BY <1>2, <2>1, <3>1, OffersGrow
  <2>2. CASE \E hour \in Hours : Pass(hour)
    BY <1>1, <2>2 DEF Pass, ScoresIndInv, OffersRecorded, ShownDetails,
                      Stored, Undecided
  <2> QED  BY <2>1, <2>2 DEF UpdateProfile
<1>4. ScorersAgree'
  BY <1>1, <1>3, CarriedOn DEF ScoresIndInv, ItemsStay, Stored
<1>5. /\ \A i \in Items : HasScore(i)' => IsComputed(score[i])'
      /\ ScoresBelongToItems'
      /\ ScoredAsOffered'
  BY <1>1, <1>3
  DEF ScoresIndInv, HasScore, IsComputed, ScoresBelongToItems, Stored,
      ScoredAsOffered
<1> QED  BY <1>1, <1>2, <1>3, <1>4, <1>5 DEF ScoresIndInv

(* What a scoring request knows after a step of its own.                   *)
LEMMA NextScorerCarries ==
    ASSUME ScoresIndInv, ItemsTypeOK, NEW s \in Scorers, ScorerStep(s)
    PROVE  Carries(scorer'[s])
<1> DEFINE q == scorer[s]
<1>1. Carries(q) /\ DOMAIN scorer = Scorers
  BY DEF ScoresIndInv, ScorersAgree
<1>2. ASSUME NEW u \in Users, NEW i \in Items, NEW claim \in Claims,
             ScoreItem(s, u, i, claim)
      PROVE  Carries(scorer'[s])
  <2>1. scorer'[s] = [pc |-> "found", item |-> i, user |-> u,
                      read |-> item[i].status, details |-> item[i].details,
                      capture |-> captured[i], similarOwned |-> claim]
    BY <1>1, <1>2 DEF ScoreItem
  <2>2. /\ Stored(i) /\ item[i].owner = u /\ Undecided(i)
        /\ item[i].details \in Details
    BY <1>2
    DEF ScoreItem, Owned, isScorableStatus, scorableStatuses, Undecided,
        ItemsTypeOK
  <2>3. item[i].details \in ShownDetails(i)
    BY <2>2 DEF ScoresIndInv, OffersRecorded
  <2>4. captured[i] \in Capture /\ claim \in BOOLEAN
    BY ClaimsAssumption DEF ScoresIndInv
  <2> QED  BY <2>1, <2>2, <2>3, <2>4 DEF Carries, Undecided
<1>3. ASSUME ReadBudget(s)
      PROVE  Carries(scorer'[s])
  <2>1. CASE q.user \notin registered
    BY <1>1, <1>3, <2>1 DEF ReadBudget, NotScoring, Carries
  <2>2. CASE q.user \in registered
    <3> DEFINE read == [details |-> q.details,
                        monthlyBudget |-> budget[q.user]]
    <3>1. scorer'[s] = [pc |-> "read", item |-> q.item, read |-> q.read,
                        basis |-> read, capture |-> q.capture,
                        similarOwned |-> q.similarOwned]
      BY <1>1, <1>3, <2>2 DEF ReadBudget, BudgetOf
    <3>2. /\ q.pc = "found" /\ q.item \in Items
          /\ q.user \in Users /\ q.details \in Details
      BY <1>1, <1>3 DEF ReadBudget, Carries
    <3>3. read \in Basis
      BY <3>2 DEF Basis, ScoresIndInv
    <3>4. Stored(q.item) => read \in offered[q.item]
      BY <1>1, <3>2 DEF Carries, ScoresIndInv, OffersRecorded
    <3> HIDE DEF read
    <3> QED  BY <1>1, <3>1, <3>2, <3>3, <3>4 DEF Carries
  <2> QED  BY <2>1, <2>2
<1>4. ASSUME NEW stats \in Stats, Compute(s, stats)
      PROVE  Carries(scorer'[s])
  <2> DEFINE input == Input(q.basis, q.capture, clock, q.similarOwned, stats)
             row == ScoreRow(q.basis, input, clock)
  <2>1. scorer'[s] = [pc |-> "computed", item |-> q.item, read |-> q.read,
                      row |-> row]
    BY <1>1, <1>4 DEF Compute
  <2>2. /\ q.pc = "read" /\ q.basis \in Basis
        /\ q.capture \in Capture /\ q.similarOwned \in BOOLEAN
        /\ clock \in Hours
    BY <1>1, <1>4 DEF Compute, ScoresIndInv, Carries
  <2>3. input \in Inputs
    BY <2>2, InputsAreInputs
  <2> HIDE DEF input
  <2>4. IsComputed(row) /\ row.basis = q.basis
    BY <2>2, <2>3, RowsAreComputed
  <2> HIDE DEF row
  <2> QED  BY <1>1, <2>1, <2>2, <2>4 DEF Carries
<1>5. CASE Upsert(s) \/ AbandonScore(s)
  BY <1>1, <1>5 DEF Upsert, AbandonScore, NotScoring, Carries
<1> QED  BY <1>2, <1>3, <1>4, <1>5 DEF ScorerStep

(* Only an upsert changes a score, and then to the row that was computed.  *)
LEMMA ScoringWrites ==
    ASSUME ScoresIndInv, NEW s \in Scorers, ScorerStep(s),
           NEW i \in Items, score'[i] # score[i]
    PROVE  /\ scorer[s].pc = "computed"
           /\ scorer[s].item = i
           /\ Stored(i)
           /\ score'[i] = scorer[s].row
           /\ scorer'[s] = NotScoring
  BY DEF ScorerStep, ScoreItem, ReadBudget, Compute, Upsert, AbandonScore,
         Replacement, ScoresIndInv

LEMMA ScoringStepKeepsScores ==
    ASSUME ScoresIndInv, ItemsTypeOK, NEW s \in Scorers, ScorerStep(s)
    PROVE  ScoresIndInv'
<1>1. /\ item' = item /\ offered' = offered /\ clock' = clock
      /\ budget' = budget /\ captured' = captured
      /\ DOMAIN score' = Items /\ DOMAIN scorer' = Scorers
  BY DEF ScorerStep, ScoreItem, ReadBudget, Compute, Upsert, AbandonScore,
         itemVars, ScoresIndInv
<1>2. OffersRecorded'
  BY <1>1 DEF ScoresIndInv, OffersRecorded, ShownDetails, Stored, Undecided
<1>3. ScorersAgree'
  <2>1. \A q \in Scorers \ {s} : scorer'[q] = scorer[q]
    BY DEF ScorerStep, ScoreItem, ReadBudget, Compute, Upsert, AbandonScore,
           ScoresIndInv
  <2>2. \A q \in Scorers : Carries(scorer'[q])
    BY <2>1, NextScorerCarries DEF ScoresIndInv, ScorersAgree
  <2> QED
    BY <1>1, <2>2
    DEF ScorersAgree, Carries, IsComputed, Stored, ShownDetails
<1>4. ASSUME NEW i \in Items, HasScore(i)'
      PROVE  /\ Stored(i) /\ score'[i].basis \in offered[i]
             /\ IsComputed(score'[i])
  <2>1. CASE score'[i] = score[i]
    BY <1>4, <2>1
    DEF ScoresIndInv, HasScore, ScoresBelongToItems, ScoredAsOffered
  <2>2. CASE score'[i] # score[i]
    BY <2>2, ScoringWrites DEF ScoresIndInv, ScorersAgree, Carries
  <2> QED  BY <2>1, <2>2
<1>5. /\ \A i \in Items : HasScore(i)' => IsComputed(score[i])'
      /\ ScoresBelongToItems' /\ ScoredAsOffered'
  BY <1>1, <1>4
  DEF ScoresBelongToItems, ScoredAsOffered, Stored, IsComputed
<1> QED  BY <1>1, <1>2, <1>3, <1>5 DEF ScoresIndInv

(* What is behind the theorems below holds throughout (ItemScores,         *)
(* ScoresIndInv).                                                          *)
THEOREM ScoresIndInvHolds == Spec => []ScoresIndInv
<1>1. Init => ScoresIndInv
  BY ScoresInit
<1>2. ASSUME ScoresIndInv, ItemsIndInv, ItemsIndInv',
             [Next]_<<itemVars, scoreVars>>
      PROVE  ScoresIndInv'
  <2>1. CASE ItemStep
    BY <1>2, <2>1, ItemStepKeepsScores
  <2>2. CASE \/ \E u \in Users, b \in Budgets : UpdateProfile(u, b)
             \/ \E hour \in Hours : Pass(hour)
    BY <1>2, <2>2, SurroundingsKeepScores DEF ItemsIndInv
  <2>3. ASSUME NEW s \in Scorers, ScorerStep(s)
        PROVE  ScoresIndInv'
    BY <1>2, <2>3, ScoringStepKeepsScores DEF ItemsIndInv
  <2>4. CASE UNCHANGED <<itemVars, scoreVars>>
    BY <1>2, <2>4
    DEF itemVars, scoreVars, ScoresIndInv, OffersRecorded, HasScore,
        ScorersAgree, Carries, IsComputed, ScoresBelongToItems,
        ScoredAsOffered, Stored, Undecided, ShownDetails
  <2> QED  BY <1>2, <2>1, <2>2, <2>3, <2>4 DEF Next
<1> QED  BY <1>1, <1>2, ScoringRefinesItems, ItemsIndInvHolds, PTL DEF Spec

(* Score rows and scoring requests keep their shape, and no score leaves   *)
(* 0..100 (ItemScores, ScoresTypeOK).                                      *)
THEOREM ScoresTypeCorrect == Spec => []ScoresTypeOK
<1>1. ScoresIndInv => ScoresTypeOK
  BY ComputedRowsAreRows DEF ScoresIndInv, ScoresTypeOK, ScorersAgree, Carries
<1> QED  BY <1>1, ScoresIndInvHolds, PTL

(* No score outlives its item or comes to a deleted one (ItemScores,       *)
(* ScoresBelongToItems).                                                   *)
THEOREM NoOrphanScore == Spec => []ScoresBelongToItems
<1>1. ScoresIndInv => ScoresBelongToItems
  BY DEF ScoresIndInv
<1> QED  BY <1>1, ScoresIndInvHolds, PTL

(* Every stored score was computed from details its item had while         *)
(* undecided and from a budget its owner had then or later, although the   *)
(* two are read one after the other (ItemScores, ScoredAsOffered).         *)
THEOREM ScoresAreOfOffers == Spec => []ScoredAsOffered
<1>1. ScoresIndInv => ScoredAsOffered
  BY DEF ScoresIndInv
<1> QED  BY <1>1, ScoresIndInvHolds, PTL

(* The score of an item that was purchased, skipped or returned changes    *)
(* only through a scoring that had read it before (ItemScores,             *)
(* HistoryUnlessOvertaken).                                                *)
THEOREM OnlyOvertakenScoringsRewrite == Spec => HistoryUnlessOvertaken
<1> DEFINE Stays ==
        \A i \in Items :
            Decided(i) /\ score'[i] # score[i] =>
            \/ item'[i].status = "gone"
            \/ \E s \in Scorers :
                  /\ scorer[s].pc = "computed"
                  /\ scorer[s].item = i
                  /\ scorer[s].read \in {"WISHLIST", "PAUSED"}
                  /\ scorer'[s] = NotScoring
<1>1. ASSUME ScoresIndInv, Next
      PROVE  Stays
  <2> SUFFICES ASSUME NEW i \in Items, score'[i] # score[i],
                      item'[i].status # "gone"
               PROVE  \E s \in Scorers :
                          /\ scorer[s].pc = "computed"
                          /\ scorer[s].item = i
                          /\ scorer[s].read \in {"WISHLIST", "PAUSED"}
                          /\ scorer'[s] = NotScoring
    OBVIOUS
  <2>1. PICK s \in Scorers : ScorerStep(s)
    BY <1>1 DEF Next, ItemStep, WithoutOrphans, UpdateProfile, Pass
  <2>2. /\ scorer[s].pc = "computed"
        /\ scorer[s].item = i
        /\ scorer'[s] = NotScoring
    BY <1>1, <2>1, ScoringWrites
  <2>3. scorer[s].read \in {"WISHLIST", "PAUSED"}
    BY <1>1, <2>2 DEF ScoresIndInv, ScorersAgree, Carries
  <2> QED  BY <2>2, <2>3
<1>2. ScoresIndInv /\ [Next]_<<itemVars, scoreVars>> =>
          [Stays]_<<itemVars, scoreVars>>
  BY <1>1
<1> QED  BY <1>2, ScoresIndInvHolds, PTL DEF Spec, HistoryUnlessOvertaken

(* Every stored row explains itself: its score follows from its factors    *)
(* and its verdict from its score (ItemScores, ScoresExplainThemselves).   *)
THEOREM StoredRowsExplainThemselves == Spec => []ScoresExplainThemselves
<1>1. ASSUME NEW row, IsComputed(row)
      PROVE  Explains(row)
  <2>1. /\ row.score = computeRegretScore(row.input).score
        /\ row.verdict = computeRegretScore(row.input).verdict
        /\ row.factors = computeRegretScore(row.input).factors
    BY <1>1, ComputedRow
  <2>2. row.input \in EngineInputs /\ Usable(row.input)
    BY <1>1, ComputedRow, InputsAreUsable
  <2> QED
    BY <2>1, <2>2, ScoresAndVerdicts, FactorsExplainTheScore DEF Explains
<1>2. ScoresIndInv => ScoresExplainThemselves
  BY <1>1 DEF ScoresIndInv, ScoresExplainThemselves
<1> QED  BY <1>2, ScoresIndInvHolds, PTL

(* With nothing but its age changed an item never scores higher later,     *)
(* whichever of two computations is stored last (ItemScores,               *)
(* WaitingNeverHurts).                                                     *)
THEOREM WaitingIsNeverPunished == Spec => WaitingNeverHurts
<1>1. ASSUME NEW input \in Inputs, NEW other \in Inputs,
             SameButForAge(input, other), other.ageHours >= input.ageHours
      PROVE  computeRegretScore(other).score <= computeRegretScore(input).score
  <2>1. other = [input EXCEPT !.ageHours = other.ageHours]
    <3>1. \A field \in {"price", "monthlyBudget", "detectedSaleLanguage",
                        "similarOwned", "stats"} : input[field] = other[field]
      BY <1>1 DEF SameButForAge, Inputs
    <3> QED  BY <3>1 DEF Inputs
  <2>2. other.ageHours \in Int /\ input.ageHours \in Int
    BY DEF Inputs
  <2>3. input \in EngineInputs /\ Usable(input)
    BY InputsAreUsable
  <2> QED  BY <1>1, <2>1, <2>2, <2>3, OlderNeverScoresHigher
<1>2. ASSUME NEW input \in Inputs, NEW other \in Inputs,
             SameButForAge(input, other)
      PROVE  SameButForAge(other, input)
  BY <1>2 DEF SameButForAge, Inputs
<1> DEFINE Harmless ==
        \A i \in Items :
            HasScore(i) /\ HasScore(i)'
                /\ SameButForAge(score[i].input, score'[i].input) =>
            /\ score'[i].input.ageHours >= score[i].input.ageHours =>
                  score'[i].score <= score[i].score
            /\ score'[i].input.ageHours <= score[i].input.ageHours =>
                  score'[i].score >= score[i].score
<1>3. ASSUME ScoresIndInv, ScoresIndInv'
      PROVE  Harmless
  <2> SUFFICES ASSUME NEW i \in Items, HasScore(i), HasScore(i)',
                      SameButForAge(score[i].input, score'[i].input)
               PROVE  /\ score'[i].input.ageHours >= score[i].input.ageHours =>
                            score'[i].score <= score[i].score
                      /\ score'[i].input.ageHours <= score[i].input.ageHours =>
                            score'[i].score >= score[i].score
    OBVIOUS
  <2>1. IsComputed(score[i]) /\ IsComputed(score'[i])
    BY <1>3 DEF ScoresIndInv, IsComputed
  <2>2. /\ score[i].input \in Inputs /\ score'[i].input \in Inputs
        /\ score[i].score = computeRegretScore(score[i].input).score
        /\ score'[i].score = computeRegretScore(score'[i].input).score
    BY <2>1, ComputedRow
  <2>3. score[i].score \in Int /\ score'[i].score \in Int
    BY <2>1, ComputedRowsAreRows DEF IsScoreRow
  <2>4. score[i].input.ageHours \in Int /\ score'[i].input.ageHours \in Int
    BY <2>2 DEF Inputs
  <2>5. ASSUME score'[i].input.ageHours >= score[i].input.ageHours
        PROVE  score'[i].score <= score[i].score
    BY <1>1, <2>2, <2>5
  <2>6. ASSUME score'[i].input.ageHours <= score[i].input.ageHours
        PROVE  score'[i].score >= score[i].score
    <3>1. score[i].input.ageHours >= score'[i].input.ageHours
      BY <2>4, <2>6
    <3>2. SameButForAge(score'[i].input, score[i].input)
      BY <1>2, <2>2
    <3>3. score[i].score <= score'[i].score
      BY <1>1, <2>2, <3>1, <3>2
    <3> QED  BY <2>3, <3>3
  <2> QED  BY <2>5, <2>6
<1>4. ScoresIndInv /\ ScoresIndInv' => [Harmless]_<<itemVars, scoreVars>>
  BY <1>3
<1> QED  BY <1>4, ScoresIndInvHolds, PTL DEF WaitingNeverHurts

=============================================================================
