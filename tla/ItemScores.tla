----------------------------- MODULE ItemScores -----------------------------
(***************************************************************************)
(* The regret score of an item: ScoringService.scoreItem with the engine   *)
(* of ScoringEngine, composed with the item lifecycle of Items and with    *)
(* the monthly budget a user may change at any time.                       *)
(*                                                                         *)
(* Scoring is not a transaction: it reads the item, then its owner's       *)
(* budget, awaits the category statistics, computes, and upserts the score *)
(* row, each in a statement of its own, while the item may be edited,      *)
(* decided about or deleted, the budget changed, and the item scored by    *)
(* another request.                                                        *)
(***************************************************************************)
EXTENDS Items, ScoringEngine

CONSTANTS
    Scorers,        \* request slots of the scoring endpoint
    Hours,          \* the hours on the clock
    Price,          \* the price in cents that each value of Details carries
    Budgets,        \* monthly budgets in cents
    DefaultBudget,  \* the one a new account has
    Claims,         \* what clients answer about owning something similar
    Stats           \* rows of category_regret_stats, which others maintain

ASSUME HoursAssumption == Hours \subseteq Nat /\ 0 \in Hours
ASSUME PriceAssumption == Price \in [Details -> Nat \ {0}]
ASSUME BudgetsAssumption == Budgets \subseteq Nat \ {0}
                            /\ DefaultBudget \in Budgets
ASSUME ClaimsAssumption == Claims \subseteq BOOLEAN
ASSUME StatsAssumption == Stats \subseteq [regretRate : Nat, sampleSize : Nat]

VARIABLES
    clock,       \* the hour
    budget,      \* users.monthlyBudget: user id -> cents
    captured,    \* what an item keeps from its creation: item id -> row
    score,       \* the regret_scores table: item id -> row, or NoScore
    scorer,      \* scoring slot -> where its handler is, and its locals
    offered      \* history: item id -> what a scoring may have read of it

scoreVars == <<clock, budget, captured, score, scorer, offered>>

-----------------------------------------------------------------------------

\* Neither column can be corrected later; discoveredAt is given or now.
Capture == [discoveredAt : Hours, detectedSaleLanguage : BOOLEAN]

NotCaptured == [discoveredAt |-> 0, detectedSaleLanguage |-> FALSE]

\* What a findFirst returns: the item's details and, of a second SELECT, its
\* owner's budget.
Basis == [details : Details, monthlyBudget : Budgets]

Input(basis, capture, now, similarOwned, stats) ==
    [price |-> Price[basis.details],
     monthlyBudget |-> basis.monthlyBudget,
     ageHours |-> now - capture.discoveredAt,
     detectedSaleLanguage |-> capture.detectedSaleLanguage,
     similarOwned |-> similarOwned,
     stats |-> stats]

\* A row of regret_scores; basis and input are history.
ScoreRow(basis, input, now) ==
    LET computation == computeRegretScore(input)
    IN  [score |-> computation.score, verdict |-> computation.verdict,
         factors |-> computation.factors, computedAt |-> now,
         basis |-> basis, input |-> input]

NoScore == [computedAt |-> None]
HasScore(i) == score[i] # NoScore

NotScoring == [pc |-> "idle"]

Init ==
    /\ ItemsInit
    /\ clock = 0
    /\ budget = [u \in Users |-> DefaultBudget]
    /\ captured = [i \in Items |-> NotCaptured]
    /\ score = [i \in Items |-> NoScore]
    /\ scorer = [s \in Scorers |-> NotScoring]
    /\ offered = [i \in Items |-> {}]

ScoresAnyStatus(status) == TRUE  \* fault: no check of the status

scorableStatuses == {"WISHLIST", "PAUSED"}

isScorableStatus(status) == status \in scorableStatuses

\* The first SELECT of requireOwnedScorableItem's findFirst, by id and userId.
\* The status it read is checked when both have come back.
ScoreItem(s, u, i, similarOwned) ==
    /\ scorer[s].pc = "idle"
    /\ Owned(u, i)
    /\ isScorableStatus(item[i].status)
    /\ scorer' = [scorer EXCEPT
           ![s] = [pc |-> "found", item |-> i, user |-> u,
                   read |-> item[i].status, details |-> item[i].details,
                   capture |-> captured[i], similarOwned |-> similarOwned]]
    /\ UNCHANGED <<itemVars, clock, budget, captured, score, offered>>

TheFirstBudget(u) == DefaultBudget  \* fault: remembered from the signup

BudgetOf(u) == budget[u]

\* The second SELECT, for the nested user: the query compiler joins nothing
\* without relationJoins.  A user that has gone fails the query (500).
ReadBudget(s) ==
    /\ scorer[s].pc = "found"
    /\ LET found == scorer[s]
       IN  scorer' = [scorer EXCEPT
               ![s] = IF found.user \in registered
                      THEN [pc |-> "read", item |-> found.item,
                            read |-> found.read,
                            basis |-> [details |-> found.details,
                                       monthlyBudget |-> BudgetOf(found.user)],
                            capture |-> found.capture,
                            similarOwned |-> found.similarOwned]
                      ELSE NotScoring]
    /\ UNCHANGED <<itemVars, clock, budget, captured, score, offered>>

\* The statistics have come back: computeRegretScore and new Date() run
\* without an await between them.
Compute(s, stats) ==
    /\ scorer[s].pc = "read"
    /\ LET input == Input(scorer[s].basis, scorer[s].capture, clock,
                          scorer[s].similarOwned, stats)
       IN  scorer' = [scorer EXCEPT
               ![s] = [pc |-> "computed", item |-> scorer[s].item,
                       read |-> scorer[s].read,
                       row |-> ScoreRow(scorer[s].basis, input, clock)]]
    /\ UNCHANGED <<itemVars, clock, budget, captured, score, offered>>

Replaced(s) == score[scorer[s].item]

KeepsTheVerdict(s) ==  \* fault: the update branch of the upsert misses it
    IF Replaced(s) = NoScore THEN scorer[s].row
    ELSE [scorer[s].row EXCEPT !.verdict = Replaced(s).verdict]

Replacement(s) == scorer[s].row

\* One INSERT ... ON CONFLICT DO UPDATE; its foreign key fails (500) when the
\* item has gone.
Upsert(s) ==
    /\ scorer[s].pc = "computed"
    /\ score' = IF Stored(scorer[s].item)
                THEN [score EXCEPT ![scorer[s].item] = Replacement(s)]
                ELSE score
    /\ scorer' = [scorer EXCEPT ![s] = NotScoring]
    /\ UNCHANGED <<itemVars, clock, budget, captured, offered>>

\* A statement fails or the process dies before the upsert commits.
AbandonScore(s) ==
    /\ scorer[s].pc # "idle"
    /\ scorer' = [scorer EXCEPT ![s] = NotScoring]
    /\ UNCHANGED <<itemVars, clock, budget, captured, score, offered>>

KeepsScores == score  \* fault: the relation has no onDelete: Cascade

\* onDelete: Cascade on RegretScore.item, whoever deletes the item.
WithoutOrphans ==
    [i \in Items |-> IF item'[i].status = "gone" THEN NoScore ELSE score[i]]

Undecided(i) == item[i].status \in {"WISHLIST", "PAUSED"}

ShownDetails(i) == {basis.details : basis \in offered[i]}

\* Details that an undecided item shows are offered with the budget its owner
\* has then, and with every budget the owner has later: never with an earlier.
RecordOffers ==
    offered' = [i \in Items |->
        IF Stored(i)'
        THEN offered[i] \union
                 [details : ShownDetails(i) \union
                      IF Undecided(i)' THEN {item'[i].details} ELSE {},
                  monthlyBudget : {budget'[item'[i].owner]}]
        ELSE offered[i]]

\* An item that is created keeps when it was found, never in the future, and
\* whether sale language was seen.
CapturedNext(i) ==
    CASE item'[i].status = "gone" -> {NotCaptured}
      [] item[i].status = "unborn" /\ item'[i].status = "WISHLIST" ->
            {capture \in Capture : capture.discoveredAt <= clock}
      [] OTHER -> {captured[i]}

ItemStep ==
    /\ ItemsNext
    /\ captured' \in [Items -> Capture]
    /\ \A i \in Items : captured'[i] \in CapturedNext(i)
    /\ score' = WithoutOrphans
    /\ UNCHANGED <<clock, budget, scorer>>
    /\ RecordOffers

\* UsersService.updateProfile: one statement; 404 when the user has gone.
UpdateProfile(u, monthlyBudget) ==
    /\ u \in registered
    /\ budget' = [budget EXCEPT ![u] = monthlyBudget]
    /\ UNCHANGED <<itemVars, clock, captured, score, scorer>>
    /\ RecordOffers

Pass(hour) ==
    /\ hour > clock
    /\ clock' = hour
    /\ UNCHANGED <<itemVars, budget, captured, score, scorer, offered>>

ScorerStep(s) ==
    \/ \E u \in Users, i \in Items, claim \in Claims : ScoreItem(s, u, i, claim)
    \/ ReadBudget(s)
    \/ \E stats \in Stats : Compute(s, stats)
    \/ Upsert(s)
    \/ AbandonScore(s)

Next ==
    \/ ItemStep
    \/ \E u \in Users, b \in Budgets : UpdateProfile(u, b)
    \/ \E hour \in Hours : Pass(hour)
    \/ \E s \in Scorers : ScorerStep(s)

Spec == Init /\ [][Next]_<<itemVars, scoreVars>>

-----------------------------------------------------------------------------
(* Properties.                                                             *)

Inputs ==
    [price : Nat \ {0}, monthlyBudget : Budgets, ageHours : Int,
     detectedSaleLanguage : BOOLEAN, similarOwned : BOOLEAN,
     stats : [regretRate : Nat, sampleSize : Nat]]

Verdict == {"GO_FOR_IT", "THINK_ABOUT_IT", "PAUSE", "LIKELY_REGRET",
            "YOU_DECIDE"}

IsScoreRow(row) ==
    /\ row.score \in 0..100
    /\ row.verdict \in Verdict
    /\ row.computedAt \in Hours
    /\ row.basis \in Basis
    /\ row.input \in Inputs

(* Score rows and scoring requests have the shape the code gives them; in  *)
(* particular no score is outside 0..100, whatever the statistics say.     *)
ScoresTypeOK ==
    /\ clock \in Hours
    /\ budget \in [Users -> Budgets]
    /\ captured \in [Items -> Capture]
    /\ offered \in [Items -> SUBSET Basis]
    /\ DOMAIN score = Items /\ DOMAIN scorer = Scorers
    /\ \A i \in Items : HasScore(i) => IsScoreRow(score[i])
    /\ \A s \in Scorers :
          /\ scorer[s].pc \in {"idle", "found", "read", "computed"}
          /\ scorer[s].pc = "computed" => IsScoreRow(scorer[s].row)

(* No score outlives its item (schema.prisma, RegretScore: onDelete:       *)
(* Cascade), nor comes to an item that was deleted while its score was     *)
(* being computed (scoring.service.ts:37-52).                              *)
ScoresBelongToItems ==
    \A i \in Items : HasScore(i) => Stored(i)

(* A score is made of two reads with a gap between them                    *)
(* (scoring.service.ts:92-103): whatever edits, decisions, budget changes  *)
(* and other scorings run meanwhile, the details of a stored score were    *)
(* those of its item while undecided, and its budget was its owner's at    *)
(* that moment or later.  An edit in the gap may leave details that are    *)
(* older than the budget; a budget is never older than the details.        *)
ScoredAsOffered ==
    \A i \in Items : HasScore(i) => score[i].basis \in offered[i]

(* "PURCHASED / SKIPPED / RETURNED already have an outcome; their score is *)
(* history, not something to recompute" (scoring.config.ts:60-64).  Only a *)
(* scoring that was overtaken by the decision breaks that: it read the     *)
(* item while undecided, and its upsert asks no status any more            *)
(* (scoring.service.ts:37-52).  Otherwise the score of a decided item      *)
(* stays, until the item goes.                                             *)
HistoryUnlessOvertaken ==
    [][\A i \in Items :
          Decided(i) /\ score'[i] # score[i] =>
          \/ item'[i].status = "gone"
          \/ \E s \in Scorers :
                /\ scorer[s].pc = "computed"
                /\ scorer[s].item = i
                /\ scorer[s].read \in {"WISHLIST", "PAUSED"}
                /\ scorer'[s] = NotScoring]_<<itemVars, scoreVars>>

(* A stored row explains itself, through every replacement of one score by *)
(* another (scoring.service.ts:37-52, scoring.engine.ts:174-182): its      *)
(* score is the whole number nearest to the sum of its factors, or the cap *)
(* where they add up to more, and its verdict is the band the score is in, *)
(* bounds included.  YOU_DECIDE is never stored: prices and budgets are    *)
(* validated before they get here.                                         *)
Explains(row) ==
    LET unit == Point(row.input.monthlyBudget)
        total == RawTotal(row.factors)
    IN  /\ \/ /\ 2 * total < (2 * row.score + 1) * unit
              /\ 2 * total >= (2 * row.score - 1) * unit
           \/ row.score = 100 /\ total >= 100 * unit
        /\ row.verdict = "GO_FOR_IT" <=> row.score <= 30
        /\ row.verdict = "THINK_ABOUT_IT" <=> row.score \in 31..50
        /\ row.verdict = "PAUSE" <=> row.score \in 51..70
        /\ row.verdict = "LIKELY_REGRET" <=> row.score > 70

ScoresExplainThemselves ==
    \A i \in Items : HasScore(i) => Explains(score[i])

(* "Newer discoveries score higher" (scoring.config.ts:49-52): when an     *)
(* item is scored again and nothing but its age has changed, the later     *)
(* computation never gives the higher score, in whichever order the two    *)
(* are stored.                                                             *)
SameButForAge(input, other) ==
    \A field \in DOMAIN input \ {"ageHours"} : input[field] = other[field]

WaitingNeverHurts ==
    [][\A i \in Items :
          HasScore(i) /\ HasScore(i)'
              /\ SameButForAge(score[i].input, score'[i].input) =>
          /\ score'[i].input.ageHours >= score[i].input.ageHours =>
                score'[i].score <= score[i].score
          /\ score'[i].input.ageHours <= score[i].input.ageHours =>
                score'[i].score >= score[i].score]_<<itemVars, scoreVars>>

-----------------------------------------------------------------------------
(* The inductive invariant behind the theorems of ItemScoresProofs.        *)

(* What may be read of an item now has been recorded.                      *)
OffersRecorded ==
    \A i \in Items : Stored(i) =>
        /\ Undecided(i) => item[i].details \in ShownDetails(i)
        /\ [details : ShownDetails(i),
            monthlyBudget : {budget[item[i].owner]}] \subseteq offered[i]

(* The row is what the engine makes of an input the service can form.      *)
IsComputed(row) ==
    /\ row.basis \in Basis /\ row.computedAt \in Hours
    /\ row.input \in Inputs
    /\ row = ScoreRow(row.basis, row.input, row.computedAt)

(* A scoring request carries what its item showed while undecided, as long *)
(* as there is the item.                                                   *)
Carries(q) ==
    /\ q.pc \in {"idle", "found", "read", "computed"}
    /\ q.pc # "idle" =>
          /\ q.item \in Items
          /\ item[q.item].status # "unborn"
          /\ q.read \in {"WISHLIST", "PAUSED"}
    /\ q.pc = "found" =>
          /\ q.user \in Users
          /\ q.details \in Details
          /\ Stored(q.item) => /\ item[q.item].owner = q.user
                               /\ q.details \in ShownDetails(q.item)
    /\ q.pc = "read" =>
          /\ q.basis \in Basis
          /\ Stored(q.item) => q.basis \in offered[q.item]
    /\ q.pc \in {"found", "read"} =>
          /\ q.capture \in Capture
          /\ q.similarOwned \in BOOLEAN
    /\ q.pc = "computed" =>
          /\ IsComputed(q.row)
          /\ Stored(q.item) => q.row.basis \in offered[q.item]

ScorersAgree == \A s \in Scorers : Carries(scorer[s])

ScoresIndInv ==
    /\ clock \in Hours
    /\ budget \in [Users -> Budgets]
    /\ captured \in [Items -> Capture]
    /\ offered \in [Items -> SUBSET Basis]
    /\ DOMAIN score = Items /\ DOMAIN scorer = Scorers
    /\ OffersRecorded
    /\ ScorersAgree
    /\ \A i \in Items : HasScore(i) => IsComputed(score[i])
    /\ ScoresBelongToItems
    /\ ScoredAsOffered

=============================================================================
