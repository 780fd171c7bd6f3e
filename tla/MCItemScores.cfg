SPECIFICATION Spec
CONSTANTS
    Users = {u1}
    Items = {i1}
    Cheap = cheap
    Dear = dear
    Details <- MCDetails
    Requests = {r1}
    Scorers = {s1, s2}
    Hours = {0, 2}
    Price <- MCPrice
    Budgets <- MCBudgets
    DefaultBudget = 150
    Claims = {FALSE}
    Stats <- MCStats
    None = None
SYMMETRY Symmetry
INVARIANTS
    ScoresTypeOK
    ScoresBelongToItems
    ScoredAsOffered
    ScoresExplainThemselves
PROPERTIES
    HistoryUnlessOvertaken
    WaitingNeverHurts
CHECK_DEADLOCK FALSE
