SPECIFICATION Spec
CONSTANTS
    Replicas = {r1, r2}
    Clients = {ann, bob}
    Edge = edge
    Calls = {c1, c2}
    Routes <- MCRoutes
    CredentialLimit = 1
    Resends = 1
    Environments <- MCEnvironments
    None = None
SYMMETRY Symmetry
INVARIANTS
    ApiTypeOK
    BudgetsHold
    OnlyOutagesHoldUp
PROPERTIES
    RefusedOnlyForOwnFlood
    FloodsAreCutOff
    UnauthorizedMeansToken
    ServerErrorsAreOutages
    HealthTellsTheTruth
