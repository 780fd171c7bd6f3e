SPECIFICATION Spec
CONSTANTS
    Items = {1, 2, 3}
    Prices = {1, 2}
    None = None
    Filtered = TRUE
    discoveredAt <- MCDiscoveredAt
    Queries <- MCQueries
INVARIANTS
    NothingIsRepeated
    NothingSteadyIsSkipped
PROPERTY WalksAdvance
