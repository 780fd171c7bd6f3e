SPECIFICATION Spec
CONSTANTS
    Items = {1, 2, 3, 4}
    Prices = {1}
    None = None
    Filtered = FALSE
    discoveredAt <- MCDiscoveredAt
    Queries <- MCDefaultQueries
INVARIANT MarkersStayCorrect
