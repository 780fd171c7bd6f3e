SPECIFICATION ItemsSpec
CONSTANTS
    Users = {u1}
    Items = {i1}
    Details = {d1}
    Requests = {r1, r2}
    None = None
PROPERTY HistoryIsKept
CHECK_DEADLOCK FALSE
