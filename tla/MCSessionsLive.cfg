CONSTANTS
    Users = {u1}
    Passwords = {p1, p2}
    Tokens = {t1, t2}
    Requests = {r1, r2}
    None = None
    lower = lower
    Mixed = Mixed
    other = other
    Addresses <- MCOneAddresses
    Canonical <- MCOneCanonical
SPECIFICATION FairSpec
INVARIANTS
    WaitsOnlyForLocks
    OnlyKnownDeadlock
PROPERTY RequestsFinish
