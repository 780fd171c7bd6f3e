CONSTANTS
    Users = {u1, u2}
    Passwords = {p1, p2}
    Tokens = {t1, t2}
    Requests = {r1, r2}
    None = None
    lower = lower
    Mixed = Mixed
    other = other
    Addresses <- MCAddresses
    Canonical <- MCCanonical
SPECIFICATION Spec
SYMMETRY Symmetry
INVARIANT OneAccountPerAddress
