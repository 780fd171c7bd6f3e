CONSTANTS
    Users = {u1}
    Passwords = {p1, p2}
    Tokens = {t1, t2, t3}
    Requests = {r1, r2}
    None = None
    lower = lower
    Mixed = Mixed
    other = other
    Addresses <- MCOneAddresses
    Canonical <- MCOneCanonical
SPECIFICATION Spec
INVARIANT NoSessionOutlivesItsPassword
