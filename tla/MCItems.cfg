SPECIFICATION ItemsSpec
CONSTANTS
    Users = {u1, u2}
    Items = {i1, i2}
    Details = {d1, d2}
    Requests = {r1, r2, r3}
    None = None
SYMMETRY Symmetry
INVARIANTS
    ItemsTypeOK
    ReturnedWasBought
PROPERTIES
    DecisionsStand
    OnlyTheOwnerWrites
    LegalUnlessOvertaken
CHECK_DEADLOCK FALSE
