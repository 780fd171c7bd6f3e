SPECIFICATION FairSpec
CONSTANTS
    Users = {u1, u2}
    Items = {i1, i2}
    Requests = {}
    Captures = {c1, c2}
    Images = {m1, m2}
    MaxName = 1
    MaxBrand = 1
    MaxCents = 1
    None = None
    Details <- Confirmable
    Answers <- MCAnswers
INVARIANTS
    CaptureTypeOK
    RowsAreConfirmable
    ItemsShowWhatWasRead
    OneItemPerImage
    NeverWaitsForTheModel
PROPERTY CapturesEnd
CHECK_DEADLOCK FALSE
