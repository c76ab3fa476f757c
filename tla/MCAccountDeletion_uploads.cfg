CONSTANTS
    Asset = {a}
    Request = {r1, r2}
    Content = {right, twin}
    Expected = right
    SameSize = {right, twin}
    None = none
    SessionTime = 1
    UrlTime = 1
    PendingGrace = 1
    StagingGrace = 2
    Quarantine = 1
    MaxFaults = 1
    Worker = {w1}
    Budgets <- UploadingAndClosing
SPECIFICATION AccountSpec
SYMMETRY Requests
INVARIANTS
    AccountTypeOK
    ReadyBytesVerified
PROPERTIES
    ReadyObjectKept
    CancelledForGood
