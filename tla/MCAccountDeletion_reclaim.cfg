CONSTANTS
    Asset = {a}
    Request = {r1}
    Content = {right, twin, short}
    Expected = right
    SameSize = {right, twin}
    None = none
    SessionTime = 1
    UrlTime = 1
    PendingGrace = 1
    StagingGrace = 2
    Quarantine = 1
    MaxFaults = 1
    Worker = {w1}
    Budgets <- OneByOne
SPECIFICATION AccountFairSpec
PROPERTIES
    OrphansReclaimed
    ResidueReclaimed
    ErasureCompletes
