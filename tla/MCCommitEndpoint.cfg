CONSTANTS
    q1 = q1
    q2 = q2
    q3 = q3
    k1 = k1
    k2 = k2
    Request = {q1, q2, q3}
    Key = {k1, k2}
    Attempt = {a1, a2}
    None = None
    MaxFailures = 2
    KeyOf <- Contended
SPECIFICATION FairSpec
CHECK_DEADLOCK FALSE
INVARIANTS
    TypeOK
    RecordsMatchLibrary
    ApplyingAlone
    AnswersAreTrue
PROPERTIES
    PerformedOnce
    EveryRequestSettles
