SPECIFICATION FairSpec
CONSTANTS
    a = a
    b = b
    p1 = p1
    None = None
    Device = {a, b}
    Page = {p1}
    MaxEdit = 2
    Budgets <- Devices
INVARIANTS
    TypeOK
    CursorCovered
    MappedContentIsLocal
    CaughtUpIsCurrent
PROPERTIES
    NoSilentOverwrite
    ConflictsAreReal
    QueuedUntilSent
    NoEditLost
    EventuallyConverged
