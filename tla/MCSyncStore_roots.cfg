CONSTANTS
    n1 = n1
    n2 = n2
    p1 = p1
    p2 = p2
    p3 = p3
    k1 = k1
    NoContent = none
    Notebook = {n1, n2}
    Page = {}
    Canvas = {k1}
    Content = {a, b}
    Meta = {m, w}
    MaxTombstones = 1
    MaxConflicts = 1
    Parent <- CanvasParent
    MaxRevision <- RootRevisions
SPECIFICATION Spec
CHECK_DEADLOCK FALSE
SYMMETRY InterchangeableData
INVARIANTS
    DeletedIffActiveTombstone
    NoticesComplete
    FeedConverges
PROPERTIES
    ResolutionSeesCurrent
