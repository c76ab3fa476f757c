CONSTANTS
    n1 = n1
    n2 = n2
    p1 = p1
    p2 = p2
    p3 = p3
    k1 = k1
    NoContent = none
    Notebook = {n1}
    Page = {p1, p2, p3}
    Canvas = {}
    Content = {a, b}
    Meta = {m}
    MaxTombstones = 2
    MaxConflicts = 2
    Parent <- PagesOfOne
    MaxRevision <- PageRevisions
SPECIFICATION Spec
CHECK_DEADLOCK FALSE
SYMMETRY Interchangeable
INVARIANTS
    TypeOK
    HistoryComplete
    NotebookKeepsPage
    ActivePositionsDistinct
    ConflictsRecoverable
PROPERTIES
    DenseAfterRestructuring
    RevisionNamesState
