CONSTANTS
    r1 = r1
    r2 = r2
    t1 = t1
    t2 = t2
    d1 = d1
    None = None
    Resource = {r1, r2}
    Transaction = {t1, t2}
    Device = {d1}
    PageSize = 1
    MaxSequence = 4
SPECIFICATION Spec
SYMMETRY Interchangeable
INVARIANTS
    BootstrapSkipsNothing
