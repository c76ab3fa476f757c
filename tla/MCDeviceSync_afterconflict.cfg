SPECIFICATION Spec
CONSTANTS
    a = a
    b = b
    p1 = p1
    None = None
    Device = {a, b}
    Page = {p1}
    MaxEdit = 3
    Budgets <- GoesOn
PROPERTIES
    NoSilentOverwrite
