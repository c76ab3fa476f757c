CONSTANTS
    Missing = missing
    Budgets <- Undisturbed
SPECIFICATION FairSpec
CHECK_DEADLOCK FALSE
INVARIANTS
    SavedWorkKept
