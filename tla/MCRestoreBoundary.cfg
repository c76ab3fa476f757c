CONSTANTS
    Missing = missing
    Budgets <- FailingOrEnding
SPECIFICATION FairSpec
CHECK_DEADLOCK FALSE
INVARIANTS
    TypeOK
    PriorStateKept
    HandoffInOrder
PROPERTIES
    HandoffCompletes
