SPECIFICATION Spec
CONSTANTS
    m1 = m1
    m2 = m2
    Messages <- TwoMessages
    Bare <- NoMessages
    Rounds = {loop}
    Handlers = {}
    Verbs <- NoMessages
    OtherMoves <- NoMoves
    HasMove = TRUE
    Backfill = 2
    MaxUid = 3
    MaxValidity = 2
    Budgets <- RebuildBudgets
INVARIANTS RebuildFetchesAgain
CHECK_DEADLOCK FALSE
