SPECIFICATION Spec
CONSTANTS
    m1 = m1
    m2 = m2
    Messages <- TwoMessages
    Bare <- NoMessages
    Rounds = {loop, trigger}
    Handlers = {}
    Verbs <- NoMessages
    OtherMoves <- NoMoves
    HasMove = TRUE
    Backfill = 2
    MaxUid = 3
    MaxValidity = 1
    Budgets <- OverlapBudgets
INVARIANTS NoSkippedMail
CHECK_DEADLOCK FALSE
