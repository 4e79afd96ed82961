SPECIFICATION Spec
CONSTANTS
    m1 = m1
    m2 = m2
    Messages <- TwoMessages
    Bare <- TwoMessages
    Rounds = {loop}
    Handlers = {h1}
    Verbs <- Unfiling
    OtherMoves <- NoMoves
    HasMove = TRUE
    Backfill = 2
    MaxUid = 3
    MaxValidity = 1
    Budgets <- BareBudgets
PROPERTIES ActsOnItsOwnMessage
CHECK_DEADLOCK FALSE
