SPECIFICATION Spec
CONSTANTS
    m1 = m1
    m2 = m2
    Messages <- TwoMessages
    Bare <- NoMessages
    Rounds = {loop}
    Handlers = {h1, h2}
    Verbs <- Emptying
    OtherMoves <- NoMoves
    HasMove = TRUE
    Backfill = 2
    MaxUid = 3
    MaxValidity = 1
    Budgets <- UnfileBudgets
PROPERTIES TrashRowsOutliveTheirMail
CHECK_DEADLOCK FALSE
