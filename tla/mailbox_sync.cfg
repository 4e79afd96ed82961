SPECIFICATION FairSpec
CONSTANTS
    m1 = m1
    m2 = m2
    Messages <- TwoMessages
    Bare <- OneMessage
    Rounds = {loop}
    Handlers = {h1}
    Verbs <- RowVerbs
    OtherMoves <- AllMoves
    HasMove = TRUE
    Backfill = 2
    MaxUid = 4
    MaxValidity = 2
    Budgets <- SyncBudgets
INVARIANTS TypeOK NoSkippedMail
PROPERTIES LiveListConverges
CHECK_DEADLOCK FALSE
