SPECIFICATION FairSpec
CONSTANTS
    m1 = m1
    m2 = m2
    Messages <- OneMessage
    Bare <- NoMessages
    Rounds = {loop}
    Handlers = {h1}
    Verbs <- Unfiling
    OtherMoves <- NoMoves
    HasMove = TRUE
    Backfill = 1
    MaxUid = 3
    MaxValidity = 1
    Budgets <- UnfileBudgets
PROPERTIES InboxShown
CHECK_DEADLOCK FALSE
