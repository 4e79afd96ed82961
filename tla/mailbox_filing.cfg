SPECIFICATION FairSpec
CONSTANTS
    m1 = m1
    m2 = m2
    Messages <- TwoMessages
    Bare <- NoMessages
    Rounds = {loop}
    Handlers = {h1, h2}
    Verbs <- FilingVerbs
    OtherMoves <- FilingMoves
    HasMove = FALSE
    Backfill = 2
    MaxUid = 3
    MaxValidity = 1
    Budgets <- FileBudgets
INVARIANTS OnlyDeletingLosesMail
PROPERTIES DeletesOnlyGoneMail InboxShown
CHECK_DEADLOCK FALSE
