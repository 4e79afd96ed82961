SPECIFICATION FairSpec
CONSTANTS
    a = a
    b = b
    w1 = w1
    w2 = w2
    w3 = w3
    h1 = h1
    h2 = h2
    Emails <- OneEmail
    MaxIds = 2
    Workers = {w1, w2, w3}
    Handlers = {h1, h2}
    MaxCode = 1
    Budgets <- LoopBudgets
INVARIANTS OneLoopPerAccount
PROPERTIES HealthyIsSynced
CHECK_DEADLOCK FALSE
