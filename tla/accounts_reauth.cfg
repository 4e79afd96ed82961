SPECIFICATION FairSpec
CONSTANTS
    a = a
    b = b
    w1 = w1
    w2 = w2
    w3 = w3
    h1 = h1
    h2 = h2
    Emails <- OneEmail
    MaxIds = 1
    Workers = {w1, w2}
    Handlers = {h1}
    MaxCode = 1
    Budgets <- RaceBudgets
PROPERTIES GoodCodeIsSynced
CHECK_DEADLOCK FALSE
