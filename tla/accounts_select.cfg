SPECIFICATION Spec
CONSTANTS
    a = a
    b = b
    w1 = w1
    w2 = w2
    w3 = w3
    h1 = h1
    h2 = h2
    Emails <- TwoEmails
    MaxIds = 3
    Workers = {w1, w2, w3}
    Handlers = {h1, h2}
    MaxCode = 1
    Budgets <- SelectBudgets
INVARIANTS TypeOK OneActiveAtMost OneAccountPerMailbox
SYMMETRY TaskSymmetry
CHECK_DEADLOCK FALSE
