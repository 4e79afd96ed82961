SPECIFICATION Spec
CONSTANTS
    m1 = m1
    m2 = m2
    w1 = w1
    w2 = w2
    Mails = {m1, m2}
    Writers = {w1, w2}
    Views = {"briefing", "inbox", "trash"}
    Terms = {"query"}
    Verbs = {"delete", "restore", "purge", "pin", "unpin"}
    Budgets <- ListBudgets
INVARIANTS HiddenIsAccountedFor AnswersTheView ListFollowsWrites
SYMMETRY Interchangeable
CHECK_DEADLOCK FALSE
