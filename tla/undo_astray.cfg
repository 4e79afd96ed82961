SPECIFICATION Spec
CONSTANTS
    h1 = h1
    h2 = h2
    Handlers <- OneHandler
    Verbs <- Filing
    MaxActions = 1
    Budgets <- AstrayBudgets
INVARIANTS HiddenMeansMoved
CHECK_DEADLOCK FALSE
