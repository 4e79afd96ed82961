SPECIFICATION Spec
CONSTANTS
    h1 = h1
    h2 = h2
    Handlers <- OneHandler
    Verbs <- Filing
    MaxActions = 1
    Budgets <- DropBudgets
INVARIANTS UndoneMeansInverted
CHECK_DEADLOCK FALSE
