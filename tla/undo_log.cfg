SPECIFICATION Spec
CONSTANTS
    h1 = h1
    h2 = h2
    Handlers <- TwoHandlers
    Verbs <- AllVerbs
    MaxActions = 3
    Budgets <- UndoBudgets
INVARIANTS TypeOK SingleClaim UndoneOnce UndoneUnlessCut ShownIffInInbox
PROPERTIES UndoRestores
SYMMETRY SwapHandlers
CHECK_DEADLOCK FALSE
