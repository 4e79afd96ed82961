------------------------------- MODULE MCUndo -------------------------------
(* Small instances of UndoLog for TLC: one or two requests at a time and at  *)
(* most three recorded actions.                                              *)
EXTENDS UndoLog, TLC

CONSTANTS h1, h2

OneHandler  == {h1}
TwoHandlers == {h1, h2}
SwapHandlers == Permutations(TwoHandlers)
Filing      == {"archive", "unarchive"}

Spending(act, undo, beside, fail, astray, disk, crash, expire) ==
    [act |-> act, undo |-> undo, beside |-> beside, fail |-> fail, astray |-> astray,
     disk |-> disk, crash |-> crash, expire |-> expire]

UndoBudgets   == {Spending(2, 3, 2, 1, 1, 1, 1, 1),
                  Spending(4, 4, 0, 1, 1, 0, 0, 0)}
DropBudgets   == {Spending(1, 1, 0, 0, 0, 0, 1, 0)}
AstrayBudgets == {Spending(1, 1, 0, 0, 1, 0, 0, 0)}
=============================================================================
