----------------------------- MODULE MCAccounts -----------------------------
(* Small instances of Accounts for TLC: one or two mailboxes, two or three   *)
(* account ids, and a budget per kind of event.                              *)
EXTENDS Accounts, TLC

CONSTANTS a, b, w1, w2, w3, h1, h2

OneEmail  == {a}
TwoEmails == {a, b}

Spending(connect, activate, delete, sync, rotate, fail, disk, crash) ==
    [connect |-> connect, activate |-> activate, delete |-> delete, sync |-> sync,
     rotate |-> rotate, fail |-> fail, disk |-> disk, crash |-> crash]

SelectBudgets == {Spending(3, 1, 1, 0, 0, 0, 1, 0), Spending(2, 0, 0, 1, 1, 1, 0, 0)}
LoopBudgets   == {Spending(3, 0, 1, 0, 1, 1, 0, 1)}
RaceBudgets   == {Spending(2, 0, 0, 0, 1, 0, 0, 1)}
WorkerSymmetry == Permutations({w1, w2, w3})
HandlerSymmetry == Permutations({h1, h2})
TaskSymmetry == WorkerSymmetry \cup HandlerSymmetry
=============================================================================
