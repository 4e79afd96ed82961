------------------------------- MODULE MCList -------------------------------
(* Small instances of ListClient for TLC.                                    *)
EXTENDS ListClient, TLC

CONSTANTS m1, m2, w1, w2

MailSymmetry   == Permutations({m1, m2})
WriterSymmetry == Permutations({w1, w2})
Interchangeable == MailSymmetry \cup WriterSymmetry

Spending(nav, type, poll, writes, undo, fail, lost, other) ==
    [nav |-> nav, type |-> type, poll |-> poll, write |-> writes, undo |-> undo,
     fail |-> fail, lost |-> lost, other |-> other]

\* One write and its undo.
UndoBudgets == {Spending(0, 0, 0, 1, 1, 0, 0, 0)}

\* Several small budgets instead of one that allows everything at once: two writes
\* that overlap and fail, polls and undo; leaving the list in the middle of them; a
\* search beside a write and a poll; an undo after leaving, and beside another client.
ListBudgets ==
    {Spending(0, 0, 1, 2, 0, 1, 0, 0), Spending(0, 0, 1, 1, 1, 1, 1, 0), Spending(1, 0, 0, 2, 0, 1, 1, 0),
     Spending(1, 1, 1, 1, 0, 0, 0, 0), Spending(1, 0, 0, 1, 1, 0, 0, 0), Spending(0, 0, 0, 1, 1, 0, 0, 1)}
=============================================================================
