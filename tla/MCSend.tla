------------------------------- MODULE MCSend -------------------------------
(* Small instances of SendClaim for TLC: one or two contents, two requestIds *)
(* or three, two calls in the backend at once.                               *)
EXTENDS SendOutbox

CONSTANTS c1, c2, mailA, mailB

TwoCalls == {c1, c2}
OneMail  == {mailA}
TwoMails == {mailA, mailB}

Spending(lost, crash, disk, smtp, edit) ==
    [lost |-> lost, crash |-> crash, disk |-> disk, smtp |-> smtp, edit |-> edit]

ClaimBudget  == Spending(1, 1, 1, 1, 1)
LostBudget   == Spending(1, 0, 0, 0, 0)
TwinBudget   == Spending(1, 0, 0, 1, 2)
=============================================================================
