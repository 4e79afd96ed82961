----------------------------- MODULE MCMailbox -----------------------------
(* Small instances of MailboxSync for TLC: two messages, at most two rounds *)
(* and two requests in flight, and a budget per kind of event.              *)
EXTENDS MailboxSync

CONSTANTS m1, m2

TwoMessages == {m1, m2}
OneMessage  == {m1}
NoMessages  == {}
NoMoves     == {}

Spending(other, renumber, verb, fail, crash) ==
    [other |-> other, renumber |-> renumber, verb |-> verb, fail |-> fail, crash |-> crash]

\* What another client does: files mail, or moves and deletes it anyhow.
FilingMoves == {<<INBOX, ARCHIVE>>}
AllMoves    == {fg \in Folders \X Folders : fg[1] # fg[2]} \cup {<<TRASH, GONE>>}

RowVerbs    == AllVerbs \ {"emptyTrash"}
FilingVerbs == {"archive", "trash", "purge", "emptyTrash"}
Unfiling    == {"archive", "unarchive"}
Emptying    == {"trash", "emptyTrash"}

SyncBudgets    == {Spending(1, 0, 1, 1, 0), Spending(0, 0, 2, 1, 0), Spending(1, 1, 1, 0, 1)}
FileBudgets    == {Spending(0, 0, 2, 1, 0), Spending(1, 0, 1, 0, 0),
                   Spending(0, 0, 1, 0, 1)}
UnfileBudgets  == {Spending(0, 0, 2, 0, 0)}
BareBudgets    == {Spending(0, 0, 3, 0, 0)}
OverlapBudgets == {Spending(0, 0, 0, 1, 0)}
RebuildBudgets == {Spending(0, 1, 0, 0, 0)}
=============================================================================
