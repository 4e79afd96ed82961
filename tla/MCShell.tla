------------------------------ MODULE MCShell ------------------------------
(* Small instances of Shell for TLC.                                        *)
EXTENDS Shell, TLC

CONSTANTS b1, b2, b3, tool, r1, r2, q1, q2, m1

Blank   == [file |-> "none", foreign |-> FALSE, ledger |-> FALSE, applied |-> {}, schema |-> {},
            account |-> "bytes", bodies |-> {}, draft |-> "none"]
Upto(n) == {MIGRATIONS[i] : i \in 1..n}
Holding(n, account, bodies, draft) ==
    [Blank EXCEPT !.file = "tables", !.ledger = TRUE, !.applied = Upto(n), !.schema = Upto(n),
                  !.account = account, !.bodies = bodies, !.draft = draft]
Foreign == [Blank EXCEPT !.file = "tables", !.foreign = TRUE]
Body(key) == [mail |-> m1, key |-> key, sealed |-> FALSE]

Old     == Holding(5, "bytes", {}, "none")
Split   == Holding(1, "text", {Body("bytes")}, "plain")
Twice   == Holding(1, "text", {Body("bytes"), Body("text")}, "none")

SomeStores == {Blank, Foreign, Old, Split, Twice}
FreshOnly  == {Blank}
=============================================================================
