------------------------------- MODULE MCReads -------------------------------
(* Small instances of StoreReads for TLC.                                    *)
EXTENDS StoreReads

M(from, subject, preview, text, recent) ==
  [from |-> from, sent |-> from = "self", subject |-> subject, preview |-> preview,
   text |-> text, recent |-> recent, old |-> ~recent, newsletter |-> from = "list"]

SomeMails == <<M("ann", "other", "word", "other", FALSE), M("ann", "word", "none", "word", FALSE),
               M("list", "other", "other", "word", TRUE), M("self", "other", "word", "word", TRUE)>>

SomeRules == {[kind |-> "sender", value |-> "ann"], [kind |-> "keyword", value |-> "word"]}
SomeOverrides == <<[scope |-> "message", key |-> 1, group |-> "awaitingReply"],
                   [scope |-> "sender", key |-> "ann", group |-> "pinned"]>>

SomeDrafts == {[mail |-> 1, opens |-> TRUE], [mail |-> 2, opens |-> FALSE]}

All(cached) == [m \in Mail |-> [New EXCEPT !.cached = cached, !.read = (m = 1)]]
Some(S) == [m \in S |-> [New EXCEPT !.advised = (m = 1)]]
SomeRows == {All(TRUE), All(FALSE), Some({1, 2, 3}), Some({1, 3, 4})}

A(id, at, kind, of, status) == [id |-> id, at |-> at, kind |-> kind, of |-> of, status |-> status]
SomeLogs == {{A(1, 1, "archive", 0, "none"), A(2, 2, "send", 0, "sent"),
              A(3, 1, "archive", 0, "none"), A(4, 2, "send", 0, "pending")}}

SomeFilters == {Inbox, [Inbox EXCEPT !.pinned = TRUE], [Inbox EXCEPT !.rule = {CHOOSE r \in Rules : TRUE}]}
AllRoutes == DOMAIN Statements
=============================================================================
