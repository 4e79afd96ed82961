------------------------------ MODULE SendOutbox ------------------------------
(***************************************************************************)
(* The sending of mail implements the outbox: the row, the number of times *)
(* it was claimed and the copies the server took are the abstract state,   *)
(* every step of the composer, the routes, the jobs, the clock and a crash *)
(* is one step of Outbox or none.                                          *)
(***************************************************************************)
EXTENDS SendClaim

Results == [i \in Ids |-> row[i].status]

Abstract == INSTANCE Outbox WITH result <- Results, granted <- claims, delivered <- copies

\* Whatever is retried, dropped, taken over or lost, a requestId behaves like
\* one of the outbox: no copy without an attempt granted for it, no attempt
\* after a result, no result that changes (claim_send, complete_send, fail_send).
ImplementsOutbox == Abstract!Spec
=============================================================================
