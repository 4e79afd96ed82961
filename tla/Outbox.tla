-------------------------------- MODULE Outbox --------------------------------
(***************************************************************************)
(* What the send routes promise to whoever holds a requestId, without the  *)
(* composer, the handlers, the SMTP jobs, the lease or the crashes: an     *)
(* attempt has to be granted before it delivers, an attempt delivers once  *)
(* at most, and a result is settled once and stands.                       *)
(***************************************************************************)
EXTENDS Naturals

CONSTANT Ids        \* the requestIds

VARIABLES
    result,     \* result[i]: what a replay of i is told
    granted,    \* granted[i]: the attempts that were allowed to talk to SMTP
    delivered   \* delivered[i]: the copies the server took

vars == <<result, granted, delivered>>

Settled == {"sent", "failed"}

Init ==
    /\ result = [i \in Ids |-> "none"]
    /\ granted = [i \in Ids |-> 0]
    /\ delivered = [i \in Ids |-> 0]

\* claim_send grants a first attempt, or another one in place of one that
\* never came back.
Grant(i) ==
    /\ result[i] \notin Settled
    /\ result' = [result EXCEPT ![i] = "pending"]
    /\ granted' = [granted EXCEPT ![i] = @ + 1]
    /\ UNCHANGED delivered

\* An attempt that was granted delivers, also one that was given up since.
Deliver(i) ==
    /\ delivered[i] < granted[i]
    /\ delivered' = [delivered EXCEPT ![i] = @ + 1]
    /\ UNCHANGED <<result, granted>>

\* complete_send: only a delivered mail is sent.
Complete(i) ==
    /\ result[i] = "pending" /\ delivered[i] > 0
    /\ result' = [result EXCEPT ![i] = "sent"]
    /\ UNCHANGED <<granted, delivered>>

\* fail_send
Fail(i) ==
    /\ result[i] = "pending"
    /\ result' = [result EXCEPT ![i] = "failed"]
    /\ UNCHANGED <<granted, delivered>>

Next == \E i \in Ids : Grant(i) \/ Deliver(i) \/ Complete(i) \/ Fail(i)

Spec == Init /\ [][Next]_vars
=============================================================================
