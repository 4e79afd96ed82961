-------------------------- MODULE SendClaim_proofs --------------------------
(***************************************************************************)
(* Proofs about SendClaim for every number of calls, contents, requestIds, *)
(* every lease and every budget.  OneCopyPerClaim is not inductive: it     *)
(* needs the sessions that have not reached DATA yet (ClaimsCover), and    *)
(* they need the links between composer, call and job (Links).             *)
(* FirstResultStays needs to know who may still record (Recorders).        *)
(*                                                                         *)
(* The refinement of SendOutbox maps the rows' statuses, the claims and    *)
(* the copies one to one; it needs of these invariants that a copy leaves  *)
(* only on a claim, that a result is recorded on a pending row and that    *)
(* sent is recorded after a copy left.                                     *)
(***************************************************************************)
EXTENDS SendOutbox, FiniteSetTheorems, TLAPS

\* The sessions of requestId i that may still hand the mail over.
Open(i) == {c \in Calls : call[c].id = i /\ job[c] \in Sessions}

\* Every copy taken and every copy that may still be taken has its own claim.
ClaimsCover == \A i \in Ids : copies[i] + Cardinality(Open(i)) <= claims[i]

\* A job runs exactly while its call is in SMTP or dropped there; a call that is
\* not idle has a requestId; the composer waits for a call of its own requestId.
JobsOfCalls ==
    \A c \in Calls :
        /\ job[c] # "none" <=> call[c].phase \in {"smtp", "dropped"}
        /\ call[c].phase # "idle" => call[c].id \in Ids

ComposerOfCall ==
    /\ composer.phase = "waiting" =>
         /\ composer.call \in Calls /\ composer.id \in Ids
         /\ call[composer.call].id = composer.id
         /\ call[composer.call].phase \notin {"idle", "dropped"}
    /\ composer.last.outcome # "none" => composer.last.id \in Ids
    /\ composer.phase = "sent" => composer.last.id \in Ids

\* A job past the verdict of the server has left a copy there.
TakenByJob ==
    \A c \in Calls : job[c] \in {"accepted", "ok"} => copies[call[c].id] > 0

Links == JobsOfCalls /\ ComposerOfCall

-----------------------------------------------------------------------------
(* Type correctness *)

\* What the composer becomes when an attempt ends is a composer again.
LEMMA SettledType ==
    ASSUME TypeOK, NEW outcome \in Outcomes \cup {"sent"}
    PROVE  Settled(outcome) \in Composers
BY DEF TypeOK, Settled, Composers, Attempts, Outcomes

\* An answer leaves the composer well typed.
LEMMA AnswersType ==
    ASSUME TypeOK, NEW c \in Calls, NEW outcome \in Outcomes \cup {"sent"}, Answers(c, outcome)
    PROVE  composer' \in Composers
BY SettledType DEF Answers, TypeOK

\* A budget that is spent stays a natural number.
LEMMA SpendType ==
    ASSUME TypeOK, NEW event \in Events, Spend(event)
    PROVE  left' \in [Events -> Nat]
BY DEF TypeOK, Spend

\* A call that ends leaves the calls well typed.
LEMMA FinishedType ==
    ASSUME TypeOK, NEW c \in Calls, Finished(c)
    PROVE  call' \in [Calls -> CallStates]
BY DEF TypeOK, Finished, CallStates, IdleCall, NoId

\* A granted claim: the row is pending, the claim is counted, the job starts.
LEMMA GrantedType ==
    ASSUME TypeOK, NEW c \in Calls, Granted(c)
    PROVE  /\ row' \in [Ids -> Rows] /\ claims' \in [Ids -> Nat]
           /\ call' \in [Calls -> CallStates] /\ job' \in [Calls -> JobStates]
<1>1. row' \in [Ids -> Rows]
  <2>1. [status |-> "pending", age |-> 0] \in Rows
    BY SendAssumption DEF Rows
  <2> QED BY <2>1 DEF TypeOK, Granted
<1>2. claims' \in [Ids -> Nat]
  <2>1. \A j \in Ids : claims[j] \in Nat /\ claims[j] + 1 \in Nat
    BY DEF TypeOK
  <2>2. claims' = [claims EXCEPT ![call[c].id] = claims[call[c].id] + 1]
    BY DEF Granted
  <2>3. claims \in [Ids -> Nat]
    BY DEF TypeOK
  <2> QED BY <2>1, <2>2, <2>3
<1>3. call' \in [Calls -> CallStates]
  BY DEF TypeOK, Granted, CallStates
<1>4. job' \in [Calls -> JobStates]
  BY DEF TypeOK, Granted, JobStates
<1> QED BY <1>1, <1>2, <1>3, <1>4

\* The row a result is recorded in is well typed.
LEMMA RecordType ==
    ASSUME TypeOK, NEW i, NEW status \in {"sent", "failed"}, Record(i, status)
    PROVE  row' \in [Ids -> Rows] /\ left' \in [Events -> Nat]
BY SpendType DEF TypeOK, Record, Rows, Events

\* The untouched composer and the empty table are well typed.
LEMMA TypeInit == Init => TypeOK
BY SendAssumption DEF Init, TypeOK, Composers, Attempts, Outcomes, Rows, NoRow, IdleCall,
   CallStates, JobStates, Ids, NoId

\* Every step keeps the types.
LEMMA TypeStep ==
    ASSUME TypeOK, Links, [Next]_vars
    PROVE  TypeOK'
<1>1. CASE UNCHANGED vars
  BY <1>1 DEF TypeOK, vars
<1>2. ASSUME NEW c \in Calls, Submit(c) PROVE TypeOK'
  <2> DEFINE i == IF Reuses THEN composer.last.id ELSE minted + 1
  <2>1. i \in {NoId} \cup Ids
    BY <1>2 DEF Submit, TypeOK, Composers, Attempts, NoId, Ids
  <2>2. composer' \in Composers
    BY <1>2, <2>1 DEF Submit, TypeOK, Composers
  <2>3. minted' \in 0..MaxIds
    BY <1>2, SendAssumption DEF Submit, TypeOK
  <2>4. mailOf' \in [Ids -> Mails] /\ warned' \in [Ids -> BOOLEAN]
    BY <1>2, <2>1 DEF Submit, TypeOK, WarnsDuplicate, Uncertain, Composers
  <2>5. call' \in [Calls -> CallStates]
    BY <1>2, <2>1 DEF Submit, TypeOK, CallStates, IdleCall
  <2> QED
    BY <1>2, <2>2, <2>3, <2>4, <2>5 DEF Submit, TypeOK
<1>3. ASSUME NEW c \in Calls, ChecksRefuse(c) PROVE TypeOK'
  BY <1>3, AnswersType, FinishedType, SpendType DEF ChecksRefuse, TypeOK, ids, Events, Outcomes
<1>4. ASSUME NEW c \in Calls, ChecksPass(c) PROVE TypeOK'
  BY <1>4 DEF ChecksPass, TypeOK, ids, CallStates
<1>5. ASSUME NEW c \in Calls, ClaimInsert(c) PROVE TypeOK'
  <2>1. CASE Granted(c)
    BY <1>5, <2>1, GrantedType DEF ClaimInsert, TypeOK, ids
  <2>2. CASE call' = [call EXCEPT ![c].phase = "inspect"] /\ UNCHANGED <<row, claims, job>>
    BY <1>5, <2>2 DEF ClaimInsert, TypeOK, ids, CallStates
  <2> QED BY <1>5, <2>1, <2>2 DEF ClaimInsert
<1>6. ASSUME NEW c \in Calls, ClaimInspect(c) PROVE TypeOK'
  <2>1. CASE Finished(c) /\ \E outcome \in Outcomes \cup {"sent"} : Answers(c, outcome)
    BY <1>6, <2>1, AnswersType, FinishedType DEF ClaimInspect, TypeOK, ids
  <2>2. CASE /\ Stale(call[c].id) /\ UNCHANGED composer
             /\ call' = [call EXCEPT ![c].phase = "takeover", ![c].seen = claims[call[c].id]]
    <3>1. call[c].id \in Ids
      BY <1>6 DEF ClaimInspect, Links, JobsOfCalls
    <3> DEFINE s == [call[c] EXCEPT !.phase = "takeover", !.seen = claims[call[c].id]]
    <3>2. s \in CallStates
      BY <3>1 DEF TypeOK, CallStates
    <3>3. call' = [call EXCEPT ![c] = s]
      BY <2>2 DEF TypeOK
    <3> HIDE DEF s
    <3> QED BY <1>6, <2>2, <3>2, <3>3 DEF ClaimInspect, TypeOK, ids
  <2> QED BY <1>6, <2>1, <2>2 DEF ClaimInspect, Outcomes
<1>7. ASSUME NEW c \in Calls, ClaimTakeOver(c) PROVE TypeOK'
  <2>1. CASE Granted(c) /\ UNCHANGED composer
    BY <1>7, <2>1, GrantedType DEF ClaimTakeOver, TypeOK, ids
  <2>2. CASE Answers(c, "inflight") /\ Finished(c) /\ UNCHANGED <<row, claims, job>>
    BY <1>7, <2>2, AnswersType, FinishedType DEF ClaimTakeOver, TypeOK, ids, Outcomes
  <2> QED BY <1>7, <2>1, <2>2 DEF ClaimTakeOver
<1>8. ASSUME NEW c \in Calls, Complete(c) PROVE TypeOK'
  <2>1. job' \in [Calls -> JobStates]
    BY <1>8 DEF Complete, TypeOK, JobStates
  <2> QED
    BY <1>8, <2>1, AnswersType, FinishedType, RecordType DEF Complete, TypeOK, ids, Outcomes
<1>9. ASSUME NEW c \in Calls, Fail(c) PROVE TypeOK'
  <2>1. job' \in [Calls -> JobStates]
    BY <1>9 DEF Fail, TypeOK, JobStates
  <2> QED
    BY <1>9, <2>1, AnswersType, FinishedType, RecordType DEF Fail, TypeOK, ids, Outcomes
<1>10. ASSUME NEW c \in Calls, Dropped(c) PROVE TypeOK'
  BY <1>10, FinishedType DEF Dropped, TypeOK, ids, CallStates
<1>11. ASSUME NEW c \in Calls, Abandoned(c) PROVE TypeOK'
  BY <1>11, FinishedType DEF Abandoned, TypeOK, ids, JobStates
<1>12. ASSUME NEW c \in Calls, SmtpRetries(c) \/ SmtpRefuses(c) PROVE TypeOK'
  BY <1>12, SpendType DEF SmtpRetries, SmtpRefuses, TypeOK, ids, JobStates, Events
<1>13. ASSUME NEW c \in Calls, SmtpAccepts(c) \/ SmtpVerdict(c) PROVE TypeOK'
  BY <1>13 DEF SmtpAccepts, SmtpVerdict, TypeOK, ids, JobStates
<1>14. CASE Edit
  <2>1. composer' \in Composers
    BY <1>14 DEF Edit, TypeOK, Composers
  <2> QED BY <1>14, <2>1, SpendType DEF Edit, TypeOK, ids, Events
<1>15. CASE GiveUp
  BY <1>15, SettledType, SpendType DEF GiveUp, TypeOK, ids, Events, Outcomes
<1>16. CASE Tick
  <2>1. \A i \in Ids : row[i].age <= Lease => [row[i] EXCEPT !.age = @ + 1] \in Rows
    BY SendAssumption DEF TypeOK, Rows
  <2>2. row' \in [Ids -> Rows]
    BY <1>16, <2>1 DEF Tick, TypeOK
  <2> QED BY <1>16, <2>2 DEF Tick, TypeOK, ids
<1>17. CASE Crash
  <2>1. call' \in [Calls -> CallStates] /\ job' \in [Calls -> JobStates]
    BY <1>17 DEF Crash, CallStates, JobStates, IdleCall, NoId
  <2> QED BY <1>17, <2>1, SettledType, SpendType DEF Crash, TypeOK, ids, Events, Outcomes
<1> QED
  BY <1>1, <1>2, <1>3, <1>4, <1>5, <1>6, <1>7, <1>8, <1>9, <1>10, <1>11, <1>12, <1>13,
     <1>14, <1>15, <1>16, <1>17 DEF Next, CallStep, JobStep

-----------------------------------------------------------------------------
(* The links between composer, call and job *)

\* A call that answers and ends keeps the links, whether or not it is read.
LEMMA EndKeepsLinks ==
    ASSUME TypeOK, Links, NEW c \in Calls, NEW outcome \in Outcomes \cup {"sent"},
           Answers(c, outcome), Finished(c), job' = [job EXCEPT ![c] = "none"]
    PROVE  Links'
<1>1. JobsOfCalls'
  BY DEF TypeOK, Links, JobsOfCalls, Finished, IdleCall
<1>2. CASE Attended(c)
  <2>1. composer' = Settled(outcome) /\ composer.id \in Ids
    BY <1>2 DEF Answers, Attended, Links, ComposerOfCall
  <2>2. composer'.phase # "waiting" /\ composer'.last.id \in Ids
    BY <2>1 DEF Settled, TypeOK, Composers, Attempts
  <2> QED BY <1>1, <2>2 DEF Links, ComposerOfCall
<1>3. CASE ~Attended(c)
  <2>1. composer' = composer /\ (composer.phase = "waiting" => composer.call # c)
    BY <1>3 DEF Answers, Attended
  <2>2. \A d \in Calls : d # c => call'[d] = call[d]
    BY DEF Finished, TypeOK
  <2> QED BY <1>1, <2>1, <2>2 DEF Links, ComposerOfCall
<1> QED BY <1>2, <1>3

\* The links hold of every reachable state.
LEMMA LinksStep ==
    ASSUME TypeOK, TypeOK', Links, [Next]_vars
    PROVE  Links'
<1>1. CASE UNCHANGED vars
  BY <1>1 DEF Links, JobsOfCalls, ComposerOfCall, vars
<1>2. ASSUME NEW c \in Calls, Submit(c) PROVE Links'
  <2> DEFINE i == IF Reuses THEN composer.last.id ELSE minted + 1
  <2>1. i \in Ids
    <3>1. CASE Reuses
      BY <3>1 DEF Reuses, Uncertain, Links, ComposerOfCall
    <3>2. CASE ~Reuses
      BY <1>2, <3>2, SendAssumption DEF Submit, TypeOK, Ids
    <3> QED BY <3>1, <3>2
  <2>2. /\ composer'.phase = "waiting" /\ composer'.call = c /\ composer'.id = i
        /\ composer'.last = composer.last
    BY <1>2 DEF Submit, TypeOK, Composers
  <2>3. /\ call' = [call EXCEPT ![c] = [phase |-> "checks", id |-> i, seen |-> 0]]
        /\ job' = job /\ job[c] = "none"
    BY <1>2 DEF Submit
  <2>4. JobsOfCalls'
    <3> SUFFICES ASSUME NEW d \in Calls
                 PROVE  /\ job'[d] # "none" <=> call'[d].phase \in {"smtp", "dropped"}
                        /\ call'[d].phase # "idle" => call'[d].id \in Ids
      BY DEF JobsOfCalls
    <3>1. CASE d = c
      BY <2>1, <2>3, <3>1 DEF TypeOK
    <3>2. CASE d # c
      BY <2>3, <3>2 DEF TypeOK, Links, JobsOfCalls
    <3> QED BY <3>1, <3>2
  <2>5. ComposerOfCall'
    BY <2>1, <2>2, <2>3 DEF TypeOK, Links, ComposerOfCall
  <2> QED BY <2>4, <2>5 DEF Links
<1>3. ASSUME NEW c \in Calls, ChecksRefuse(c) PROVE Links'
  <2>1. job' = [job EXCEPT ![c] = "none"]
    BY <1>3 DEF ChecksRefuse, TypeOK, Links, JobsOfCalls
  <2> QED BY <1>3, <2>1, EndKeepsLinks DEF ChecksRefuse, Outcomes
<1>4. ASSUME NEW c \in Calls, ChecksPass(c) PROVE Links'
  BY <1>4 DEF ChecksPass, TypeOK, CallStates, Links, JobsOfCalls, ComposerOfCall
<1>5. ASSUME NEW c \in Calls, Granted(c), UNCHANGED composer,
             call[c].phase \in {"claim", "takeover"} PROVE Links'
  BY <1>5 DEF Granted, TypeOK, CallStates, Links, JobsOfCalls, ComposerOfCall
<1>6. ASSUME NEW c \in Calls, ClaimInsert(c) PROVE Links'
  <2>1. CASE call' = [call EXCEPT ![c].phase = "inspect"] /\ UNCHANGED job
    BY <1>6, <2>1 DEF ClaimInsert, TypeOK, CallStates, Links, JobsOfCalls, ComposerOfCall
  <2> QED BY <1>5, <1>6, <2>1 DEF ClaimInsert
<1>7. ASSUME NEW c \in Calls, ClaimInspect(c) PROVE Links'
  <2>1. job' = [job EXCEPT ![c] = "none"]
    BY <1>7 DEF ClaimInspect, TypeOK, Links, JobsOfCalls
  <2>2. CASE Finished(c) /\ \E outcome \in Outcomes \cup {"sent"} : Answers(c, outcome)
    BY <2>1, <2>2, EndKeepsLinks
  <2>3. CASE /\ UNCHANGED composer
             /\ call' = [call EXCEPT ![c].phase = "takeover", ![c].seen = claims[call[c].id]]
    BY <1>7, <2>3 DEF ClaimInspect, TypeOK, CallStates, Links, JobsOfCalls, ComposerOfCall
  <2> QED BY <1>7, <2>2, <2>3 DEF ClaimInspect, Outcomes
<1>8. ASSUME NEW c \in Calls, ClaimTakeOver(c) PROVE Links'
  <2>1. CASE Answers(c, "inflight") /\ Finished(c) /\ UNCHANGED job
    <3>1. job' = [job EXCEPT ![c] = "none"]
      BY <1>8, <2>1 DEF ClaimTakeOver, TypeOK, Links, JobsOfCalls
    <3> QED BY <2>1, <3>1, EndKeepsLinks DEF Outcomes
  <2> QED BY <1>5, <1>8, <2>1 DEF ClaimTakeOver
<1>9. ASSUME NEW c \in Calls, Complete(c) \/ Fail(c) PROVE Links'
  BY <1>9, EndKeepsLinks DEF Complete, Fail, Outcomes
<1>10. ASSUME NEW c \in Calls, Dropped(c) PROVE Links'
  <2>1. \A d \in Calls : d # c => call'[d] = call[d]
    BY <1>10 DEF Dropped, Finished, TypeOK
  <2>2. composer.phase = "waiting" => composer.call # c
    BY <1>10 DEF Dropped, Unread, Attended
  <2>3. JobsOfCalls'
    <3>1. CASE call' = [call EXCEPT ![c].phase = "dropped"] /\ call[c].phase = "smtp"
      BY <1>10, <3>1 DEF Dropped, TypeOK, CallStates, Links, JobsOfCalls
    <3>2. CASE Finished(c) /\ call[c].phase = "checks"
      BY <1>10, <3>2 DEF Dropped, Finished, IdleCall, TypeOK, Links, JobsOfCalls
    <3> QED BY <1>10, <3>1, <3>2 DEF Dropped, Unread
  <2> QED BY <1>10, <2>1, <2>2, <2>3 DEF Dropped, Links, ComposerOfCall
<1>11. ASSUME NEW c \in Calls, Abandoned(c) PROVE Links'
  <2>1. composer.phase = "waiting" => composer.call # c
    BY <1>11 DEF Abandoned, Links, ComposerOfCall
  <2>2. JobsOfCalls'
    BY <1>11 DEF Abandoned, Finished, IdleCall, TypeOK, Links, JobsOfCalls
  <2>3. \A d \in Calls : d # c => call'[d] = call[d]
    BY <1>11 DEF Abandoned, Finished, TypeOK
  <2> QED BY <1>11, <2>1, <2>2, <2>3 DEF Abandoned, Links, ComposerOfCall
<1>12. ASSUME NEW c \in Calls,
              SmtpRetries(c) \/ SmtpRefuses(c) \/ SmtpAccepts(c) \/ SmtpVerdict(c)
       PROVE Links'
  <2>1. JobsOfCalls'
    BY <1>12 DEF SmtpRetries, SmtpRefuses, SmtpAccepts, SmtpVerdict, Sessions, TypeOK,
       Links, JobsOfCalls
  <2> QED BY <1>12, <2>1 DEF SmtpRetries, SmtpRefuses, SmtpAccepts, SmtpVerdict,
             Links, ComposerOfCall
<1>13. CASE Edit
  BY <1>13 DEF Edit, TypeOK, Composers, Links, JobsOfCalls, ComposerOfCall
<1>14. CASE GiveUp
  <2>1. composer'.phase # "waiting" /\ composer'.last.id \in Ids
    BY <1>14 DEF GiveUp, Settled, TypeOK, Composers, Attempts, Links, ComposerOfCall
  <2> QED BY <1>14, <2>1 DEF GiveUp, Links, JobsOfCalls, ComposerOfCall
<1>15. CASE Tick
  BY <1>15 DEF Tick, Links, JobsOfCalls, ComposerOfCall
<1>16. CASE Crash
  <2>1. /\ composer'.phase # "waiting"
        /\ composer'.last.outcome # "none" => composer'.last.id \in Ids
        /\ composer'.phase = "sent" => composer'.last.id \in Ids
    BY <1>16 DEF Crash, Settled, TypeOK, Composers, Attempts, Links, ComposerOfCall
  <2>2. JobsOfCalls'
    BY <1>16 DEF Crash, IdleCall, JobsOfCalls
  <2> QED BY <2>1, <2>2 DEF Links, ComposerOfCall
<1> QED
  BY <1>1, <1>2, <1>3, <1>4, <1>6, <1>7, <1>8, <1>9, <1>10, <1>11, <1>12, <1>13, <1>14,
     <1>15, <1>16 DEF Next, CallStep, JobStep

-----------------------------------------------------------------------------
(* Copies and claims *)

\* The claims that may still deliver can be counted.
LEMMA OpenFinite ==
    ASSUME NEW i
    PROVE  /\ IsFiniteSet(Open(i)) /\ Cardinality(Open(i)) \in Nat
           /\ (IsFiniteSet(Open(i)) /\ Cardinality(Open(i)) \in Nat)'
<1>1. IsFiniteSet(Calls)
  BY SendAssumption
<1>2. Open(i) \subseteq Calls /\ Open(i)' \subseteq Calls
  BY DEF Open
<1> QED BY <1>1, <1>2, FS_Subset, FS_CardinalityType

\* A step that opens no session and takes no copy keeps the cover.
LEMMA QuietCover ==
    ASSUME TypeOK, TypeOK', ClaimsCover, UNCHANGED copies, UNCHANGED claims,
           \A d \in Calls : job'[d] \in Sessions => job[d] \in Sessions /\ call'[d].id = call[d].id
    PROVE  ClaimsCover'
<1> SUFFICES ASSUME NEW i \in Ids
             PROVE  copies[i] + Cardinality(Open(i)') <= claims[i]
  BY DEF ClaimsCover
<1>1. Open(i)' \subseteq Open(i)
  BY DEF Open
<1>2. Cardinality(Open(i)') <= Cardinality(Open(i))
  BY <1>1, OpenFinite, FS_Subset
<1> QED BY <1>2, OpenFinite DEF ClaimsCover, TypeOK

\* A granted claim pays for the session it opens.
LEMMA GrantedCover ==
    ASSUME TypeOK, TypeOK', Links, ClaimsCover, UNCHANGED copies, NEW c \in Calls, Granted(c),
           call[c].phase \in {"claim", "takeover"}
    PROVE  ClaimsCover'
<1> DEFINE k == call[c].id
<1>1. k \in Ids /\ job[c] = "none" /\ c \notin Open(k)
  BY DEF Links, JobsOfCalls, Open, Sessions
<1>2. /\ claims' = [claims EXCEPT ![k] = @ + 1]
      /\ call' = [call EXCEPT ![c].phase = "smtp"]
      /\ job' = [job EXCEPT ![c] = "first"]
  BY DEF Granted
<1>3. /\ Open(k)' = Open(k) \cup {c}
      /\ \A i \in Ids \ {k} : Open(i)' = Open(i)
  BY <1>1, <1>2 DEF Open, Sessions, TypeOK, CallStates
<1>4. Cardinality(Open(k)') = Cardinality(Open(k)) + 1
  BY <1>1, <1>3, OpenFinite, FS_AddElement
<1> SUFFICES ASSUME NEW i \in Ids
             PROVE  copies[i] + Cardinality(Open(i)') <= claims'[i]
  BY DEF ClaimsCover
<1>5. CASE i = k
  BY <1>1, <1>2, <1>4, <1>5, OpenFinite DEF ClaimsCover, TypeOK
<1>6. CASE i # k
  BY <1>2, <1>3, <1>6, OpenFinite DEF ClaimsCover, TypeOK
<1> QED BY <1>5, <1>6

\* The server takes a mail from a session, which is closed by it.
LEMMA AcceptsCover ==
    ASSUME TypeOK, TypeOK', Links, ClaimsCover, NEW c \in Calls, SmtpAccepts(c)
    PROVE  ClaimsCover'
<1> DEFINE k == call[c].id
<1>1. k \in Ids /\ c \in Open(k)
  BY DEF SmtpAccepts, Links, JobsOfCalls, Open, Sessions
<1>2. /\ copies' = [copies EXCEPT ![k] = @ + 1] /\ job' = [job EXCEPT ![c] = "accepted"]
      /\ claims' = claims /\ call' = call
  BY DEF SmtpAccepts
<1>3. /\ Open(k)' = Open(k) \ {c}
      /\ \A i \in Ids \ {k} : Open(i)' = Open(i)
  BY <1>1, <1>2 DEF Open, Sessions, TypeOK
<1>4. Cardinality(Open(k)') = Cardinality(Open(k)) - 1
  <2>1. IsFiniteSet(Open(k))
    BY OpenFinite
  <2>2. Cardinality(Open(k) \ {c}) = Cardinality(Open(k)) - 1
    BY <1>1, <2>1, FS_RemoveElement
  <2> QED BY <1>3, <2>2
<1> SUFFICES ASSUME NEW i \in Ids
             PROVE  copies'[i] + Cardinality(Open(i)') <= claims[i]
  BY <1>2 DEF ClaimsCover
<1>5. CASE i = k
  BY <1>1, <1>2, <1>4, <1>5, OpenFinite DEF ClaimsCover, TypeOK
<1>6. CASE i # k
  BY <1>2, <1>3, <1>6, OpenFinite DEF ClaimsCover, TypeOK
<1> QED BY <1>5, <1>6

\* Every step keeps the copies covered by claims.
LEMMA CoverStep ==
    ASSUME TypeOK, TypeOK', Links, ClaimsCover, [Next]_vars
    PROVE  ClaimsCover'
<1>1. CASE UNCHANGED vars
  BY <1>1, QuietCover DEF vars
<1>2. ASSUME NEW c \in Calls, Submit(c) PROVE ClaimsCover'
  BY <1>2, QuietCover DEF Submit, Sessions, TypeOK
<1>3. ASSUME NEW c \in Calls, Finished(c), \A d \in Calls \ {c} : job'[d] = job[d],
             job'[c] \notin Sessions, UNCHANGED <<copies, claims>>
      PROVE  ClaimsCover'
  BY <1>3, QuietCover DEF Finished, TypeOK
<1>4. ASSUME NEW c \in Calls, Granted(c), UNCHANGED copies,
             call[c].phase \in {"claim", "takeover"}
      PROVE  ClaimsCover'
  BY <1>4, GrantedCover
<1>5. ASSUME NEW c \in Calls, UNCHANGED <<job, copies, claims>>,
             \A d \in Calls : call'[d].id = call[d].id
      PROVE  ClaimsCover'
  BY <1>5, QuietCover
<1>6. ASSUME NEW c \in Calls, ChecksRefuse(c) \/ Complete(c) \/ Fail(c) \/ Abandoned(c)
      PROVE  ClaimsCover'
  <2>1. Finished(c) /\ UNCHANGED <<copies, claims>> /\ \A d \in Calls \ {c} : job'[d] = job[d]
    BY <1>6 DEF ChecksRefuse, Complete, Fail, Abandoned, TypeOK
  <2>2. job'[c] \notin Sessions
    BY <1>6 DEF ChecksRefuse, Complete, Fail, Abandoned, TypeOK, Links, JobsOfCalls, Sessions
  <2> QED BY <1>3, <2>1, <2>2
<1>7. ASSUME NEW c \in Calls, ChecksPass(c) PROVE ClaimsCover'
  BY <1>5, <1>7 DEF ChecksPass, TypeOK, CallStates
<1>8. ASSUME NEW c \in Calls, ClaimInsert(c) PROVE ClaimsCover'
  <2>1. CASE call' = [call EXCEPT ![c].phase = "inspect"] /\ UNCHANGED <<claims, job>>
    BY <1>5, <1>8, <2>1 DEF ClaimInsert, TypeOK, CallStates
  <2> QED BY <1>4, <1>8, <2>1 DEF ClaimInsert
<1>9. ASSUME NEW c \in Calls, ClaimInspect(c) PROVE ClaimsCover'
  <2>1. job[c] \notin Sessions /\ UNCHANGED <<job, copies, claims>>
    BY <1>9 DEF ClaimInspect, Links, JobsOfCalls, Sessions
  <2>2. CASE call' = [call EXCEPT ![c].phase = "takeover", ![c].seen = claims[call[c].id]]
    BY <1>5, <2>1, <2>2 DEF TypeOK, CallStates
  <2> QED BY <1>3, <1>9, <2>1, <2>2 DEF ClaimInspect
<1>10. ASSUME NEW c \in Calls, ClaimTakeOver(c) PROVE ClaimsCover'
  <2>1. job[c] \notin Sessions /\ UNCHANGED copies
    BY <1>10 DEF ClaimTakeOver, Links, JobsOfCalls, Sessions
  <2> QED BY <1>3, <1>4, <1>10, <2>1 DEF ClaimTakeOver
<1>11. ASSUME NEW c \in Calls, Dropped(c) PROVE ClaimsCover'
  <2>1. CASE call' = [call EXCEPT ![c].phase = "dropped"]
    BY <1>5, <1>11, <2>1 DEF Dropped, TypeOK, CallStates
  <2>2. CASE Finished(c) /\ call[c].phase = "checks"
    BY <1>3, <1>11, <2>2 DEF Dropped, Links, JobsOfCalls, Sessions
  <2> QED BY <1>11, <2>1, <2>2 DEF Dropped, Unread
<1>12. ASSUME NEW c \in Calls, SmtpRetries(c) \/ SmtpRefuses(c) \/ SmtpVerdict(c)
       PROVE  ClaimsCover'
  BY <1>12, QuietCover DEF SmtpRetries, SmtpRefuses, SmtpVerdict, Sessions, TypeOK
<1>13. ASSUME NEW c \in Calls, SmtpAccepts(c) PROVE ClaimsCover'
  BY <1>13, AcceptsCover
<1>14. CASE Edit \/ GiveUp \/ Tick
  BY <1>14, QuietCover DEF Edit, GiveUp, Tick
<1>15. CASE Crash
  BY <1>15, QuietCover DEF Crash, Sessions
<1> QED
  BY <1>1, <1>2, <1>6, <1>7, <1>8, <1>9, <1>10, <1>11, <1>12, <1>13, <1>14, <1>15
     DEF Next, CallStep, JobStep

-----------------------------------------------------------------------------
(* What was taken and what is reported *)

\* A row or a composer that says sent, and a job past the server's verdict,
\* stand for a copy the server has.
TakenInv == TakenByJob /\ SentMeansTaken

\* Copies are never taken back.
LEMMA CopiesGrow ==
    ASSUME TypeOK, [Next]_vars
    PROVE  \A i \in Ids : copies[i] > 0 => copies'[i] > 0
<1>1. ASSUME NEW c \in Calls, SmtpAccepts(c) PROVE \A i \in Ids : copies[i] > 0 => copies'[i] > 0
  BY <1>1 DEF SmtpAccepts, TypeOK
<1>2. CASE UNCHANGED copies
  BY <1>2
<1> QED
  BY <1>1, <1>2 DEF Next, vars, CallStep, JobStep, Submit, ChecksRefuse, ChecksPass, ClaimInsert,
     ClaimInspect, ClaimTakeOver, Complete, Fail, Dropped, Abandoned, SmtpRetries, SmtpRefuses,
     SmtpVerdict, Edit, GiveUp, Tick, Crash

\* Only the server's acceptance puts a job past the verdict.
LEMMA TakenByJobStep ==
    ASSUME TypeOK, TypeOK', Links, TakenByJob, [Next]_vars
    PROVE  TakenByJob'
<1> SUFFICES ASSUME NEW d \in Calls, job'[d] \in {"accepted", "ok"}
             PROVE  copies'[call'[d].id] > 0
  BY DEF TakenByJob
<1> DEFINE Kept == job[d] \in {"accepted", "ok"} /\ call'[d].id = call[d].id
<1>1. CASE Kept
  <2>1. call[d].id \in Ids /\ copies[call[d].id] > 0
    BY <1>1 DEF TakenByJob, Links, JobsOfCalls
  <2> QED BY <1>1, <2>1, CopiesGrow
<1>2. CASE SmtpAccepts(d)
  <2>1. call[d].id \in Ids /\ call' = call
    BY <1>2 DEF SmtpAccepts, Links, JobsOfCalls, Sessions
  <2> QED BY <1>2, <2>1 DEF SmtpAccepts, TypeOK
<1>3. CASE UNCHANGED vars
  BY <1>1, <1>3 DEF vars
<1>4. ASSUME NEW c \in Calls, Submit(c) PROVE Kept
  BY <1>4 DEF Submit, TypeOK
<1>5. ASSUME NEW c \in Calls, ChecksRefuse(c) PROVE Kept
  BY <1>5 DEF ChecksRefuse, Finished, TypeOK, Links, JobsOfCalls
<1>6. ASSUME NEW c \in Calls, ChecksPass(c) PROVE Kept
  BY <1>6 DEF ChecksPass, TypeOK, CallStates
<1>7. ASSUME NEW c \in Calls, Granted(c) PROVE Kept
  BY <1>7 DEF Granted, TypeOK, CallStates
<1>8. ASSUME NEW c \in Calls, ClaimInsert(c) PROVE Kept
  BY <1>7, <1>8 DEF ClaimInsert, TypeOK, CallStates
<1>9. ASSUME NEW c \in Calls, ClaimInspect(c) PROVE Kept
  <2>1. job[c] = "none" /\ job' = job
    BY <1>9 DEF ClaimInspect, Links, JobsOfCalls, TypeOK
  <2>2. c # d /\ call'[d] = call[d]
    BY <1>9, <2>1 DEF ClaimInspect, Finished, TypeOK
  <2> QED BY <2>1, <2>2
<1>10. ASSUME NEW c \in Calls, ClaimTakeOver(c) PROVE Kept
  <2>1. CASE Finished(c) /\ UNCHANGED job
    BY <1>10, <2>1 DEF ClaimTakeOver, Finished, TypeOK, Links, JobsOfCalls
  <2> QED BY <1>7, <1>10, <2>1 DEF ClaimTakeOver
<1>11. ASSUME NEW c \in Calls, Complete(c) \/ Fail(c) \/ Abandoned(c) PROVE Kept
  BY <1>11 DEF Complete, Fail, Abandoned, Finished, TypeOK
<1>12. ASSUME NEW c \in Calls, Dropped(c) PROVE Kept
  <2>1. CASE call[c].phase = "checks"
    BY <1>12, <2>1 DEF Dropped, Finished, TypeOK, Links, JobsOfCalls
  <2>2. CASE call[c].phase = "smtp"
    BY <1>12, <2>2 DEF Dropped, TypeOK, CallStates
  <2> QED BY <1>12, <2>1, <2>2 DEF Dropped, Unread
<1>13. ASSUME NEW c \in Calls, SmtpRetries(c) \/ SmtpRefuses(c) \/ SmtpVerdict(c) PROVE Kept
  BY <1>13 DEF SmtpRetries, SmtpRefuses, SmtpVerdict, TypeOK
<1>14. ASSUME NEW c \in Calls, SmtpAccepts(c), c # d PROVE Kept
  BY <1>14 DEF SmtpAccepts, TypeOK
<1>15. CASE Edit \/ GiveUp \/ Tick
  BY <1>1, <1>15 DEF Edit, GiveUp, Tick
<1>16. ~Crash
  BY DEF Crash
<1> QED
  BY <1>1, <1>2, <1>3, <1>4, <1>5, <1>6, <1>8, <1>9, <1>10, <1>11, <1>12, <1>13, <1>14,
     <1>15, <1>16 DEF Next, CallStep, JobStep

\* An answer "sent" settles the composer on a mail the server has.
LEMMA SentAnswer ==
    ASSUME TypeOK, Links, SentMeansTaken, NEW c \in Calls, NEW outcome \in Outcomes \cup {"sent"},
           Answers(c, outcome), outcome = "sent" => copies[call[c].id] > 0
    PROVE  composer'.phase = "sent" => composer'.last.id \in Ids /\ copies[composer'.last.id] > 0
<1>1. CASE Attended(c)
  <2>1. composer' = Settled(outcome) /\ composer.id \in Ids /\ composer.id = call[c].id
    BY <1>1 DEF Answers, Attended, Links, ComposerOfCall
  <2>2. /\ composer'.phase = (IF outcome = "sent" THEN "sent" ELSE "editing")
        /\ composer'.last.id = composer.id
    BY <2>1 DEF Settled, TypeOK, Composers
  <2> QED BY <2>1, <2>2
<1>2. CASE ~Attended(c)
  BY <1>2 DEF Answers, SentMeansTaken, Links, ComposerOfCall
<1> QED BY <1>1, <1>2

\* Every step keeps a sent row standing for a taken mail.
LEMMA SentMeansTakenStep ==
    ASSUME TypeOK, TypeOK', Links, TakenInv, [Next]_vars
    PROVE  SentMeansTaken'
<1> USE DEF TakenInv
<1>1. ASSUME NEW i \in Ids, row'[i].status = "sent" PROVE copies'[i] > 0
  <2>1. CASE row[i].status = "sent"
    BY <2>1, CopiesGrow DEF SentMeansTaken
  <2>2. ASSUME NEW c \in Calls, Complete(c), call[c].id = i PROVE copies'[i] > 0
    BY <2>2 DEF Complete, TakenByJob
  <2>3. ASSUME NEW c \in Calls, Granted(c) PROVE row[i].status = "sent"
    BY <1>1, <2>3 DEF Granted, TypeOK
  <2>4. ASSUME NEW c \in Calls, Complete(c), call[c].id # i PROVE row[i].status = "sent"
    BY <1>1, <2>4 DEF Complete, Record, TypeOK, Rows
  <2>5. ASSUME NEW c \in Calls, Fail(c) PROVE row[i].status = "sent"
    BY <1>1, <2>5 DEF Fail, Record, TypeOK, Rows
  <2>6. ASSUME Tick PROVE row[i].status = "sent"
    BY <1>1, <2>6 DEF Tick, TypeOK, Rows
  <2>7. CASE UNCHANGED row
    BY <1>1, <2>1, <2>7
  <2> QED
    BY <2>1, <2>2, <2>3, <2>4, <2>5, <2>6, <2>7 DEF Next, vars, CallStep, JobStep, Submit,
       ChecksRefuse, ChecksPass, ClaimInsert, ClaimInspect, ClaimTakeOver, Dropped, Abandoned,
       SmtpRetries, SmtpRefuses, SmtpAccepts, SmtpVerdict, Edit, GiveUp, Crash
<1>2. composer'.phase = "sent" => composer'.last.id \in Ids /\ copies[composer'.last.id] > 0
  <2>1. CASE UNCHANGED composer
    BY <2>1 DEF SentMeansTaken, Links, ComposerOfCall
  <2>2. ASSUME NEW c \in Calls, Submit(c) PROVE composer'.phase # "sent"
    BY <2>2 DEF Submit, TypeOK, Composers
  <2>3. ASSUME NEW c \in Calls, ChecksRefuse(c) PROVE <1>2
    BY <2>3, SentAnswer DEF ChecksRefuse, Outcomes
  <2>4. ASSUME NEW c \in Calls, ClaimInspect(c) PROVE <1>2
    <3>1. call[c].id \in Ids
      BY <2>4 DEF ClaimInspect, Links, JobsOfCalls
    <3> QED BY <2>1, <2>4, <3>1, SentAnswer DEF ClaimInspect, Outcomes, SentMeansTaken
  <2>5. ASSUME NEW c \in Calls, ClaimTakeOver(c) PROVE <1>2
    BY <2>1, <2>5, SentAnswer DEF ClaimTakeOver, Outcomes
  <2>6. ASSUME NEW c \in Calls, Complete(c) PROVE <1>2
    BY <2>6, SentAnswer DEF Complete, TakenByJob, Outcomes
  <2>7. ASSUME NEW c \in Calls, Fail(c) PROVE <1>2
    BY <2>7, SentAnswer DEF Fail, Outcomes
  <2>8. ASSUME Edit PROVE composer'.phase # "sent"
    BY <2>8 DEF Edit, TypeOK, Composers
  <2>9. ASSUME GiveUp PROVE composer'.phase # "sent"
    BY <2>9 DEF GiveUp, Settled, TypeOK, Composers
  <2>10. CASE Crash
    BY <2>1, <2>10 DEF Crash, Settled, TypeOK, Composers
  <2> QED
    BY <2>1, <2>2, <2>3, <2>4, <2>5, <2>6, <2>7, <2>8, <2>9, <2>10 DEF Next, vars, CallStep,
       JobStep, ChecksPass, ClaimInsert, Dropped, Abandoned, SmtpRetries, SmtpRefuses,
       SmtpAccepts, SmtpVerdict, Tick
<1> QED BY <1>1, <1>2, CopiesGrow DEF SentMeansTaken

-----------------------------------------------------------------------------
(* The theorems *)

\* What every reachable state satisfies.
IInv == TypeOK /\ Links /\ ClaimsCover /\ TakenInv

\* IInv is an invariant: it holds at the start and every step keeps it.
LEMMA Inductive == Spec => []IInv
<1>1. Init => IInv
  <2> SUFFICES ASSUME Init PROVE IInv
    OBVIOUS
  <2>1. TypeOK
    BY TypeInit
  <2>2. Links
    BY DEF Init, IdleCall, Links, JobsOfCalls, ComposerOfCall
  <2>3. \A i \in Ids : Open(i) = {}
    BY DEF Init, Open, Sessions
  <2>4. ClaimsCover
    <3>1. \A i \in Ids : copies[i] = 0 /\ claims[i] = 0
      BY DEF Init
    <3>2. Cardinality({}) = 0
      BY FS_EmptySet
    <3> QED BY <2>3, <3>1, <3>2 DEF ClaimsCover
  <2>5. TakenInv
    BY DEF Init, TakenInv, TakenByJob, SentMeansTaken, NoRow
  <2> QED BY <2>1, <2>2, <2>4, <2>5 DEF IInv
<1>2. IInv /\ [Next]_vars => IInv'
  <2> SUFFICES ASSUME IInv, [Next]_vars PROVE IInv'
    OBVIOUS
  <2>1. TypeOK'
    BY TypeStep DEF IInv
  <2> QED
    BY <2>1, LinksStep, CoverStep, TakenByJobStep, SentMeansTakenStep DEF IInv, TakenInv
<1> QED BY <1>1, <1>2, PTL DEF Spec

\* TypeOK holds of every reachable state.
THEOREM TypeCorrect == Spec => []TypeOK
<1>1. IInv => TypeOK
  BY DEF IInv
<1> QED BY <1>1, Inductive, PTL

\* The server takes a mail at most once per claim of its requestId, whatever
\* retries, dropped handlers, lost answers, failed writes and crashes do.
THEOREM CopiesNeedClaims == Spec => []OneCopyPerClaim
<1>1. IInv => OneCopyPerClaim
  BY OpenFinite DEF IInv, TypeOK, ClaimsCover, OneCopyPerClaim
<1> QED BY <1>1, Inductive, PTL

\* Nothing is reported sent, in the store or to the user, that did not leave.
THEOREM SentIsTaken == Spec => []SentMeansTaken
<1>1. IInv => SentMeansTaken
  BY DEF IInv, TakenInv
<1> QED BY <1>1, Inductive, PTL

-----------------------------------------------------------------------------
(* Results stay: who may still record one *)

\* While a handler waits for SMTP the claim it will record for is fresh and its
\* own.  (The minutes that make a claim stale also drop the handler.)
FreshClaims ==
    \A c \in Calls : call[c].phase = "smtp" =>
        /\ row[call[c].id].status = "pending" /\ row[call[c].id].age = 0
        /\ \A d \in Calls : call[d].phase = "smtp" /\ call[d].id = call[c].id => d = c

\* A take-over that will be granted is of a claim whose handler is gone.
StaleClaims ==
    \A c \in Calls : call[c].phase = "takeover" =>
        /\ call[c].seen <= claims[call[c].id]
        /\ call[c].seen = claims[call[c].id] /\ row[call[c].id].status = "pending"
             => row[call[c].id].age > Lease

Recorders == FreshClaims /\ StaleClaims

\* A step that leaves the rows alone and starts no session or take-over.
LEMMA QuietRecorders ==
    ASSUME Recorders, UNCHANGED <<row, claims>>,
           \A d \in Calls : call'[d] = call[d] \/ call'[d].phase \notin {"smtp", "takeover"}
    PROVE  Recorders'
BY DEF Recorders, FreshClaims, StaleClaims

\* A claim is granted on a row nobody records for any more.
LEMMA GrantedRecorders ==
    ASSUME TypeOK, Links, Recorders, NEW c \in Calls, call[c].id \in Ids, Granted(c),
           \A d \in Calls : call[d].phase = "smtp" => call[d].id # call[c].id
    PROVE  Recorders'
<1> DEFINE k == call[c].id
<1>1. /\ row'[k] = [status |-> "pending", age |-> 0] /\ claims'[k] = claims[k] + 1
      /\ \A i \in Ids \ {k} : row'[i] = row[i] /\ claims'[i] = claims[i]
      /\ call'[c].phase = "smtp" /\ call'[c].id = k
      /\ \A d \in Calls \ {c} : call'[d] = call[d]
  BY DEF Granted, TypeOK, CallStates
<1>0. \A d \in Calls : call[d].phase # "idle" => call[d].id \in Ids
  BY DEF Links, JobsOfCalls
<1>2. FreshClaims'
  <2> SUFFICES ASSUME NEW d \in Calls, call'[d].phase = "smtp"
               PROVE  /\ row'[call'[d].id].status = "pending" /\ row'[call'[d].id].age = 0
                      /\ \A e \in Calls :
                           call'[e].phase = "smtp" /\ call'[e].id = call'[d].id => e = d
    BY DEF FreshClaims
  <2>1. CASE d = c
    BY <1>1, <2>1
  <2>2. CASE d # c
    <3>1. call'[d] = call[d] /\ call[d].id \in Ids \ {k}
      BY <1>1, <1>0, <2>2
    <3> QED BY <1>1, <3>1 DEF Recorders, FreshClaims
  <2> QED BY <2>1, <2>2
<1>3. StaleClaims'
  <2> SUFFICES ASSUME NEW d \in Calls, call'[d].phase = "takeover"
               PROVE  /\ call'[d].seen <= claims'[call'[d].id]
                      /\ call'[d].seen = claims'[call'[d].id]
                           /\ row'[call'[d].id].status = "pending"
                           => row'[call'[d].id].age > Lease
    BY DEF StaleClaims
  <2>1. /\ call'[d] = call[d] /\ call[d].id \in Ids
        /\ call[d].seen <= claims[call[d].id] /\ call[d].seen \in Nat
    BY <1>1, <1>0 DEF Recorders, StaleClaims, TypeOK, CallStates
  <2>2. CASE call[d].id = k
    BY <1>1, <2>1, <2>2 DEF TypeOK
  <2>3. CASE call[d].id # k
    BY <1>1, <2>1, <2>3 DEF Recorders, StaleClaims
  <2> QED BY <2>2, <2>3
<1> QED BY <1>2, <1>3 DEF Recorders

\* The call that records is done, and nobody else records for its row.
LEMMA RecordRecorders ==
    ASSUME TypeOK, Links, Recorders, NEW c \in Calls, call[c].phase = "smtp",
           NEW status \in {"sent", "failed"}, Record(call[c].id, status), Finished(c),
           UNCHANGED claims
    PROVE  Recorders'
<1> DEFINE k == call[c].id
<1>1. /\ k \in Ids
      /\ call'[c].phase = "idle" /\ \A d \in Calls \ {c} : call'[d] = call[d]
  BY DEF Links, JobsOfCalls, Finished, IdleCall, TypeOK
<1>2. /\ \A i \in Ids \ {k} : row'[i] = row[i]
      /\ row'[k] = row[k] \/ row'[k].status # "pending"
  BY <1>1 DEF Record, TypeOK, Rows
<1>0. \A d \in Calls : call[d].phase # "idle" => call[d].id \in Ids
  BY DEF Links, JobsOfCalls
<1>3. FreshClaims'
  BY <1>1, <1>2, <1>0 DEF Recorders, FreshClaims
<1>4. StaleClaims'
  BY <1>1, <1>2, <1>0 DEF Recorders, StaleClaims
<1> QED BY <1>3, <1>4 DEF Recorders

\* Every step keeps it that way.
LEMMA RecordersStep ==
    ASSUME TypeOK, Links, Recorders, [Next]_vars
    PROVE  Recorders'
<1>1. CASE UNCHANGED vars
  BY <1>1, QuietRecorders DEF vars
<1>2. ASSUME NEW c \in Calls,
             Submit(c) \/ ChecksRefuse(c) \/ ChecksPass(c) \/ Dropped(c) \/ Abandoned(c)
      PROVE  Recorders'
  BY <1>2, QuietRecorders DEF Submit, ChecksRefuse, ChecksPass, Dropped, Abandoned, Finished,
     IdleCall, TypeOK, CallStates
<1>3. ASSUME NEW c \in Calls, ClaimInsert(c) PROVE Recorders'
  <2>1. CASE Granted(c) /\ row[call[c].id].status = "none"
    <3>1. call[c].id \in Ids
      BY <1>3 DEF ClaimInsert, Links, JobsOfCalls
    <3>2. \A d \in Calls : call[d].phase = "smtp" => call[d].id # call[c].id
      BY <2>1 DEF Recorders, FreshClaims
    <3> QED BY <2>1, <3>1, <3>2, GrantedRecorders
  <2>2. CASE call' = [call EXCEPT ![c].phase = "inspect"] /\ UNCHANGED <<row, claims, job>>
    BY <2>2, QuietRecorders DEF TypeOK, CallStates
  <2> QED BY <1>3, <2>1, <2>2 DEF ClaimInsert
<1>4. ASSUME NEW c \in Calls, ClaimInspect(c) PROVE Recorders'
  <2>1. UNCHANGED <<row, claims>>
    BY <1>4 DEF ClaimInspect
  <2>2. CASE Finished(c)
    BY <2>1, <2>2, QuietRecorders DEF Finished, IdleCall, TypeOK
  <2>3. CASE /\ Stale(call[c].id)
             /\ call' = [call EXCEPT ![c].phase = "takeover", ![c].seen = claims[call[c].id]]
    <3>1. /\ \A d \in Calls \ {c} : call'[d] = call[d]
          /\ call'[c].phase = "takeover" /\ call'[c].id = call[c].id
          /\ call'[c].seen = claims[call[c].id] /\ claims[call[c].id] \in Nat
      BY <1>4, <2>3 DEF ClaimInspect, TypeOK, CallStates, Links, JobsOfCalls
    <3>2. FreshClaims'
      BY <2>1, <3>1 DEF Recorders, FreshClaims
    <3>3. StaleClaims'
      <4>1. row[call[c].id].age > Lease
        BY <2>3 DEF Stale
      <4> QED BY <2>1, <3>1, <4>1 DEF Recorders, StaleClaims
    <3> QED BY <3>2, <3>3 DEF Recorders
  <2> QED BY <1>4, <2>2, <2>3 DEF ClaimInspect
<1>5. ASSUME NEW c \in Calls, ClaimTakeOver(c) PROVE Recorders'
  <2>1. CASE Finished(c) /\ UNCHANGED <<row, claims, job>>
    BY <2>1, QuietRecorders DEF Finished, IdleCall, TypeOK
  <2>2. CASE Granted(c) /\ row[call[c].id].status = "pending" /\ claims[call[c].id] = call[c].seen
    <3>1. call[c].id \in Ids /\ row[call[c].id].age > Lease
      BY <1>5, <2>2 DEF ClaimTakeOver, Links, JobsOfCalls, Recorders, StaleClaims
    <3>2. \A d \in Calls : call[d].phase = "smtp" => call[d].id # call[c].id
      BY <3>1, SendAssumption DEF Recorders, FreshClaims
    <3> QED BY <2>2, <3>1, <3>2, GrantedRecorders
  <2> QED BY <1>5, <2>1, <2>2 DEF ClaimTakeOver
<1>6. ASSUME NEW c \in Calls, Complete(c) \/ Fail(c) PROVE Recorders'
  BY <1>6, RecordRecorders DEF Complete, Fail
<1>7. ASSUME NEW c \in Calls,
             SmtpRetries(c) \/ SmtpRefuses(c) \/ SmtpAccepts(c) \/ SmtpVerdict(c)
      PROVE  Recorders'
  BY <1>7, QuietRecorders DEF SmtpRetries, SmtpRefuses, SmtpAccepts, SmtpVerdict
<1>8. CASE Edit \/ GiveUp
  BY <1>8, QuietRecorders DEF Edit, GiveUp
<1>9. CASE Tick
  <2>1. \A c \in Calls : call[c].phase # "smtp"
    BY <1>9 DEF Tick, Unread, Attended
  <2>2. \A i \in Ids : row'[i].status = row[i].status /\ (row[i].age > Lease => row'[i] = row[i])
    BY <1>9, SendAssumption DEF Tick, TypeOK, Rows
  <2>3. \A c \in Calls : call[c].phase = "takeover" => call[c].id \in Ids
    BY DEF Links, JobsOfCalls
  <2> QED BY <1>9, <2>1, <2>2, <2>3 DEF Tick, Recorders, FreshClaims, StaleClaims
<1>10. CASE Crash
  BY <1>10, QuietRecorders DEF Crash, IdleCall
<1> QED
  BY <1>1, <1>2, <1>3, <1>4, <1>5, <1>6, <1>7, <1>8, <1>9, <1>10 DEF Next, CallStep, JobStep

\* A row that holds a result keeps it over every step.
LEMMA ResultStep ==
    ASSUME TypeOK, Links, Recorders, [Next]_vars, NEW i \in Ids,
           row[i].status \in {"sent", "failed"}
    PROVE  row'[i].status = row[i].status
<1>1. CASE UNCHANGED row
  BY <1>1
<1>2. ASSUME NEW c \in Calls, Granted(c), row[call[c].id].status \in {"none", "pending"}
      PROVE  row'[i].status = row[i].status
  BY <1>2 DEF Granted, TypeOK
<1>3. ASSUME NEW c \in Calls, Complete(c) \/ Fail(c) PROVE row'[i].status = row[i].status
  <2>1. call[c].phase = "smtp" /\ call[c].id # i
    BY <1>3 DEF Complete, Fail, Recorders, FreshClaims
  <2> QED BY <1>3, <2>1 DEF Complete, Fail, Record, TypeOK
<1>4. CASE Tick
  BY <1>4 DEF Tick, TypeOK
<1> QED
  BY <1>1, <1>2, <1>3, <1>4 DEF Next, vars, CallStep, JobStep, Submit, ChecksRefuse,
     ChecksPass, ClaimInsert, ClaimInspect, ClaimTakeOver, Dropped, Abandoned, SmtpRetries,
     SmtpRefuses, SmtpAccepts, SmtpVerdict, Edit, GiveUp, Crash

\* A result once recorded is never changed: a replay answers the first one.
THEOREM ResultsStay == Spec => FirstResultStays
<1>1. Init => Recorders
  BY DEF Init, IdleCall, Recorders, FreshClaims, StaleClaims
<1>2. IInv /\ Recorders /\ [Next]_vars => Recorders'
  BY RecordersStep DEF IInv
<1>3. IInv /\ Recorders /\ [Next]_vars
        => [\A i \in Ids : row[i].status \in {"sent", "failed"} => row'[i].status = row[i].status]_vars
  BY ResultStep DEF IInv
<1> QED BY <1>1, <1>2, <1>3, Inductive, PTL DEF Spec, FirstResultStays

-----------------------------------------------------------------------------
(* The refinement *)

\* What the abstract state is left alone by.
Hidden == UNCHANGED <<Results, claims, copies>>

\* A row that becomes pending, with its claim counted, is a granted attempt.
LEMMA GrantsAbstractly ==
    ASSUME TypeOK, NEW c \in Calls, call[c].id \in Ids, Granted(c), UNCHANGED copies,
           row[call[c].id].status \in {"none", "pending"}
    PROVE  Abstract!Grant(call[c].id)
<1> DEFINE k == call[c].id
<1>1. Results[k] \notin {"sent", "failed"}
  BY DEF Results
<1>2. Results' = [Results EXCEPT ![k] = "pending"]
  <2>1. \A i \in Ids : row'[i].status = IF i = k THEN "pending" ELSE row[i].status
    BY DEF Granted, TypeOK
  <2> QED BY <2>1 DEF Results
<1> QED BY <1>1, <1>2 DEF Granted, Abstract!Grant, Abstract!Settled

\* The server takes a mail on a claim no copy has been taken for.
LEMMA AcceptsAbstractly ==
    ASSUME TypeOK, Links, ClaimsCover, NEW c \in Calls, SmtpAccepts(c)
    PROVE  call[c].id \in Ids /\ Abstract!Deliver(call[c].id)
<1> DEFINE k == call[c].id
<1>1. k \in Ids /\ c \in Open(k)
  BY DEF SmtpAccepts, Links, JobsOfCalls, Open, Sessions
<1>2. Cardinality(Open(k)) # 0
  BY <1>1, OpenFinite, FS_EmptySet
<1>3. copies[k] < claims[k]
  BY <1>1, <1>2, OpenFinite DEF ClaimsCover, TypeOK
<1>4. Results' = Results
  BY DEF SmtpAccepts, Results
<1> QED BY <1>1, <1>3, <1>4 DEF SmtpAccepts, Abstract!Deliver

\* A result is recorded on a pending row, which is all that changes, or not at all.
LEMMA RecordsAbstractly ==
    ASSUME TypeOK, Links, Recorders, NEW c \in Calls, call[c].phase = "smtp",
           NEW status \in {"sent", "failed"}, Record(call[c].id, status)
    PROVE  /\ call[c].id \in Ids /\ Results[call[c].id] = "pending"
           /\ Results' = Results \/ Results' = [Results EXCEPT ![call[c].id] = status]
<1> DEFINE k == call[c].id
<1>1. k \in Ids /\ Results[k] = "pending"
  BY DEF Links, JobsOfCalls, Recorders, FreshClaims, Results
<1>2. CASE row' = [row EXCEPT ![k].status = status]
  <2>1. \A i \in Ids : row'[i].status = IF i = k THEN status ELSE row[i].status
    BY <1>2 DEF TypeOK, Rows
  <2> QED BY <1>1, <2>1 DEF Results
<1>3. CASE UNCHANGED row
  BY <1>1, <1>3 DEF Results
<1> QED BY <1>2, <1>3 DEF Record

\* Every step of the sending is a step of the outbox or leaves it alone.
LEMMA StepImplements ==
    ASSUME IInv, Recorders, [Next]_vars
    PROVE  Abstract!Next \/ Hidden
<1> USE DEF IInv
<1>1. CASE UNCHANGED <<row, claims, copies>>
  BY <1>1 DEF Hidden, Results
<1>2. ASSUME NEW c \in Calls, Granted(c), UNCHANGED copies, call[c].phase # "idle",
             row[call[c].id].status \in {"none", "pending"}
      PROVE  Abstract!Next
  <2>1. call[c].id \in Ids
    BY <1>2 DEF Links, JobsOfCalls
  <2> QED BY <1>2, <2>1, GrantsAbstractly DEF Abstract!Next
<1>3. ASSUME NEW c \in Calls, ClaimInsert(c) PROVE Abstract!Next \/ Hidden
  BY <1>1, <1>2, <1>3 DEF ClaimInsert
<1>4. ASSUME NEW c \in Calls, ClaimTakeOver(c) PROVE Abstract!Next \/ Hidden
  BY <1>1, <1>2, <1>4 DEF ClaimTakeOver
<1>5. ASSUME NEW c \in Calls, SmtpAccepts(c) PROVE Abstract!Next
  BY <1>5, AcceptsAbstractly DEF Abstract!Next
<1>6. ASSUME NEW c \in Calls, Complete(c) PROVE Abstract!Next \/ Hidden
  <2>1. /\ call[c].id \in Ids /\ Results[call[c].id] = "pending"
        /\ Results' = Results \/ Results' = [Results EXCEPT ![call[c].id] = "sent"]
    BY <1>6, RecordsAbstractly DEF Complete
  <2>2. copies[call[c].id] > 0 /\ UNCHANGED <<claims, copies>>
    BY <1>6 DEF Complete, TakenInv, TakenByJob
  <2>3. Abstract!Complete(call[c].id) \/ Hidden
    BY <2>1, <2>2 DEF Abstract!Complete, Hidden
  <2> QED BY <2>1, <2>3 DEF Abstract!Next
<1>7. ASSUME NEW c \in Calls, Fail(c) PROVE Abstract!Next \/ Hidden
  <2>1. /\ call[c].id \in Ids /\ Results[call[c].id] = "pending"
        /\ Results' = Results \/ Results' = [Results EXCEPT ![call[c].id] = "failed"]
    BY <1>7, RecordsAbstractly DEF Fail
  <2>2. Abstract!Fail(call[c].id) \/ Hidden
    BY <1>7, <2>1 DEF Fail, Abstract!Fail, Hidden
  <2> QED BY <2>1, <2>2 DEF Abstract!Next
<1>8. CASE Tick
  <2>1. \A i \in Ids : row'[i].status = row[i].status
    BY <1>8 DEF Tick, TypeOK, Rows
  <2> QED BY <1>8, <2>1 DEF Tick, Hidden, Results
<1> QED
  BY <1>1, <1>3, <1>4, <1>5, <1>6, <1>7, <1>8 DEF Next, vars, CallStep, JobStep, Submit,
     ChecksRefuse, ChecksPass, ClaimInspect, Dropped, Abandoned, SmtpRetries, SmtpRefuses,
     SmtpVerdict, Edit, GiveUp, Crash

\* Whatever is retried, dropped, taken over or lost, a requestId behaves like one
\* of the outbox: no copy without an attempt granted for it, no attempt after a
\* result, no result that changes (claim_send, complete_send, fail_send).
THEOREM SendImplementsOutbox == Spec => ImplementsOutbox
<1>1. Init => Abstract!Init /\ Recorders
  BY DEF Init, Abstract!Init, Results, NoRow, IdleCall, Recorders, FreshClaims, StaleClaims
<1>2. IInv /\ Recorders /\ [Next]_vars => Recorders'
  BY RecordersStep DEF IInv
<1>3. IInv /\ Recorders /\ [Next]_vars => [Abstract!Next]_(Abstract!vars)
  BY StepImplements DEF Hidden, Abstract!vars
<1> QED
  BY <1>1, <1>2, <1>3, Inductive, PTL DEF Spec, ImplementsOutbox, Abstract!Spec
=============================================================================
