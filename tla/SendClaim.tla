----------------------------- MODULE SendClaim -----------------------------
(***************************************************************************)
(* Sending a mail: the composer that retries, the send routes that own a   *)
(* requestId, the SMTP job that runs on a blocking thread, and the         *)
(* ai_actions row that decides who may talk to SMTP.                       *)
(*                                                                         *)
(* The row is the only thing that survives a crash.  The SMTP job outlives *)
(* its handler: when the shell gives up after its 60 s budget the          *)
(* connection closes and the handler is dropped at its await, but the      *)
(* blocking thread goes on and nobody is left to record what it did.       *)
(***************************************************************************)
EXTENDS Integers, FiniteSets

CONSTANTS
    Calls,          \* HTTP calls the backend may be working on at one time
    Mails,          \* what the user may have in the composer
    Lease,          \* SEND_CLAIM_LEASE_MS, in ticks
    MaxIds,         \* bound on the requestIds the composer mints
    VerdictLost,    \* the server may take the DATA and its 250 not arrive
    Budget          \* bound on how often each kind of event in Events happens

Events == {"lost", "crash", "disk", "smtp", "edit"}
Ids    == 1..MaxIds

ASSUME SendAssumption ==
    /\ IsFiniteSet(Calls) /\ Mails # {}
    /\ Lease \in Nat /\ MaxIds \in Nat
    /\ VerdictLost \in BOOLEAN
    /\ Budget \in [Events -> Nat]

VARIABLES
    composer,   \* what the user sees and the last attempt it remembers
    minted,     \* the requestIds minted so far are 1..minted
    mailOf,     \* mailOf[i]: the content sent under requestId i
    warned,     \* warned[i]: the user saw the duplicate warning for i
    row,        \* row[i]: the ai_actions row of requestId i
    claims,     \* claims[i]: how often i was claimed (distinct claimedAt's)
    call,       \* call[c]: a request in the backend
    job,        \* job[c]: the SMTP session started for call c
    copies,     \* copies[i]: how many times the server took the mail of i
    left        \* what remains of Budget

ids  == <<minted, mailOf, warned>>
vars == <<composer, minted, mailOf, warned, row, claims, call, job, copies, left>>

-----------------------------------------------------------------------------

NoId     == 0
NoRow    == [status |-> "none", age |-> 0]
IdleCall == [phase |-> "idle", id |-> NoId, seen |-> 0]

\* A pending row ages up to the first tick past the lease.
Rows  == [status : {"none", "pending", "sent", "failed"}, age : 0..(Lease + 1)]
CallStates == [phase : {"idle", "checks", "claim", "inspect", "takeover", "smtp", "dropped"},
               id : {NoId} \cup Ids, seen : Nat]
JobStates  == {"none", "first", "second", "accepted", "ok", "failed"}
Outcomes   == {"refused", "unknown", "inflight"}
Attempts   == [id : {NoId} \cup Ids, mail : Mails, outcome : {"none"} \cup Outcomes]
Composers  == [phase : {"editing", "waiting", "sent"}, mail : Mails, last : Attempts,
               call : Calls \cup {NoId}, id : {NoId} \cup Ids]

Spend(event) == /\ left[event] > 0
                /\ left' = [left EXCEPT ![event] = @ - 1]

Init ==
    /\ \E m \in Mails :
         /\ composer = [phase |-> "editing", mail |-> m, call |-> NoId, id |-> NoId,
                        last |-> [id |-> NoId, mail |-> m, outcome |-> "none"]]
         /\ mailOf = [i \in Ids |-> m]
    /\ minted = 0
    /\ warned = [i \in Ids |-> FALSE]
    /\ row = [i \in Ids |-> NoRow]
    /\ claims = [i \in Ids |-> 0]
    /\ call = [c \in Calls |-> IdleCall]
    /\ job = [c \in Calls |-> "none"]
    /\ copies = [i \in Ids |-> 0]
    /\ left = Budget

-----------------------------------------------------------------------------
(* The composer *)

Uncertain(attempt) == attempt.outcome \in {"unknown", "inflight"}

\* requestIdFor: the id of an uncertain attempt with the same content is used
\* again; everything else mints.
Reuses == composer.last.mail = composer.mail /\ Uncertain(composer.last)
WarnsDuplicate == composer.last.mail # composer.mail /\ Uncertain(composer.last)

Submit(c) ==
    LET i == IF Reuses THEN composer.last.id ELSE minted + 1
    IN  /\ composer.phase = "editing"
        /\ call[c].phase = "idle" /\ job[c] = "none"
        /\ i <= MaxIds
        /\ composer' = [composer EXCEPT !.phase = "waiting", !.call = c, !.id = i]
        /\ minted' = IF Reuses THEN minted ELSE i
        /\ mailOf' = [mailOf EXCEPT ![i] = composer.mail]
        /\ warned' = IF Reuses THEN warned ELSE [warned EXCEPT ![i] = WarnsDuplicate]
        /\ call' = [call EXCEPT ![c] = [phase |-> "checks", id |-> i, seen |-> 0]]
        /\ UNCHANGED <<row, claims, job, copies, left>>

Edit ==
    /\ composer.phase = "editing"
    /\ Spend("edit")
    /\ \E m \in Mails \ {composer.mail} : composer' = [composer EXCEPT !.mail = m]
    /\ UNCHANGED <<ids, row, claims, call, job, copies>>

Settled(outcome) ==
    [composer EXCEPT !.phase = IF outcome = "sent" THEN "sent" ELSE "editing",
                     !.last = [id |-> composer.id, mail |-> composer.mail,
                               outcome |-> IF outcome = "sent" THEN "none" ELSE outcome],
                     !.call = NoId, !.id = NoId]

Attended(c) == composer.phase = "waiting" /\ composer.call = c

\* The answer of call c: the composer takes it if it still waits for it.
Answers(c, outcome) ==
    composer' = IF Attended(c) THEN Settled(outcome) ELSE composer

\* No answer in time, or none at all: the call goes on without a reader.
GiveUp ==
    /\ composer.phase = "waiting"
    /\ Spend("lost")
    /\ composer' = Settled("unknown")
    /\ UNCHANGED <<ids, row, claims, call, job, copies>>

-----------------------------------------------------------------------------
(* The send route: deliver and claim_send *)

Finished(c) == call' = [call EXCEPT ![c] = IdleCall]

\* Reads, validation and the forwarded original: refused before SMTP.
ChecksRefuse(c) ==
    /\ call[c].phase = "checks"
    /\ Spend("smtp")
    /\ Answers(c, "refused") /\ Finished(c)
    /\ UNCHANGED <<ids, row, claims, job, copies>>

ChecksPass(c) ==
    /\ call[c].phase = "checks"
    /\ call' = [call EXCEPT ![c].phase = "claim"]
    /\ UNCHANGED <<composer, ids, row, claims, job, copies, left>>

\* The claim is granted: the row is pending from now on and the SMTP job starts.
Granted(c) ==
    LET i == call[c].id
    IN  /\ row' = [row EXCEPT ![i] = [status |-> "pending", age |-> 0]]
        /\ claims' = [claims EXCEPT ![i] = @ + 1]
        /\ call' = [call EXCEPT ![c].phase = "smtp"]
        /\ job' = [job EXCEPT ![c] = "first"]

\* INSERT, with the unique index on the requestId as the lock.
ClaimInsert(c) ==
    /\ call[c].phase = "claim"
    /\ IF row[call[c].id].status = "none"
         THEN Granted(c)
         ELSE /\ call' = [call EXCEPT ![c].phase = "inspect"]
              /\ UNCHANGED <<row, claims, job>>
    /\ UNCHANGED <<composer, ids, copies, left>>

\* Mutant: a claim is never given up.
StaleNever(i) == FALSE

Stale(i) == row[i].status = "pending" /\ row[i].age > Lease

\* SELECT of the row that won.
ClaimInspect(c) ==
    LET i == call[c].id
    IN  /\ call[c].phase = "inspect"
        /\ \/ row[i].status = "sent"   /\ Answers(c, "sent")    /\ Finished(c)
           \/ row[i].status = "failed" /\ Answers(c, "refused") /\ Finished(c)
           \/ row[i].status = "pending" /\ ~Stale(i) /\ Answers(c, "inflight") /\ Finished(c)
           \/ /\ Stale(i)
              /\ call' = [call EXCEPT ![c].phase = "takeover", ![c].seen = claims[i]]
              /\ UNCHANGED composer
        /\ UNCHANGED <<ids, row, claims, job, copies, left>>

\* Mutant: the take-over does not compare what it read.
ClaimTakeOverBlindly(c) ==
    /\ call[c].phase = "takeover"
    /\ Granted(c)
    /\ UNCHANGED <<composer, ids, copies, left>>

\* UPDATE ... WHERE status and claimedAt are still those that were read.
ClaimTakeOver(c) ==
    LET i == call[c].id
    IN  /\ call[c].phase = "takeover"
        /\ IF row[i].status = "pending" /\ claims[i] = call[c].seen
             THEN Granted(c) /\ UNCHANGED composer
             ELSE Answers(c, "inflight") /\ Finished(c) /\ UNCHANGED <<row, claims, job>>
        /\ UNCHANGED <<ids, copies, left>>

\* Mutant: the result is written under a status claim_send does not know.
RecordUnknownStatus(i, status) ==
    row' = [row EXCEPT ![i].status = "delivered"] /\ UNCHANGED left

\* complete_send and fail_send name the row and nothing else; a write that
\* fails is logged, the answer is the same.
Record(i, status) ==
    \/ row' = [row EXCEPT ![i].status = status] /\ UNCHANGED left
    \/ Spend("disk") /\ UNCHANGED row

Complete(c) ==
    /\ call[c].phase = "smtp" /\ job[c] = "ok"
    /\ Record(call[c].id, "sent")
    /\ Answers(c, "sent") /\ Finished(c)
    /\ job' = [job EXCEPT ![c] = "none"]
    /\ UNCHANGED <<ids, claims, copies>>

\* Mutant: a send that failed is recorded with complete_send.
FailAsSent(c) ==
    /\ call[c].phase = "smtp" /\ job[c] = "failed"
    /\ Record(call[c].id, "sent")
    /\ Answers(c, "refused") /\ Finished(c)
    /\ job' = [job EXCEPT ![c] = "none"]
    /\ UNCHANGED <<ids, claims, copies>>

Fail(c) ==
    /\ call[c].phase = "smtp" /\ job[c] = "failed"
    /\ Record(call[c].id, "failed")
    /\ Answers(c, "refused") /\ Finished(c)
    /\ job' = [job EXCEPT ![c] = "none"]
    /\ UNCHANGED <<ids, claims, copies>>

\* Nobody reads the connection any more: the handler is dropped at an await.
Unread(c) == ~Attended(c) /\ call[c].phase \in {"checks", "smtp"}

Dropped(c) ==
    /\ Unread(c)
    /\ IF call[c].phase = "smtp" THEN call' = [call EXCEPT ![c].phase = "dropped"]
                                 ELSE Finished(c)
    /\ UNCHANGED <<composer, ids, row, claims, job, copies, left>>

\* The blocking thread of a dropped handler ends; its result goes nowhere.
Abandoned(c) ==
    /\ call[c].phase = "dropped" /\ job[c] \in {"ok", "failed"}
    /\ Finished(c)
    /\ job' = [job EXCEPT ![c] = "none"]
    /\ UNCHANGED <<composer, ids, row, claims, copies, left>>

-----------------------------------------------------------------------------
(* The SMTP job: send_raw and run_session *)

Sessions == {"first", "second"}

\* Before DATA a transport error or a 4xx may be tried again, once.
SmtpRetries(c) ==
    /\ job[c] = "first"
    /\ Spend("smtp")
    /\ job' = [job EXCEPT ![c] = "second"]
    /\ UNCHANGED <<composer, ids, row, claims, call, copies>>

\* A verdict (5xx, AUTH) or a second failure before the message is taken.
SmtpRefuses(c) ==
    /\ job[c] \in Sessions
    /\ Spend("smtp")
    /\ job' = [job EXCEPT ![c] = "failed"]
    /\ UNCHANGED <<composer, ids, row, claims, call, copies>>

\* The server takes the message into its queue.
SmtpAccepts(c) ==
    /\ job[c] \in Sessions
    /\ copies' = [copies EXCEPT ![call[c].id] = @ + 1]
    /\ job' = [job EXCEPT ![c] = "accepted"]
    /\ UNCHANGED <<composer, ids, row, claims, call, left>>

\* Mutant: a failure after DATA is tried again like one before it.
SmtpVerdictRetries(c) ==
    /\ job[c] = "accepted"
    /\ job' = [job EXCEPT ![c] = IF VerdictLost THEN "second" ELSE "ok"]
    /\ UNCHANGED <<composer, ids, row, claims, call, copies, left>>

\* The 250 arrives (QUIT and the append to Sent cannot fail the send); or the
\* connection times out first, which is a PostData failure: never tried again.
SmtpVerdict(c) ==
    /\ job[c] = "accepted"
    /\ \/ job' = [job EXCEPT ![c] = "ok"]
       \/ VerdictLost /\ job' = [job EXCEPT ![c] = "failed"]
    /\ UNCHANGED <<composer, ids, row, claims, call, copies, left>>

-----------------------------------------------------------------------------
(* Time and crashes *)

\* A tick is minutes, more than the 60 s the shell waits for an answer: nobody
\* is waiting any more and every unread handler has been dropped.
Tick ==
    /\ composer.phase # "waiting" /\ \A c \in Calls : ~Unread(c)
    /\ \E i \in Ids : row[i].status = "pending" /\ row[i].age <= Lease
    /\ row' = [i \in Ids |-> IF row[i].status = "pending" /\ row[i].age <= Lease
                               THEN [row[i] EXCEPT !.age = @ + 1] ELSE row[i]]
    /\ UNCHANGED <<composer, ids, claims, call, job, copies, left>>

\* The backend dies and is started again: the shell answers what was waiting
\* with "no answer".
Crash ==
    /\ \E c \in Calls : call[c].phase # "idle"
    /\ Spend("crash")
    /\ composer' = IF composer.phase = "waiting" THEN Settled("unknown") ELSE composer
    /\ call' = [c \in Calls |-> IdleCall]
    /\ job' = [c \in Calls |-> "none"]
    /\ UNCHANGED <<ids, row, claims, copies>>

CallStep(c) ==
    \/ ChecksPass(c) \/ ClaimInsert(c) \/ ClaimInspect(c) \/ ClaimTakeOver(c)
    \/ Complete(c) \/ Fail(c) \/ Abandoned(c)

JobStep(c) == SmtpAccepts(c) \/ SmtpVerdict(c)

Next ==
    \/ \E c \in Calls : \/ Submit(c) \/ CallStep(c) \/ JobStep(c)
                        \/ ChecksRefuse(c) \/ Dropped(c) \/ SmtpRetries(c) \/ SmtpRefuses(c)
    \/ Edit \/ GiveUp \/ Tick \/ Crash

Spec == Init /\ [][Next]_vars

\* Ready tasks are polled, blocking threads end (every read has a timeout), the
\* user keeps pressing send, and minutes pass between the presses: the clock is
\* not stopped by impatience (strong fairness).
Fairness == /\ SF_vars(Tick)
            /\ WF_vars(\E c \in Calls : Submit(c))
            /\ \A c \in Calls : WF_vars(CallStep(c)) /\ WF_vars(JobStep(c)) /\ WF_vars(Dropped(c))

FairSpec == Spec /\ Fairness

-----------------------------------------------------------------------------
(* Properties *)

TypeOK ==
    /\ composer \in Composers
    /\ minted \in 0..MaxIds
    /\ mailOf \in [Ids -> Mails]
    /\ warned \in [Ids -> BOOLEAN]
    /\ row \in [Ids -> Rows]
    /\ claims \in [Ids -> Nat]
    /\ call \in [Calls -> CallStates]
    /\ job \in [Calls -> JobStates]
    /\ copies \in [Ids -> Nat]
    /\ left \in [Events -> Nat]

\* The server takes a mail at most once per claim: concurrent retries, the
\* retry inside send_raw, dropped handlers and crashes never add a copy of
\* their own (claim_send: "two concurrent retries can never both deliver").
\* Only a take-over after the lease can.
OneCopyPerClaim == \A i \in Ids : copies[i] <= claims[i]

\* "one requestId, one delivery" (routes_send.rs, send.ts).
OneDelivery == \A i \in Ids : copies[i] <= 1

\* A row that says sent is the record of a mail the server took, and an answer
\* "sent" too: nothing is reported sent that did not leave.
SentMeansTaken ==
    /\ \A i \in Ids : row[i].status = "sent" => copies[i] > 0
    /\ composer.phase = "sent" => copies[composer.last.id] > 0

\* "refused means the server answered and the mail did not go out" (send.ts):
\* the composer mints a fresh id after it, so a wrong one sends a second mail.
RefusedMeansNotOut ==
    composer.last.outcome = "refused" => copies[composer.last.id] = 0

\* The same mail leaves twice under two requestIds only after the user was
\* warned ("a retry after no answer keeps the id ... a new id would send a
\* second copy").
NoUnwarnedTwin ==
    \A i, j \in Ids :
        i < j /\ mailOf[i] = mailOf[j] /\ copies[i] > 0 /\ copies[j] > 0 => warned[j]

\* A result once recorded is what every replay answers: sent never turns into
\* failed nor failed into sent ("a replay answers the first result").
FirstResultStays ==
    [][\A i \in Ids : row[i].status \in {"sent", "failed"} => row'[i].status = row[i].status]_vars

\* A mail whose outcome is unknown or in flight is settled in the end by
\* retrying: the lease keeps a crashed claim from answering 409 for ever.  (An
\* edited mail needs an id of its own, and MaxIds may be used up.)
OutOfIds == minted = MaxIds /\ ~Reuses

RetrySettles ==
    Uncertain(composer.last) ~> ~Uncertain(composer.last) \/ OutOfIds
=============================================================================
