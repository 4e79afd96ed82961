------------------------------ MODULE AiGateway ------------------------------
(***************************************************************************)
(* The AI gateway, the routes that ask it (summary, draft, probe, reload)  *)
(* and the triage that ends every sync round: one breaker, one budget and  *)
(* one ledger shared by callers that wait for a provider in between.       *)
(*                                                                         *)
(* A call costs one unit of the budget. The breaker's 60 seconds are       *)
(* Cooldown ticks. The counts of the provider's bill and of what never     *)
(* reached the ledger are ghosts: the provider charges for every answer it *)
(* gives, and may charge for one that is cut, too long or not readable.    *)
(***************************************************************************)
EXTENDS ChatTransport, FiniteSets, SequencesExt

CONSTANTS
    Mails,          \* the mails of the account
    Opened,         \* the mails the user asks a summary or a draft of
    Requests,       \* HTTP requests the backend works on at once
    Rounds,         \* sync rounds that triage at once: the loop, POST /api/sync
    Providers,      \* the names a provider file may list
    Serves,         \* Serves[p]: the capabilities of p
    Priority,       \* Priority[p]
    Keys,           \* the providers whose key is in the environment
    Documents,      \* the provider files a start or a reload may read
    Urls, Servers,  \* the addresses in those files, the behaviours of a provider
    Cap,            \* LAGOON_BUDGET_USD_PER_MONTH; 0 is no cap
    Threshold,      \* FAILURE_THRESHOLD
    Cooldown,       \* BREAKER_COOLDOWN
    PerRound,       \* TRIAGE_PER_ROUND
    BacklogLimit,   \* TRIAGE_BACKLOG_LIMIT
    MaxBilled,      \* bound on the calls the provider bills
    MaxFaults       \* bound on failing writes, dropped requests and crashes

Jobs == {"summary", "draft", "classify"}
NoProvider == "none"

ASSUME GatewayAssumption ==
    /\ Cap \in Nat /\ Threshold \in Nat \ {0} /\ Cooldown \in Nat \ {0}
    /\ PerRound \in Nat \ {0} /\ BacklogLimit \in Nat /\ MaxBilled \in Nat /\ MaxFaults \in Nat
    /\ Opened \subseteq Mails /\ IsFiniteSet(Requests) /\ IsFiniteSet(Rounds)

VARIABLES
    config,     \* AiGateway.config: the provider file in force
    failures, opened, credit,   \* GatewayState; opened is the age of opened_at
    ledger,     \* usage_log of the month
    billed, lost, unread,       \* ghosts: the provider's bill; the calls in it that a fault
                                \* kept from the ledger; those whose answer could not be read
    request,    \* request[r]: a handler of routes_ai
    round,      \* round[t]: a triage
    backlog,    \* triage_backlog of the account
    summary,    \* the mails with a stored summary
    drafts,     \* the mails with a stored draft
    advice,     \* advice[m]: the decision column of its row
    seen,       \* ghost: the mails the backlog has held
    faults

gate == <<failures, opened, credit>>
bill == <<billed, lost, unread>>
store == <<ledger, summary, drafts, advice>>
vars == <<config, gate, store, bill, request, round, backlog, seen, faults>>

NotOpened == -1
Upserts   == {s \in SeqOf(Mails, Cardinality(Mails)) : IsInjective(s)}
Outcomes  == {Chat(url, server) : url \in Urls, server \in Servers}

IdleRequest == [phase |-> "idle", job |-> "probe", mail |-> CHOOSE m \in Mails : TRUE, text |-> "nothing"]
IdleRound   == [phase |-> "idle", targets |-> <<>>, done |-> <<>>]

-----------------------------------------------------------------------------
(* The configuration: routing, keys and what makes a file acceptable.      *)

\* Every provider has the fields it needs, every route is a name.
Parses(doc) == doc.reads

RoutesKnown(doc) == \A job \in Jobs : doc.routing[job] \in doc.providers \cup {NoProvider}

Valid(doc) == Parses(doc) /\ RoutesKnown(doc)

HasKey(p)  == p \in config.providers \cap Keys
Routed(job) == {p \in config.providers : p = config.routing[job] /\ job \in Serves[p]}
Primary == {p \in Providers : HasKey(p) /\ \A q \in Providers : HasKey(q) => Priority[p] <= Priority[q]}
Configured == \E p \in Providers : HasKey(p) /\ \E job \in Jobs : config.routing[job] = p

BudgetSpent == Cap > 0 /\ ledger >= Cap
CircuitOpen == opened # NotOpened /\ opened < Cooldown

MayAsk(job)  == (\E p \in Routed(job) : HasKey(p)) /\ ~BudgetSpent /\ ~CircuitOpen
\* Mutant: a probe is not held to the budget.
MayProbeFreely == Primary # {}

MayProbe     == Primary # {} /\ ~BudgetSpent

CreditProblem(out) == out.kind = "rejected" /\ (out.status \in {402, 429} \/ out.says = "quota")

RecordSuccess == failures' = 0 /\ opened' = NotOpened /\ credit' = FALSE

\* Only a provider that cannot be reached opens the circuit.
RecordFailure(out) ==
    IF CreditProblem(out) THEN credit' = TRUE /\ UNCHANGED <<failures, opened>>
    ELSE /\ failures' = Min({failures + 1, Threshold})
         /\ opened' = IF out.kind = "unreachable" /\ failures + 1 >= Threshold /\ opened = NotOpened
                      THEN 0 ELSE opened
         /\ UNCHANGED credit

Becomes(r, phase) == request' = [request EXCEPT ![r].phase = phase]
Ends(r)           == request' = [request EXCEPT ![r] = IdleRequest]

\* A call that failed after its question was sent may be charged, and leaves no record.
Charged(out) == \/ out.sent /\ billed' = billed + 1 /\ unread' = unread + 1
                \/ UNCHANGED <<billed, unread>>
Goes(t, state)    == round' = [round EXCEPT ![t] = state]
Fault             == faults < MaxFaults /\ faults' = faults + 1

Init ==
    /\ config \in {doc \in Documents : Valid(doc)}
    /\ failures = 0 /\ opened = NotOpened /\ credit = FALSE
    /\ ledger = 0 /\ billed = 0 /\ lost = 0 /\ unread = 0
    /\ request = [r \in Requests |-> IdleRequest]
    /\ round = [t \in Rounds |-> IdleRound]
    /\ backlog = <<>> /\ seen = {}
    /\ summary = {} /\ drafts = {} /\ advice = [m \in Mails |-> "none"]
    /\ faults = 0

-----------------------------------------------------------------------------
(* The routes.                                                             *)

\* A summary already paid for is the answer.
CachedSummary(m) == m \in summary

AskSummary(r, m) ==
    /\ request[r].phase = "idle" /\ billed < MaxBilled
    /\ ~CachedSummary(m)
    /\ request' = [request EXCEPT ![r] = [@ EXCEPT !.phase = "body", !.job = "summary", !.mail = m]]
    /\ UNCHANGED <<config, gate, store, bill, round, backlog, seen, faults>>

AskDraft(r, m) ==
    /\ request[r].phase = "idle" /\ billed < MaxBilled
    /\ request' = [request EXCEPT ![r] = [@ EXCEPT !.phase = "body", !.job = "draft", !.mail = m]]
    /\ UNCHANGED <<config, gate, store, bill, round, backlog, seen, faults>>

\* The primary provider answers a probe; the breaker is not asked.
AskProbe(r) ==
    /\ request[r].phase = "idle" /\ billed < MaxBilled
    /\ MayProbe
    /\ request' = [request EXCEPT ![r] = [@ EXCEPT !.phase = "chat", !.job = "probe"]]
    /\ UNCHANGED <<config, gate, store, bill, round, backlog, seen, faults>>

\* The cached text or the mailbox's; without either the request ends.
BodyText(r) ==
    /\ request[r].phase = "body"
    /\ Becomes(r, "gate") \/ Ends(r)
    /\ UNCHANGED <<config, gate, store, bill, round, backlog, seen, faults>>

Complete(r) ==
    /\ request[r].phase = "gate"
    /\ IF MayAsk(request[r].job) THEN Becomes(r, "chat") ELSE Ends(r)
    /\ UNCHANGED <<config, gate, store, bill, round, backlog, seen, faults>>

Answered(r, out) ==
    /\ request[r].phase = "chat"
    /\ IF out.kind = "reply"
       THEN /\ RecordSuccess
            /\ billed' = billed + 1 /\ UNCHANGED unread
            /\ request' = [request EXCEPT
                   ![r].phase = IF request[r].job = "summary" THEN "save" ELSE "record",
                   ![r].text = IF request[r].job = "draft" THEN out.says ELSE "nothing"]
       ELSE RecordFailure(out) /\ Ends(r) /\ Charged(out)
    /\ UNCHANGED <<config, store, lost, round, backlog, seen, faults>>

\* Best effort: what is on the screen must not fail because the disk said no.
SaveSummary(r) ==
    /\ request[r].phase = "save"
    /\ Becomes(r, "record")
    /\ \/ summary' = summary \cup {request[r].mail} /\ UNCHANGED faults
       \/ Fault /\ UNCHANGED summary
    /\ UNCHANGED <<config, gate, ledger, drafts, advice, bill, round, backlog, seen>>

Recorded == ledger' = ledger + 1 /\ UNCHANGED <<lost, faults>>
\* Prose is one variant; an empty answer is none.
Variants(text) == text # "nothing"

StoreDraft(r) ==
    drafts' \in IF request[r].job = "draft" /\ Variants(request[r].text)
               THEN {drafts, drafts \cup {request[r].mail}} ELSE {drafts}

Forgone  == Fault /\ lost' = lost + 1 /\ UNCHANGED ledger

\* Mutant: a draft that cannot be used is refused before it is recorded.
ParsesFirst(r) ==
    /\ request[r].phase = "record"
    /\ Ends(r)
    /\ IF request[r].text = "nothing" THEN UNCHANGED <<ledger, lost, faults, drafts>>
       ELSE (Recorded \/ Forgone) /\ StoreDraft(r)
    /\ UNCHANGED <<config, gate, summary, advice, billed, unread, round, backlog, seen>>

\* No usable variant, no draft: the answer was paid for all the same.
RecordUsage(r) ==
    /\ request[r].phase = "record"
    /\ Ends(r)
    /\ Recorded \/ Forgone
    /\ StoreDraft(r)
    /\ UNCHANGED <<config, gate, summary, advice, billed, unread, round, backlog, seen>>

\* The client hangs up while the handler awaits; the call it left may be billed.
Dropped(r) ==
    /\ request[r].phase \in {"body", "chat", "record"}
    /\ ~(request[r].phase = "record" /\ request[r].job = "probe")
    /\ Fault /\ Ends(r)
    /\ \/ request[r].phase = "body" /\ UNCHANGED <<billed, lost>>
       \/ request[r].phase = "chat" /\ (UNCHANGED <<billed, lost>> \/ (billed' = billed + 1 /\ lost' = lost + 1))
       \/ request[r].phase = "record" /\ lost' = lost + 1 /\ UNCHANGED billed
    /\ UNCHANGED <<config, gate, store, unread, round, backlog, seen>>

\* A file that does not parse or validate leaves everything as it was.
Reload(doc) ==
    /\ Valid(doc)
    /\ config' = doc
    /\ RecordSuccess
    /\ UNCHANGED <<store, bill, request, round, backlog, seen, faults>>

-----------------------------------------------------------------------------
(* The triage at the end of a sync round.                                  *)

\* new are the upserts of the round that have no advice yet.
FillBacklog(t, new) ==
    /\ round[t].phase = "idle" /\ billed < MaxBilled
    /\ Configured
    /\ \A m \in ToSet(new) : advice[m] = "none"
    /\ backlog' = backlog \o SubSeq(new, 1, Min({Len(new), BacklogLimit - Len(backlog)}))
    /\ seen' = seen \cup ToSet(backlog')
    /\ Goes(t, [IdleRound EXCEPT !.phase = "take"])
    /\ UNCHANGED <<config, gate, store, bill, request, faults>>

TakeTargets(t) ==
    /\ round[t].phase = "take"
    /\ LET count == Min({PerRound, Len(backlog)})
       IN  /\ backlog' = SubSeq(backlog, count + 1, Len(backlog))
           /\ Goes(t, IF count = 0 THEN IdleRound
                      ELSE [phase |-> "gate", targets |-> SubSeq(backlog, 1, count), done |-> <<>>])
    /\ UNCHANGED <<config, gate, store, bill, request, seen, faults>>

\* One failure stops the batch; what it had not reached is dropped.
StopsBatch(t) == Goes(t, IF round[t].done = <<>> THEN IdleRound
                         ELSE [round[t] EXCEPT !.phase = "write", !.targets = <<>>])

ClassifyNext(t) ==
    /\ round[t].phase = "gate"
    /\ IF round[t].targets # <<>> /\ MayAsk("classify")
       THEN Goes(t, [round[t] EXCEPT !.phase = "chat"])
       ELSE StopsBatch(t)
    /\ UNCHANGED <<config, gate, store, bill, request, backlog, seen, faults>>

Classified(t, out) ==
    /\ round[t].phase = "chat"
    /\ IF out.kind = "reply"
       THEN /\ RecordSuccess
            /\ billed' = billed + 1 /\ UNCHANGED unread
            /\ Goes(t, [phase |-> "gate", targets |-> Tail(round[t].targets),
                        done |-> Append(round[t].done, Head(round[t].targets))])
       ELSE RecordFailure(out) /\ StopsBatch(t) /\ Charged(out)
    /\ UNCHANGED <<config, store, lost, request, backlog, seen, faults>>

\* upsert_ai: a row the user has decided is left alone.
Upserted(m) == IF advice[m] \in {"none", "pending"} THEN [advice EXCEPT ![m] = "pending"] ELSE advice

\* A suggestion that cannot be stored skips the ledger as well.
WriteNext(t) ==
    /\ round[t].phase = "write"
    /\ LET left == Tail(round[t].done)
       IN  Goes(t, IF left = <<>> THEN IdleRound ELSE [round[t] EXCEPT !.done = left])
    /\ \/ advice' = Upserted(Head(round[t].done)) /\ (Recorded \/ Forgone)
       \/ UNCHANGED advice /\ Forgone
    /\ UNCHANGED <<config, gate, summary, drafts, billed, unread, request, backlog, seen>>

-----------------------------------------------------------------------------
(* The world.                                                              *)

Decide(m, decision) ==
    /\ advice[m] = "pending"
    /\ advice' = [advice EXCEPT ![m] = decision]
    /\ UNCHANGED <<config, gate, ledger, summary, drafts, bill, request, round, backlog, seen, faults>>

Tick ==
    /\ CircuitOpen
    /\ opened' = opened + 1
    /\ UNCHANGED <<config, failures, credit, store, bill, request, round, backlog, seen, faults>>

\* The gateway's state and the backlog live in memory only.  A call that is under way
\* may be charged all the same.
Asking == Cardinality({r \in Requests : request[r].phase = "chat"})
          + Cardinality({t \in Rounds : round[t].phase = "chat"})

Crash ==
    /\ Fault
    /\ RecordSuccess
    /\ request' = [r \in Requests |-> IdleRequest]
    /\ round' = [t \in Rounds |-> IdleRound]
    /\ backlog' = <<>> /\ seen' = {}
    /\ \E charged \in 0..Asking : billed' = billed + charged
    /\ lost' = billed' - ledger - unread
    /\ UNCHANGED <<config, store, unread>>

RequestStep(r) ==
    \/ BodyText(r) \/ Complete(r) \/ SaveSummary(r) \/ RecordUsage(r)
    \/ \E out \in Outcomes : Answered(r, out)

RoundStep(t) ==
    \/ TakeTargets(t) \/ ClassifyNext(t) \/ WriteNext(t)
    \/ \E out \in Outcomes : Classified(t, out)

Next ==
    \/ \E r \in Requests : RequestStep(r) \/ Dropped(r) \/ AskProbe(r)
    \/ \E r \in Requests, m \in Opened : AskSummary(r, m) \/ AskDraft(r, m)
    \/ \E t \in Rounds : RoundStep(t)
    \/ \E t \in Rounds, new \in Upserts : FillBacklog(t, new)
    \/ \E doc \in Documents : Reload(doc)
    \/ \E m \in Mails, decision \in {"accepted", "dismissed"} : Decide(m, decision)
    \/ Tick \/ Crash

Spec == Init /\ [][Next]_vars

-----------------------------------------------------------------------------

TypeOK ==
    /\ config \in Documents
    /\ \A job \in Jobs : config.routing[job] \in config.providers \cup {NoProvider}
    /\ failures \in 0..Threshold /\ opened \in NotOpened..Cooldown /\ credit \in BOOLEAN
    /\ {ledger, billed, lost, unread} \subseteq Nat
    /\ \A r \in Requests :
          /\ request[r].phase \in {"idle", "body", "gate", "chat", "save", "record"}
          /\ request[r].job \in {"summary", "draft", "probe"} /\ request[r].mail \in Mails
          /\ request[r].text \in Says
    /\ \A t \in Rounds :
          /\ round[t].phase \in {"idle", "take", "gate", "chat", "write"}
          /\ ToSet(round[t].targets) \cup ToSet(round[t].done) \subseteq Mails
    /\ ToSet(backlog) \subseteq Mails /\ Len(backlog) <= BacklogLimit
    /\ summary \subseteq Mails /\ drafts \subseteq Mails
    /\ advice \in [Mails -> {"none", "pending", "accepted", "dismissed"}]

Owing(r) == request[r].phase \in {"save", "record"}
Unwritten == UNION {{t} \X DOMAIN round[t].done : t \in Rounds}
Owed == Cardinality({r \in Requests : Owing(r)}) + Cardinality(Unwritten)

\* Every call the provider bills is in the ledger, is about to be put there by
\* whoever made it, was lost to a failed write, a dropped request or a crash, or got
\* an answer the transport could not read: no path forgets an answer that was read,
\* one that is of no use to its caller included.
EveryCallIsAccounted == billed = ledger + Owed + lost + unread

\* usage.rs: one row per call, "including the calls that failed halfway (they cost
\* tokens too)".
HalfwayCallsAreRecorded == billed = ledger + Owed + lost

\* The cap is checked before a call and spent after it, so callers that passed
\* it together overrun it in the ledger (the bill may be higher, by what is lost or
\* unread), but by no more than one call each and, for a sync
\* round, by one batch.
OverrunIsBounded ==
    Cap > 0 => ledger <= Cap - 1 + Cardinality(Requests) + PerRound * Cardinality(Rounds)

\* classify.rs: a mail the model could not be asked about is kept for the next round.
KeptForNextRound ==
    \A m \in seen : \/ advice[m] # "none" \/ m \in ToSet(backlog)
                    \/ \E t \in Rounds : m \in ToSet(round[t].targets) \cup ToSet(round[t].done)

\* gateway.rs: after the cooldown one call is let through before the others.
OneTrialCall ==
    opened = Cooldown =>
        Cardinality({r \in Requests : request[r].phase = "chat" /\ request[r].job # "probe"}) <= 1
=============================================================================
