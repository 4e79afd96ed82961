------------------------------ MODULE Accounts ------------------------------
(***************************************************************************)
(* The accounts table and the three that write it: the routes that connect,*)
(* select and delete an account, the sync rounds that report its health,   *)
(* and the supervisor that keeps one sync loop per account.                *)
(*                                                                         *)
(* Every statement commits by itself; only set_active and reconcile_active *)
(* are transactions, and those are deferred: a snapshot that was read      *)
(* before somebody else committed cannot be upgraded to a write.           *)
(***************************************************************************)
EXTENDS Integers, FiniteSets

CONSTANTS
    Emails,         \* the mailboxes the user may connect
    MaxIds,         \* bound on the account ids minted
    Workers,        \* bound on the tasks that run rounds: loops and POST /api/sync
    Handlers,       \* account requests the backend may be working on at once
    MaxCode,        \* bound on how often the provider's authorization code changes
    Budgets         \* bounds on how often each kind of event in Events happens

Events == {"connect", "activate", "delete", "sync", "rotate", "fail", "disk", "crash"}
Ids    == 1..MaxIds
Codes  == 0..MaxCode

ASSUME AccountsAssumption ==
    /\ Emails # {} /\ IsFiniteSet(Workers) /\ IsFiniteSet(Handlers)
    /\ MaxIds \in Nat \ {0} /\ MaxCode \in Nat
    /\ Budgets \subseteq [Events -> Nat]

VARIABLES
    accepted,   \* accepted[e]: the code the IMAP server of e accepts
    minted,     \* the account ids minted so far are 1..minted
    rows,       \* the accounts table
    handles,    \* SyncSupervisor.tasks: the JoinHandle kept for an account
    worker,     \* worker[w]: a task running rounds
    handler,    \* handler[h]: an account request in flight
    left        \* what remains of the bounds

vars == <<accepted, minted, rows, handles, worker, handler, left>>

-----------------------------------------------------------------------------

NoId  == 0
SomeEmail == CHOOSE e \in Emails : TRUE
NoRow == [stored |-> FALSE, email |-> SomeEmail, code |-> 0, status |-> "ok", active |-> FALSE]
Rows  == [stored : BOOLEAN, email : Emails, code : Codes,
          status : {"ok", "error", "needsReconnect"}, active : BOOLEAN]

Stored    == {id \in Ids : rows[id].stored}
RowOf(e)  == {id \in Stored : rows[id].email = e}
Actives   == {id \in Stored : rows[id].active}

IdleWorker  == [phase |-> "idle", loop |-> FALSE, id |-> NoId, email |-> SomeEmail, code |-> 0]
WorkerTypes == [phase : {"idle", "open", "pull", "apply", "pause"}, loop : BOOLEAN,
                id : {NoId} \cup Ids, email : Emails, code : Codes]

IdleHandler  == [phase |-> "idle", email |-> SomeEmail, id |-> NoId, code |-> 0, fresh |-> FALSE]
HandlerTypes ==
    [phase : {"idle", "lookup", "probe", "credentials", "health", "insert", "select", "start",
              "activate", "delete", "reconcile", "repair"},
     email : Emails, id : {NoId} \cup Ids, code : Codes, fresh : BOOLEAN]

Loops(id) == {w \in Workers : worker[w].phase # "idle" /\ worker[w].loop /\ worker[w].id = id}

Spend(event) == /\ left[event] > 0
                /\ left' = [left EXCEPT ![event] = @ - 1]

\* UPDATE accounts ... WHERE id: no row, no effect.
Updated(id, row) == IF rows[id].stored THEN [rows EXCEPT ![id] = row] ELSE rows

\* h goes on to r; a commit makes every snapshot read before it too old to write.
Becomes(h, r) == handler' = [handler EXCEPT ![h] = r]
Commits(h, r) == handler' = [k \in Handlers |-> IF k = h THEN r ELSE [handler[k] EXCEPT !.fresh = FALSE]]
OthersStale   == handler' = [k \in Handlers |-> [handler[k] EXCEPT !.fresh = FALSE]]

Init ==
    /\ accepted = [e \in Emails |-> 0]
    /\ minted = 0
    /\ rows = [id \in Ids |-> NoRow]
    /\ handles = [id \in Ids |-> "none"]
    /\ worker = [w \in Workers |-> IdleWorker]
    /\ handler = [h \in Handlers |-> IdleHandler]
    /\ left \in Budgets

-----------------------------------------------------------------------------
(* A round of an account: SyncEngine::round *)

\* The task of w goes on: a loop pauses before its next round, a round of
\* POST /api/sync is over.
AfterRound(w) == [worker EXCEPT ![w] = IF worker[w].loop THEN [@ EXCEPT !.phase = "pause"]
                                       ELSE IdleWorker]

\* The task of w ends: `Parked` and `NotFound` stop a loop.
Stops(w) == /\ worker' = [worker EXCEPT ![w] = IdleWorker]
            /\ handles' = IF worker[w].loop THEN [handles EXCEPT ![worker[w].id] = "finished"]
                                            ELSE handles

Marked(id, status) == Updated(id, [rows[id] EXCEPT !.status = status])

\* Opens the store and reads the row and its credentials.
RoundOpens(w) ==
    LET id == worker[w].id
    IN  /\ worker[w].phase = "open"
        /\ IF rows[id].stored
             THEN /\ worker' = [worker EXCEPT ![w].phase = "pull", ![w].email = rows[id].email,
                                              ![w].code = rows[id].code]
                  /\ UNCHANGED handles
             ELSE Stops(w)
        /\ UNCHANGED <<accepted, minted, rows, handler, left>>

\* SQLite refuses one of the three: no connection is a failure like any other,
\* no row read stops the loop, no credentials read parks the account.
RoundOpenErrs(w) ==
    LET id == worker[w].id
    IN  /\ worker[w].phase = "open"
        /\ Spend("disk")
        /\ \/ worker' = AfterRound(w) /\ UNCHANGED <<handles, rows, handler>>
           \/ Stops(w) /\ UNCHANGED <<rows, handler>>
           \/ Stops(w) /\ rows' = Marked(id, "needsReconnect") /\ OthersStale
        /\ UNCHANGED <<accepted, minted>>

\* The server takes the code the round read.
PullSucceeds(w) ==
    /\ worker[w].phase = "pull"
    /\ worker[w].code = accepted[worker[w].email]
    /\ worker' = [worker EXCEPT ![w].phase = "apply"]
    /\ UNCHANGED <<accepted, minted, rows, handles, handler, left>>

\* The server refuses it: the account is parked and its loop ends, with no
\* await between the mark and the end of the task.
PullAuthFails(w) ==
    /\ worker[w].phase = "pull"
    /\ worker[w].code # accepted[worker[w].email]
    /\ rows' = Marked(worker[w].id, "needsReconnect")
    /\ Stops(w) /\ OthersStale
    /\ UNCHANGED <<accepted, minted, left>>

\* Unreachable or a protocol error.
PullFails(w) ==
    /\ worker[w].phase = "pull"
    /\ Spend("fail")
    /\ rows' = Marked(worker[w].id, "error")
    /\ worker' = AfterRound(w) /\ OthersStale
    /\ UNCHANGED <<accepted, minted, handles>>

\* Mutant: a status the account list does not know.
RoundAppliesAsSynced(w) ==
    /\ worker[w].phase = "apply"
    /\ rows' = Marked(worker[w].id, "synced")
    /\ worker' = AfterRound(w) /\ OthersStale
    /\ UNCHANGED <<accepted, minted, handles, left>>

\* The apply and the health it writes, or a statement of it that fails.
RoundApplies(w) ==
    /\ worker[w].phase = "apply"
    /\ \/ rows' = Marked(worker[w].id, "ok") /\ UNCHANGED left
       \/ rows' = Marked(worker[w].id, "error") /\ Spend("disk")
    /\ worker' = AfterRound(w) /\ OthersStale
    /\ UNCHANGED <<accepted, minted, handles>>

LoopGoesOn(w) ==
    /\ worker[w].phase = "pause"
    /\ worker' = [worker EXCEPT ![w].phase = "open"]
    /\ UNCHANGED <<accepted, minted, rows, handles, handler, left>>

\* POST /api/sync: one round of every account, beside the loops.
SyncNow ==
    /\ Stored # {}
    /\ Spend("sync")
    /\ \E pick \in [Stored -> Workers] :
         /\ \A id \in Stored : worker[pick[id]].phase = "idle"
         /\ \A i, j \in Stored : pick[i] = pick[j] => i = j
         /\ worker' = [w \in Workers |->
              IF \E id \in Stored : pick[id] = w
                THEN [IdleWorker EXCEPT !.phase = "open", !.id = CHOOSE id \in Stored : pick[id] = w]
                ELSE worker[w]]
    /\ UNCHANGED <<accepted, minted, rows, handles, handler>>

-----------------------------------------------------------------------------
(* POST /api/accounts/imap: connect, or re-authenticate *)

Connect(h) ==
    /\ handler[h].phase = "idle"
    /\ Spend("connect")
    /\ \E e \in Emails, c \in Codes :
         Becomes(h, [IdleHandler EXCEPT !.phase = "lookup", !.email = e, !.code = c])
    /\ UNCHANGED <<accepted, minted, rows, handles, worker>>

\* A healthy account is refused before any network work.
ConnectLooksUp(h) ==
    LET r == handler[h]
        healthy == \E id \in RowOf(r.email) : rows[id].status = "ok"
        known   == IF RowOf(r.email) = {} THEN NoId ELSE CHOOSE id \in RowOf(r.email) : TRUE
    IN  /\ r.phase = "lookup"
        /\ Becomes(h, IF healthy THEN IdleHandler
                      ELSE [r EXCEPT !.phase = "probe", !.id = known])
        /\ UNCHANGED <<accepted, minted, rows, handles, worker, left>>

\* The probe of the submitted code; the connection is held across the await.
ConnectProbes(h) ==
    LET r == handler[h]
    IN  /\ r.phase = "probe"
        /\ \/ /\ r.code = accepted[r.email]
              /\ \/ r.id # NoId /\ Becomes(h, [r EXCEPT !.phase = "credentials"]) /\ UNCHANGED minted
                 \/ /\ r.id = NoId /\ minted < MaxIds
                    /\ minted' = minted + 1
                    /\ Becomes(h, [r EXCEPT !.phase = "insert", !.id = minted + 1])
           \/ r.code # accepted[r.email] /\ Becomes(h, IdleHandler) /\ UNCHANGED minted
        /\ UNCHANGED <<accepted, rows, handles, worker, left>>

\* update_credentials, of the row that was there before the probe.
ReauthCredentials(h) ==
    LET r == handler[h]
    IN  /\ r.phase = "credentials"
        /\ rows' = Updated(r.id, [rows[r.id] EXCEPT !.code = r.code])
        /\ Commits(h, [r EXCEPT !.phase = "health"])
        /\ UNCHANGED <<accepted, minted, handles, worker, left>>

\* update_sync_state and update_health.
ReauthHealth(h) ==
    LET r == handler[h]
    IN  /\ r.phase = "health"
        /\ rows' = Marked(r.id, "ok")
        /\ Commits(h, [r EXCEPT !.phase = "select"])
        /\ UNCHANGED <<accepted, minted, handles, worker, left>>

\* Mutant: an INSERT without ON CONFLICT.
ConnectInsertsAnew(h) ==
    LET r == handler[h]
    IN  /\ r.phase = "insert"
        /\ rows' = [rows EXCEPT ![r.id] = [NoRow EXCEPT !.stored = TRUE, !.email = r.email,
                                                        !.code = r.code]]
        /\ Commits(h, [r EXCEPT !.phase = "select"])
        /\ UNCHANGED <<accepted, minted, handles, worker, left>>

\* upsert_account.  On a conflict the stored id wins, and connect_imap goes on
\* with the id it minted.
ConnectInserts(h) ==
    LET r == handler[h]
    IN  /\ r.phase = "insert"
        /\ rows' = IF RowOf(r.email) = {}
                     THEN [rows EXCEPT ![r.id] = [NoRow EXCEPT !.stored = TRUE, !.email = r.email,
                                                               !.code = r.code]]
                     ELSE [id \in Ids |-> IF id \in RowOf(r.email)
                                            THEN [rows[id] EXCEPT !.code = r.code] ELSE rows[id]]
        /\ Commits(h, [r EXCEPT !.phase = "select"])
        /\ UNCHANGED <<accepted, minted, handles, worker, left>>

\* set_active, one transaction that starts with its write.
SelectedBy(id) == [k \in Ids |-> [rows[k] EXCEPT !.active = rows[k].stored /\ k = id]]

\* The new mailbox is selected, and start_one is spawned.
ConnectSelects(h) ==
    LET r == handler[h]
    IN  /\ r.phase = "select"
        /\ rows' = SelectedBy(r.id)
        /\ Commits(h, [r EXCEPT !.phase = "start"])
        /\ UNCHANGED <<accepted, minted, handles, worker, left>>

Spawns(id) ==
    /\ handles' = [handles EXCEPT ![id] = "running"]
    /\ \E w \in Workers :
         /\ worker[w].phase = "idle"
         /\ worker' = [worker EXCEPT ![w] = [IdleWorker EXCEPT !.phase = "open", !.loop = TRUE,
                                                               !.id = id]]

\* Mutant: an account that has a handle is taken to have a loop.
HasLoopByKey(id) == handles[id] # "none"

\* Mutant: nobody asks whether a loop is running.
HasLoopNever(id) == FALSE

HasLoop(id) == handles[id] = "running"

\* start_one, in a task of its own: has_provider, then under the lock of `tasks`.
StartOne(h) ==
    LET id == handler[h].id
    IN  /\ handler[h].phase = "start"
        /\ IF rows[id].stored /\ ~HasLoop(id) THEN Spawns(id) ELSE UNCHANGED <<handles, worker>>
        /\ Becomes(h, IdleHandler)
        /\ UNCHANGED <<accepted, minted, rows, left>>

\* A statement of the persist step fails: 500, and no loop is started.
PersistFails(h) ==
    /\ handler[h].phase \in {"credentials", "health", "insert", "select"}
    /\ Spend("disk")
    /\ Becomes(h, IdleHandler)
    /\ UNCHANGED <<accepted, minted, rows, handles, worker>>

-----------------------------------------------------------------------------
(* activate and delete_account *)

Activate(h) ==
    /\ handler[h].phase = "idle"
    /\ Spend("activate")
    /\ \E id \in Stored : Becomes(h, [IdleHandler EXCEPT !.phase = "activate", !.id = id])
    /\ UNCHANGED <<accepted, minted, rows, handles, worker>>

ActivateSelects(h) ==
    /\ handler[h].phase = "activate"
    /\ rows' = SelectedBy(handler[h].id)
    /\ Commits(h, IdleHandler)
    /\ UNCHANGED <<accepted, minted, handles, worker, left>>

Delete(h) ==
    /\ handler[h].phase = "idle"
    /\ Spend("delete")
    /\ \E id \in Stored : Becomes(h, [IdleHandler EXCEPT !.phase = "delete", !.id = id])
    /\ UNCHANGED <<accepted, minted, rows, handles, worker>>

DeleteRemoves(h) ==
    /\ handler[h].phase = "delete"
    /\ rows' = [rows EXCEPT ![handler[h].id] = NoRow]
    /\ Commits(h, [handler[h] EXCEPT !.phase = "reconcile"])
    /\ UNCHANGED <<accepted, minted, handles, worker, left>>

\* reconcile_active reads: is anything selected?
ReconcileReads(h) ==
    /\ handler[h].phase = "reconcile"
    /\ Becomes(h, IF Actives # {} \/ Stored = {} THEN IdleHandler
                  ELSE [handler[h] EXCEPT !.phase = "repair", !.fresh = TRUE])
    /\ UNCHANGED <<accepted, minted, rows, handles, worker, left>>

\* Mutant: the repair is not held to the snapshot the count was read from.
ReconcileRepairsBlindly(h) ==
    /\ handler[h].phase = "repair"
    /\ \E id \in Stored : rows' = [rows EXCEPT ![id].active = TRUE]
    /\ Commits(h, IdleHandler)
    /\ UNCHANGED <<accepted, minted, handles, worker, left>>

\* And selects the account that was updated last (which one does not matter
\* here), unless its snapshot is too old: 500.
ReconcileRepairs(h) ==
    /\ handler[h].phase = "repair"
    /\ \/ /\ handler[h].fresh
          /\ \E id \in Stored : rows' = [rows EXCEPT ![id].active = TRUE]
          /\ Commits(h, IdleHandler)
       \/ /\ ~handler[h].fresh
          /\ Becomes(h, IdleHandler)
          /\ UNCHANGED rows
    /\ UNCHANGED <<accepted, minted, handles, worker, left>>

-----------------------------------------------------------------------------
(* The provider and the process *)

\* The user makes a new authorization code: the old one stops working.
Rotate(e) ==
    /\ accepted[e] < MaxCode
    /\ Spend("rotate")
    /\ accepted' = [accepted EXCEPT ![e] = @ + 1]
    /\ UNCHANGED <<minted, rows, handles, worker, handler>>

\* The backend dies and is started again: start_all spawns one loop per account
\* before a request is served.
Restart ==
    /\ Spend("crash")
    /\ handler' = [h \in Handlers |-> IdleHandler]
    /\ handles' = [id \in Ids |-> IF id \in Stored THEN "running" ELSE "none"]
    /\ \E pick \in [Stored -> Workers] :
         /\ \A i, j \in Stored : pick[i] = pick[j] => i = j
         /\ worker' = [w \in Workers |->
              IF \E id \in Stored : pick[id] = w
                THEN [IdleWorker EXCEPT !.phase = "open", !.loop = TRUE,
                                        !.id = CHOOSE id \in Stored : pick[id] = w]
                ELSE IdleWorker]
    /\ UNCHANGED <<accepted, minted, rows>>

RoundStep(w) == \/ RoundOpens(w) \/ PullSucceeds(w) \/ PullAuthFails(w) \/ RoundApplies(w)
                \/ LoopGoesOn(w)

HandlerStep(h) ==
    \/ ConnectLooksUp(h) \/ ConnectProbes(h) \/ ReauthCredentials(h) \/ ReauthHealth(h)
    \/ ConnectInserts(h) \/ ConnectSelects(h) \/ StartOne(h)
    \/ ActivateSelects(h) \/ DeleteRemoves(h) \/ ReconcileReads(h) \/ ReconcileRepairs(h)

Next ==
    \/ \E w \in Workers : RoundStep(w) \/ RoundOpenErrs(w) \/ PullFails(w)
    \/ \E h \in Handlers : \/ HandlerStep(h) \/ PersistFails(h)
                          \/ Connect(h) \/ Activate(h) \/ Delete(h)
    \/ \E e \in Emails : Rotate(e)
    \/ SyncNow \/ Restart

Spec == Init /\ [][Next]_vars

\* tokio polls every task that is ready, sleeps end, and every pull and probe
\* has a timeout.
Fairness == /\ \A w \in Workers : WF_vars(RoundStep(w))
            /\ \A h \in Handlers : WF_vars(HandlerStep(h))

FairSpec == Spec /\ Fairness

-----------------------------------------------------------------------------
(* Properties *)

TypeOK ==
    /\ accepted \in [Emails -> Codes]
    /\ minted \in 0..MaxIds
    /\ rows \in [Ids -> Rows]
    /\ handles \in [Ids -> {"none", "running", "finished"}]
    /\ worker \in [Workers -> WorkerTypes]
    /\ handler \in [Handlers -> HandlerTypes]
    /\ left \in [Events -> Nat]

\* However connects, selections and deletions interleave, one account at most is
\* selected (set_active: "exactly one account is active at a time").
OneActiveAtMost == Cardinality(Actives) <= 1

\* A mailbox has one account: "a re-authorisation of the same mailbox must not
\* mint a second account".
OneAccountPerMailbox == \A e \in Emails : Cardinality(RowOf(e)) <= 1

\* An account has one sync loop at most, and the supervisor knows which of them
\* run (start_one: "no loop is still running").
OneLoopPerAccount ==
    \A id \in Ids : /\ Cardinality(Loops(id)) <= 1
                    /\ handles[id] = "running" <=> Loops(id) # {}

\* An account whose stored code is the one the server takes is synced by a loop
\* once everyone has stopped: re-authentication restarts a loop that parked.
GoodCodeIsSynced ==
    <>[](\A id \in Stored : rows[id].code = accepted[rows[id].email] => Loops(id) # {})

\* An account that says it is healthy is synced by a loop once everyone has
\* stopped.  A healthy account cannot be connected again, so one that has no loop
\* stays without one until the backend restarts.
HealthyIsSynced ==
    <>[](\A id \in Stored : rows[id].status = "ok" => Loops(id) # {})

\* With no request in flight, one of the stored accounts is selected
\* (set_active: "exactly one account is active at a time").
OneActiveAtRest ==
    (\A h \in Handlers : handler[h].phase = "idle") /\ Stored # {} => Cardinality(Actives) = 1

\* A loop ends only for an account that is parked or gone ("a parked or vanished
\* account ends its loop, a transient failure backs off").
OnlyParkedLoopsEnd ==
    [][\A id \in Ids : handles[id] = "running" /\ handles'[id] = "finished" =>
         ~rows'[id].stored \/ rows'[id].status = "needsReconnect"]_vars
=============================================================================
