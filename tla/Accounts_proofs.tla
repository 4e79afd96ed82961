-------------------------- MODULE Accounts_proofs --------------------------
(***************************************************************************)
(* Proofs about Accounts for every set of mailboxes, tasks and requests    *)
(* and every budget.  That one account at most is selected is not          *)
(* inductive: a repair writes `active` without looking again, so it needs  *)
(* that a snapshot which can still be upgraded saw no selected account and *)
(* that none was selected since (FreshRepairs).  That an account has one   *)
(* loop needs that every request past its probe, and every loop, names an  *)
(* account (NamedRequests, NamedTasks).                                                        *)
(***************************************************************************)
EXTENDS Accounts, TLAPS, FiniteSetTheorems

OneActive == \A i, j \in Actives : i = j
OneRow    == \A e \in Emails : \A i, j \in RowOf(e) : i = j

\* A snapshot nobody has committed past saw no selected account, and there is none.
FreshRepairs ==
    \A h \in Handlers : handler[h].fresh => handler[h].phase = "repair" /\ Actives = {}

\* Loops, and requests that are past their probe, name an account.
Nameless      == {"idle", "lookup", "probe"}
NamedRequests == \A h \in Handlers : handler[h].phase \notin Nameless => handler[h].id \in Ids
NamedTasks    == \A w \in Workers : worker[w].phase # "idle" => worker[w].id \in Ids

OneLoop == \A id \in Ids : /\ \A v, w \in Loops(id) : v = w
                           /\ handles[id] = "running" <=> Loops(id) # {}

IInv == /\ TypeOK
        /\ FreshRepairs /\ OneActive /\ OneRow
        /\ NamedRequests /\ NamedTasks /\ OneLoop

-----------------------------------------------------------------------------
(* What a step does to the requests, the rows and the tasks *)

\* A set without two different members has one member at most.
LEMMA AtMostOne ==
    ASSUME NEW S, \A x, y \in S : x = y
    PROVE  Cardinality(S) <= 1
<1>1. CASE S = {}
  BY <1>1, FS_EmptySet
<1>2. CASE S # {}
  <2>1. PICK x \in S : TRUE
    BY <1>2
  <2>2. S = {x}
    BY <2>1
  <2> QED BY <2>2, FS_Singleton
<1> QED BY <1>1, <1>2

\* What a request becomes, and what is left of the others' snapshots.
LEMMA HandlerType ==
    ASSUME TypeOK, NEW h \in Handlers, NEW r \in HandlerTypes, Becomes(h, r) \/ Commits(h, r)
    PROVE  /\ handler' \in [Handlers -> HandlerTypes] /\ handler'[h] = r
           /\ \A k \in Handlers \ {h} : /\ handler'[k].phase = handler[k].phase
                                        /\ handler'[k].id = handler[k].id
                                        /\ handler'[k].fresh => handler[k].fresh
                                        /\ Commits(h, r) => ~handler'[k].fresh
<1>1. \A k \in Handlers : [handler[k] EXCEPT !.fresh = FALSE] \in HandlerTypes
  BY DEF TypeOK, HandlerTypes
<1>2. CASE Becomes(h, r)
  <2>1. handler' = [handler EXCEPT ![h] = r]
    BY <1>2 DEF Becomes
  <2>2. CASE ~Commits(h, r)
    BY <2>1, <2>2 DEF TypeOK
  <2>3. CASE Commits(h, r)
    <3>1. \A k \in Handlers \ {h} : /\ handler'[k] = [handler[k] EXCEPT !.fresh = FALSE]
                                    /\ handler[k] \in HandlerTypes
      BY <2>3 DEF TypeOK, Commits
    <3>2. handler' \in [Handlers -> HandlerTypes] /\ handler'[h] = r
      BY <1>1, <2>3 DEF Commits
    <3> QED BY <3>1, <3>2 DEF HandlerTypes
  <2> QED BY <2>2, <2>3
<1>3. CASE Commits(h, r)
  <2>1. \A k \in Handlers \ {h} : /\ handler'[k] = [handler[k] EXCEPT !.fresh = FALSE]
                                  /\ handler[k] \in HandlerTypes
    BY <1>3 DEF TypeOK, Commits
  <2>2. handler' \in [Handlers -> HandlerTypes] /\ handler'[h] = r
    BY <1>1, <1>3 DEF Commits
  <2> QED BY <2>1, <2>2 DEF HandlerTypes
<1> QED BY <1>2, <1>3

\* A commit of somebody else leaves every request where it is, without a snapshot.
LEMMA StaleType ==
    ASSUME TypeOK, OthersStale
    PROVE  /\ handler' \in [Handlers -> HandlerTypes]
           /\ \A k \in Handlers : /\ handler'[k].phase = handler[k].phase
                                  /\ handler'[k].id = handler[k].id
                                  /\ ~handler'[k].fresh
<1>1. \A k \in Handlers : /\ handler'[k] = [handler[k] EXCEPT !.fresh = FALSE]
                          /\ handler[k] \in HandlerTypes
                          /\ [handler[k] EXCEPT !.fresh = FALSE] \in HandlerTypes
  BY DEF TypeOK, OthersStale, HandlerTypes
<1> QED BY <1>1 DEF OthersStale, HandlerTypes

\* There is a mailbox.
LEMMA EmailType == SomeEmail \in Emails
BY AccountsAssumption DEF SomeEmail

\* The records of nobody and nothing have their types.
LEMMA IdleType ==
    /\ IdleHandler \in HandlerTypes /\ IdleHandler.phase = "idle" /\ ~IdleHandler.fresh
    /\ IdleWorker \in WorkerTypes /\ IdleWorker.phase = "idle" /\ ~IdleWorker.loop
    /\ NoRow \in Rows /\ ~NoRow.stored /\ ~NoRow.active
<1>1. 0 \in Codes
  BY AccountsAssumption DEF Codes
<1> QED
  BY <1>1, EmailType DEF IdleHandler, HandlerTypes, IdleWorker, WorkerTypes, NoRow, Rows, NoId

\* A budget that is spent stays a natural number.
LEMMA SpendType ==
    ASSUME TypeOK, NEW event \in Events, Spend(event)
    PROVE  left' \in [Events -> Nat]
BY DEF TypeOK, Spend

\* No row is stored, moved to another mailbox or selected.
Kept ==
    \A id \in Ids :
        rows'[id].stored => /\ rows[id].stored
                            /\ rows'[id].email = rows[id].email
                            /\ rows'[id].active => rows[id].active

\* A step that keeps the rows adds no selected account and no row of a mailbox.
LEMMA KeptRows ==
    ASSUME IInv, Kept
    PROVE  Actives' \subseteq Actives /\ OneActive' /\ OneRow'
<1>1. Actives' \subseteq Actives
  <2> SUFFICES ASSUME NEW i \in Actives' PROVE i \in Actives
    OBVIOUS
  <2>1. i \in Ids /\ rows'[i].stored /\ rows'[i].active
    BY Zenon DEF Actives, Stored
  <2>2. rows[i].stored /\ rows[i].active
    BY <2>1, Zenon DEF Kept
  <2> QED BY <2>1, <2>2, Zenon DEF Actives, Stored
<1>2. \A e \in Emails : RowOf(e)' \subseteq RowOf(e)
  <2> SUFFICES ASSUME NEW e \in Emails, NEW i \in RowOf(e)' PROVE i \in RowOf(e)
    OBVIOUS
  <2>1. i \in Ids /\ rows'[i].stored /\ rows'[i].email = e
    BY Zenon DEF RowOf, Stored
  <2>2. rows[i].stored /\ rows[i].email = e
    BY <2>1, Zenon DEF Kept
  <2> QED BY <2>1, <2>2, Zenon DEF RowOf, Stored
<1> QED BY <1>1, <1>2 DEF IInv, OneActive, OneRow

\* UPDATE ... WHERE id, of columns other than the mailbox and the selection.
LEMMA UpdatedRows ==
    ASSUME TypeOK, NEW id, NEW row,
           id \in Ids => row \in Rows /\ row.stored = rows[id].stored
                         /\ row.email = rows[id].email /\ row.active = rows[id].active,
           rows' = Updated(id, row)
    PROVE  rows' \in [Ids -> Rows] /\ Kept
BY DEF Updated, TypeOK, Kept

\* The health of an account is such an UPDATE.
LEMMA MarkedRows ==
    ASSUME TypeOK, NEW id, NEW status \in {"ok", "error", "needsReconnect"},
           rows' = Marked(id, status)
    PROVE  rows' \in [Ids -> Rows] /\ Kept
<1> DEFINE row == [rows[id] EXCEPT !.status = status]
<1>1. id \in Ids => row \in Rows /\ row.stored = rows[id].stored
                    /\ row.email = rows[id].email /\ row.active = rows[id].active
  BY DEF TypeOK, Rows
<1>2. rows' = Updated(id, row)
  BY DEF Marked
<1> HIDE DEF row
<1> QED BY <1>1, <1>2, UpdatedRows

\* set_active leaves one account selected at most, and the mailboxes as they are.
LEMMA SelectedRows ==
    ASSUME IInv, NEW id, rows' = SelectedBy(id)
    PROVE  rows' \in [Ids -> Rows] /\ OneActive' /\ OneRow'
<1>1. \A k \in Ids : /\ rows'[k] = [rows[k] EXCEPT !.active = rows[k].stored /\ k = id]
                     /\ rows[k] \in Rows
  BY DEF SelectedBy, IInv, TypeOK
<1>2. \A k \in Ids : /\ rows'[k] \in Rows /\ rows'[k].stored = rows[k].stored
                     /\ rows'[k].email = rows[k].email
                     /\ rows'[k].active => k = id
  <2> SUFFICES ASSUME NEW k \in Ids
               PROVE  /\ rows'[k] \in Rows /\ rows'[k].stored = rows[k].stored
                      /\ rows'[k].email = rows[k].email
                      /\ rows'[k].active => k = id
    OBVIOUS
  <2>1. rows'[k] = [rows[k] EXCEPT !.active = rows[k].stored /\ k = id] /\ rows[k] \in Rows
    BY <1>1
  <2> HIDE <1>1
  <2>2. (rows[k].stored /\ k = id) \in BOOLEAN
    OBVIOUS
  <2> QED BY <2>1, <2>2 DEF Rows
<1>3. rows' \in [Ids -> Rows]
  BY <1>2 DEF SelectedBy
<1>4. OneActive'
  BY <1>2 DEF OneActive, Actives, Stored
<1>5. OneRow'
  BY <1>2 DEF IInv, OneRow, RowOf, Stored
<1> QED BY <1>3, <1>4, <1>5

\* After a round a loop pauses, and the round of POST /api/sync is over.
LEMMA AfterRoundType ==
    ASSUME TypeOK, NEW w \in Workers, worker' = AfterRound(w)
    PROVE  /\ worker' \in [Workers -> WorkerTypes]
           /\ \A v \in Workers \ {w} : worker'[v] = worker[v]
           /\ worker[w].loop => /\ worker'[w].phase = "pause" /\ worker'[w].loop
                                /\ worker'[w].id = worker[w].id
           /\ ~worker[w].loop => worker'[w] = IdleWorker
<1>1. [worker[w] EXCEPT !.phase = "pause"] \in WorkerTypes
  BY DEF TypeOK, WorkerTypes
<1>2. worker' = [worker EXCEPT ![w] = IF worker[w].loop THEN [worker[w] EXCEPT !.phase = "pause"]
                                      ELSE IdleWorker]
  BY DEF AfterRound
<1>3. worker[w] \in WorkerTypes
  BY DEF TypeOK
<1> QED BY <1>1, <1>2, <1>3, IdleType DEF TypeOK, WorkerTypes

\* A task that ends leaves the others alone.
LEMMA StopsType ==
    ASSUME TypeOK, NEW w \in Workers, Stops(w)
    PROVE  /\ worker' \in [Workers -> WorkerTypes]
           /\ worker'[w] = IdleWorker /\ \A v \in Workers \ {w} : worker'[v] = worker[v]
           /\ handles' \in [Ids -> {"none", "running", "finished"}]
BY IdleType DEF TypeOK, Stops

\* The task of w keeps what it is and goes on to another part of its round.
LEMMA GoesOnType ==
    ASSUME TypeOK, NEW w \in Workers, NEW phase \in {"open", "pull", "apply", "pause"},
           worker' = [worker EXCEPT ![w].phase = phase]
    PROVE  /\ worker' \in [Workers -> WorkerTypes]
           /\ worker'[w].phase = phase /\ worker'[w].loop = worker[w].loop
           /\ worker'[w].id = worker[w].id
           /\ \A v \in Workers \ {w} : worker'[v] = worker[v]
BY DEF TypeOK, WorkerTypes

\* Tasks spawned at once: one per account, and they are told apart.
LEMMA SpawnedType ==
    ASSUME TypeOK, NEW pick \in [Stored -> Workers], NEW loop \in BOOLEAN, NEW id \in Stored
    PROVE  /\ [IdleWorker EXCEPT !.phase = "open", !.loop = loop, !.id = id] \in WorkerTypes
           /\ [IdleWorker EXCEPT !.phase = "open", !.id = id] \in WorkerTypes
           /\ id \in Ids
BY IdleType DEF Stored, WorkerTypes, IdleWorker

\* The parts of a request have their types.
LEMMA RequestParts ==
    ASSUME TypeOK, NEW h \in Handlers
    PROVE  /\ handler[h] \in HandlerTypes /\ handler[h].email \in Emails
           /\ handler[h].id \in {NoId} \cup Ids /\ handler[h].code \in Codes
BY DEF TypeOK, HandlerTypes

\* A request that goes on to its next statement is the same request.
LEMMA AtPhase ==
    ASSUME TypeOK, NEW h \in Handlers,
           NEW phase \in {"credentials", "health", "select", "start", "reconcile"}
    PROVE  /\ [handler[h] EXCEPT !.phase = phase] \in HandlerTypes
           /\ [handler[h] EXCEPT !.phase = phase].phase = phase
           /\ [handler[h] EXCEPT !.phase = phase].id = handler[h].id
           /\ [handler[h] EXCEPT !.phase = phase].fresh = handler[h].fresh
<1>1. handler[h] \in HandlerTypes
  BY DEF TypeOK
<1>2. [handler[h] EXCEPT !.phase = phase] \in HandlerTypes
  BY <1>1 DEF HandlerTypes
<1>3. /\ [handler[h] EXCEPT !.phase = phase].phase = phase
      /\ [handler[h] EXCEPT !.phase = phase].id = handler[h].id
  BY <1>1 DEF HandlerTypes
<1>4. [handler[h] EXCEPT !.phase = phase].fresh = handler[h].fresh
  BY <1>1 DEF HandlerTypes
<1> QED BY <1>2, <1>3, <1>4

\* The account a probe finds no row for gets the next id.
LEMMA MintedType ==
    ASSUME TypeOK, minted < MaxIds, NEW h \in Handlers
    PROVE  /\ minted + 1 \in 0..MaxIds /\ minted + 1 \in Ids
           /\ [handler[h] EXCEPT !.phase = "insert", !.id = minted + 1] \in HandlerTypes
           /\ [handler[h] EXCEPT !.phase = "insert", !.id = minted + 1].id = minted + 1
<1>1. minted + 1 \in 0..MaxIds /\ minted + 1 \in Ids
  BY AccountsAssumption DEF TypeOK, Ids
<1>2. handler[h] \in HandlerTypes
  BY DEF TypeOK
<1> QED BY <1>1, <1>2 DEF HandlerTypes

\* upsert_account stores a row for a mailbox only when it has none, and selects none.
LEMMA InsertedRows ==
    ASSUME IInv, NEW h \in Handlers, ConnectInserts(h)
    PROVE  rows' \in [Ids -> Rows] /\ OneActive' /\ OneRow'
<1> DEFINE r   == handler[h]
           row == [NoRow EXCEPT !.stored = TRUE, !.email = r.email, !.code = r.code]
<1>0. /\ row \in Rows /\ row.stored /\ row.email = r.email /\ ~row.active
      /\ r.email \in Emails
  BY RequestParts, IdleType DEF IInv, Rows, NoRow
<1> HIDE DEF row
<1>1. CASE RowOf(r.email) = {}
  <2>1. rows' = [rows EXCEPT ![r.id] = row]
    BY <1>1 DEF ConnectInserts, row
  <2>2. \A i \in Ids : rows'[i] = IF i = r.id THEN row ELSE rows[i]
    BY <2>1 DEF IInv, TypeOK
  <2>3. rows' \in [Ids -> Rows]
    BY <1>0, <2>1 DEF IInv, TypeOK
  <2>4. OneActive'
    <3>1. \A i \in Ids : rows'[i].active => i # r.id /\ rows[i].active /\ rows'[i] = rows[i]
      BY <1>0, <2>2
    <3> QED BY <3>1 DEF IInv, OneActive, Actives, Stored
  <2>5. OneRow'
    <3> SUFFICES ASSUME NEW e \in Emails, NEW i \in RowOf(e)', NEW j \in RowOf(e)'
                 PROVE  i = j
      BY DEF OneRow
    <3>1. /\ i \in Ids /\ rows'[i].stored /\ rows'[i].email = e
          /\ j \in Ids /\ rows'[j].stored /\ rows'[j].email = e
      BY Zenon DEF RowOf, Stored
    <3>2. CASE e = r.email
      <4>1. \A k \in Ids : k # r.id => ~(rows[k].stored /\ rows[k].email = e)
        BY <1>1, <3>2, Zenon DEF RowOf, Stored
      <4> QED BY <2>2, <3>1, <4>1
    <3>3. CASE e # r.email
      <4>1. i # r.id /\ j # r.id
        BY <1>0, <2>2, <3>1, <3>3
      <4>2. i \in RowOf(e) /\ j \in RowOf(e)
        BY <2>2, <3>1, <4>1 DEF RowOf, Stored
      <4> QED BY <4>2, Zenon DEF IInv, OneRow
    <3> QED BY <3>2, <3>3
  <2> QED BY <2>3, <2>4, <2>5
<1>2. CASE RowOf(r.email) # {}
  <2>1. rows' = [i \in Ids |-> IF i \in RowOf(r.email) THEN [rows[i] EXCEPT !.code = r.code]
                                                       ELSE rows[i]]
    BY <1>2 DEF ConnectInserts
  <2>2. \A i \in Ids : /\ rows[i] \in Rows /\ rows'[i] \in Rows
                       /\ rows'[i].stored = rows[i].stored
                       /\ rows'[i].email = rows[i].email /\ rows'[i].active = rows[i].active
    BY <2>1, RequestParts DEF IInv, TypeOK, Rows
  <2>3. rows' \in [Ids -> Rows]
    BY <2>1, <2>2
  <2>4. Kept
    BY <2>2, Zenon DEF Kept
  <2> QED BY <2>3, <2>4, KeptRows
<1> QED BY <1>1, <1>2

-----------------------------------------------------------------------------
(* Type correctness *)

\* Every step keeps the types.
LEMMA TypeStep ==
    ASSUME IInv, [Next]_vars
    PROVE  TypeOK'
<1> USE DEF IInv
<1>1. CASE UNCHANGED vars
  BY <1>1 DEF TypeOK, vars
<1>2. ASSUME NEW w \in Workers, RoundOpens(w) PROVE TypeOK'
  <2>1. worker[w].id \in Ids
    BY <1>2 DEF RoundOpens, NamedTasks
  <2>2. [worker[w] EXCEPT !.phase = "pull", !.email = rows[worker[w].id].email,
                          !.code = rows[worker[w].id].code] \in WorkerTypes
    <3>1. worker[w] \in WorkerTypes /\ rows[worker[w].id] \in Rows
      BY <2>1 DEF TypeOK
    <3>2. rows[worker[w].id].email \in Emails /\ rows[worker[w].id].code \in Codes
      BY <3>1 DEF Rows
    <3> QED BY <3>1, <3>2 DEF WorkerTypes
  <2>3. CASE Stops(w)
    BY <1>2, <2>3, StopsType DEF RoundOpens, TypeOK
  <2>4. CASE /\ worker' = [worker EXCEPT ![w].phase = "pull", ![w].email = rows[worker[w].id].email,
                                         ![w].code = rows[worker[w].id].code]
             /\ UNCHANGED handles
    BY <1>2, <2>2, <2>4 DEF RoundOpens, TypeOK
  <2> QED BY <1>2, <2>3, <2>4 DEF RoundOpens
<1>3. ASSUME NEW w \in Workers, RoundOpenErrs(w) PROVE TypeOK'
  <2>1. left' \in [Events -> Nat] /\ UNCHANGED <<accepted, minted>>
    BY <1>3, SpendType DEF RoundOpenErrs, Events
  <2>2. CASE worker' = AfterRound(w) /\ UNCHANGED <<handles, rows, handler>>
    BY <2>1, <2>2, AfterRoundType DEF TypeOK
  <2>3. CASE Stops(w) /\ UNCHANGED <<rows, handler>>
    BY <2>1, <2>3, StopsType DEF TypeOK
  <2>4. CASE Stops(w) /\ rows' = Marked(worker[w].id, "needsReconnect") /\ OthersStale
    BY <2>1, <2>4, StopsType, MarkedRows, StaleType DEF TypeOK
  <2> QED BY <1>3, <2>2, <2>3, <2>4 DEF RoundOpenErrs
<1>4. ASSUME NEW w \in Workers, PullSucceeds(w) PROVE TypeOK'
  BY <1>4, GoesOnType DEF PullSucceeds, TypeOK
<1>5. ASSUME NEW w \in Workers, PullAuthFails(w) PROVE TypeOK'
  BY <1>5, StopsType, MarkedRows, StaleType DEF PullAuthFails, TypeOK
<1>6. ASSUME NEW w \in Workers, PullFails(w) PROVE TypeOK'
  BY <1>6, AfterRoundType, MarkedRows, StaleType, SpendType DEF PullFails, TypeOK, Events
<1>7. ASSUME NEW w \in Workers, RoundApplies(w) PROVE TypeOK'
  <2>1. left' \in [Events -> Nat]
    BY <1>7, SpendType DEF RoundApplies, TypeOK, Events
  <2>2. rows' \in [Ids -> Rows]
    BY <1>7, MarkedRows DEF RoundApplies
  <2> QED BY <1>7, <2>1, <2>2, AfterRoundType, StaleType DEF RoundApplies, TypeOK
<1>8. ASSUME NEW w \in Workers, LoopGoesOn(w) PROVE TypeOK'
  BY <1>8, GoesOnType DEF LoopGoesOn, TypeOK
<1>9. CASE SyncNow
  <2>1. PICK pick \in [Stored -> Workers] :
          worker' = [w \in Workers |->
            IF \E id \in Stored : pick[id] = w
              THEN [IdleWorker EXCEPT !.phase = "open", !.id = CHOOSE id \in Stored : pick[id] = w]
              ELSE worker[w]]
    BY <1>9 DEF SyncNow
  <2>2. worker' \in [Workers -> WorkerTypes]
    BY <2>1, SpawnedType DEF TypeOK
  <2> QED BY <1>9, <2>2, SpendType DEF SyncNow, TypeOK, Events
<1>10. ASSUME NEW h \in Handlers, Connect(h) PROVE TypeOK'
  <2>1. PICK e \in Emails, c \in Codes :
          Becomes(h, [IdleHandler EXCEPT !.phase = "lookup", !.email = e, !.code = c])
    BY <1>10 DEF Connect
  <2>2. [IdleHandler EXCEPT !.phase = "lookup", !.email = e, !.code = c] \in HandlerTypes
    BY DEF IdleHandler, HandlerTypes, NoId
  <2> QED BY <1>10, <2>1, <2>2, HandlerType, SpendType DEF Connect, TypeOK, Events
<1>11. ASSUME NEW h \in Handlers, ConnectLooksUp(h) PROVE TypeOK'
  <2> DEFINE known == IF RowOf(handler[h].email) = {} THEN NoId
                      ELSE CHOOSE id \in RowOf(handler[h].email) : TRUE
             r     == [handler[h] EXCEPT !.phase = "probe", !.id = known]
  <2>1. known \in {NoId} \cup Ids
    BY DEF RowOf, Stored
  <2>2. r \in HandlerTypes
    BY <2>1, RequestParts DEF HandlerTypes
  <2>3. Becomes(h, r) \/ Becomes(h, IdleHandler)
    BY <1>11 DEF ConnectLooksUp
  <2> HIDE DEF r
  <2> QED BY <1>11, <2>2, <2>3, HandlerType, IdleType DEF ConnectLooksUp, TypeOK
<1>12. ASSUME NEW h \in Handlers, ConnectProbes(h) PROVE TypeOK'
  <2>1. CASE Becomes(h, [handler[h] EXCEPT !.phase = "credentials"]) /\ UNCHANGED minted
    BY <1>12, <2>1, HandlerType, AtPhase DEF ConnectProbes, TypeOK
  <2>2. CASE /\ minted < MaxIds /\ minted' = minted + 1
             /\ Becomes(h, [handler[h] EXCEPT !.phase = "insert", !.id = minted + 1])
    BY <1>12, <2>2, HandlerType, MintedType DEF ConnectProbes, TypeOK
  <2>3. CASE Becomes(h, IdleHandler) /\ UNCHANGED minted
    BY <1>12, <2>3, HandlerType, IdleType DEF ConnectProbes, TypeOK
  <2> QED BY <1>12, <2>1, <2>2, <2>3 DEF ConnectProbes
<1>13. ASSUME NEW h \in Handlers, ReauthCredentials(h) PROVE TypeOK'
  <2> DEFINE row == [rows[handler[h].id] EXCEPT !.code = handler[h].code]
  <2>1. handler[h].id \in Ids => row \in Rows /\ row.stored = rows[handler[h].id].stored
          /\ row.email = rows[handler[h].id].email /\ row.active = rows[handler[h].id].active
    <3>1. handler[h].code \in Codes /\ \A id \in Ids : rows[id] \in Rows
      BY RequestParts DEF TypeOK
    <3> QED BY <3>1 DEF Rows
  <2>2. rows' = Updated(handler[h].id, row)
    BY <1>13 DEF ReauthCredentials
  <2> HIDE DEF row
  <2>3. rows' \in [Ids -> Rows]
    BY <2>1, <2>2, UpdatedRows
  <2> QED BY <1>13, <2>3, HandlerType, AtPhase DEF ReauthCredentials, TypeOK
<1>14. ASSUME NEW h \in Handlers, ReauthHealth(h) PROVE TypeOK'
  BY <1>14, MarkedRows, HandlerType, AtPhase DEF ReauthHealth, TypeOK
<1>15. ASSUME NEW h \in Handlers, ConnectInserts(h) PROVE TypeOK'
  <2>1. rows' \in [Ids -> Rows]
    BY <1>15, InsertedRows
  <2> QED BY <1>15, <2>1, HandlerType, AtPhase DEF ConnectInserts, TypeOK
<1>16. ASSUME NEW h \in Handlers, ConnectSelects(h) PROVE TypeOK'
  BY <1>16, SelectedRows, HandlerType, AtPhase DEF ConnectSelects, TypeOK
<1>17. ASSUME NEW h \in Handlers, StartOne(h) PROVE TypeOK'
  <2>1. handler' \in [Handlers -> HandlerTypes]
    BY <1>17, HandlerType, IdleType DEF StartOne
  <2>2. CASE UNCHANGED <<handles, worker>>
    BY <1>17, <2>1, <2>2 DEF StartOne, TypeOK
  <2>3. CASE Spawns(handler[h].id)
    <3>1. [IdleWorker EXCEPT !.phase = "open", !.loop = TRUE, !.id = handler[h].id] \in WorkerTypes
      BY RequestParts, IdleType DEF IdleWorker, WorkerTypes
    <3>2. worker' \in [Workers -> WorkerTypes]
      BY <2>3, <3>1 DEF Spawns, TypeOK
    <3>3. handles' \in [Ids -> {"none", "running", "finished"}]
      BY <2>3 DEF Spawns, TypeOK
    <3> QED BY <1>17, <2>1, <3>2, <3>3 DEF StartOne, TypeOK
  <2> QED BY <1>17, <2>2, <2>3 DEF StartOne
<1>18. ASSUME NEW h \in Handlers, PersistFails(h) PROVE TypeOK'
  BY <1>18, HandlerType, IdleType, SpendType DEF PersistFails, TypeOK, Events
<1>19. ASSUME NEW h \in Handlers, Activate(h) \/ Delete(h) PROVE TypeOK'
  <2>1. PICK id \in Stored, phase \in {"activate", "delete"} :
          Becomes(h, [IdleHandler EXCEPT !.phase = phase, !.id = id])
    BY <1>19 DEF Activate, Delete
  <2>2. [IdleHandler EXCEPT !.phase = phase, !.id = id] \in HandlerTypes
    BY IdleType DEF IdleHandler, HandlerTypes, Stored
  <2> QED BY <1>19, <2>1, <2>2, HandlerType, SpendType DEF Activate, Delete, TypeOK, Events
<1>20. ASSUME NEW h \in Handlers, ActivateSelects(h) PROVE TypeOK'
  BY <1>20, SelectedRows, HandlerType, IdleType DEF ActivateSelects, TypeOK
<1>21. ASSUME NEW h \in Handlers, DeleteRemoves(h) PROVE TypeOK'
  BY <1>21, HandlerType, AtPhase, IdleType DEF DeleteRemoves, TypeOK
<1>22. ASSUME NEW h \in Handlers, ReconcileReads(h) PROVE TypeOK'
  <2>1. [handler[h] EXCEPT !.phase = "repair", !.fresh = TRUE] \in HandlerTypes
    BY DEF TypeOK, HandlerTypes
  <2> QED BY <1>22, <2>1, HandlerType, IdleType DEF ReconcileReads, TypeOK
<1>23. ASSUME NEW h \in Handlers, ReconcileRepairs(h) PROVE TypeOK'
  <2>1. \A id \in Ids : [rows[id] EXCEPT !.active = TRUE] \in Rows
    BY DEF TypeOK, Rows
  <2>2. rows' \in [Ids -> Rows]
    BY <1>23, <2>1 DEF ReconcileRepairs, TypeOK, Stored
  <2>3. handler' \in [Handlers -> HandlerTypes]
    BY <1>23, HandlerType, IdleType DEF ReconcileRepairs
  <2> QED BY <1>23, <2>2, <2>3 DEF ReconcileRepairs, TypeOK
<1>24. ASSUME NEW e \in Emails, Rotate(e) PROVE TypeOK'
  <2>1. accepted' \in [Emails -> Codes]
    BY <1>24, AccountsAssumption DEF Rotate, TypeOK, Codes
  <2> QED BY <1>24, <2>1, SpendType DEF Rotate, TypeOK, Events
<1>25. CASE Restart
  <2>1. PICK pick \in [Stored -> Workers] :
          worker' = [w \in Workers |->
            IF \E id \in Stored : pick[id] = w
              THEN [IdleWorker EXCEPT !.phase = "open", !.loop = TRUE,
                                      !.id = CHOOSE id \in Stored : pick[id] = w]
              ELSE IdleWorker]
    BY <1>25 DEF Restart
  <2>2. worker' \in [Workers -> WorkerTypes]
    BY <2>1, SpawnedType, IdleType
  <2> QED BY <1>25, <2>2, SpendType, IdleType DEF Restart, TypeOK, Events
<1> QED
  BY <1>1, <1>2, <1>3, <1>4, <1>5, <1>6, <1>7, <1>8, <1>9, <1>10, <1>11, <1>12, <1>13, <1>14,
     <1>15, <1>16, <1>17, <1>18, <1>19, <1>20, <1>21, <1>22, <1>23, <1>24, <1>25
     DEF Next, RoundStep, HandlerStep

-----------------------------------------------------------------------------
(* One selected account, one account per mailbox *)

\* A request that goes on without a snapshot while the rows stay as they are
\* leaves the snapshots of the others true.
LEMMA QuietSnapshots ==
    ASSUME IInv, NEW h \in Handlers, NEW r \in HandlerTypes, ~r.fresh,
           Becomes(h, r) \/ Commits(h, r), UNCHANGED rows
    PROVE  FreshRepairs' /\ OneActive' /\ OneRow'
<1>1. Actives' = Actives /\ \A e \in Emails : RowOf(e)' = RowOf(e)
  BY DEF Actives, RowOf, Stored
<1>2. FreshRepairs'
  BY <1>1, HandlerType DEF IInv, FreshRepairs
<1> QED BY <1>1, <1>2 DEF IInv, OneActive, OneRow

\* A commit of a request that keeps no snapshot leaves none that can be upgraded.
LEMMA CommittedSnapshots ==
    ASSUME IInv, NEW h \in Handlers, NEW r \in HandlerTypes, ~r.fresh, Commits(h, r)
    PROVE  FreshRepairs'
BY HandlerType DEF IInv, FreshRepairs

\* Nor does a commit of anybody else.
LEMMA StaleSnapshots ==
    ASSUME IInv, OthersStale
    PROVE  FreshRepairs'
BY StaleType DEF IInv, FreshRepairs

\* Every step keeps one selected account at most, and one account per mailbox.
LEMMA RowsStep ==
    ASSUME IInv, [Next]_vars
    PROVE  FreshRepairs' /\ OneActive' /\ OneRow'
<1> DEFINE Good == FreshRepairs /\ OneActive /\ OneRow
<1>a. rows' = rows /\ handler' = handler => Good'
  BY DEF IInv, FreshRepairs, OneActive, OneRow, Actives, RowOf, Stored
<1>b. OthersStale /\ Kept => Good'
  BY StaleSnapshots, KeptRows
<1>c. \A h \in Handlers : Becomes(h, IdleHandler) /\ UNCHANGED rows => Good'
  BY QuietSnapshots, IdleType
<1> SUFFICES Good'
  OBVIOUS
<1> HIDE DEF Good
<1>1. CASE UNCHANGED vars
  BY <1>1, <1>a DEF vars
<1>2. ASSUME NEW w \in Workers, RoundStep(w) \/ RoundOpenErrs(w) \/ PullFails(w) PROVE Good'
  <2>1. \/ rows' = rows /\ handler' = handler
        \/ /\ OthersStale
           /\ \E status \in {"ok", "error", "needsReconnect"} : rows' = Marked(worker[w].id, status)
    BY <1>2 DEF RoundStep, RoundOpens, PullSucceeds, PullAuthFails, RoundApplies, LoopGoesOn,
                RoundOpenErrs, PullFails
  <2> QED BY <2>1, <1>a, <1>b, MarkedRows DEF IInv
<1>3. CASE SyncNow \/ \E e \in Emails : Rotate(e)
  BY <1>3, <1>a DEF SyncNow, Rotate
<1>4. ASSUME NEW h \in Handlers, Connect(h) PROVE Good'
  <2>1. PICK e \in Emails, c \in Codes :
          Becomes(h, [IdleHandler EXCEPT !.phase = "lookup", !.email = e, !.code = c])
    BY <1>4 DEF Connect
  <2> DEFINE r == [IdleHandler EXCEPT !.phase = "lookup", !.email = e, !.code = c]
  <2>2. r \in HandlerTypes /\ ~r.fresh
    BY DEF IdleHandler, HandlerTypes, NoId
  <2> HIDE DEF r
  <2>3. Becomes(h, r) /\ UNCHANGED rows
    BY <1>4, <2>1 DEF Connect, r
  <2> QED BY <2>2, <2>3, QuietSnapshots DEF Good
<1>5. ASSUME NEW h \in Handlers, ConnectLooksUp(h) PROVE Good'
  <2> DEFINE known == IF RowOf(handler[h].email) = {} THEN NoId
                      ELSE CHOOSE id \in RowOf(handler[h].email) : TRUE
             r     == [handler[h] EXCEPT !.phase = "probe", !.id = known]
  <2>1. known \in {NoId} \cup Ids
    BY DEF RowOf, Stored
  <2>2. r \in HandlerTypes /\ ~r.fresh
    BY <1>5, <2>1, RequestParts DEF HandlerTypes, IInv, FreshRepairs, ConnectLooksUp
  <2>3. (Becomes(h, r) \/ Becomes(h, IdleHandler)) /\ UNCHANGED rows
    BY <1>5 DEF ConnectLooksUp
  <2> HIDE DEF r
  <2> QED BY <1>c, <2>2, <2>3, QuietSnapshots DEF Good
<1>6. ASSUME NEW h \in Handlers, ConnectProbes(h) PROVE Good'
  <2>1. ~handler[h].fresh /\ UNCHANGED rows
    BY <1>6 DEF ConnectProbes, IInv, FreshRepairs
  <2>2. CASE Becomes(h, [handler[h] EXCEPT !.phase = "credentials"])
    <3> DEFINE r == [handler[h] EXCEPT !.phase = "credentials"]
    <3>1. r \in HandlerTypes /\ r.fresh = handler[h].fresh
      BY AtPhase DEF IInv
    <3>2. Becomes(h, r)
      BY <2>2
    <3> HIDE DEF r
    <3> QED BY <2>1, <3>1, <3>2, QuietSnapshots DEF Good
  <2>3. CASE minted < MaxIds
             /\ Becomes(h, [handler[h] EXCEPT !.phase = "insert", !.id = minted + 1])
    <3> DEFINE r == [handler[h] EXCEPT !.phase = "insert", !.id = minted + 1]
    <3>1. r \in HandlerTypes /\ r.fresh = handler[h].fresh
      BY <2>3, MintedType, RequestParts DEF IInv, HandlerTypes
    <3> HIDE DEF r
    <3>2. Becomes(h, r)
      BY <2>3 DEF r
    <3> QED BY <2>1, <3>1, <3>2, QuietSnapshots DEF Good
  <2> QED BY <1>6, <1>c, <2>1, <2>2, <2>3 DEF ConnectProbes
<1>7. ASSUME NEW h \in Handlers, ReauthCredentials(h) PROVE Good'
  <2> DEFINE row == [rows[handler[h].id] EXCEPT !.code = handler[h].code]
  <2>1. handler[h].id \in Ids => row \in Rows /\ row.stored = rows[handler[h].id].stored
          /\ row.email = rows[handler[h].id].email /\ row.active = rows[handler[h].id].active
    <3>1. handler[h].code \in Codes /\ \A id \in Ids : rows[id] \in Rows
      BY RequestParts DEF IInv, TypeOK
    <3> QED BY <3>1 DEF Rows
  <2>2. rows' = Updated(handler[h].id, row)
    BY <1>7 DEF ReauthCredentials
  <2> HIDE DEF row
  <2>3. Kept
    BY <2>1, <2>2, UpdatedRows DEF IInv
  <2>4. Commits(h, [handler[h] EXCEPT !.phase = "health"]) /\ ~handler[h].fresh
    BY <1>7 DEF ReauthCredentials, IInv, FreshRepairs
  <2> QED BY <2>3, <2>4, AtPhase, CommittedSnapshots, KeptRows DEF Good, IInv
<1>8. ASSUME NEW h \in Handlers, ReauthHealth(h) PROVE Good'
  <2>1. Kept
    BY <1>8, MarkedRows DEF ReauthHealth, IInv
  <2>2. Commits(h, [handler[h] EXCEPT !.phase = "select"]) /\ ~handler[h].fresh
    BY <1>8 DEF ReauthHealth, IInv, FreshRepairs
  <2> QED BY <2>1, <2>2, AtPhase, CommittedSnapshots, KeptRows DEF Good, IInv
<1>9. ASSUME NEW h \in Handlers, ConnectInserts(h) PROVE Good'
  <2>1. Commits(h, [handler[h] EXCEPT !.phase = "select"]) /\ ~handler[h].fresh
    BY <1>9 DEF ConnectInserts, IInv, FreshRepairs
  <2> QED BY <1>9, <2>1, AtPhase, CommittedSnapshots, InsertedRows DEF Good, IInv
<1>10. ASSUME NEW h \in Handlers, ConnectSelects(h) PROVE Good'
  <2>1. Commits(h, [handler[h] EXCEPT !.phase = "start"]) /\ ~handler[h].fresh
    BY <1>10 DEF ConnectSelects, IInv, FreshRepairs
  <2> QED BY <1>10, <2>1, AtPhase, CommittedSnapshots, SelectedRows DEF Good, IInv, ConnectSelects
<1>11. ASSUME NEW h \in Handlers, StartOne(h) \/ PersistFails(h) PROVE Good'
  BY <1>11, <1>c DEF StartOne, PersistFails
<1>12. ASSUME NEW h \in Handlers, Activate(h) \/ Delete(h) PROVE Good'
  <2>1. PICK id \in Stored, phase \in {"activate", "delete"} :
          Becomes(h, [IdleHandler EXCEPT !.phase = phase, !.id = id])
    BY <1>12 DEF Activate, Delete
  <2> DEFINE r == [IdleHandler EXCEPT !.phase = phase, !.id = id]
  <2>2. r \in HandlerTypes /\ ~r.fresh
    BY IdleType DEF IdleHandler, HandlerTypes, Stored
  <2> HIDE DEF r
  <2>3. Becomes(h, r) /\ UNCHANGED rows
    BY <1>12, <2>1 DEF Activate, Delete, r
  <2> QED BY <2>2, <2>3, QuietSnapshots DEF Good
<1>13. ASSUME NEW h \in Handlers, ActivateSelects(h) PROVE Good'
  BY <1>13, IdleType, CommittedSnapshots, SelectedRows DEF Good, ActivateSelects
<1>14. ASSUME NEW h \in Handlers, DeleteRemoves(h) PROVE Good'
  <2>1. \A id \in Ids : rows'[id] = rows[id] \/ rows'[id] = NoRow
    BY <1>14 DEF DeleteRemoves, IInv, TypeOK
  <2>2. Kept
    BY <2>1, IdleType DEF Kept
  <2>3. Commits(h, [handler[h] EXCEPT !.phase = "reconcile"]) /\ ~handler[h].fresh
    BY <1>14 DEF DeleteRemoves, IInv, FreshRepairs
  <2> QED BY <2>2, <2>3, AtPhase, CommittedSnapshots, KeptRows DEF Good, IInv
<1>15. ASSUME NEW h \in Handlers, ReconcileReads(h) PROVE Good'
  <2>1. UNCHANGED rows
    BY <1>15 DEF ReconcileReads
  <2>2. CASE Becomes(h, IdleHandler)
    BY <1>c, <2>1, <2>2
  <2>3. CASE Actives = {}
             /\ Becomes(h, [handler[h] EXCEPT !.phase = "repair", !.fresh = TRUE])
    <3> DEFINE r == [handler[h] EXCEPT !.phase = "repair", !.fresh = TRUE]
    <3>1. r \in HandlerTypes /\ r.phase = "repair"
      BY DEF IInv, TypeOK, HandlerTypes
    <3> HIDE DEF r
    <3>2. Becomes(h, r)
      BY <2>3 DEF r
    <3>3. Actives' = {} /\ OneActive' /\ OneRow'
      BY <2>1, <2>3 DEF Actives, OneActive, OneRow, RowOf, Stored, IInv
    <3>4. FreshRepairs'
      BY <3>1, <3>2, <3>3, HandlerType DEF IInv, FreshRepairs
    <3> QED BY <3>3, <3>4 DEF Good
  <2> QED BY <1>15, <2>2, <2>3 DEF ReconcileReads
<1>16. ASSUME NEW h \in Handlers, ReconcileRepairs(h) PROVE Good'
  <2>1. CASE Becomes(h, IdleHandler) /\ UNCHANGED rows
    BY <1>c, <2>1
  <2>2. CASE /\ handler[h].fresh /\ Commits(h, IdleHandler)
             /\ \E id \in Stored : rows' = [rows EXCEPT ![id].active = TRUE]
    <3>1. PICK id \in Stored : rows' = [rows EXCEPT ![id].active = TRUE]
      BY <2>2
    <3>2. Actives = {}
      BY <2>2 DEF IInv, FreshRepairs
    <3>3. \A k \in Ids : /\ rows[k] \in Rows /\ rows'[k].stored = rows[k].stored
                         /\ rows'[k].email = rows[k].email
                         /\ k # id => rows'[k] = rows[k]
      BY <3>1 DEF IInv, TypeOK, Rows
    <3>4. OneActive'
      <4>1. \A k \in Ids : ~(rows[k].stored /\ rows[k].active)
        BY <3>2, Zenon DEF Actives, Stored
      <4>2. \A k \in Ids : rows'[k].stored /\ rows'[k].active => k = id
        BY <3>3, <4>1
      <4> QED BY <4>2, Zenon DEF OneActive, Actives, Stored
    <3>5. OneRow'
      BY <3>3 DEF IInv, OneRow, RowOf, Stored
    <3> QED BY <2>2, <3>4, <3>5, IdleType, CommittedSnapshots DEF Good
  <2> QED BY <1>16, <2>1, <2>2 DEF ReconcileRepairs
<1>17. CASE Restart
  <2>1. FreshRepairs'
    BY <1>17, IdleType DEF Restart, FreshRepairs
  <2>2. rows' = rows
    BY <1>17 DEF Restart
  <2>3. OneActive' /\ OneRow'
    BY <2>2 DEF IInv, OneActive, OneRow, Actives, RowOf, Stored
  <2> QED BY <2>1, <2>3 DEF Good
<1>18. ASSUME NEW h \in Handlers, HandlerStep(h) PROVE Good'
  BY <1>5, <1>6, <1>7, <1>8, <1>9, <1>10, <1>11, <1>13, <1>14, <1>15, <1>16, <1>18 DEF HandlerStep
<1>19. CASE Next
  BY <1>2, <1>3, <1>4, <1>11, <1>12, <1>17, <1>18, <1>19 DEF Next
<1> QED BY <1>1, <1>19

-----------------------------------------------------------------------------
(* One loop per account *)

Runs(w) == worker[w].phase # "idle" /\ worker[w].loop

\* The same tasks run loops of the same accounts as before.
LEMMA SameLoops ==
    ASSUME IInv, UNCHANGED handles,
           \A v \in Workers : /\ Runs(v)' <=> Runs(v)
                              /\ Runs(v) => worker'[v].id = worker[v].id
    PROVE  OneLoop'
<1>1. \A id \in Ids : Loops(id)' = Loops(id)
  BY DEF Loops, Runs
<1> QED BY <1>1 DEF IInv, OneLoop

\* A task that goes on with its round goes on for its account.
LEMMA GoesOnLoops ==
    ASSUME IInv, NEW w \in Workers, worker[w].phase # "idle", UNCHANGED handles,
           \A v \in Workers \ {w} : worker'[v] = worker[v],
           worker'[w].phase # "idle", worker'[w].loop = worker[w].loop,
           worker'[w].id = worker[w].id
    PROVE  NamedTasks' /\ OneLoop'
<1>1. NamedTasks'
  BY DEF IInv, NamedTasks
<1>2. \A v \in Workers : /\ Runs(v)' <=> Runs(v)
                         /\ Runs(v) => worker'[v].id = worker[v].id
  BY DEF Runs
<1> QED BY <1>1, <1>2, SameLoops

\* The end of a task takes its loop away, and its handle says so.
LEMMA StopsLoops ==
    ASSUME IInv, NEW w \in Workers, worker[w].phase # "idle", Stops(w)
    PROVE  NamedTasks' /\ OneLoop'
<1>1. worker'[w] = IdleWorker /\ \A v \in Workers \ {w} : worker'[v] = worker[v]
  BY StopsType DEF IInv
<1>2. NamedTasks'
  BY <1>1, IdleType DEF IInv, NamedTasks
<1>3. CASE ~worker[w].loop
  <2>1. UNCHANGED handles
    BY <1>3 DEF Stops
  <2>2. \A v \in Workers : /\ Runs(v)' <=> Runs(v)
                           /\ Runs(v) => worker'[v].id = worker[v].id
    BY <1>1, <1>3, IdleType DEF Runs
  <2> QED BY <1>2, <2>1, <2>2, SameLoops
<1>4. CASE worker[w].loop
  <2> SUFFICES ASSUME NEW id \in Ids
               PROVE  /\ \A v, u \in Loops(id)' : v = u
                      /\ handles'[id] = "running" <=> Loops(id)' # {}
    BY <1>2 DEF OneLoop
  <2>1. worker[w].id \in Ids /\ handles' = [handles EXCEPT ![worker[w].id] = "finished"]
    BY <1>4 DEF Stops, IInv, NamedTasks
  <2>2. Loops(id)' = Loops(id) \ {w}
    BY <1>1, IdleType DEF Loops
  <2>3. CASE id = worker[w].id
    <3>1. w \in Loops(id)
      BY <1>4, <2>3 DEF Loops
    <3>2. Loops(id)' = {}
      BY <2>2, <3>1 DEF IInv, OneLoop
    <3>3. handles'[id] = "finished"
      BY <2>1, <2>3 DEF IInv, TypeOK
    <3> QED BY <3>2, <3>3
  <2>4. CASE id # worker[w].id
    <3>1. w \notin Loops(id)
      BY <2>4 DEF Loops
    <3>2. Loops(id)' = Loops(id) /\ handles'[id] = handles[id]
      BY <2>1, <2>2, <2>4, <3>1 DEF IInv, TypeOK
    <3> QED BY <3>2 DEF IInv, OneLoop
  <2> QED BY <2>3, <2>4
<1> QED BY <1>3, <1>4

\* start_one spawns a loop only for an account without one.
LEMMA SpawnsLoops ==
    ASSUME IInv, NEW i \in Ids, ~HasLoop(i), Spawns(i)
    PROVE  NamedTasks' /\ OneLoop'
<1>1. PICK w \in Workers :
        /\ worker[w].phase = "idle"
        /\ worker' = [worker EXCEPT ![w] = [IdleWorker EXCEPT !.phase = "open", !.loop = TRUE, !.id = i]]
  BY DEF Spawns
<1>2. /\ worker'[w].phase = "open" /\ worker'[w].loop /\ worker'[w].id = i
      /\ \A v \in Workers \ {w} : worker'[v] = worker[v]
  BY <1>1 DEF IInv, TypeOK, IdleWorker
<1>3. NamedTasks'
  BY <1>2 DEF IInv, NamedTasks
<1>4. handles' = [handles EXCEPT ![i] = "running"]
  BY DEF Spawns
<1>5. Loops(i) = {} /\ Loops(i)' = {w} /\ handles'[i] = "running"
  <2>1. Loops(i) = {}
    BY DEF HasLoop, IInv, OneLoop
  <2>2. \A v \in Workers : v \in Loops(i)' <=> v = w
    BY <1>2, <2>1 DEF Loops
  <2>3. Loops(i)' \subseteq Workers
    BY DEF Loops
  <2> QED BY <1>4, <2>1, <2>2, <2>3 DEF IInv, TypeOK
<1>6. \A id \in Ids \ {i} : Loops(id)' = Loops(id) /\ handles'[id] = handles[id]
  <2> SUFFICES ASSUME NEW id \in Ids \ {i}
               PROVE  Loops(id)' = Loops(id) /\ handles'[id] = handles[id]
    OBVIOUS
  <2>1. \A v \in Workers : v \in Loops(id)' <=> v \in Loops(id)
    BY <1>1, <1>2 DEF Loops
  <2>2. Loops(id)' \subseteq Workers /\ Loops(id) \subseteq Workers
    BY DEF Loops
  <2> QED BY <1>4, <2>1, <2>2 DEF IInv, TypeOK
<1> QED BY <1>3, <1>5, <1>6 DEF IInv, OneLoop

\* start_all: after a restart every stored account has the one loop picked for it.
LEMMA RestartLoops ==
    ASSUME IInv, Restart
    PROVE  NamedTasks' /\ OneLoop'
<1>1. PICK pick \in [Stored -> Workers] :
        /\ \A i, j \in Stored : pick[i] = pick[j] => i = j
        /\ worker' = [w \in Workers |->
             IF \E id \in Stored : pick[id] = w
               THEN [IdleWorker EXCEPT !.phase = "open", !.loop = TRUE,
                                       !.id = CHOOSE id \in Stored : pick[id] = w]
               ELSE IdleWorker]
  BY DEF Restart
<1>2. \A w \in Workers :
        worker'[w].phase # "idle" => worker'[w].id \in Stored /\ pick[worker'[w].id] = w
  BY <1>1 DEF IdleWorker
<1>3. \A id \in Stored : /\ worker'[pick[id]].phase # "idle" /\ worker'[pick[id]].loop
                         /\ worker'[pick[id]].id = id
  <2> SUFFICES ASSUME NEW id \in Stored
               PROVE  /\ worker'[pick[id]].phase # "idle" /\ worker'[pick[id]].loop
                      /\ worker'[pick[id]].id = id
    OBVIOUS
  <2>1. worker'[pick[id]].phase = "open" /\ worker'[pick[id]].loop
    BY <1>1 DEF IdleWorker
  <2>2. pick[worker'[pick[id]].id] = pick[id] /\ worker'[pick[id]].id \in Stored
    BY <1>2, <2>1
  <2> QED BY <1>1, <2>1, <2>2
<1>4. NamedTasks'
  BY <1>2 DEF NamedTasks, Stored
<1>5. OneLoop'
  <2> SUFFICES ASSUME NEW id \in Ids
               PROVE  /\ \A v, u \in Loops(id)' : v = u
                      /\ handles'[id] = "running" <=> Loops(id)' # {}
    BY DEF OneLoop
  <2>1. handles'[id] = IF id \in Stored THEN "running" ELSE "none"
    BY DEF Restart
  <2>2. \A v \in Loops(id)' : id \in Stored /\ v = pick[id]
    BY <1>2 DEF Loops
  <2>3. id \in Stored => pick[id] \in Loops(id)'
    BY <1>3 DEF Loops
  <2> QED BY <2>1, <2>2, <2>3
<1> QED BY <1>4, <1>5

\* Every step keeps one loop per account at most.
LEMMA LoopStep ==
    ASSUME IInv, [Next]_vars
    PROVE  NamedTasks' /\ OneLoop'
<1> DEFINE Good == NamedTasks /\ OneLoop
<1> SUFFICES Good'
  OBVIOUS
<1>a. worker' = worker /\ handles' = handles => Good'
  BY DEF IInv, NamedTasks, OneLoop, Loops
<1>b. \A w \in Workers : worker[w].phase # "idle" /\ Stops(w) => Good'
  BY StopsLoops
<1>c. \A w \in Workers : worker[w].phase # "idle" /\ handles' = handles /\ worker' = AfterRound(w) => Good'
  <2> SUFFICES ASSUME NEW w \in Workers, worker[w].phase # "idle", handles' = handles,
                      worker' = AfterRound(w)
               PROVE  Good'
    OBVIOUS
  <2>1. /\ \A v \in Workers \ {w} : worker'[v] = worker[v]
        /\ worker[w].loop => /\ worker'[w].phase # "idle" /\ worker'[w].loop
                             /\ worker'[w].id = worker[w].id
        /\ ~worker[w].loop => worker'[w] = IdleWorker
    BY AfterRoundType DEF IInv
  <2>2. CASE worker[w].loop
    BY <2>1, <2>2, GoesOnLoops DEF Good
  <2>3. CASE ~worker[w].loop
    <3>1. worker'[w] = IdleWorker
      BY <2>1, <2>3
    <3>2. \A v \in Workers : /\ Runs(v)' <=> Runs(v)
                             /\ Runs(v) => worker'[v].id = worker[v].id
      BY <2>1, <2>3, <3>1, IdleType DEF Runs
    <3>3. NamedTasks'
      BY <2>1, <3>1, IdleType DEF IInv, NamedTasks
    <3> QED BY <3>2, <3>3, SameLoops
  <2> QED BY <2>2, <2>3
<1>d. \A w \in Workers, phase \in {"open", "pull", "apply", "pause"} :
        worker[w].phase # "idle" /\ handles' = handles
        /\ worker' = [worker EXCEPT ![w].phase = phase] => Good'
  <2> SUFFICES ASSUME NEW w \in Workers, NEW phase \in {"open", "pull", "apply", "pause"},
                      worker[w].phase # "idle", handles' = handles,
                      worker' = [worker EXCEPT ![w].phase = phase]
               PROVE  Good'
    OBVIOUS
  <2>1. /\ \A v \in Workers \ {w} : worker'[v] = worker[v]
        /\ worker'[w].phase # "idle" /\ worker'[w].loop = worker[w].loop
        /\ worker'[w].id = worker[w].id
    BY GoesOnType DEF IInv
  <2> QED BY <2>1, GoesOnLoops DEF Good
<1> HIDE DEF Good
<1>1. CASE UNCHANGED vars
  BY <1>1, <1>a DEF vars
<1>2. ASSUME NEW w \in Workers, RoundOpens(w) PROVE Good'
  <2>1. CASE Stops(w)
    BY <1>2, <1>b, <2>1 DEF RoundOpens
  <2>2. CASE /\ worker' = [worker EXCEPT ![w].phase = "pull", ![w].email = rows[worker[w].id].email,
                                         ![w].code = rows[worker[w].id].code]
             /\ UNCHANGED handles
    <3>1. /\ \A v \in Workers \ {w} : worker'[v] = worker[v]
          /\ worker'[w].phase # "idle" /\ worker'[w].loop = worker[w].loop
          /\ worker'[w].id = worker[w].id
      BY <2>2 DEF IInv, TypeOK, WorkerTypes
    <3>2. worker[w].phase # "idle" /\ UNCHANGED handles
      BY <1>2, <2>2 DEF RoundOpens
    <3> QED BY <3>1, <3>2, GoesOnLoops DEF Good
  <2> QED BY <1>2, <2>1, <2>2 DEF RoundOpens
<1>3. ASSUME NEW w \in Workers, RoundOpenErrs(w) PROVE Good'
  BY <1>3, <1>b, <1>c DEF RoundOpenErrs
<1>4. ASSUME NEW w \in Workers, PullSucceeds(w) \/ LoopGoesOn(w) PROVE Good'
  BY <1>4, <1>d DEF PullSucceeds, LoopGoesOn
<1>5. ASSUME NEW w \in Workers, PullAuthFails(w) PROVE Good'
  BY <1>5, <1>b DEF PullAuthFails
<1>6. ASSUME NEW w \in Workers, PullFails(w) \/ RoundApplies(w) PROVE Good'
  BY <1>6, <1>c DEF PullFails, RoundApplies
<1>7. CASE SyncNow
  <2>1. PICK pick \in [Stored -> Workers] :
          /\ \A id \in Stored : worker[pick[id]].phase = "idle"
          /\ worker' = [w \in Workers |->
               IF \E id \in Stored : pick[id] = w
                 THEN [IdleWorker EXCEPT !.phase = "open", !.id = CHOOSE id \in Stored : pick[id] = w]
                 ELSE worker[w]]
    BY <1>7 DEF SyncNow
  <2>2. \A v \in Workers : \/ worker'[v] = worker[v]
                           \/ /\ worker[v].phase = "idle" /\ ~worker'[v].loop
                              /\ worker'[v].id \in Stored
    BY <2>1 DEF IdleWorker
  <2>3. NamedTasks'
    BY <2>2 DEF IInv, NamedTasks, Stored
  <2>4. \A v \in Workers : /\ Runs(v)' <=> Runs(v)
                           /\ Runs(v) => worker'[v].id = worker[v].id
    BY <2>2 DEF Runs
  <2>5. UNCHANGED handles
    BY <1>7 DEF SyncNow
  <2> QED BY <2>3, <2>4, <2>5, SameLoops DEF Good
<1>8. ASSUME NEW h \in Handlers, StartOne(h) PROVE Good'
  <2>1. handler[h].id \in Ids
    BY <1>8 DEF StartOne, IInv, NamedRequests, Nameless
  <2>2. \/ ~HasLoop(handler[h].id) /\ Spawns(handler[h].id)
        \/ worker' = worker /\ handles' = handles
    BY <1>8 DEF StartOne
  <2> QED BY <1>a, <2>1, <2>2, SpawnsLoops DEF Good
<1>9. CASE Restart
  BY <1>9, RestartLoops DEF Good
<1>10. ASSUME NEW h \in Handlers, HandlerStep(h), ~StartOne(h) PROVE Good'
  BY <1>10, <1>a DEF HandlerStep, ConnectLooksUp, ConnectProbes, ReauthCredentials, ReauthHealth,
     ConnectInserts, ConnectSelects, ActivateSelects, DeleteRemoves, ReconcileReads, ReconcileRepairs
<1>11. ASSUME NEW h \in Handlers, PersistFails(h) \/ Connect(h) \/ Activate(h) \/ Delete(h)
       PROVE  Good'
  BY <1>11, <1>a DEF PersistFails, Connect, Activate, Delete
<1>12. ASSUME NEW e \in Emails, Rotate(e) PROVE Good'
  BY <1>12, <1>a DEF Rotate
<1>13. ASSUME NEW w \in Workers, RoundStep(w) PROVE Good'
  BY <1>2, <1>4, <1>5, <1>6, <1>13 DEF RoundStep
<1>14. CASE Next
  BY <1>3, <1>6, <1>7, <1>8, <1>9, <1>10, <1>11, <1>12, <1>13, <1>14 DEF Next
<1> QED BY <1>1, <1>14

-----------------------------------------------------------------------------
(* Requests name their account *)

\* A request that goes on with an account, or without need of one.
LEMMA MovedRequests ==
    ASSUME IInv, NEW h \in Handlers, NEW r \in HandlerTypes, Becomes(h, r) \/ Commits(h, r),
           r.phase \notin Nameless => r.id \in Ids
    PROVE  NamedRequests'
BY HandlerType DEF IInv, NamedRequests

\* Every step keeps the requests on accounts that were minted.
LEMMA RequestsStep ==
    ASSUME IInv, [Next]_vars
    PROVE  NamedRequests'
<1>a. handler' = handler => NamedRequests'
  BY DEF IInv, NamedRequests
<1>b. OthersStale => NamedRequests'
  BY StaleType DEF IInv, NamedRequests
<1>c. \A h \in Handlers : Becomes(h, IdleHandler) \/ Commits(h, IdleHandler) => NamedRequests'
  BY IdleType, MovedRequests DEF Nameless
<1>d. \A h \in Handlers, phase \in {"credentials", "health", "select", "start", "reconcile"} :
        /\ handler[h].id \in Ids
        /\ \/ Becomes(h, [handler[h] EXCEPT !.phase = phase])
           \/ Commits(h, [handler[h] EXCEPT !.phase = phase])
        => NamedRequests'
  BY AtPhase, MovedRequests DEF IInv
<1>1. CASE UNCHANGED vars
  BY <1>1, <1>a DEF vars
<1>2. ASSUME NEW w \in Workers, RoundStep(w) \/ RoundOpenErrs(w) \/ PullFails(w)
      PROVE  NamedRequests'
  BY <1>2, <1>a, <1>b DEF RoundStep, RoundOpens, PullSucceeds, PullAuthFails, RoundApplies,
     LoopGoesOn, RoundOpenErrs, PullFails
<1>3. CASE SyncNow
  BY <1>3, <1>a DEF SyncNow
<1>4. ASSUME NEW e \in Emails, Rotate(e) PROVE NamedRequests'
  BY <1>4, <1>a DEF Rotate
<1>5. CASE Restart
  BY <1>5, IdleType DEF Restart, NamedRequests, Nameless
<1>6. ASSUME NEW h \in Handlers, Connect(h) PROVE NamedRequests'
  <2>1. PICK e \in Emails, c \in Codes :
          Becomes(h, [IdleHandler EXCEPT !.phase = "lookup", !.email = e, !.code = c])
    BY <1>6 DEF Connect
  <2> DEFINE r == [IdleHandler EXCEPT !.phase = "lookup", !.email = e, !.code = c]
  <2>2. r \in HandlerTypes /\ r.phase \in Nameless
    BY DEF IdleHandler, HandlerTypes, NoId, Nameless
  <2> HIDE DEF r
  <2>3. Becomes(h, r)
    BY <2>1 DEF r
  <2> QED BY <2>2, <2>3, MovedRequests
<1>7. ASSUME NEW h \in Handlers, ConnectLooksUp(h) PROVE NamedRequests'
  <2> DEFINE known == IF RowOf(handler[h].email) = {} THEN NoId
                      ELSE CHOOSE id \in RowOf(handler[h].email) : TRUE
             r     == [handler[h] EXCEPT !.phase = "probe", !.id = known]
  <2>1. known \in {NoId} \cup Ids
    BY DEF RowOf, Stored
  <2>2. r \in HandlerTypes /\ r.phase \in Nameless
    BY <2>1, RequestParts DEF HandlerTypes, IInv, Nameless
  <2>3. Becomes(h, r) \/ Becomes(h, IdleHandler)
    BY <1>7 DEF ConnectLooksUp
  <2> HIDE DEF r
  <2> QED BY <1>c, <2>2, <2>3, MovedRequests
<1>8. ASSUME NEW h \in Handlers, ConnectProbes(h) PROVE NamedRequests'
  <2>1. CASE handler[h].id # NoId /\ Becomes(h, [handler[h] EXCEPT !.phase = "credentials"])
    BY <1>d, <2>1, RequestParts DEF IInv
  <2>2. CASE minted < MaxIds
             /\ Becomes(h, [handler[h] EXCEPT !.phase = "insert", !.id = minted + 1])
    BY <2>2, MintedType, MovedRequests DEF IInv
  <2>3. CASE Becomes(h, IdleHandler)
    BY <1>c, <2>3
  <2> QED BY <1>8, <2>1, <2>2, <2>3 DEF ConnectProbes
<1>9. ASSUME NEW h \in Handlers,
             \/ ReauthCredentials(h) \/ ReauthHealth(h) \/ ConnectInserts(h)
             \/ ConnectSelects(h) \/ DeleteRemoves(h)
      PROVE  NamedRequests'
  <2>1. handler[h].id \in Ids
    BY <1>9 DEF ReauthCredentials, ReauthHealth, ConnectInserts, ConnectSelects, DeleteRemoves,
       IInv, NamedRequests, Nameless
  <2>2. \E phase \in {"health", "select", "start", "reconcile"} :
          Commits(h, [handler[h] EXCEPT !.phase = phase])
    BY <1>9 DEF ReauthCredentials, ReauthHealth, ConnectInserts, ConnectSelects, DeleteRemoves
  <2> QED BY <1>d, <2>1, <2>2
<1>10. ASSUME NEW h \in Handlers, StartOne(h) \/ PersistFails(h) \/ ActivateSelects(h)
       PROVE  NamedRequests'
  BY <1>10, <1>c DEF StartOne, PersistFails, ActivateSelects
<1>11. ASSUME NEW h \in Handlers, Activate(h) \/ Delete(h) PROVE NamedRequests'
  <2>1. PICK id \in Stored, phase \in {"activate", "delete"} :
          Becomes(h, [IdleHandler EXCEPT !.phase = phase, !.id = id])
    BY <1>11 DEF Activate, Delete
  <2> DEFINE r == [IdleHandler EXCEPT !.phase = phase, !.id = id]
  <2>2. r \in HandlerTypes /\ r.id \in Ids
    BY IdleType DEF IdleHandler, HandlerTypes, Stored
  <2> HIDE DEF r
  <2>3. Becomes(h, r)
    BY <2>1 DEF r
  <2> QED BY <2>2, <2>3, MovedRequests
<1>12. ASSUME NEW h \in Handlers, ReconcileReads(h) PROVE NamedRequests'
  <2> DEFINE r == [handler[h] EXCEPT !.phase = "repair", !.fresh = TRUE]
  <2>1. r \in HandlerTypes /\ r.id = handler[h].id
    BY DEF IInv, TypeOK, HandlerTypes
  <2>2. handler[h].id \in Ids
    BY <1>12 DEF ReconcileReads, IInv, NamedRequests, Nameless
  <2>3. Becomes(h, r) \/ Becomes(h, IdleHandler)
    BY <1>12 DEF ReconcileReads
  <2> HIDE DEF r
  <2> QED BY <1>c, <2>1, <2>2, <2>3, MovedRequests
<1>13. ASSUME NEW h \in Handlers, ReconcileRepairs(h) PROVE NamedRequests'
  BY <1>13, <1>c DEF ReconcileRepairs
<1>14. ASSUME NEW h \in Handlers, HandlerStep(h) PROVE NamedRequests'
  BY <1>7, <1>8, <1>9, <1>10, <1>12, <1>13, <1>14 DEF HandlerStep
<1>15. CASE Next
  BY <1>2, <1>3, <1>4, <1>5, <1>6, <1>10, <1>11, <1>14, <1>15 DEF Next
<1> QED BY <1>1, <1>15

-----------------------------------------------------------------------------
(* The theorems *)

\* The empty accounts table satisfies the invariant.
LEMMA InitInv == Init => IInv
<1> SUFFICES ASSUME Init PROVE IInv
  OBVIOUS
<1>1. TypeOK
  <2>1. minted \in 0..MaxIds /\ 0 \in Codes
    BY AccountsAssumption DEF Init, Codes
  <2> QED BY <2>1, IdleType, AccountsAssumption DEF Init, TypeOK
<1>2. FreshRepairs /\ NamedRequests /\ NamedTasks
  BY IdleType DEF Init, FreshRepairs, NamedRequests, NamedTasks, Nameless
<1>3. Stored = {}
  BY IdleType DEF Init, Stored
<1>4. OneActive /\ OneRow
  BY <1>3 DEF OneActive, OneRow, Actives, RowOf
<1>5. OneLoop
  <2>1. \A id \in Ids : Loops(id) = {} /\ handles[id] = "none"
    BY IdleType DEF Init, Loops
  <2> QED BY <2>1 DEF OneLoop
<1> QED BY <1>1, <1>2, <1>4, <1>5 DEF IInv

\* IInv is an invariant: it holds at the start and every step keeps it.
LEMMA Invariance == Spec => []IInv
<1>1. IInv /\ [Next]_vars => IInv'
  BY TypeStep, RowsStep, LoopStep, RequestsStep DEF IInv
<1> QED BY <1>1, InitInv, PTL DEF Spec

\* The accounts, the tasks and the requests stay within their types, however many
\* there are and whatever fails.
THEOREM AccountsTypeCorrect == Spec => []TypeOK
<1>1. IInv => TypeOK
  BY DEF IInv
<1> QED BY <1>1, Invariance, PTL

\* However connects, selections and deletions interleave, two accounts are never
\* both selected (set_active, and reconcile_active's count and repair).
THEOREM NeverTwoActive == Spec => []OneActiveAtMost
<1>1. IInv => OneActiveAtMost
  BY AtMostOne DEF IInv, OneActive, OneActiveAtMost
<1> QED BY <1>1, Invariance, PTL

\* Two connects of one mailbox that both found no account leave one account
\* (upsert_account: ON CONFLICT).
THEOREM NeverTwoOfOneMailbox == Spec => []OneAccountPerMailbox
<1>1. IInv => OneAccountPerMailbox
  BY AtMostOne DEF IInv, OneRow, OneAccountPerMailbox
<1> QED BY <1>1, Invariance, PTL

\* start_one and start_all never give an account a second loop, and the handle kept
\* for an account says whether its loop runs (SyncSupervisor.tasks).
THEOREM NeverTwoLoops == Spec => []OneLoopPerAccount
<1>1. IInv => OneLoopPerAccount
  BY AtMostOne DEF IInv, OneLoop, OneLoopPerAccount
<1> QED BY <1>1, Invariance, PTL
=============================================================================
