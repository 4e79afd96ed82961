# Lagoon: a verification project

Lagoon is a desktop mail client for one provider family (IMAP/SMTP with an
authorization code). A Tauri shell (`src/shell`) starts a local Rust backend
(`src/crates/lagoon-api`), the backend keeps a SQLite store and talks to the
mail servers through `src/crates/lagoon-mail`, and a React client
(`src/web`) shows the store and asks the backend to act.

This directory holds TLA+ models of the parts of it that run concurrently or
survive failures, the TLC configurations that check them on small instances,
and TLAPS proofs of some of the checked properties for every instance.

## 1. Inventory

| Component | State | Operations | Talks to |
|---|---|---|---|
| Sync engine (`lagoon-api/src/sync`) | `accounts.sync_state` (UIDVALIDITY, UIDNEXT), `message_headers`, the writer lock | a round: read the cursor, pull, walk three folders, lock, apply header by header, reconcile, commit the cursor | IMAP session, store, AI advice |
| Sync supervisor (same file) | one `JoinHandle` per account, the status and failure counter of the account row | start all, start one, park, back off, `POST /api/sync` | sync engine, account routes |
| Account lifecycle (`http/routes_r3.rs`, `store/accounts.rs`) | the `accounts` table: id, mailbox, sealed credentials, health, which one is selected | connect, re-authenticate, activate, delete | IMAP probe, supervisor |
| Message actions and undo (`http/routes_r5.rs`, `store/write.rs`) | the flags of `message_headers`, `ai_actions` rows | archive, unarchive, trash, restore, pin, unpin, mark read, purge, empty trash, bulk forms, undo of one or many | IMAP moves, store |
| Send routes and claims (`http/routes_send.rs`, `claim_send`) | the `ai_actions` row of a requestId: pending, sent, failed, and when it was claimed | check, claim, take over a stale claim, send, record | SMTP client, composer |
| SMTP client (`lagoon-mail/src/smtp`) | one session: connected, authenticated, recipients, DATA | `send_raw`: one retry, only before DATA | SMTP server |
| Composer (`web/src/core/send.ts`, `Composer.tsx`) | the draft, the last attempt and its outcome | submit, edit, settle | send routes through the shell |
| IMAP reading and writing (`lagoon-mail/src/imap/provider.rs`, `membership.rs`) | folder roles, the selected folder | `pull_changes`, `remote_membership`, `move_safely`, purge, empty trash, bodies | IMAP session |
| IMAP session (`imap/connection.rs`, `capabilities.rs`) | socket, tag counter, selected folder, capabilities | connect, login, run a command, IDLE, drop | mail server |
| AI gateway and advice (`lagoon-api/src/ai`, `routes_ai.rs`) | daily budget, usage, cached answers, advice rows | spend, call, cache, classify, summarise, draft | model provider, store |
| Store reads (`store/messages.rs`, `search.rs`, `actions.rs`, `briefing.rs`) | none of their own | pages, searches, the briefing | every writer, through SQLite |
| Migrations (`store/migrate.rs`) | the list of applied migrations | apply what is missing at start | SQLite |
| Bodies and attachments (`routes_attachments.rs`, `mime/*`) | cached bodies | parse, sanitise, build | IMAP |
| Secrets, tokens, configuration | master key, bearer token | seal, open, compare | shell |
| Desktop shell (`src/shell`) | the child process, its port, the restart budget | start, watch, restart, forward a request within 60 s | backend, client |
| Web client (`src/web`) | lists, optimistic patches, the open reader, the search box | patch, roll back, refresh | backend through the shell |
| Fake provider (`provider/fake.rs`) | in-memory mailbox | stands in for IMAP and SMTP in tests | tests |

### What is hard here, and what each part has to get right

* **Sync against actions against other clients.** A pull and its three folder
  walks are five separate reads of the server, applied later, one committed
  statement at a time, while action requests move mail (remote first, then the
  row) without taking the writer lock and another client moves it too. The
  cursor must never pass mail that has no row, a row may be deleted only when
  the mail is gone, and the live list must come to rest on the INBOX.
* **At most one delivery.** SMTP cannot be undone and its 250 can be lost. A
  requestId has to keep two retries from sending together, survive a crash
  between claim and result, and become usable again, which is what the lease
  does. The handler and the blocking SMTP thread have different lives.
* **Undo.** The claim of an undo is committed before its inverse runs; the
  inverse has a remote and a local half; several undos of one action may race
  on connections of their own, with nothing but a deferred transaction between
  them.
* **Accounts.** `connect_imap` awaits a probe between the lookup and five
  statements without a transaction. Loops read credentials, await, and then
  write a status; a loop that parks is started again only by a connect.
* **Limits and time.** The AI budget is checked before and spent after a call;
  the advice backlog is bounded; leases, expiry of actions, IDLE timeouts and
  the shell's 60 s cut operations off in the middle.
* **One connection, late answers.** The provider of an account keeps one IMAP
  connection and remembers which folder is selected on it. A command that was
  given up can still be answered, and a connection that was given up can still
  be obeyed.
* **Reads without a transaction.** A read route runs several SELECTs while
  writers commit between them; a search walks the table by OFFSET, the history
  by keyset.
* **Starting up.** The shell starts a backend, reads its port from its output,
  waits for its health, restarts it once; a restart command, an exit, a signal
  and the next launch overlap with that. The backend migrates a store that an
  earlier start may have left half way, beside another process on the same file.
* **The client.** Polls, refreshes and changes of list race each other, writes
  are shown before they are done and rolled back when they fail, and the user
  leaves the list in the middle.

PROJECT.json lists each hazard at its line, with the properties that would
notice it going wrong, or why none does yet.

## 2. Modules

| Module | Models | Proved in |
|---|---|---|
| `MailboxSync` | sync engine, the IMAP operations it and the actions use, the six mail-moving actions, another mail client, a server that renumbers | `MailboxSync_proofs` |
| `SendClaim` | composer, send routes, claims, SMTP job, shell time-out, crash | `SendClaim_proofs` |
| `UndoLog` | one message, its audit rows, the undo of one action | `UndoLog_proofs` |
| `Accounts` | account rows, connect / activate / delete, loops, `POST /api/sync`, restart | `Accounts_proofs` |
| `Outbox`, `SendOutbox` | the abstract promise of a send, and that `SendClaim` implements it | `SendClaim_proofs` |
| `ImapSession` | one provider, its connection, the server: every call as the commands it sends | `ImapSession_proofs` |
| `ChatTransport`, `AiGateway` | one HTTPS exchange with a model; configuration, budget, breaker, ledger, AI routes, triage | `AiGateway_proofs` |
| `StoreReads` | every read route as its SELECTs, with writers in between | |
| `StoreBoot`, `Shell` | the backend's start and its migrations; the desktop shell around it, composed with it | `Shell_proofs` |
| `ListClient` | the list window of the web client: sources, overlay, writes, undo | `ListClient_proofs` |
| `MCMailbox`, `MCSend`, `MCUndo`, `MCAccounts`, `MCImap`, `MCAi`, `MCReads`, `MCShell`, `MCList` | the instances TLC checks | |

A module carries its mutants: variants of a definition, marked "Mutant", each of
which is a bug the code could plausibly have. A property is kept only if putting
a mutant in place of the definition makes TLC refute it.

### MailboxSync

`uid[f][m]` is the UID of message `m` in folder `f`; `uidNext` and `validity`
are what SELECT answers. `rows` is `message_headers`, keyed by the identity the
code gives a message: its Message-ID, or `uid:<n>` for one without
(`RemoteId`, `Resolve`). `cursor` is `sync_state`. `round[p]` is a round in
flight; its phases follow `SyncEngine::round`: `StartRound` reads the cursor,
`SelectInbox` and `FetchHeaders` are the pull, `WalkFolder` the membership walk
(a folder that cannot be listed is *unknown*, never empty), and
`BeginApply`, `LandHeader`, `ReadLiveRows`, `PlaceRow` and `CommitCursor` the
statements of the apply. `RoundFails` stops it anywhere. `act[h]` is an action
request: `RequestVerb`, then `RemoteMove` (one step with UID MOVE, otherwise a
copy and `RemoteExpungeSource`, which expunges the UIDs the request copied, kept in
its `uids`), `RemotePurge` or `RemoteEmptyTrash`, then `LocalWrite`. Who works for a
request is its `by`: a verb runs on a blocking thread (`LagoonMailWrite::run`), so a
handler that is dropped leaves a *job* that goes on to the last IMAP command, without
the local half; and when the connection errs, or the process ends, the last command
may still be *on the wire*. `HandlerDies` hands a request on in these ways or ends it,
`CommandLost` and `Crash` end what is on the wire. `Renumber` rebuilds the INBOX; a
server does not do that to a folder a session works in. `discarded` is a ghost: the
mails of which a copy was deleted for good (purge, emptyTrash, another client) since a
move copied them last. It is what "a move loses no mail" has to except: when a trash
has copied a mail and its handler is dropped, the user may empty the trash before the
job expunges the original, and the mail is gone, by a deletion that was asked for.

Abstractions. The header columns other than the flags, the `remote_uid` column,
the read and sent marks are left out. The two SELECTs of the reconcile that
follow each other without an await are one read. A folder holds a message once
(a second copy of it in the same folder has the same fate). `UID FETCH n:*`
answers the newest message even when it is below `n`, as IMAP servers do. Mail
older than the first backfill is not fetched by design; `Backfill` is at least
the number of messages in every run, so no property is about it.

### SendClaim

`composer` holds the draft, the last attempt and its outcome; `Submit` follows
`requestIdFor`. `call[c]` is `deliver`: `ChecksRefuse`/`ChecksPass`,
`ClaimInsert` (the unique index decides), `ClaimInspect`, `ClaimTakeOver` (the
compare-and-swap on `claimedAt`), `Complete`, `Fail`. `job[c]` is the blocking
SMTP thread (`SmtpRetries`, `SmtpRefuses`, `SmtpAccepts`, `SmtpVerdict`); it
outlives its handler (`Dropped`, `Abandoned`). `GiveUp` is the shell's 60 s,
`Tick` minutes of wall clock, `Crash` the end of the process.

Abstractions. A mail is a model value. Refusals are not told apart by code. The
`claimedAt` of a row is its age together with the number of times the requestId
was claimed, because equality and staleness are all the code asks of it. A
handler nobody reads from is dropped before a tick passes (`Tick` waits for
`Dropped`): a tick is minutes, hyper notices a closed connection at once.
Calls without a requestId, and two attachments whose sampled fingerprints
collide, are not modelled.

### UndoLog

`copies` counts the message in each folder of the server, `flags` is its row, `log` the
audit rows with what they replaced, `undos` the undo rows. An action is
`Request`, `ActRemote`, `ActLocal`, `ActAudit`; an undo is `RequestUndo`,
`UndoRead` (find the action, its expiry and whether it is undone, from one
snapshot), `UndoClaim` (insert and COMMIT), `UndoRemote`, `UndoLocal` or
`Retract`. The transaction of an undo is deferred: `fresh` says that nobody
committed since the snapshot was read, and the insert fails once somebody did
(`Commits`, `OthersCommit`). Single and bulk undo run this same routine.

A move on the server succeeds, fails with nothing done, or *goes astray*: it is
reported as failed (its answer is lost, or its STORE or EXPUNGE is refused after the
COPY), or nobody waits for it any more, and the server may carry it out, then or
later, wholly or its COPY alone. `adrift` holds those moves, `Drifts` carries one out.
The handler has ended or retracted the undo by then.

The budget `beside` counts requests that start while another one runs, `astray` the
moves above. The properties carry their premises: `UndoneUnlessCut` is about
behaviours without a failed write or a dropped handler (`Calm`); `ShownIffInInbox` and
`UndoRestores` about those in which, besides, no two requests overlapped
(`OneAtATime`) and no move went astray (`Heard`). `undo_dropped` shows what happens
without the first, `undo_astray` without the last; without the second, two requests
that act on one message leave row and mail apart in the order their halves ran.

### Accounts

`rows` is the `accounts` table, `accepted` the authorization code the server
takes, `handles` the supervisor's map, `worker[w]` a task that runs rounds (a
loop or one of `POST /api/sync`), `handler[h]` an account request. Each
statement of `connect_imap` is a step, with `set_active` and
`reconcile_active` as the transactions they are.

Abstractions. The `degraded` status is part of `error`; the failure counter and
the back-off are left out (a loop may always go on). "The account updated last"
is any account. Marking an account after an authentication failure and the end
of its loop are one step: there is no await between them. `has_provider` and the
lock of `start_one` are one step. A probe whose connection drops is a probe that
fails. Capabilities and the archive-folder key of `sync_state` are left out.

### Outbox, SendOutbox

`Outbox` is what whoever holds a requestId is promised: an attempt is granted
before it delivers, delivers once at most, and a result is settled once.
`SendOutbox` maps the row's status, the number of claims and the copies the
server took to it; `ImplementsOutbox` says that every step of the composer, the
routes, the jobs, the clock and a crash is a step of `Outbox` or none.

### ImapSession

`mbox`, `flagged` and `offers` are the server, `srv`, `wire` and `late` the
connection with the answers not yet read and the commands a dropped connection
still holds, `session` is what the provider remembers (open, logged in, tag,
selected folder, roles, capabilities), `call` the call in progress. `Program`
gives each call of the provider as its commands; `Decide` takes the steps the
provider decides by itself, `Send`, `Read` and `Timeout` are `execute`, `append`
and `idle`, `Fails` and `DropsSession` what `with_client` does with a failure,
`Serve` the server. `OtherClient`, `HangUp` and `CarryOut` are another client,
the end of the connection and a late command of a dropped one; every mail such
a command still takes along counts as `overtaken` (`Touched`).

Abstractions. The TLS handshake is one step of `Connect`. The grammar of
responses, header parsing and the budget of a walk are left out. `LocalIds` is
empty in `imap_session`: what a UID that stands for a message means in another
folder is the scenario `imap_local`.

### ChatTransport, AiGateway

`ChatTransport` is a pure module: what one question to a provider comes to, for
every URL of a configuration and every behaviour of a server (refuses, is not
HTTP, any framing, a body cut anywhere, an error object). In `AiGateway` a
request goes through `Ask...`, `Complete` (budget, routing, breaker), `Answered`,
`SaveSummary`, `RecordUsage`; a triage through `FillBacklog`, `TakeTargets`,
`ClassifyNext`, `Classified`, `WriteNext`. `Dropped` ends a handler at its
await, `Reload` replaces the configuration, `Crash` the process. `billed`, `lost` and
`unread` are ghosts: what the provider charges for, what of it a failed write, a dropped
handler or a crash kept from the ledger, and what got an answer that could not be read.
A provider may charge for whatever was sent to it (`Charged`, `Asking`): for an answer
that breaks off, is too long, has no content or comes after the deadline, too. None of
these is recorded (`HalfwayCallsAreRecorded`, see below), so what the runs and theorems say of the budget is
said of the ledger; the bill of the provider can be higher by `lost` and `unread`.

Abstractions. A call costs one unit. Prompts, texts and the accounts per day
and per job are left out. One gateway, so one breaker for all providers, as in
the code.

### StoreReads

`rows`, `pins`, `log`, `ledger` and `account` are the store, `ask`, `todo` and
`got` a request with its statements still to run and their results, `scan` the
second pass of a search, `walk` the pages of the history a client reads. Each
route is a sequence of statements (`Statements`); `Arrive`, `Leave`, `Flag`,
`Pin`, `Forget`, `Record`, `Settle`, `Undo`, `Release` and `Bill` are the
commits of the writers. `always`, `left` and `steady` are ghosts: what was
there all along. Requests only read, so one at a time is no restriction. The two
properties are about the search and the pages of the history. The other routes (counts,
briefing, export, single reads) are modelled as their statements and carry no property:
no document promises that their parts are of one moment, and they are not.

Abstractions. Full-text ranking, JSON shapes and the clamping of query
parameters are left out. No route writes stack rules, group overrides,
reminders or store notices: they are constants.

### StoreBoot, Shell

`StoreBoot` is the backend from its arguments to its first request. `store` is
the file (tables, the ledger of migrations, what took effect, the accounts,
bodies and drafts that the data steps repair), `proc[p]` where each process is
in `main`. `Transaction` is one migration with its bookkeeping row. `Shell` adds
the supervisor, the restart command, the exit, the signal handler, the pump of
the child's output and the keys file; each is a thread in `task`, and each await
or lock is a point where the others run. `Launch` is the next start of the app.

Abstractions. Neighbouring migrations that only add tables, indexes or columns
are one entry, six in all, and the DDL of one is one step. The Swift backend,
the forwarding of API calls, downloads and the refusal of a wrong
`LAGOON_MAIL_PROVIDER` are left out.

### ListClient

`gen`, `reads` and `shown` are `useApiOutcome` for the three sources of the
window (messages of a lens, briefing, search): every request has a number, and
only the answer of the last one is shown (`Run`, `Serve`, `Commit`).
`removed`, `patched` and `token` are the overlay, `write[w]` a call on its way.
`RowVerb`, `DeleteMarked` (the key that sends one call per marked row), `Bulk`,
`EmptyTrash` and `UndoLatest` start one, `Land` is the backend, `Refused` and
`Succeeds` what the client does with the answer. `Refreshed` is evaluated for
the view in which the write began, because `refreshAll` is the closure of that
moment. `Navigate` is the hash change with the effects it runs. `mail` and `now`
are the store; `owed` and `confirmed` remember what was confirmed.

Abstractions. The effects of a change run before the next event (React runs
them after the frame in between), and a confirmation dialog is answered at once.
The size of the list window, "load more", changing the account, the sync button,
the polls of counts and advice, the reader and the history panel are left out;
mark-read patches like pin does. The list `unread` has no lens of its own. Leaving out
the history panel matters for one property: its undo (`App.tsx:1036-1045`,
`ActionHistory.tsx:75-88`) goes past `undoLatest` and refreshes no list, so
`ListFollowsWrites` does not hold for the writes of the panel.

## 3. Runs

All bounds are named in the module or its MC module. `MaxUid`, `MaxValidity`,
`MaxIds`, `MaxActions` and `MaxCode` cap counters; `Budget`/`Budgets` bounds how
often each kind of event (failure, crash, request of the user, ...) happens,
and a run with several budgets starts from any of them, so that one run covers
"two requests and a failure" and "a rebuild and a crash" without their product.
`CHECK_DEADLOCK FALSE` is set because the system may stop: budgets run out and
the composer ends.

| Run | Shows |
|---|---|
| `mailbox_sync` | Two messages, one without a Message-ID; the five verbs that name a message; another client that moves anything anywhere or deletes it; a failing walk or apply; a crash; a renumbered INBOX. The committed cursor never passes mail without a row (`NoSkippedMail`), and every live row comes to rest on a message of the INBOX (`LiveListConverges`). |
| `mailbox_filing` | No UID MOVE, two handlers that file, purge and empty the trash and may be dropped between COPY, STORE and EXPUNGE while their jobs go on, commands on the wire of a lost connection, a crash; mail that is only moved away from the INBOX. A round deletes only rows of mail that is gone, the INBOX ends up shown, and a mail leaves the server only when a copy of it was deleted for good since it was last copied. |
| `mailbox_rebuild` | Ends in a counterexample, see below. |
| `send_claim` | Two concurrent calls, two contents, a lost answer, a crash, a failing write, an SMTP failure, an edit. Copies never exceed claims, "sent" means the server took the mail, a recorded result is never replaced, and retrying settles an unknown outcome. |
| `undo_log` | Two requests with three undos, a request that acts beside another, a failing inverse, a move that goes astray, a failing write, a death and an expiry; or one request at a time over all six verbs, with four requests, three of them recorded, and four undos in any order. One undo row per action, one 200 per action; what reads as undone was inverted unless a write failed or a handler was dropped; a row is in the inbox exactly when its mail is in the INBOX, and an undo restores what its action replaced, unless requests overlapped, one was cut off or a move went astray. |
| `accounts_select` | Two mailboxes, three connects, an activate, a delete and a failing write interleaved; or two connects with `POST /api/sync`, a changed code and a failing pull. Never two selected accounts, never two accounts of one mailbox. |
| `accounts_loops` | One mailbox, two concurrent requests, a changed code, a failing pull, a deletion, a restart. Never two loops of one account, the handles are true, and an account that says `ok` has a loop in the end. |
| `ai_gateway` | Two requests and a triage, two providers, configuration files that are good, partial or broken, every server behaviour of `ChatTransport`, charges for answers that cannot be read, a failing write, a dropped handler or a crash. An answer that was read is in the ledger unless a write failed or its handler was gone; calls in flight are all the ledger can overrun the budget by. |
| `imap_session` | Two of sixteen calls in a row on one connection, servers with and without MOVE, one refusal, empty search, oversize literal, hang-up or other client, and answers after their deadline. No mail is lost or removed for another, a move that reports success was one, the bytes served are those of the mail, every call ends. |
| `store_reads` | Every read route, two commits of writers anywhere in it. A search that does not say it was cut has every mail that matched throughout; the pages of the history have every action that was visible throughout, each once. |
| `shell_boot` | Two launches over a store that is missing, foreign, old or half repaired, beside `--migrate`, a restart command, an exit or a signal, with two crashes, hangs, failures or strangers on a port. A start never leaves a second backend, a migration is recorded when its work is in the store and only then, every start comes to an end. |
| `client_list` | Two mails, briefing, inbox, trash and a search, two calls on their way that fail, land in part or lose their answer, polls, undo, another client, and a user who leaves. A row is hidden only for a write on its way or confirmed, the rows shown answer the question on the screen, a list is no older than the writes confirmed on it. |

Why the bounds are enough to mean something: the races here are between two
actors over one thing (one row, one requestId, one action, one mailbox), so two
actors and two things give every overlap of a pair; three ids or actions give a
third party that committed in between. `imap_session` has two calls (one that leaves
something behind and one that meets it) and one fault; `store_reads` two commits,
so a row can leave and another arrive, with limits of one and two so that every
limit is passed by four mails; `ai_gateway` a cap of one call, a breaker of two
failures and three billed calls; `shell_boot` three backends, two ports, two
launches and two events, so that a restart can meet a crash. `client_list`
starts from six small budgets: overlapping writes that fail, undo beside lost
answers, leaving in the middle, a search beside a poll and a write, another
client. `MaxUid` is 4 with two messages: each can
leave the INBOX, come back and leave again. `Lease` is one tick, with a first
tick past it, so that a claim is seen young, old and stale. Every action and
disjunct fires in some run.

What the passing runs leave out is deliberate and listed: `mailbox_filing` has
no mail moved back towards the INBOX (see `mailbox_license`, `mailbox_unfile`),
`mailbox_sync` one round at a time (`mailbox_overlap`), no passing
run says that emptyTrash spares the rows of mail that is still in the trash
(`mailbox_empty_trash`) or that a row follows a move that went astray (`undo_astray`), `NoSkippedMail` is about an INBOX that was
not rebuilt (`mailbox_rebuild`), `accounts_loops` has no failing store write and
no `POST /api/sync` (see the hazards of `HealthyIsSynced`), `imap_session` no
mail without a Message-ID (`imap_local`), `OneBackend` is about starts that no
restart command overlaps (`shell_orphans`).

The type invariants of `AiGateway`, `StoreReads` and `ListClient`
are checked the same way, by adding `TypeOK` to the INVARIANTS of the cfg; they
hold and are no run's question. That of `ListClient` is proved,
and what `AiGateway_proofs` needs of its types.

### Fairness

* Rounds and requests (`MailboxSync`, `Accounts`): weak fairness of the next
  step of each. tokio polls a task that is ready, and every await has a timeout.
  Nothing is assumed of failures, of the user or of other clients.
* `SendClaim`: weak fairness of each call and job (blocking reads have
  timeouts) and of the user pressing send again; strong fairness of `Tick`,
  because presses of the user disable it again and again but do not stop the
  clock.
* `ImapSession`: weak fairness of the provider's own steps and of its deadlines.
  Nothing of the server, of the network or of other clients: `CallsEnd` holds
  although the server may never answer, because every wait has a deadline.
* `Shell`: weak fairness of the shell's threads, of a backend that does not
  hang, of the line it prints and of the pump that reads it, and of the end of
  the process once it was asked for. Deadlines pass. A backend that hangs owes
  nothing, nor do restart commands, signals and launches.

### What the code does not keep

Each of these is a statement of the repository's own docs or comments that the
code does not keep. `mailbox_rebuild` is one of the runs; the others are
configurations beside them, run as `tlc -config undo_dropped.cfg MCUndo`.

| Configuration | Statement | What happens |
|---|---|---|
| `mailbox_rebuild` (`RebuildFetchesAgain`) | A UIDVALIDITY change wipes the live rows and re-upserts the full set (`sync/mod.rs:6`) | The reset carries no headers and the new UIDNEXT; what was wiped is never asked for again. |
| `mailbox_empty_trash` (`TrashRowsOutliveTheirMail`) | "The app never reads those folders back, so deleting them locally would be an unrecoverable deletion" (`store/write.rs:793-794`, of archive and trash rows) | emptyTrash expunges what the trash held when it was listed and then deletes every row flagged deleted (`routes_r5.rs:514`): also that of a mail a trash request filed there in between. |
| `mailbox_license` (`DeletesOnlyGoneMail`) | Membership is the only licence to delete a row; a message that was merely filed must keep it (`lagoon-mail/src/sync.rs:16`) | The folders are listed one after the other; a message moved from one still to be listed to one already listed is in no list, and its row goes, with body and advice. |
| `send_lease` (`OneDelivery`) | "one requestId, one delivery" (`routes_send.rs:4`) | A handler dropped after the server took the mail leaves `pending`; past the lease the retry sends a second copy. |
| `undo_dropped` (`UndoneMeansInverted`) | A failed undo must not read as done (`routes_r5.rs:11`) | An undo dropped at the await of its inverse leaves its row; the action reads as undone and cannot be undone again. |
| `client_undone` (`UndoneRowsShow`) | A successful write leaves its entry until the next server payload agrees, then everything is dropped (`core/mutations.ts:14-15`, `App.tsx:10`) | Only a change of lens calls `clear`: a row that was deleted and brought back by undo is in the list again and stays hidden until the user goes elsewhere. |
| `client_leave` (`StaysInItsLens`) | Local optimism from the previous lens must not leak into the next (`App.tsx:200-201`) | A bulk write answered after the user left hides its rows once more, in the lens he is in by then (`App.tsx:569`). |
| `accounts_reauth` (`GoodCodeIsSynced`) | Re-authentication restarts the loop of a parked account (`docs/V1.0-产品定义与验收标准.md:153`) | A loop that is still logging in with the old code counts as running; it then parks the account again, with the new code stored and no loop. |
| `imap_local` (`ActsOnItsMail`) | A UID is mailbox-local; reusing one would move whatever message happens to hold it (`imap/provider.rs:654-660`) | A message known by the UID it had in INBOX is looked up by that UID in whatever folder the call selects. |
| `shell_orphans` (`NoOrphans`) | No orphans: the exit ends the backend (`docs/ipc-contract.md:42`, `state.rs:247`) | A restart waits 7 s for a supervisor that may wait 20; both then start a backend, the later one overwrites the child that is held, and when the app is gone the other one serves on. |
| `shell_interrupted` (`OwnStoreIsServed`) | `prepare` creates what is missing and migrates what is ours (`lagoon-api/src/main.rs:103-106`) | A first start cut off before its migrations are recorded leaves a file that every later start refuses as not a Lagoon store. |
| `shell_restarts` (`RestartsReport`) | A restart starts a fresh supervisor with a fresh budget (`sidecar.rs:461-462`) | When the old supervisor does not stop within 7 s, `supervise` returns at once and no start follows; the status may stay "starting". |
| `store_reads` with `PassesAreDisjoint` | The two passes of a search are disjoint by construction (`store/search.rs:227-229`) | An advice written between them puts one mail in both. |
| `store_reads` with `TotalCoversRows` | The total is the same query as the rows, minus the limit (`store/messages.rs:200`) | It is a later SELECT: mail filed in between makes it smaller. |
| `ai_gateway` with `HalfwayCallsAreRecorded` | "The routes write one row per call, including the calls that failed halfway (they cost tokens too)" (`store/usage.rs:77-80`) | A call whose answer breaks off or cannot be read leaves through `record_failure` (`ai/gateway.rs:233`); no route writes a row for it. |
| `ai_gateway` with `KeptForNextRound` | A mail whose classification fails is kept for the next round (`ai/classify.rs:75-77`) | It was taken off the backlog and nothing puts it back. |
| `ai_gateway` with `OneTrialCall` | After the cooldown one call tries the provider (`ai/gateway.rs:23`) | Every caller that arrives until the first of them fails goes through. |

("With" means: put that property in the INVARIANTS of the cfg.)

Further configurations reproduce behaviours that no document rules out, or that
share a cause with the above. Each ends in a counterexample to the property it
names: `mailbox_unfile` (`InboxShown`: an unarchive beside a round),
`mailbox_overlap` (`NoSkippedMail` with two rounds and an apply that fails half
way), `undo_astray` (`HiddenMeansMoved`: the undo of an archive whose answer is lost
leaves the row archived and the mail in the INBOX), `mailbox_bare`
(`ActsOnItsOwnMessage`: `uid:<n>` used in another folder), `send_edit`
(`NoUnwarnedTwin`: an edit taken back after an uncertain attempt), and, with
another property put in a cfg of a run: `send_claim` with `RefusedMeansNotOut`
(the 250 is lost and the composer is told "refused"), `accounts_select` with
`OneActiveAtRest` (two first connects, the loser selects an id that was never
stored) and with `OnlyParkedLoopsEnd` (a PROPERTY: a read error ends a loop as if
the account were gone), `shell_boot` with `ReadyNamesOneBackend` (the port line
of a child that was ended is taken for that of the next one), `store_reads` with
`SearchMisses` (a mail trashed between two batches of a scan makes the next batch
skip another).

Smaller divergences met while reading, most of them outside the models:

* Send and sync: `failed_response` (`routes_send.rs:829`) reports attachment
  refusals as `smtp-send-failed`; a failing read of the credentials parks the
  account (`sync/mod.rs:209`); `merge_into` (`sync/mod.rs:403`) writes back the
  sync state read before the pull, so an archive folder stored by a connect in
  between is lost.
* IMAP: a verdict about a message must not tear the session down
  (`lagoon-mail/src/error.rs:182-186`), but a session that is not logged in yet is
  dropped by one; a move that times out is reported as a mail that is gone; a late command
  of a dropped connection may overtake those of the next one.
* Store: `PAGE_PREDICATE` compares a text `undoOf` with an integer id; the unused
  `actions_page` of `write.rs` has "AND AND" in its SQL; pins have no foreign
  key and outlive their mail.
* AI: one breaker stands for all providers; a triage whose row cannot be stored
  skips the ledger although the call was paid for.
* Start: two text accounts that collide make lagoon-v6 fail on every start, a
  malformed draft lagoon-v9; a backend can serve before v11 and v12 are applied;
  `--migrate` does not ask whether the file looks like a Lagoon store; a
  half-written keys.json fails every later start; the restart budget is one for
  the life of a supervisor, where `ipc-contract.md:41` speaks of two consecutive
  failures; a signal between the spawn and the store of the pid leaves the child
  running until its next line of output; two downloads can pick the same
  "unique" path (`download.rs:215`).
* Client: when the newer of two overlapping removals fails first, the row comes
  back although the older one is on its way; the roll-back of a patch puts back a
  patch that has failed since (`mutations.ts:71`); a write begun in the briefing
  does not refresh the list the user is in when it ends; nothing refreshes a
  search; the "done" of the sync button can be the round of the loop.

## 4. Proofs

The theorems hold for every set of requests, calls, accounts and mailboxes, every
lease and every budget; they assume only the named ASSUMEs of the modules
(bounds are natural numbers, budgets map events to naturals, the sets of calls,
workers and handlers are finite, the stores a first launch may find hold what they
record, a mail server holds every mail in one folder or more) and, for the
theorems about `ImapSession` and two of those about `MailboxSync` (`NoMailIsSkipped`,
`DeletedRowsAreGone`), the premises given below, which the theorems name. Each proof module states its invariant, proves
it of the initial states and of every step, one step per action, and derives the
theorems.

* `SendClaim_proofs` (`TypeCorrect`, `CopiesNeedClaims`, `SentIsTaken`,
  `ResultsStay`). The
  invariant is `TypeOK /\ Links /\ ClaimsCover /\ TakenInv`. "Copies never exceed
  claims" is not inductive: a claim whose job has not delivered yet must be
  counted, so `ClaimsCover` says that the copies of an id together with the jobs
  that may still deliver one are covered by its claims, and `Links` ties calls,
  jobs and rows so that a job delivers once. "A result stays" is no invariant
  at all but a property of steps: it needs `Recorders`, that a handler waiting for
  SMTP records for a claim which is fresh and its own, because the minutes that
  make a claim stale also drop the handler that nobody reads.
  The same module proves `SendImplementsOutbox`, the refinement, step by step: a
  copy leaves on a claim no copy was taken for (`ClaimsCover`, and the session
  that takes it is open), a result is recorded on a row that is still pending
  (`FreshClaims`), and "sent" after a copy left (`TakenByJob`).
* `UndoLog_proofs` (`UndoTypeCorrect`, `OneClaimPerAction`, `UndoneAtMostOnce`,
  `UndoneWasInverted`, `ShownRowsAreInTheInbox`, `UndoRestoresTheMessage`).
  "One undo row per action" needs that a snapshot which can still be upgraded
  shows no undo of its action (`FreshClaims`); "answered once" needs that a
  request past its claim owns the undo row of an action nobody has answered for
  (`Holders`). The last three are about lives without cut requests (`CalmInv`) and, for
  the last two, with one request at a time and no move astray (`AloneInv`): there the
  message lies in one folder and nothing is under way on the server (`Lies`), every
  request in flight knows
  where the message is and what its row says (`Told`), and every audit row says
  truly what its action replaced (`Faithful`), which is all the inverse has to go
  by, however many actions lie between it and its undo.
* `Accounts_proofs` (`AccountsTypeCorrect`, `NeverTwoActive`,
  `NeverTwoOfOneMailbox`, `NeverTwoLoops`). The repair of `reconcile_active`
  writes without looking again, so the invariant says that a snapshot which can
  still be upgraded saw no selected account and that there still is none
  (`FreshRepairs`); "one loop" needs that requests past their probe, and tasks,
  name an account.

* `AiGateway_proofs` (`AiInvariant`, `EveryCallAccounted`, `OverrunBounded`).
  That nothing the provider charges for is forgotten, but for what a fault lost and for
  the answers that could not be read, counts what callers owe as sets of requests and
  of mails of a round (`Owed`); it is inductive once a round that waits or
  writes has something to wait for or write (`Slots`). The bound on the ledger is
  not inductive: what passed the gate and is not in the ledger yet has to be
  counted with it (`Promised`), one call per request and no more than a batch per
  round, because the gate looks at the ledger alone.
* `Shell_proofs` (`ShellInvariant`, `ShellTyped`, `ServedStoresAreRecorded`,
  `OneBackendAtATime`). A backend serves a complete store because the schema
  probe stands between migrating and binding (`Complete`); a migration and its
  record are one step whoever runs it (`HoldsWhatItRecords`, also assumed of the
  stores there may be at the first launch). "One backend" needs where the
  supervisor of the first launch is for every backend that can be alive
  (`OneChild`), among them the one it is about to end.
* `ListClient_proofs` (`ListInvariant`, `HiddenRowsAreAccountedFor`,
  `ScreenAnswersItsView`, `ListsFollowWrites`). A hidden row belongs to a write by
  its token, so what only draws a patch must have none (`WritesKept`). That the
  screen answers its question is a fact about requests on their way: the last one
  of a source asks what the source asks now (`ReadsKept`). That a list is no
  older than the writes confirmed in this visit needs the same of the lists still
  on their way (`VisitKept`).
* `MailboxSync_proofs` (`MailboxTyped`, `NoMailIsSkipped`, `MovesLoseNoMail`,
  `DeletedRowsAreGone`). That types stay needs
  that no two mails of a folder share a UID and none is past its UIDNEXT
  (`Numbered`), for the server that renumbers. "No mail is skipped" needs `Calm`,
  about the time until the INBOX is rebuilt, when UIDs are handed out once: an
  identity a round did not see in the INBOX is not there, or its mail came back
  with a UID above the cursor of the round, so that a row the round drops is of
  mail the next one fetches (`RoundsKept`); a row of the trash, and a purge under
  way, stand for no mail of the INBOX (`RowsKept`, `ActsKept`). The theorem is for
  one round at a time beside any requests and any other client, with `UID MOVE`, a
  first pull wide enough for the mailbox (`Backfill`) and without emptyTrash. None
  of these can be dropped: two rounds can commit their cursors in the wrong order,
  a copy without expunge leaves two copies of which a purge takes one and the row
  with it, and emptyTrash drops the rows of mail another client has taken back out
  of the trash.

  `MovesLoseNoMail` has no premise: it is for servers with and without `UID MOVE`, any
  number of requests, the jobs of dropped handlers and the commands on the wire. It
  needs a copy that nothing under way is about to remove (`Spared`), and that what a
  request or its job still expunges are UIDs that were given out when it copied
  (`DoomsIssued`): whoever expunges later, and however late, never hits the copy a move
  made, because that one has a newer UID. A deletion that takes the spared copy puts the
  mail into `discarded`, where only the next move takes it out again.
  `DeletedRowsAreGone` is about a round that judges by three pictures
  taken one after the other. `RoundsTold` says what each picture is still good for
  later: mail missed in the folders walked so far has left them and does not return.
  That holds as long as mail only moves on (`MailMovesOn`): from the INBOX to the
  archive, to the trash, away, whoever moves it; so no unarchive and no restore, and
  mail has Message-IDs (`RowsTold`). `mailbox_license` shows a mail that moves back
  past the walk and loses its row.
* `ImapSession_proofs` (`ImapTyped`, `NoMailIsLost`, `DoneHolds`,
  `OnlyItsMailLeaves`, `ShowsItsMail`). The invariant is
  `TypeOK /\ Connected /\ Aware /\ Safe`. What a call believes rests on answers, so
  `Connected` says whose they are: tags are minted in order (`Tagged`), of the
  commands that move or remove mail only the one waited for is on its way
  (`OneByOne`), and when the provider takes a folder for selected nothing is left of
  the commands before (`Drained`); `Shaped` says in which order the commands of a
  call can still come. `Aware` says that what was heard is so: the lines of a search
  name the mail or a UID it has left (`Truthful`), the folder that is open is the one
  asked for (`Selected`), and what a move or a permanent deletion is about to act on
  is its mail (`Aimed`).
  "No mail is lost" is not inductive, because a copied mail is expunged in a later
  step, perhaps by a command of a dropped connection: `Spared` says that there is a
  copy nothing under way is about to remove (`Doomed`), and a call that has placed
  its mail has put it elsewhere than what it removes (`PlacedWhenDone`). That nothing
  else leaves a folder follows from the same invariant together with `LateAimed`: the
  commands of dropped connections, too, name UIDs of the mail they were sent for
  (`TakesItsMail`), and UIDs are not given out twice. That the bytes shown are the
  mail's adds `Shown`, about the way from the search to the body: the search comes
  after the SELECT and the body after the search (`Reading`), by then no answer to an
  earlier command is left and the UIDs are the mail's (`Sought`), and every line heard
  meanwhile speaks of the folder that is open (`Bears`). The
  theorems are for `LocalIds = {}`: a call that goes by a UID the store remembers may
  find another mail under it (`imap_local`), and then neither the search nor the
  success of the move speaks of the mail that was meant.

Only model-checked: the two invariants of `StoreReads` (`SearchIsComplete`,
`PagesAreComplete`), `NoSkippedMail` and `DeletesOnlyGoneMail` outside the premises
above, and all liveness
(`LiveListConverges`, `InboxShown`, `RetrySettles`, `HealthyIsSynced`, `CallsEnd`,
`StartsSettle`). Fairness and ENABLED are out of this prover's reach, as are
induction over data and RECURSIVE operators, which is why the modules use none.
What `StoreReads` promises rests on sorted readings of whole tables, that is, on
what the sort of the library does for every finite set.

## 5. Not modelled, and the plan

Next, in order of weight:

1. Proofs: `StoreReads`, and `DeletesOnlyGoneMail` for mail without a Message-ID and
   for two rounds at once.
2. Abstract specifications: a mailbox whose list follows the server, implemented
   by `MailboxSync`; an undo that happens or does not, implemented by `UndoLog`.
3. `MailboxSync` composed with `ImapSession`, which now stands beside it.
4. Within the present modules: mark-read, the bulk loops of the routes, the
   failure counter and back-off of a loop, the archive-folder key of the sync
   state, the sync button, "load more" and the reader of the client.
5. Pure algorithms against reference definitions: the retry decision of
   `failure_for_code`, capability parsing, header folding, the time format.

Left out for good: MIME parsing, HTML sanitising and character sets, IMAP and
SMTP grammar, cryptography, configuration and logging, the JSON shapes and the
rendering of the client. They have no state of their own and are functions over
text.
