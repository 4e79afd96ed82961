----------------------------- MODULE StoreReads -----------------------------
(***************************************************************************)
(* What the read routes answer while the store changes under them.         *)
(*                                                                         *)
(* A read route runs a closure on one of the read-only connections of the  *)
(* pool (Db::read).  The closure runs several SELECTs and opens no          *)
(* transaction: each SELECT sees the store as the last commit left it, and  *)
(* the sync loops, the write routes and the AI steps commit in between.    *)
(* This module runs one request at a time (requests only read, so two of   *)
(* them never meet), one statement per step, with a writer's commit        *)
(* possible between any two.                                               *)
(*                                                                         *)
(* The messages are numbered by received_at: a greater number is newer.    *)
(* What a message says never changes (Mails); its row does (rows).         *)
(***************************************************************************)
EXTENDS Integers, Sequences, FiniteSets, FiniteSetsExt, SequencesExt

CONSTANTS
  Mails,          \* what is fixed of each message, by the rank of its date
  Rules,          \* the stack rules: a sender or a keyword (no route writes them)
  Overrides,      \* the user's group for a message or a sender, newest first
  Reminded,       \* the messages with a reminder (no route writes them)
  Accepted,       \* the messages whose advice was accepted
  Drafts,         \* the drafts stored for a message, and whether each opens
  Notices,        \* the notices an older build left
  Filters,        \* the lists asked for
  FirstRows,      \* the states the message table may be found in
  FirstLogs,      \* the states the audit log may be found in
  Routes,         \* the routes asked
  ListLimit, BacklogLimit, ResultLimit, ScanLimit, ScanBatch, PageLimit,
  Times,          \* the values of created_at: the clock may step back
  MaxWrites       \* commits of the writers in one behaviour

Mail == DOMAIN Mails
Senders == {Mails[m].from : m \in Mail}

ASSUME LimitsAssumption ==
  /\ Mail \subseteq Nat /\ IsFiniteSet(Mail) /\ Times \subseteq Nat
  /\ \A n \in {ListLimit, BacklogLimit, ResultLimit, ScanLimit, ScanBatch, PageLimit} :
        n \in Nat \ {0}
  /\ MaxWrites \in Nat

VARIABLES
  account,   \* the account's row is in the store
  rows,      \* message_headers, with the advice and the body of each message
  pins,      \* message_pins: no foreign key ties a pin to a row
  log,       \* ai_actions
  nextId,    \* its AUTOINCREMENT
  ledger,    \* usage_log: the calls of the month
  writes,    \* commits made
  ask,       \* the request: its route and parameters
  todo,      \* its statements not run yet
  got,       \* what the statements run so far returned
  scan,      \* pass B of a search: its hits, the rows scanned
  walk,      \* the pages of the audit log a client has read
  always,    \* ghost: the messages that matched the search in every state so far
  left,      \* ghost: a row left one of the search's two passes
  steady     \* ghost: the actions visible in every state of the walk so far

store == <<account, rows, pins, log, nextId, ledger, writes>>
ghosts == <<always, left, steady>>
vars == <<store, ask, todo, got, scan, walk, ghosts>>

-----------------------------------------------------------------------------
(* The lists.                                                              *)

Inbox == [pinned |-> FALSE, deleted |-> FALSE, sent |-> FALSE, archived |-> FALSE,
          unread |-> FALSE, since |-> FALSE, rule |-> {}]

Satisfies(m, rule) == IF rule.kind = "sender" THEN Mails[m].from = rule.value
                                              ELSE Mails[m].subject = rule.value

Where(f) ==
  {m \in DOMAIN rows :
     /\ IF f.pinned THEN m \in pins /\ ~Mails[m].sent
        ELSE /\ rows[m].deleted = f.deleted
             /\ \/ f.sent /\ Mails[m].sent
                \/ ~f.sent /\ f.deleted
                \/ ~f.sent /\ ~f.deleted /\ rows[m].archived = f.archived /\ ~Mails[m].sent
     /\ f.unread => ~rows[m].read
     /\ f.since => Mails[m].recent
     /\ \A rule \in f.rule : Satisfies(m, rule)}

Count(f) == Cardinality(Where(f))

\* ORDER BY received_at DESC LIMIT n, and the same oldest first
Newest(S, n) == SubSeq(SetToSortSeq(S, LAMBDA a, b : a > b), 1, Min({n, Cardinality(S)}))
Oldest(S, n) == SubSeq(SetToSortSeq(S, LAMBDA a, b : a < b), 1, Min({n, Cardinality(S)}))

\* a header as it was when its statement ran
Shown(s) == [i \in DOMAIN s |-> [mail |-> s[i], read |-> rows[s[i]].read]]

ListFilters ==
  {[Inbox EXCEPT !.pinned = p, !.deleted = d, !.archived = a, !.unread = u, !.rule = r] :
     p, d, a, u \in BOOLEAN, r \in {{}} \cup {{rule} : rule \in Rules}}

\* the backlog of the briefing: unread mail older than its window
Backlog == {m \in Where([Inbox EXCEPT !.unread = TRUE]) : ~Mails[m].recent}
Window == Where([Inbox EXCEPT !.since = TRUE])

Ranking ==
  {[address |-> s, total |-> Cardinality(S), unread |-> Cardinality({m \in S : ~rows[m].read})] :
     <<s, S>> \in {<<s, {m \in DOMAIN rows : /\ Mails[m].from = s /\ ~Mails[m].sent
                                               /\ ~rows[m].deleted}>> : s \in Senders}}

\* the advice table, newest first, and the accepted ones by category
Advised == {m \in DOMAIN rows : rows[m].advised}
AcceptedStats == {<<c, Cardinality({m \in Accepted \cap DOMAIN rows : Mails[m].subject = c})>> :
                    c \in {Mails[m].subject : m \in Accepted \cap DOMAIN rows}}

PendingReminders == {m \in Reminded \cap DOMAIN rows : ~rows[m].deleted}

\* one draft that does not open refuses the whole list
DraftList == LET all == {d \in Drafts : d.mail = ask.mail}
             IN IF \A d \in all : d.opens THEN all ELSE {"draft-unreadable"}

StackCounts == {<<rule, Count([Inbox EXCEPT !.rule = {rule}])>> : rule \in Rules}
ExportTallies == <<Cardinality({m \in DOMAIN rows : rows[m].deleted}),
                   Cardinality({m \in DOMAIN rows : Mails[m].sent})>>
Newsletters == {m \in DOMAIN rows : Mails[m].newsletter}

\* the UID is good for the inbox only: a row filed away has none to offer
Hint(m) == m \in DOMAIN rows /\ ~rows[m].archived /\ ~rows[m].deleted

-----------------------------------------------------------------------------
(* The audit log.                                                          *)

Undone(a) == \E u \in log : u.kind = "undo" /\ u.of = a.id
Finished(a) == a.kind = "send" => a.status \in {"none", "sent"}

VisibleActions == {a \in log : ~Undone(a) /\ a.kind # "harvest" /\ Finished(a)}

\* a Sent-folder harvest is no action of Lagoon's, and is a reply all the same
Replied == {a.of : a \in {b \in log : b.kind \in {"send", "harvest"} /\ b.of # 0 /\ Finished(b)}}

Handled == {a \in VisibleActions : a.kind \in {"archive", "send"}}

Before(a, b) == a.at < b.at \/ (a.at = b.at /\ a.id < b.id)

\* Mutant: the cursor is the second of the last action, without its id.
PageOfOlder(cursor) ==
  SetToSortSeq({a \in VisibleActions : \A c \in cursor : a.at < c.at}, LAMBDA a, b : Before(b, a))

Page(cursor) ==
  SetToSortSeq({a \in VisibleActions : \A c \in cursor : Before(a, c)}, LAMBDA a, b : Before(b, a))

-----------------------------------------------------------------------------
(* The search: pass A asks the columns in SQL, pass B opens sealed text.   *)

Cheap == {m \in DOMAIN rows : ~rows[m].deleted /\ (Mails[m].subject = "word" \/ rows[m].advised)}

Sealed == {m \in DOMAIN rows \ Cheap :
             ~rows[m].deleted /\ (Mails[m].preview # "none" \/ rows[m].cached)}

MatchesSealed(m) == Mails[m].preview = "word" \/ (rows[m].cached /\ Mails[m].text = "word")

Matching == Cheap \cup {m \in Sealed : MatchesSealed(m)}

BatchSize == Min({ScanBatch, ScanLimit - scan.scanned})

\* LIMIT BatchSize OFFSET scanned, over the rows as they are now
Batch == LET down == Newest(Sealed, Cardinality(Sealed))
         IN SubSeq(down, scan.scanned + 1, Min({scan.scanned + BatchSize, Len(down)}))

Merged == ToSet(scan.cheap) \cup ToSet(scan.hits)
Top == ToSet(Newest(Merged, ResultLimit))

\* the counts of the two passes are added: a row hit twice counts twice
TotalCount == Max({got.cheapCount + Len(scan.hits), Cardinality(Merged)})
Truncated == TotalCount > Cardinality(got.headers)

-----------------------------------------------------------------------------
(* The briefing's groups.                                                  *)

Signals(m, read) ==
  <<<<m \in got.pins, "pinned">>,
    <<m \in got.newsletters \/ Mails[m].from = "list", "subscriptionNoise">>,
    <<Mails[m].from = "self", "awaitingReply">>,
    <<m \in got.replied, "safeToArchive">>,
    <<read /\ Mails[m].old, "safeToArchive">>,
    <<TRUE, "needsReply">>>>

Classify(m, read) == SelectSeq(Signals(m, read), LAMBDA s : s[1])[1][2]

\* a pin, then the newest override of the message, then of its sender
Resolve(m, read) ==
  LET of(scope, key) == SelectSeq(Overrides, LAMBDA o : o.scope = scope /\ o.key = key)
      said == of("message", m) \o of("sender", Mails[m].from)
  IN IF m \in got.pins \/ said = <<>> THEN Classify(m, read) ELSE said[1].group

Feed == {[mail |-> row.mail, group |-> Resolve(row.mail, row.read)] :
           row \in ToSet(got.feed) \cup ToSet(got.backlog)}
Omitted == Max({0, got.windowTotal - Len(got.feed)})

-----------------------------------------------------------------------------
(* The statements.  A route is the sequence of SELECTs it runs.            *)

MessagesRoute  == <<"list", "unreadCount", "total">>
CountsRoute    == <<"exists", "live", "unreadCount", "archived", "pinned", "deleted", "sent">>
SentRoute      == <<"exists", "list", "total">>
BriefingRoute  == <<"exists", "feed", "windowTotal", "backlog", "backlogTotal",
                    "pins", "newsletters", "replied">>
ExportRoute    == <<"exists", "index", "tallies">>
SendersRoute   == <<"exists", "ranking">>
StacksRoute    == <<"stacks">>
RemindersRoute == <<"exists", "reminders">>
AdviceRoute    == <<"exists", "advice">>
AcceptedRoute  == <<"exists", "accepted">>
DraftsRoute    == <<"drafts">>
DirectoryRoute == <<"exists", "unreadCount">>
SavedRoute     == <<"events">>
UsageRoute     == <<"month", "shares">>
NoticesRoute   == <<"notices">>
RawRoute       == <<"exists">>    \* and then a 503: no provider serves it
SearchRoute    == <<"window", "cheapCount", "batch", "skipped", "headers">>
BodyRoute      == <<"exists", "cached", "hint", "fetch", "persist", "header">>
AttachmentRoute == <<"exists", "hint", "fetch">>
ImagesRoute    == <<"exists", "hint", "fetch">>
ActionsRoute   == <<"cursor", "page", "actionCount">>

Statements ==
  [messages |-> MessagesRoute, counts |-> CountsRoute, sent |-> SentRoute,
   briefing |-> BriefingRoute, export |-> ExportRoute, senders |-> SendersRoute,
   stacks |-> StacksRoute, reminders |-> RemindersRoute, advice |-> AdviceRoute,
   accepted |-> AcceptedRoute, drafts |-> DraftsRoute, directory |-> DirectoryRoute,
   saved |-> SavedRoute, usage |-> UsageRoute, notices |-> NoticesRoute, raw |-> RawRoute,
   search |-> SearchRoute, body |-> BodyRoute, attachment |-> AttachmentRoute,
   images |-> ImagesRoute, actions |-> ActionsRoute]

Said ==
  [list |-> Shown(Newest(Where(ask.filter), ListLimit)),
   total |-> Count(ask.filter),
   live |-> Count(Inbox),
   unreadCount |-> Count([Inbox EXCEPT !.unread = TRUE]),
   archived |-> Count([Inbox EXCEPT !.archived = TRUE]),
   pinned |-> Count([Inbox EXCEPT !.pinned = TRUE]),
   deleted |-> Count([Inbox EXCEPT !.deleted = TRUE]),
   sent |-> Count([Inbox EXCEPT !.sent = TRUE]),
   feed |-> Shown(Newest(Window, ListLimit)),
   windowTotal |-> Cardinality(Window),
   backlog |-> Shown(Oldest(Backlog, BacklogLimit)),
   backlogTotal |-> Cardinality(Backlog),
   pins |-> pins,
   newsletters |-> Newsletters,
   replied |-> Replied,
   index |-> Oldest(DOMAIN rows, Cardinality(DOMAIN rows)),
   tallies |-> ExportTallies,
   ranking |-> Ranking,
   stacks |-> StackCounts,
   reminders |-> PendingReminders,
   advice |-> Advised,
   accepted |-> AcceptedStats,
   drafts |-> DraftList,
   month |-> ledger,
   shares |-> ledger,
   notices |-> Notices,
   events |-> Handled,
   cheapCount |-> Cardinality(Cheap),
   skipped |-> IF scan.ended THEN 0 ELSE Max({0, Cardinality(Sealed) - scan.scanned}),
   hint |-> Hint(ask.mail),
   header |-> ask.mail \in DOMAIN rows,
   headers |-> Top \cap DOMAIN rows,
   actionCount |-> Cardinality(VisibleActions)]

-----------------------------------------------------------------------------
(* The requests.                                                           *)

Idle == [route |-> "none", filter |-> Inbox, mail |-> 0, before |-> {}]
NoScan == [cheap |-> <<>>, hits |-> <<>>, scanned |-> 0, ended |-> FALSE]
NoWalk == [pages |-> <<>>, open |-> FALSE, ended |-> FALSE]

Init ==
  /\ account = TRUE /\ rows \in FirstRows /\ pins = {}
  /\ log \in FirstLogs /\ nextId = 1 + Max({0} \cup {a.id : a \in log})
  /\ writes = 0 /\ ledger = 0
  /\ ask = Idle /\ todo = <<>> /\ got = <<>> /\ scan = NoScan /\ walk = NoWalk
  /\ always = {} /\ left = FALSE /\ steady = {}

Asked(route) ==
  /\ ask.route = "none" /\ route \in Routes
  /\ writes = 0 \/ walk.open    \* a request after commits is a first one of other FirstRows
  /\ todo' = Statements[route] /\ got' = <<>> /\ scan' = NoScan
  /\ UNCHANGED store

AskList ==
  \E route \in {"messages", "sent"}, f \in Filters :
    /\ Asked(route) /\ walk = NoWalk
    /\ ask' = [Idle EXCEPT !.route = route,
                            !.filter = IF route = "sent" THEN [Inbox EXCEPT !.sent = TRUE] ELSE f]
    /\ UNCHANGED <<walk, ghosts>>

AskWhole ==
  \E route \in {"counts", "briefing", "export", "senders", "stacks", "reminders", "advice",
                 "accepted", "directory", "saved", "usage", "notices", "raw"} :
    /\ Asked(route) /\ walk = NoWalk
    /\ ask' = [Idle EXCEPT !.route = route]
    /\ UNCHANGED <<walk, ghosts>>

AskSearch ==
  /\ Asked("search") /\ walk = NoWalk
  /\ ask' = [Idle EXCEPT !.route = "search"]
  /\ always' = Matching /\ left' = FALSE
  /\ UNCHANGED <<walk, steady>>

AskMail ==
  \E route \in {"body", "attachment", "images", "drafts"}, m \in Mail :
    /\ Asked(route) /\ walk = NoWalk
    /\ ask' = [Idle EXCEPT !.route = route, !.mail = m]
    /\ UNCHANGED <<walk, ghosts>>

\* the client reads the log page by page: `before` is the last action it has
AskPage ==
  /\ Asked("actions") /\ ~walk.ended
  /\ IF walk.open THEN UNCHANGED <<walk, ghosts>>
     ELSE /\ walk' = [NoWalk EXCEPT !.open = TRUE]
          /\ steady' = {a.id : a \in VisibleActions} /\ UNCHANGED <<always, left>>
  /\ ask' = [Idle EXCEPT !.route = "actions",
                          !.before = IF walk.open THEN {Last(walk.pages).id} ELSE {}]
  /\ todo' = Statements.actions

-----------------------------------------------------------------------------
(* The statements of a closure, one commit's view each.                    *)

Running(s) == todo # <<>> /\ Head(todo) = s
Advance == todo' = Tail(todo)
Learn(s, value) == got' = [n \in DOMAIN got \cup {s} |-> IF n = s THEN value ELSE got[n]]

\* an unknown account is a 404 before anything is read
Exists ==
  /\ Running("exists")
  /\ todo' = IF account THEN Tail(todo) ELSE <<>>
  /\ Learn("exists", account)
  /\ UNCHANGED <<store, ask, scan, walk, ghosts>>

Statement ==
  /\ todo # <<>> /\ Head(todo) \in DOMAIN Said
  /\ Learn(Head(todo), Said[Head(todo)]) /\ Advance
  /\ UNCHANGED <<store, ask, scan, walk, ghosts>>

\* pass A fetches the newest hits of the cheap columns, and no more
PassA ==
  /\ Running("window")
  /\ scan' = [scan EXCEPT !.cheap = Newest(Cheap, ResultLimit)] /\ Advance
  /\ UNCHANGED <<store, ask, got, walk, ghosts>>

\* Mutant: a full batch is taken for the last one.
StopsAtFirst ==
  /\ Running("batch")
  /\ scan' = [scan EXCEPT !.hits = @ \o SelectSeq(Batch, MatchesSealed),
                         !.scanned = @ + Len(Batch), !.ended = Len(Batch) <= BatchSize]
  /\ Advance
  /\ UNCHANGED <<store, ask, got, walk, ghosts>>

\* one batch of pass B; a short batch is the end of the table
PassB ==
  /\ Running("batch")
  /\ LET scanned == scan.scanned + Len(Batch)
         ended == Len(Batch) < BatchSize
     IN /\ scan' = [scan EXCEPT !.hits = @ \o SelectSeq(Batch, MatchesSealed),
                                !.scanned = scanned, !.ended = ended]
        /\ IF ended \/ scanned >= ScanLimit THEN Advance ELSE UNCHANGED todo
  /\ UNCHANGED <<store, ask, got, walk, ghosts>>

\* a cached body is the answer; a miss goes to the mailbox
Cached ==
  /\ Running("cached")
  /\ LET hit == ask.mail \in DOMAIN rows /\ rows[ask.mail].cached
     IN Learn("body", hit) /\ todo' = IF hit THEN <<>> ELSE Tail(todo)
  /\ UNCHANGED <<store, ask, scan, walk, ghosts>>

\* no provider, gone, unreachable, too large: the answer is the error
Fetch ==
  /\ Running("fetch")
  /\ \E arrives \in BOOLEAN :
       /\ Learn("body", arrives)
       /\ todo' = IF arrives THEN Tail(todo) ELSE <<>>
  /\ UNCHANGED <<store, ask, scan, walk, ghosts>>

\* a search was running: what it could find, and what left its passes
Observed ==
  /\ always' = always \cap Matching'
  /\ left' = (left \/ ~(Cheap \subseteq Cheap') \/ ~(Sealed \subseteq Sealed'))
  /\ steady' = {a.id : a \in VisibleActions'} \cap steady

\* write-through, best effort: a body without a row is not cacheable
Persist ==
  /\ Running("persist")
  /\ rows' = [m \in DOMAIN rows |-> IF m = ask.mail THEN [rows[m] EXCEPT !.cached = TRUE]
                                                    ELSE rows[m]]
  /\ UNCHANGED <<account, pins, log, nextId, ledger, ask, got, scan, walk>>
  /\ writes' = writes + 1
  /\ Advance /\ Observed

\* `before` names a row of the log, shown or not; a row taken back since is a 400
Cursor ==
  /\ Running("cursor")
  /\ LET found == {a \in log : a.id \in ask.before}
     IN IF ask.before # {} /\ found = {} THEN todo' = <<>> /\ UNCHANGED got
        ELSE Advance /\ Learn("cursor", found)
  /\ UNCHANGED <<store, ask, scan, walk, ghosts>>

ReadPage ==
  /\ Running("page")
  /\ LET found == Page(got.cursor)
     IN Learn("page", [actions |-> SubSeq(found, 1, Min({PageLimit, Len(found)})),
                       more |-> Len(found) > PageLimit])
  /\ Advance
  /\ UNCHANGED <<store, ask, scan, walk, ghosts>>

\* the response; the client of the log keeps its pages and asks for the next
Answer ==
  /\ ask.route # "none" /\ todo = <<>>
  /\ walk' = IF ask.route # "actions" THEN walk
             ELSE IF "page" \notin DOMAIN got THEN NoWalk
             ELSE [pages |-> walk.pages \o got.page.actions,
                   open |-> got.page.more, ended |-> ~got.page.more]
  /\ ask' = Idle /\ todo' = <<>> /\ got' = <<>> /\ scan' = NoScan
  /\ always' = {} /\ left' = FALSE
  /\ UNCHANGED <<store, steady>>

-----------------------------------------------------------------------------
(* The writers.  A commit no open request can see belongs to FirstRows.    *)

Commits == /\ writes < MaxWrites /\ writes' = writes + 1 /\ Observed
           /\ UNCHANGED <<ask, todo, got, scan, walk>>

Bill == /\ ask.route = "usage" /\ ledger' = ledger + 1
        /\ UNCHANGED <<account, rows, pins, log, nextId>> /\ Commits

OnRows == UNCHANGED ledger /\ Commits /\ todo # <<>> /\ ask.route # "actions"
OnLog == UNCHANGED ledger /\ Commits /\ (walk.open \/ ask.route \in {"saved", "briefing"})

New == [archived |-> FALSE, deleted |-> FALSE, read |-> FALSE, advised |-> FALSE, cached |-> FALSE]

Arrive ==
  \E m \in Mail \ DOMAIN rows :
    /\ account
    /\ rows' = [n \in DOMAIN rows \cup {m} |-> IF n = m THEN New ELSE rows[n]]
    /\ UNCHANGED <<account, pins, log, nextId>> /\ OnRows

\* a purge, or the sync finding the mail gone: the row takes its body and advice along
Leave ==
  \E m \in DOMAIN rows :
    /\ rows' = [n \in DOMAIN rows \ {m} |-> rows[n]]
    /\ UNCHANGED <<account, pins, log, nextId>> /\ OnRows

\* filing, trashing, reading, and an advice replaced by one of another category
Flag ==
  \E m \in DOMAIN rows, field \in {"archived", "deleted", "read", "advised"} :
    /\ rows' = [rows EXCEPT ![m][field] = ~@]
    /\ UNCHANGED <<account, pins, log, nextId>> /\ OnRows

Pin ==
  \E m \in Mail :
    /\ pins' = IF m \in pins THEN pins \ {m} ELSE pins \cup {m}
    /\ account /\ UNCHANGED <<account, rows, log, nextId>> /\ OnRows

Forget ==
  /\ account /\ account' = FALSE /\ rows' = <<>> /\ pins' = {} /\ log' = {}
  /\ UNCHANGED <<nextId, ledger>> /\ (todo # <<>> \/ walk.open) /\ Commits

Record ==
  \E kind \in {"archive", "send", "harvest"}, at \in Times :
    /\ account
    /\ log' = log \cup {[id |-> nextId, at |-> at, kind |-> kind, of |-> 0,
                         status |-> IF kind = "send" THEN "pending" ELSE "none"]}
    /\ nextId' = nextId + 1
    /\ UNCHANGED <<account, rows, pins>> /\ OnLog

Settle ==
  \E a \in log, status \in {"sent", "failed"} :
    /\ a.kind = "send" /\ a.status = "pending"
    /\ log' = (log \ {a}) \cup {[a EXCEPT !.status = status]}
    /\ UNCHANGED <<account, rows, pins, nextId>> /\ OnLog

Undo ==
  \E a \in VisibleActions, at \in Times :
    /\ a.kind = "archive"
    /\ log' = log \cup {[id |-> nextId, at |-> at, kind |-> "undo", of |-> a.id, status |-> "none"]}
    /\ nextId' = nextId + 1
    /\ UNCHANGED <<account, rows, pins>> /\ OnLog

\* the inverse failed: the undo's row is deleted, the action is back in the history
Release ==
  \E u \in log :
    /\ u.kind = "undo" /\ log' = log \ {u}
    /\ UNCHANGED <<account, rows, pins, nextId>> /\ OnLog

Read == \/ AskList \/ AskWhole \/ AskSearch \/ AskMail \/ AskPage
        \/ Exists \/ Statement \/ PassA \/ PassB \/ Cached \/ Fetch \/ Persist
        \/ Cursor \/ ReadPage \/ Answer
Write == \/ Arrive \/ Leave \/ Flag \/ Pin \/ Forget
         \/ Record \/ Settle \/ Undo \/ Release \/ Bill

Next == Read \/ Write
Spec == Init /\ [][Next]_vars

-----------------------------------------------------------------------------
(* Properties.                                                             *)

TypeOK ==
  /\ account \in BOOLEAN /\ ledger \in 0..MaxWrites /\ pins \subseteq Mail /\ DOMAIN rows \subseteq Mail
  /\ \A m \in DOMAIN rows : DOMAIN rows[m] = DOMAIN New /\ \A f \in DOMAIN New : rows[m][f] \in BOOLEAN
  /\ \A a \in log : a.id \in 1..(nextId - 1) /\ a.at \in Times /\ a.of < a.id
  /\ \A a, b \in log : a.id = b.id => a = b
  /\ ~account => rows = <<>> /\ log = {}
  /\ ask.route \in Routes \cup {"none"} /\ ask.mail \in Mail \cup {0}
  /\ scan.scanned \in 0..ScanLimit /\ Len(scan.hits) <= scan.scanned

Found == ask.route = "search" /\ "headers" \in DOMAIN got

(* A search that reports nothing cut and nothing skipped has every message   *)
(* that matched from its first statement to its last, although rows arrive   *)
(* and mail is filed and read while it runs; and with no commit in between   *)
(* its rows are the newest matches and its total is exact (search.rs: "the   *)
(* merged top-N cannot need a cheap hit older than the newest N").  A row     *)
(* that leaves a pass while the search runs is another matter: SearchMisses. *)
SearchIsComplete ==
  Found =>
    /\ ~left /\ ~Truncated /\ got.skipped = 0 => always \subseteq got.headers
    /\ writes = 0 /\ got.skipped = 0 =>
          /\ got.headers = ToSet(Newest(Matching, ResultLimit))
          /\ TotalCount = Cardinality(Matching)

(* The pages of the audit log a client reads one after the other hold no     *)
(* action twice, go strictly back in time, and have every action that was    *)
(* in the history from the first page to the last, although actions are      *)
(* recorded (with a clock that may step back), settled, undone and restored  *)
(* between the pages and inside them (store/actions.rs page, cursor).        *)
PagesAreComplete ==
  /\ \A i, j \in DOMAIN walk.pages : i < j => Before(walk.pages[j], walk.pages[i])
  /\ walk.ended => steady \subseteq {a.id : a \in ToSet(walk.pages)}

(* Not kept: the same with rows leaving.  OFFSET counts the rows that are    *)
(* left, so a row trashed between two batches makes the next batch skip one. *)
SearchMisses ==
  Found /\ ~Truncated /\ got.skipped = 0 => always \subseteq got.headers

(* Not kept: search.rs says the two passes are disjoint by construction.  An *)
(* advice replaced between them puts one row in both, and the total counts   *)
(* it twice.                                                                 *)
PassesAreDisjoint == ToSet(scan.cheap) \cap ToSet(scan.hits) = {}

(* Not kept: a list answer's total covers the rows it came with.             *)
TotalCoversRows ==
  {"list", "total"} \subseteq DOMAIN got => got.total >= Len(got.list)
=============================================================================
