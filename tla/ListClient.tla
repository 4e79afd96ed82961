----------------------------- MODULE ListClient -----------------------------
(***************************************************************************)
(* The list window of the web client: the lists it asks for, the optimistic *)
(* overlay it draws over them, and the writes it sends.                    *)
(*                                                                         *)
(* A list is fetched by useApiOutcome, which numbers the requests of a     *)
(* source and commits the answer of the last one only.  A write first hides *)
(* or patches its rows, then calls the backend, and rolls its own change   *)
(* back if the call fails.  An answer may come after the user has left the *)
(* list the write began in, and a call may succeed without an answer.      *)
(***************************************************************************)
EXTENDS Integers, FiniteSets

CONSTANTS
    Mails,
    Writers,        \* calls the client may have in flight
    Views,          \* the lists in use: "briefing" and lenses
    Terms,          \* what may be typed in the search box
    Verbs,          \* the verbs in use
    Budgets         \* bounds on how often each kind of event in Events happens

Nothing == "nothing"
Places  == {"inbox", "archived", "trash", "gone"}
Sources == {"messages", "briefing", "search"}
Hiding  == {"archive", "unarchive", "delete", "restore", "purge"}
Patching == {"pin", "unpin"}
Events  == {"nav", "type", "poll", "write", "undo", "fail", "lost", "other"}

ASSUME ListAssumption ==
    /\ Nothing \notin Terms
    /\ Views \subseteq {"briefing", "inbox", "archived", "trash"} /\ "inbox" \in Views
    /\ Terms \cap Views = {}
    /\ Verbs \subseteq Hiding \cup Patching
    /\ Budgets \subseteq [Events -> Nat]

VARIABLES
    mail,       \* the store: where a mail is listed, and whether it is pinned
    now,        \* how often the store has changed
    view, term, \* the route, and the query the search runs
    gen,        \* gen[s]: the number of the last request of source s
    reads,      \* requests for a list and their answers, on the way
    shown,      \* shown[s]: the outcome source s holds
    removed,    \* removed[m]: the token of the write that hid m, 0 for none
    patched,    \* patched[m]: the verb that patched m, or Nothing
    token,      \* the last token given out
    marked,     \* the rows selected, opened or under the cursor
    busy,       \* the verbs are disabled
    write,      \* write[w]: a call of the client
    toast,      \* the action the toast can undo
    owed,       \* the change of the newest write of this visit that was confirmed
    confirmed,  \* the hidings the backend has confirmed
    spent       \* how often each kind of event has happened

store   == <<mail, now>>
lists   == <<gen, reads, shown>>
overlay == <<removed, patched, token>>
past    == <<owed, confirmed>>
vars == <<store, view, term, lists, overlay, marked, busy, write, toast, past, spent>>

Spend(events) ==
    /\ spent' = [e \in Events |-> IF e \in events THEN spent[e] + 1 ELSE spent[e]]
    /\ \E budget \in Budgets : \A e \in Events : spent'[e] <= budget[e]

-----------------------------------------------------------------------------
(* Lists *)

\* Whether a source runs in view v with query q, and what it asks there.
Enabled(s, v, q) == CASE s = "messages" -> v # "briefing"
                      [] s = "briefing" -> v = "briefing"
                      [] s = "search"   -> v # "briefing" /\ q # Nothing
Question(s, v, q) == CASE s = "messages" -> IF v = "briefing" THEN "inbox" ELSE v
                       [] s = "briefing" -> "briefing"
                       [] s = "search"   -> q
Asked(s) == Question(s, view, term)

\* The rows an answer to a question has: a search covers all but the trash.
Listed(q) == {m \in Mails : CASE q \in {"inbox", "briefing"} -> mail[m].at = "inbox"
                              [] q \in {"archived", "trash"} -> mail[m].at = q
                              [] OTHER -> mail[m].at \in {"inbox", "archived"}}
PinnedIn(S) == {m \in S : mail[m].pinned}

Loading  == [phase |-> "loading", asks |-> Nothing, at |-> 0, rows |-> {}, pinned |-> {}]
Failed   == [Loading EXCEPT !.phase = "error"]
List(q)  == [phase |-> "ready", asks |-> q, at |-> now, rows |-> Listed(q), pinned |-> PinnedIn(Listed(q))]

\* The sources in S start a request each, for what they ask in view v with query q.
Run(S, v, q) ==
    /\ gen' = [s \in Sources |-> IF s \in S THEN gen[s] + 1 ELSE gen[s]]
    /\ reads' = reads \cup {[source |-> s, gen |-> gen[s] + 1, asks |-> Question(s, v, q),
                             answer |-> Loading] : s \in S}

Current(r) == r.gen = gen[r.source]
Pending(s) == \E r \in reads : r.source = s /\ Current(r)

\* The list on the screen, and its rows under the overlay.
Source == IF view = "briefing" THEN "briefing" ELSE IF term # Nothing THEN "search" ELSE "messages"
Rows   == {m \in shown[Source].rows : removed[m] = 0}
PinShown(m) == IF patched[m] = Nothing THEN m \in shown[Source].pinned ELSE patched[m] = "pin"

-----------------------------------------------------------------------------
(* Writes *)

From(verb) == CASE verb \in {"archive", "delete"} -> {"inbox"}
                [] verb = "unarchive" -> {"archived"}
                [] verb \in {"restore", "purge", "empty"} -> {"trash"}
                [] OTHER -> {"inbox", "archived", "trash"}
Moved(verb, r) == CASE verb = "archive" -> [r EXCEPT !.at = "archived"]
                    [] verb = "delete"  -> [r EXCEPT !.at = "trash"]
                    [] verb \in {"unarchive", "restore"} -> [r EXCEPT !.at = "inbox"]
                    [] verb \in {"purge", "empty"} -> [r EXCEPT !.at = "gone"]
                    [] verb = "pin" -> [r EXCEPT !.pinned = TRUE]
                    [] OTHER -> [r EXCEPT !.pinned = FALSE]
Inverse(verb) == CASE verb = "archive" -> "unarchive" [] verb = "unarchive" -> "archive"
                   [] verb = "delete" -> "restore" [] verb = "restore" -> "delete"
                   [] verb = "pin" -> "unpin" [] OTHER -> "pin"

\* The buttons of a row, and the keys.
Offered(verb) == CASE verb = "unarchive" -> view = "archived"
                   [] verb \in {"restore", "purge"} -> view = "trash"
                   [] verb = "archive" -> view \notin {"archived", "trash"}
                   [] verb = "delete" -> view # "trash"
                   [] OTHER -> TRUE

NoWrite == [phase |-> "idle", kind |-> "row", verb |-> "pin", ids |-> {}, token |-> 0, before |-> Nothing,
            view |-> "inbox", here |-> TRUE, drawn |-> FALSE, good |-> {}, at |-> 0, ok |-> FALSE]
Call(kind, verb, ids) == [NoWrite EXCEPT !.phase = "sent", !.kind = kind, !.verb = verb, !.ids = ids,
                                         !.token = token + 1, !.view = view]
NoToast == [verb |-> "pin", ids |-> {}, kind |-> "row"]

\* overlay.remove and overlay.patch
Hide(ids) == /\ token' = token + 1
             /\ removed' = [m \in Mails |-> IF m \in ids THEN token + 1 ELSE removed[m]]
             /\ UNCHANGED patched
Patch(m, verb) == /\ patched' = [patched EXCEPT ![m] = verb]
                  /\ UNCHANGED <<removed, token>>

\* The roll-backs remove and patch answer: a row hidden again since stays hidden,
\* a patched row gets the patch it had when this write began.
Unhidden(w) == [m \in Mails |-> IF m \in write[w].ids /\ removed[m] = write[w].token
                                THEN 0 ELSE removed[m]]
Unpatched(w) == IF write[w].kind = "row" /\ write[w].verb \in Patching
                THEN [m \in Mails |-> IF m \in write[w].ids THEN write[w].before ELSE patched[m]]
                ELSE patched

\* Mutant: a bulk write that went through in part keeps its other rows hidden.
Rehidden(w) == [m \in Mails |-> IF m \in write[w].ids THEN token + 1 ELSE removed[m]]

\* What is hidden once a bulk write went through, in part or in full.
HiddenAfter(w) == [m \in Mails |-> IF m \in write[w].good THEN token + 1 ELSE Unhidden(w)[m]]

Idle(w) == write[w].phase = "idle"
-----------------------------------------------------------------------------

Init ==
    /\ mail = [m \in Mails |-> [at |-> "inbox", pinned |-> FALSE]]
    /\ now = 0
    /\ view = "inbox" /\ term = Nothing
    /\ gen = [s \in Sources |-> 0]
    /\ reads = {}
    /\ shown = [s \in Sources |-> IF s = "messages" THEN List("inbox") ELSE Loading]
    /\ removed = [m \in Mails |-> 0]
    /\ patched = [m \in Mails |-> Nothing]
    /\ token = 0
    /\ marked = {}
    /\ busy = FALSE
    /\ write = [w \in Writers |-> NoWrite]
    /\ toast = NoToast
    /\ owed = 0
    /\ confirmed = {}
    /\ spent = [e \in Events |-> 0]

-----------------------------------------------------------------------------
(* useApiOutcome *)

\* The interval, or the refresh and retry buttons of the surface.
Poll(s) ==
    /\ Enabled(s, view, term)
    /\ Spend({"poll"})
    /\ Run({s}, view, term)
    /\ UNCHANGED <<store, view, term, shown, overlay, marked, busy, write, toast, past>>

Serve(r) ==
    /\ r.answer = Loading
    /\ \/ reads' = (reads \ {r}) \cup {[r EXCEPT !.answer = List(r.asks)]} /\ UNCHANGED spent
       \/ Spend({"fail"}) /\ reads' = (reads \ {r}) \cup {[r EXCEPT !.answer = Failed]}
    /\ UNCHANGED <<store, view, term, gen, shown, overlay, marked, busy, write, toast, past>>

\* Mutant: whichever answer comes last is shown.
CommitAny(r) ==
    /\ r.answer # Loading
    /\ reads' = reads \ {r}
    /\ shown' = [shown EXCEPT ![r.source] = r.answer]
    /\ UNCHANGED <<store, view, term, gen, overlay, marked, busy, write, toast, past, spent>>

\* An answer arrives; only that of the last request is shown.
Commit(r) ==
    /\ r.answer # Loading
    /\ reads' = reads \ {r}
    /\ shown' = IF Current(r) THEN [shown EXCEPT ![r.source] = r.answer] ELSE shown
    /\ UNCHANGED <<store, view, term, gen, overlay, marked, busy, write, toast, past, spent>>

\* Another lens: the effects reload what is enabled and clear what was local.
Navigate(v) ==
    LET q  == IF {v, view} \subseteq {"briefing", "inbox"} THEN term ELSE Nothing
        on == {s \in Sources : Enabled(s, v, q)}
    IN  /\ v # view
        /\ Spend({"nav"})
        /\ view' = v /\ term' = q
        /\ Run(on, v, q)
        /\ shown' = [s \in Sources |-> IF s \in on THEN Loading ELSE shown[s]]
        /\ removed' = [m \in Mails |-> 0] /\ patched' = [m \in Mails |-> Nothing]
        /\ marked' = {}
        /\ owed' = 0
        /\ write' = [w \in Writers |-> [write[w] EXCEPT !.here = FALSE]]
        /\ UNCHANGED <<store, token, busy, toast, confirmed>>

\* The query settles, and the search runs if there is one.
Type(q) ==
    /\ view # "briefing" /\ q # term
    /\ Spend({"type"})
    /\ term' = q
    /\ Run(IF q = Nothing THEN {} ELSE {"search"}, view, q)
    /\ shown' = IF q = Nothing THEN shown ELSE [shown EXCEPT !["search"] = Loading]
    /\ UNCHANGED <<store, view, overlay, marked, busy, write, toast, past>>

Mark(m) ==
    /\ m \in Rows \ marked
    /\ marked' = marked \cup {m}
    /\ UNCHANGED <<store, view, term, lists, overlay, busy, write, toast, past, spent>>

-----------------------------------------------------------------------------
(* runRowVerb, runBulk, undoLatest, requestEmptyTrash *)

\* A button of a row.
RowVerb(w, verb, m) ==
    /\ Idle(w) /\ ~busy /\ m \in Rows /\ Offered(verb)
    /\ verb \in Patching => (verb = "unpin") = PinShown(m)
    /\ Spend({"write"})
    /\ busy' = TRUE
    /\ IF verb \in Hiding THEN Hide({m}) ELSE Patch(m, verb)
    /\ write' = [write EXCEPT ![w] = [Call("row", verb, {m}) EXCEPT !.before = patched[m], !.drawn = TRUE,
                                        !.token = IF verb \in Hiding THEN @ ELSE 0]]
    /\ UNCHANGED <<store, view, term, lists, marked, toast, past>>

\* Cmd-Backspace: a call of its own for each row marked, none waits for another.
DeleteMarked ==
    /\ ~busy /\ marked # {} /\ "delete" \in Verbs
    /\ Spend({"write"})
    /\ busy' = TRUE
    /\ Hide(marked)
    /\ \E f \in [marked -> {w \in Writers : Idle(w)}] :
         /\ \A m, n \in marked : f[m] = f[n] => m = n
         /\ write' = [w \in Writers |->
              IF \E m \in marked : f[m] = w
              THEN LET m == CHOOSE m \in marked : f[m] = w
                   IN  [Call("row", "delete", {m}) EXCEPT !.drawn = m \in Rows]
              ELSE write[w]]
    /\ UNCHANGED <<store, view, term, lists, marked, toast, past>>

Bulk(w, verb) ==
    /\ Idle(w) /\ ~busy /\ marked # {} /\ verb \in {"archive", "delete"}
    /\ Spend({"write"})
    /\ busy' = TRUE
    /\ Hide(marked)
    /\ write' = [write EXCEPT ![w] = Call("bulk", verb, marked)]
    /\ UNCHANGED <<store, view, term, lists, marked, toast, past>>

EmptyTrash(w) ==
    /\ Idle(w) /\ view = "trash" /\ "purge" \in Verbs
    /\ Spend({"write"})
    /\ Hide(Rows)
    /\ write' = [write EXCEPT ![w] = Call("empty", "empty", Rows)]
    /\ UNCHANGED <<store, view, term, lists, marked, busy, toast, past>>

UndoLatest(w) ==
    /\ Idle(w) /\ ~busy /\ toast.ids # {}
    /\ Spend({"undo"})
    /\ busy' = TRUE
    /\ write' = [write EXCEPT ![w] = [Call(toast.kind, Inverse(toast.verb), toast.ids)
                                        EXCEPT !.kind = IF @ = "row" THEN "undo" ELSE "undoBulk",
                                               !.token = 0]]
    /\ UNCHANGED <<store, view, term, lists, overlay, marked, toast, past>>

\* The backend does what it can of a call, and its answer may be lost on the way.  A
\* bulk call says of each item whether it went through, any other fails as a whole.
Land(w) ==
    LET c     == write[w]
        asked == IF c.kind = "empty" THEN {m \in Mails : mail[m].at = "trash"} ELSE c.ids
        able  == {m \in asked : mail[m].at \in From(c.verb)}
    IN  /\ c.phase = "sent"
        /\ \E good \in SUBSET able, heard \in BOOLEAN :
             /\ Spend((IF good = able THEN {} ELSE {"fail"}) \cup (IF heard THEN {} ELSE {"lost"}))
             /\ mail' = [m \in Mails |-> IF m \in good THEN Moved(c.verb, mail[m]) ELSE mail[m]]
             /\ now' = IF good = {} THEN now ELSE now + 1
             /\ write' = [write EXCEPT ![w] =
                  [c EXCEPT !.phase = "answered", !.good = good, !.at = now',
                            !.ok = heard /\ (c.kind \in {"bulk", "undoBulk"} \/ good = asked)]]
        /\ UNCHANGED <<view, term, lists, overlay, marked, busy, toast, past>>

\* A failed call takes its change back before anything is said about it.
Refused(w) ==
    /\ write[w].phase = "answered" /\ ~write[w].ok
    /\ removed' = Unhidden(w) /\ patched' = Unpatched(w)
    /\ busy' = IF write[w].kind = "empty" THEN busy ELSE FALSE
    /\ write' = [write EXCEPT ![w] = NoWrite]
    /\ UNCHANGED <<store, view, term, lists, token, marked, toast, past, spent>>

\* Mutant: a source that is waiting for an answer is not asked again.
RefreshedIfIdle(w) == {s \in {"messages", "briefing"} : Enabled(s, write[w].view, Nothing) /\ ~Pending(s)}

\* The sources refreshAll runs: those that were enabled when the write began, for
\* it is the closure of that moment.
Refreshed(w) == {s \in {"messages", "briefing"} : Enabled(s, write[w].view, Nothing)}

\* A call went through: the toast, the selection, and a refresh.
Succeeds(w) ==
    LET c == write[w]
    IN  /\ c.phase = "answered" /\ c.ok
        /\ busy' = IF c.kind = "empty" THEN busy ELSE FALSE
        /\ IF c.kind = "bulk"
           THEN token' = token + 1 /\ removed' = HiddenAfter(w)
           ELSE UNCHANGED <<token, removed>>
        /\ toast' = IF c.kind \in {"row", "bulk"} /\ c.verb # "purge"
                    THEN [verb |-> c.verb, ids |-> c.good, kind |-> c.kind] ELSE NoToast
        /\ marked' = CASE c.kind = "bulk" -> {}
                       [] c.kind = "row" /\ c.verb \in Hiding /\ c.drawn -> marked \ c.ids
                       [] OTHER -> marked
        /\ Run(Refreshed(w), view, term)
        /\ owed' = IF c.here /\ c.good # {} /\ c.at > owed THEN c.at ELSE owed
        /\ confirmed' = confirmed \cup
             (CASE c.kind = "bulk" -> {<<token + 1, m>> : m \in c.good}
                [] c.kind = "row" /\ c.verb \in Hiding -> {<<c.token, m>> : m \in c.good}
                [] c.kind = "empty" -> {<<c.token, m>> : m \in c.ids}
                [] OTHER -> {})
        /\ write' = [write EXCEPT ![w] = NoWrite]
        /\ UNCHANGED <<store, view, term, shown, patched, spent>>

\* A sync round, or another client of the mailbox, moves a mail.
OthersMove(m) ==
    /\ Spend({"other"})
    /\ \E place \in {"inbox", "archived", "trash"} \ {mail[m].at} :
         mail' = [mail EXCEPT ![m].at = place]
    /\ now' = now + 1
    /\ UNCHANGED <<view, term, lists, overlay, marked, busy, write, toast, past>>

-----------------------------------------------------------------------------

Next ==
    \/ \E s \in Sources : Poll(s)
    \/ \E r \in reads : Serve(r) \/ Commit(r)
    \/ \E v \in Views : Navigate(v)
    \/ \E q \in Terms \cup {Nothing} : Type(q)
    \/ \E m \in Mails : Mark(m) \/ OthersMove(m)
    \/ DeleteMarked
    \/ \E w \in Writers :
         \/ \E verb \in Verbs, m \in Mails : RowVerb(w, verb, m)
         \/ \E verb \in Verbs : Bulk(w, verb)
         \/ EmptyTrash(w) \/ UndoLatest(w) \/ Land(w) \/ Refused(w) \/ Succeeds(w)

Spec == Init /\ [][Next]_vars

-----------------------------------------------------------------------------
(* Properties *)

Answers == [phase : {"loading", "error", "ready"}, asks : Views \cup Terms \cup {Nothing}, at : Nat,
            rows : SUBSET Mails, pinned : SUBSET Mails]
Calls == [phase : {"idle", "sent", "answered"}, kind : {"row", "bulk", "empty", "undo", "undoBulk"},
          verb : Verbs \cup Hiding \cup Patching \cup {"empty"}, ids : SUBSET Mails, token : Nat,
          before : Patching \cup {Nothing}, view : Views, here : BOOLEAN, drawn : BOOLEAN,
          good : SUBSET Mails, at : Nat, ok : BOOLEAN]

TypeOK ==
    /\ mail \in [Mails -> [at : Places, pinned : BOOLEAN]] /\ now \in Nat
    /\ view \in Views /\ term \in Terms \cup {Nothing}
    /\ gen \in [Sources -> Nat]
    /\ reads \subseteq [source : Sources, gen : Nat, asks : Views \cup Terms \cup {Nothing}, answer : Answers]
    /\ shown \in [Sources -> Answers]
    /\ removed \in [Mails -> Nat] /\ patched \in [Mails -> Patching \cup {Nothing}] /\ token \in Nat
    /\ marked \subseteq Mails /\ busy \in BOOLEAN
    /\ write \in [Writers -> Calls]
    /\ toast \in [verb : Hiding \cup Patching, ids : SUBSET Mails, kind : {"row", "bulk"}]
    /\ owed \in Nat
    /\ confirmed \subseteq Nat \X Mails
    /\ spent \in [Events -> Nat]

\* A failure never leaves the screen showing the thing it claimed to do: a row is
\* hidden only for a write that is on its way or that the backend confirmed, of a
\* bulk write for that very row, also when writes fail in part or overlap.
HiddenIsAccountedFor ==
    \A m \in Mails : removed[m] # 0 =>
        \/ <<removed[m], m>> \in confirmed
        \/ \E w \in Writers : ~Idle(w) /\ m \in write[w].ids /\ write[w].token = removed[m]

\* The rows on the screen answer the question the screen asks, whatever lists and
\* queries were asked for before and in which order their answers came.
AnswersTheView == shown[Source].phase = "ready" => shown[Source].asks = Asked(Source)

\* A slow poll that lands after a local change must not overwrite it: once no
\* answer is awaited, a list is no older than the writes confirmed since the user
\* came to it.
ListFollowsWrites ==
    \A s \in {"messages", "briefing"} :
        Enabled(s, view, term) /\ shown[s].phase = "ready" /\ ~Pending(s) => shown[s].at >= owed

\* Local optimism of one lens must not leak into another.  (Not kept: a bulk write
\* answered after the user left hides its rows in the lens he is in, and a failed
\* patch puts an older patch back.)
StaysInItsLens ==
    [][\A w \in Writers : ~write[w].here /\ write[w].phase = "answered" /\ write'[w].phase = "idle" =>
         \A m \in Mails : /\ removed'[m] # 0 => removed[m] # 0
                          /\ patched'[m] # Nothing => patched[m] # Nothing]_vars

\* A write leaves its entry until the next list agrees.  (Not kept: nothing clears
\* the entry but another lens, so mail that came back stays hidden.)
UndoneRowsShow ==
    shown[Source].phase = "ready" /\ shown[Source].at = now /\ ~Pending(Source)
    /\ (\A w \in Writers : Idle(w)) => Rows = shown[Source].rows
=============================================================================
