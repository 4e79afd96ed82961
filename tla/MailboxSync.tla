---------------------------- MODULE MailboxSync ----------------------------
(***************************************************************************)
(* One account's mailbox as three parties see it: the IMAP server (INBOX,  *)
(* archive and trash folders with their UIDs), the SQLite rows the client  *)
(* shows, and the two kinds of process that copy between them: sync rounds *)
(* (SyncEngine::round: pull, membership walk, apply) and the action routes *)
(* (remote move first, then the local flag).                               *)
(*                                                                         *)
(* A pull and its membership walk are a read of the server that is applied *)
(* later: SELECT, FETCH and one walk per folder are separate IMAP commands,*)
(* and only the apply runs under the writer lock.  Every statement of the  *)
(* apply commits by itself (no transaction), so an apply can stop half     *)
(* way.  The action routes do not take the writer lock.                    *)
(***************************************************************************)
EXTENDS Integers, FiniteSets

CONSTANTS
    Messages,       \* the messages that can ever exist in this mailbox
    Bare,           \* those without a Message-ID header: known by folder UID
    Rounds,         \* sync rounds that may overlap: the loop's own, POST /api/sync
    Handlers,       \* action requests that may be in flight together
    Verbs,          \* the action routes in use
    OtherMoves,     \* <<from, to>> moves made by another mail client
    HasMove,        \* the server accepts UID MOVE (else COPY, STORE, UID EXPUNGE)
    Backfill,       \* BACKFILL_WINDOW: newest messages a first pull fetches
    MaxUid,         \* bound on the UIDs a folder hands out
    MaxValidity,    \* bound on the INBOX's UIDVALIDITY
    Budgets         \* bounds on how often each kind of event in Events happens

INBOX   == "INBOX"
ARCHIVE == "archive"
TRASH   == "trash"
GONE    == "gone"               \* target of another client's permanent delete
Folders == {INBOX, ARCHIVE, TRASH}

Events  == {"other", "renumber", "verb", "fail", "crash"}
AllVerbs == {"archive", "unarchive", "trash", "restore", "purge", "emptyTrash"}
Flags   == {"archived", "deleted"}

\* Store-facing identities: the Message-ID, or "uid:<n>" when there is none.
RemoteIds == ({"mid"} \X (Messages \ Bare)) \cup ({"uid"} \X (1..MaxUid))
NoId      == <<"none", 0>>

ASSUME MailboxAssumption ==
    /\ IsFiniteSet(Messages) /\ Bare \subseteq Messages
    /\ Verbs \subseteq AllVerbs
    /\ OtherMoves \subseteq Folders \X (Folders \cup {GONE})
    /\ HasMove \in BOOLEAN
    /\ Backfill \in Nat /\ MaxUid \in Nat \ {0} /\ MaxValidity \in Nat \ {0}
    /\ Budgets \subseteq [Events -> Nat]

VARIABLES
    uid,        \* uid[f][m]: the UID of m in folder f, 0 when m is not there
    uidNext,    \* uidNext[f]: UIDNEXT
    validity,   \* the INBOX's UIDVALIDITY
    arrived,    \* the messages delivered so far
    discarded,  \* those of which a copy was deleted for good since a move copied them last
    rows,       \* message_headers: rows[id] is NoRow or a stored header
    cursor,     \* accounts.sync_state: the committed sync position
    round,      \* round[p]: a round in flight
    act,        \* act[h]: an action request in flight
    left        \* what remains of the bounds

server == <<uid, uidNext, validity, arrived, discarded>>
vars   == <<uid, uidNext, validity, arrived, discarded, rows, cursor, round, act, left>>

-----------------------------------------------------------------------------
(* Rows *)

NoRow     == [stored |-> FALSE]
Row(m, flags) == [stored |-> TRUE, msg |-> m, flags |-> flags]
RowStates == {NoRow} \cup {Row(m, fs) : m \in Messages, fs \in SUBSET Flags}

Live(id)     == rows[id].stored /\ rows[id].flags = {}
LiveIds      == {id \in RemoteIds : Live(id)}
HasFlag(id, flag) == rows[id].stored /\ flag \in rows[id].flags

\* upsert_header: ON CONFLICT rewrites the header columns, never the flags.
Upserted(id, m) == Row(m, IF rows[id].stored THEN rows[id].flags ELSE {})

\* UPDATE ... SET is_archived / is_deleted: no row, no effect.
Flagged(id, flag)   == IF rows[id].stored
                         THEN Row(rows[id].msg, rows[id].flags \cup {flag}) ELSE NoRow
Unflagged(id, flag) == IF rows[id].stored
                         THEN Row(rows[id].msg, rows[id].flags \ {flag}) ELSE NoRow

-----------------------------------------------------------------------------
(* The server *)

In(f)        == {m \in Messages : uid[f][m] > 0}
\* Mutant: an identity without a Message-ID always takes the UID in the INBOX.
RemoteIdOfInbox(f, m) == IF m \in Bare THEN <<"uid", uid[INBOX][m]>> ELSE <<"mid", m>>

RemoteId(f, m) == IF m \in Bare THEN <<"uid", uid[f][m]>> ELSE <<"mid", m>>
IdsIn(f)     == {RemoteId(f, m) : m \in In(f)}

\* resolve_uid in the selected folder: a "uid:<n>" id is used as a UID of
\* whatever folder is open, anything else is searched by Message-ID.
Resolve(f, id) ==
    {m \in In(f) : IF id[1] = "uid" THEN uid[f][m] = id[2] ELSE m = id[2]}

Newest(f) == {m \in In(f) : \A n \in In(f) : uid[f][n] <= uid[f][m]}
SeqNo(f, m) == Cardinality({n \in In(f) : uid[f][n] <= uid[f][m]})

\* m gets the next UID of g and, when `from` is a folder, leaves it.
Place(m, g)   == /\ uidNext[g] <= MaxUid
                 /\ uidNext' = [uidNext EXCEPT ![g] = @ + 1]
Moved(m, f, g) == [uid EXCEPT ![f][m] = 0, ![g][m] = uidNext[g]]

-----------------------------------------------------------------------------
(* Rounds *)

NoCursor == [validity |-> 0, next |-> 0]
Cursors  == [validity : 0..MaxValidity, next : 0..(MaxUid + 1)]

Unknown  == [known |-> FALSE, ids |-> {}]
Walked(f) == [known |-> TRUE, ids |-> IdsIn(f)]
Walks    == [known : BOOLEAN, ids : SUBSET RemoteIds]

IdleRound == [phase |-> "idle", after |-> NoCursor, cur |-> NoCursor, exists |-> 0,
              reset |-> FALSE, ups |-> {}, walk |-> [f \in Folders |-> Unknown],
              todo |-> {}, removed |-> {}]
RoundPhases == {"idle", "select", "fetch", "walkInbox", "walkArchive", "walkTrash",
                "pulled", "land", "place"}
RoundStates ==
    [phase : RoundPhases, after : Cursors, cur : Cursors, exists : 0..Cardinality(Messages),
     reset : BOOLEAN, ups : SUBSET (RemoteIds \X Messages), walk : [Folders -> Walks],
     todo : SUBSET RemoteIds, removed : SUBSET RemoteIds]

\* A request, and who works for it: its handler; the blocking task of a handler that
\* was dropped; or nobody, with one IMAP command of a connection given up on the wire.
Workers   == {"handler", "job", "wire"}
IdleAct   == [phase |-> "idle", verb |-> "archive", id |-> NoId, uids |-> {}, by |-> "handler"]
ActStates == [phase : {"idle", "remote", "copied", "local"}, verb : AllVerbs,
              id : RemoteIds \cup {NoId}, uids : SUBSET (1..MaxUid), by : Workers]

Applying(p) == round[p].phase \in {"land", "place"}
WriterFree  == \A p \in Rounds : ~Applying(p)

Spend(event) == /\ left[event] > 0
                /\ left' = [left EXCEPT ![event] = @ - 1]

Init ==
    /\ uid = [f \in Folders |-> [m \in Messages |-> 0]]
    /\ uidNext = [f \in Folders |-> 1]
    /\ validity = 1
    /\ arrived = {} /\ discarded = {}
    /\ rows = [id \in RemoteIds |-> NoRow]
    /\ cursor = NoCursor
    /\ round = [p \in Rounds |-> IdleRound]
    /\ act = [h \in Handlers |-> IdleAct]
    /\ left \in Budgets

\* A round reads sync_state, then calls pull_changes without the writer lock.
StartRound(p) ==
    /\ round[p].phase = "idle"
    /\ round' = [round EXCEPT ![p] = [IdleRound EXCEPT !.phase = "select", !.after = cursor]]
    /\ UNCHANGED <<server, rows, cursor, act, left>>

\* The SELECT after IDLE: the new cursor, and the UIDVALIDITY check.  A changed
\* UIDVALIDITY ends the pull at once: reset, no upserts, no membership.
SelectInbox(p) ==
    LET r == round[p]
        cur == [validity |-> validity, next |-> uidNext[INBOX]]
        rebuilt == r.after.validity # 0 /\ r.after.validity # validity
    IN  /\ r.phase = "select"
        /\ round' = [round EXCEPT ![p] =
              [r EXCEPT !.cur = cur, !.reset = rebuilt, !.exists = Cardinality(In(INBOX)),
                        !.phase = IF rebuilt THEN "pulled" ELSE "fetch"]]
        /\ UNCHANGED <<server, rows, cursor, act, left>>

\* Mutant: the incremental fetch starts one UID late.
FetchedAfter(p) ==
    LET r == round[p]
    IN  IF r.after.next > 0
          THEN {m \in In(INBOX) : uid[INBOX][m] > r.after.next} \cup Newest(INBOX)
          ELSE {m \in In(INBOX) : r.exists > 0 /\ SeqNo(INBOX, m) > r.exists - Backfill}

\* UID FETCH next:* (the server always includes the newest message in n:* ), or
\* the newest Backfill messages by sequence number on a first sync.
Fetched(p) ==
    LET r == round[p]
    IN  IF r.after.next > 0
          THEN {m \in In(INBOX) : uid[INBOX][m] >= r.after.next} \cup Newest(INBOX)
          ELSE {m \in In(INBOX) : r.exists > 0 /\ SeqNo(INBOX, m) > r.exists - Backfill}

FetchHeaders(p) ==
    /\ round[p].phase = "fetch"
    /\ round' = [round EXCEPT ![p].ups = {<<RemoteId(INBOX, m), m>> : m \in Fetched(p)},
                              ![p].phase = "walkInbox"]
    /\ UNCHANGED <<server, rows, cursor, act, left>>

\* remote_membership: INBOX, archive, trash, one after the other on the session
\* of the pull.  A folder over budget or refused is unknown, never empty.
WalkOrder == [walkInbox |-> <<INBOX, "walkArchive">>, walkArchive |-> <<ARCHIVE, "walkTrash">>,
              walkTrash |-> <<TRASH, "pulled">>]

WalkFolder(p) ==
    /\ round[p].phase \in DOMAIN WalkOrder
    /\ LET f == WalkOrder[round[p].phase][1]
           then == WalkOrder[round[p].phase][2]
       IN  \/ /\ round' = [round EXCEPT ![p].walk[f] = Walked(f), ![p].phase = then]
              /\ UNCHANGED left
           \/ /\ round' = [round EXCEPT ![p].walk[f] = Unknown, ![p].phase = then]
              /\ Spend("fail")
    /\ UNCHANGED <<server, rows, cursor, act>>

\* The writer lock, then delete_live_rows when the UID space was rebuilt.
BeginApply(p) ==
    /\ round[p].phase = "pulled" /\ WriterFree
    /\ rows' = IF round[p].reset
                 THEN [id \in RemoteIds |-> IF Live(id) THEN NoRow ELSE rows[id]]
                 ELSE rows
    /\ round' = [round EXCEPT ![p].phase = "land"]
    /\ UNCHANGED <<server, cursor, act, left>>

\* One upsert of the apply.
LandHeader(p) ==
    /\ round[p].phase = "land"
    /\ \E u \in round[p].ups :
         /\ rows' = [rows EXCEPT ![u[1]] = Upserted(u[1], u[2])]
         /\ round' = [round EXCEPT ![p].ups = @ \ {u}]
    /\ UNCHANGED <<server, cursor, act, left>>

\* Mutant: a folder that was not listed counts as an empty one.
ReadLiveRowsUnlicensed(p) ==
    LET w == round[p].walk
        away == IF w[INBOX].known THEN LiveIds \ w[INBOX].ids ELSE {}
        gone == away \ (w[ARCHIVE].ids \cup w[TRASH].ids)
    IN  /\ round[p].phase = "land" /\ round[p].ups = {}
        /\ round' = [round EXCEPT ![p].todo = away, ![p].removed = gone, ![p].phase = "place"]
        /\ UNCHANGED <<server, rows, cursor, act, left>>

\* live_remote_ids and the read of reconcile_inbox: which live rows left the
\* inbox, and which of them no folder reports (only if all three are known).
ReadLiveRows(p) ==
    LET w == round[p].walk
        allKnown == \A f \in Folders : w[f].known
        away == IF w[INBOX].known THEN LiveIds \ w[INBOX].ids ELSE {}
        gone == IF allKnown THEN away \ (w[ARCHIVE].ids \cup w[TRASH].ids) ELSE {}
    IN  /\ round[p].phase = "land" /\ round[p].ups = {}
        /\ round' = [round EXCEPT ![p].todo = away, ![p].removed = gone, ![p].phase = "place"]
        /\ UNCHANGED <<server, rows, cursor, act, left>>

\* Mutant: mail confirmed gone keeps its row.
PlaceRowKeepsGone(p) ==
    LET w == round[p].walk
        filedAs(id) == IF id \in w[ARCHIVE].ids THEN Flagged(id, "archived")
                       ELSE IF id \in w[TRASH].ids THEN Flagged(id, "deleted")
                       ELSE rows[id]
    IN  /\ round[p].phase = "place"
        /\ \E id \in round[p].todo :
             /\ rows' = [rows EXCEPT ![id] = filedAs(id)]
             /\ round' = [round EXCEPT ![p].todo = @ \ {id}]
        /\ UNCHANGED <<server, cursor, act, left>>

\* One row of reconcile_inbox.
PlaceRow(p) ==
    LET w == round[p].walk
        filedAs(id) == IF id \in w[ARCHIVE].ids THEN Flagged(id, "archived")
                       ELSE IF id \in w[TRASH].ids THEN Flagged(id, "deleted")
                       ELSE IF id \in round[p].removed THEN NoRow
                       ELSE rows[id]
    IN  /\ round[p].phase = "place"
        /\ \E id \in round[p].todo :
             /\ rows' = [rows EXCEPT ![id] = filedAs(id)]
             /\ round' = [round EXCEPT ![p].todo = @ \ {id}]
        /\ UNCHANGED <<server, cursor, act, left>>

\* Mutant: the cursor takes the UIDNEXT of now, not the one of the pull.
CommitCursorOfNow(p) ==
    /\ round[p].phase = "place" /\ round[p].todo = {}
    /\ cursor' = [validity |-> validity, next |-> uidNext[INBOX]]
    /\ round' = [round EXCEPT ![p] = IdleRound]
    /\ UNCHANGED <<server, rows, act, left>>

\* update_sync_state: the cursor advances last.
CommitCursor(p) ==
    /\ round[p].phase = "place" /\ round[p].todo = {}
    /\ cursor' = round[p].cur
    /\ round' = [round EXCEPT ![p] = IdleRound]
    /\ UNCHANGED <<server, rows, act, left>>

\* The pull errs, or a statement of the apply does (SQLITE_BUSY, disk): the
\* round ends where it stands and the cursor keeps its value.
RoundFails(p) ==
    /\ round[p].phase # "idle"
    /\ Spend("fail")
    /\ round' = [round EXCEPT ![p] = IdleRound]
    /\ UNCHANGED <<server, rows, cursor, act>>

-----------------------------------------------------------------------------
(* The action routes *)

Source(verb) == CASE verb \in {"archive", "trash"}  -> INBOX
                  [] verb = "unarchive"             -> ARCHIVE
                  [] OTHER                          -> TRASH
Target(verb) == CASE verb = "archive" -> ARCHIVE
                  [] verb = "trash"   -> TRASH
                  [] OTHER            -> INBOX

\* A row the user can see in the list that offers the verb.
Offered(verb, id) ==
    CASE verb \in {"archive", "trash"}  -> Live(id)
      [] verb = "unarchive"             -> HasFlag(id, "archived")
      [] verb \in {"restore", "purge"}  -> HasFlag(id, "deleted")
      [] OTHER                          -> FALSE

RequestVerb(h) ==
    /\ act[h].phase = "idle"
    /\ Spend("verb")
    /\ \/ \E verb \in Verbs \ {"emptyTrash"}, id \in RemoteIds :
             /\ Offered(verb, id)
             /\ act' = [act EXCEPT ![h] = [IdleAct EXCEPT !.phase = "remote", !.verb = verb, !.id = id]]
       \/ /\ "emptyTrash" \in Verbs
          /\ act' = [act EXCEPT ![h] = [IdleAct EXCEPT !.phase = "remote", !.verb = "emptyTrash"]]
    /\ UNCHANGED <<server, rows, cursor, round>>

\* What comes after the last IMAP command: only a handler writes the local half.
Told(a)         == IF a.by = "handler" THEN [a EXCEPT !.phase = "local"] ELSE IdleAct
\* What comes after a COPY: whoever still works for the request expunges the original.
Copied(a, uids) == IF a.by = "wire" THEN IdleAct
                   ELSE [a EXCEPT !.phase = "copied", !.uids = uids]

\* Mutant: the fallback expunges the source without a copy in the target.
RemoteMoveWithoutCopy(h) ==
    LET a == act[h]
        f == Source(a.verb)
        found == Resolve(f, a.id)
    IN  /\ a.phase = "remote" /\ a.verb \in {"archive", "unarchive", "trash", "restore"}
        /\ act' = [act EXCEPT ![h] = Copied(a, {uid[f][m] : m \in found})]
        /\ UNCHANGED <<server, rows, cursor, round, left>>

\* move_safely with UID MOVE: one command.  A "uid:<n>" that addresses nothing
\* is a no-op the server answers OK to; a Message-ID that is not there is 410.
RemoteMove(h) ==
    LET a == act[h]
        f == Source(a.verb)
        g == Target(a.verb)
        found == Resolve(f, a.id)
    IN  /\ a.phase = "remote" /\ a.verb \in {"archive", "unarchive", "trash", "restore"}
        /\ \/ /\ found = {}
              /\ act' = [act EXCEPT ![h] = IF a.id[1] = "uid" THEN Told(a) ELSE IdleAct]
              /\ UNCHANGED <<uid, uidNext, discarded>>
           \/ /\ HasMove
              /\ \E m \in found : /\ Place(m, g) /\ uid' = Moved(m, f, g)
                                  /\ discarded' = discarded \ {m}
              /\ act' = [act EXCEPT ![h] = Told(a)]
           \/ /\ ~HasMove
              /\ \E m \in found : /\ Place(m, g) /\ uid' = [uid EXCEPT ![g][m] = uidNext[g]]
                                  /\ discarded' = discarded \ {m}
              /\ act' = [act EXCEPT ![h] = Copied(a, {uid[f][m] : m \in found})]
        /\ UNCHANGED <<validity, arrived, rows, cursor, round, left>>

\* The fallback's STORE \Deleted and UID EXPUNGE of the source copy.
RemoteExpungeSource(h) ==
    LET f == Source(act[h].verb)
    IN  /\ act[h].phase = "copied"
        /\ uid' = [uid EXCEPT ![f] = [m \in Messages |-> IF uid[f][m] \in act[h].uids THEN 0 ELSE @[m]]]
        /\ act' = [act EXCEPT ![h] = Told(act[h])]
        /\ UNCHANGED <<uidNext, validity, arrived, discarded, rows, cursor, round, left>>

\* permanently_delete: STORE \Deleted and UID EXPUNGE of one UID of the trash.
RemotePurge(h) ==
    LET a == act[h]
        found == Resolve(TRASH, a.id)
    IN  /\ a.phase = "remote" /\ a.verb = "purge"
        /\ uid' = [uid EXCEPT ![TRASH] = [m \in Messages |-> IF m \in found THEN 0 ELSE @[m]]]
        /\ discarded' = discarded \cup found
        /\ act' = [act EXCEPT ![h] = IF found = {} /\ a.id[1] = "mid" THEN IdleAct ELSE Told(a)]
        /\ UNCHANGED <<uidNext, validity, arrived, rows, cursor, round, left>>

\* empty_trash: every UID of the trash, flagged and expunged as a set.
RemoteEmptyTrash(h) ==
    /\ act[h].phase = "remote" /\ act[h].verb = "emptyTrash"
    /\ uid' = [uid EXCEPT ![TRASH] = [m \in Messages |-> 0]]
    /\ discarded' = discarded \cup In(TRASH)
    /\ act' = [act EXCEPT ![h] = Told(act[h])]
    /\ UNCHANGED <<uidNext, validity, arrived, rows, cursor, round, left>>

\* The local half, after the server said yes.
LocalWrite(h) ==
    LET a == act[h]
    IN  /\ a.phase = "local"
        /\ rows' = CASE a.verb = "archive"   -> [rows EXCEPT ![a.id] = Flagged(a.id, "archived")]
                     [] a.verb = "unarchive" -> [rows EXCEPT ![a.id] = Unflagged(a.id, "archived")]
                     [] a.verb = "trash"     -> [rows EXCEPT ![a.id] = Flagged(a.id, "deleted")]
                     [] a.verb = "restore"   -> [rows EXCEPT ![a.id] = Unflagged(a.id, "deleted")]
                     [] a.verb = "purge"     -> [rows EXCEPT ![a.id] = NoRow]
                     [] OTHER -> [id \in RemoteIds |-> IF HasFlag(id, "deleted") THEN NoRow
                                                       ELSE rows[id]]
        /\ act' = [act EXCEPT ![h] = IdleAct]
        /\ UNCHANGED <<server, cursor, round, left>>

\* The remote half is under way: the verb runs on a blocking thread (spawn_blocking),
\* apart from the handler that awaits it.
Working(h) == act[h].phase \in {"remote", "copied"}

\* The request fails, or its handler is dropped, and what the server did stays done.
\* Before a command or in the local statement it ends there.  A handler dropped at the
\* await leaves its blocking task running to the last command, without the local half.
\* When the connection errs, its last command may be carried out all the same.
HandlerDies(h) ==
    /\ act[h].phase # "idle"
    /\ Spend("fail")
    /\ \/ act' = [act EXCEPT ![h] = IdleAct]
       \/ Working(h) /\ act[h].by = "handler" /\ act' = [act EXCEPT ![h].by = "job"]
       \/ Working(h) /\ act[h].by # "wire" /\ act' = [act EXCEPT ![h].by = "wire"]
    /\ UNCHANGED <<server, rows, cursor, round>>

\* The command of a connection given up never reaches the server, or is refused.
CommandLost(h) ==
    /\ Working(h) /\ act[h].by = "wire"
    /\ act' = [act EXCEPT ![h] = IdleAct]
    /\ UNCHANGED <<server, rows, cursor, round, left>>

-----------------------------------------------------------------------------
(* Everything else: delivery, other clients, the server, the process *)

Deliver(m) ==
    /\ m \notin arrived
    /\ arrived' = arrived \cup {m}
    /\ Place(m, INBOX) /\ uid' = [uid EXCEPT ![INBOX][m] = uidNext[INBOX]]
    /\ UNCHANGED <<validity, discarded, rows, cursor, round, act, left>>

OtherClientMoves(m) ==
    /\ Spend("other")
    /\ \E fg \in OtherMoves :
         /\ uid[fg[1]][m] > 0
         /\ IF fg[2] = GONE
              THEN /\ uid' = [uid EXCEPT ![fg[1]][m] = 0] /\ UNCHANGED uidNext
                   /\ discarded' = discarded \cup {m}
              ELSE /\ uid[fg[2]][m] = 0 /\ Place(m, fg[2]) /\ uid' = Moved(m, fg[1], fg[2])
                   /\ UNCHANGED discarded
    /\ UNCHANGED <<validity, arrived, rows, cursor, round, act>>

\* The server rebuilds the INBOX: new UIDVALIDITY, UIDs from 1, order kept.  Not
\* while a session works in it: its UIDs hold as long as the folder is selected.
Renumber ==
    /\ validity < MaxValidity
    /\ \A h \in Handlers : act[h].phase = "copied" => Source(act[h].verb) # INBOX
    /\ Spend("renumber")
    /\ validity' = validity + 1
    /\ uid' = [uid EXCEPT ![INBOX] = [m \in Messages |-> IF m \in In(INBOX) THEN SeqNo(INBOX, m) ELSE 0]]
    /\ uidNext' = [uidNext EXCEPT ![INBOX] = Cardinality(In(INBOX)) + 1]
    /\ UNCHANGED <<arrived, discarded, rows, cursor, round, act>>

\* The backend dies and restarts: rounds, requests and their blocking tasks are lost,
\* the store, the server and what is on the wire to it are not.
Crash ==
    /\ \/ \E p \in Rounds : round[p].phase # "idle"
       \/ \E h \in Handlers : act[h].phase # "idle"
    /\ Spend("crash")
    /\ round' = [p \in Rounds |-> IdleRound]
    /\ \E sent \in SUBSET {h \in Handlers : Working(h)} :
         act' = [h \in Handlers |-> IF h \in sent THEN [act[h] EXCEPT !.by = "wire"] ELSE IdleAct]
    /\ UNCHANGED <<server, rows, cursor>>

RoundStep(p) ==
    \/ StartRound(p) \/ SelectInbox(p) \/ FetchHeaders(p) \/ WalkFolder(p)
    \/ BeginApply(p) \/ LandHeader(p) \/ ReadLiveRows(p) \/ PlaceRow(p) \/ CommitCursor(p)

HandlerStep(h) ==
    \/ RemoteMove(h) \/ RemoteExpungeSource(h) \/ RemotePurge(h) \/ RemoteEmptyTrash(h)
    \/ LocalWrite(h) \/ CommandLost(h)

Next ==
    \/ \E p \in Rounds : RoundStep(p) \/ RoundFails(p)
    \/ \E h \in Handlers : RequestVerb(h) \/ HandlerStep(h) \/ HandlerDies(h)
    \/ \E m \in Messages : Deliver(m) \/ OtherClientMoves(m)
    \/ Renumber
    \/ Crash

Spec == Init /\ [][Next]_vars

\* The loop starts a round again and again, and a round, a request or a blocking task
\* that can take its next step takes it (tokio polls every ready task); a command on
\* the wire is carried out or lost (TCP gives a dead connection up).
Fairness == /\ \A p \in Rounds : WF_vars(RoundStep(p))
            /\ \A h \in Handlers : WF_vars(HandlerStep(h))

FairSpec == Spec /\ Fairness

-----------------------------------------------------------------------------
(* Properties *)

TypeOK ==
    /\ uid \in [Folders -> [Messages -> 0..MaxUid]]
    /\ uidNext \in [Folders -> 1..(MaxUid + 1)]
    /\ validity \in 1..MaxValidity
    /\ arrived \subseteq Messages /\ discarded \subseteq Messages
    /\ rows \in [RemoteIds -> RowStates]
    /\ cursor \in Cursors
    /\ round \in [Rounds -> RoundStates]
    /\ act \in [Handlers -> ActStates]
    /\ left \in [Events -> Nat]

\* The mail of the INBOX the committed cursor has passed without a row: a pull
\* asks from the cursor on, so nothing fetches it again.
PassedOver == {m \in In(INBOX) : uid[INBOX][m] < cursor.next /\ ~rows[RemoteId(INBOX, m)].stored}

\* The cursor never passes a message that has no row, as long as the server has
\* not rebuilt its INBOX (apply: "wipe first, land the rows, and only then
\* advance the cursor").
NoSkippedMail == validity = 1 /\ cursor.validity = 1 => PassedOver = {}

\* The same after a rebuild: what the reset wiped is fetched again before the
\* cursor advances ("wipe the live inbox rows and re-upsert the full set").
RebuildFetchesAgain == cursor.validity = validity => PassedOver = {}

\* Once everyone else stops, every live row settles on a message of the INBOX:
\* mail filed or deleted elsewhere, half-done moves and rows landed from an old
\* pull all leave the live list through reconcile_inbox.
LiveListConverges ==
    <>[](\A id \in RemoteIds : Live(id) => Resolve(INBOX, id) # {})

\* Once everyone else stops, every message of the INBOX is shown as live.
InboxShown ==
    <>[](\A m \in In(INBOX) : Live(RemoteId(INBOX, m)))

\* A round deletes the row of a message only if the message is nowhere on the
\* server (reconcile_inbox: "delete only the ones it confirmed gone").
DeletesOnlyGoneMail ==
    [][\A p \in Rounds : PlaceRow(p) =>
         \A id \in RemoteIds : rows[id].stored /\ ~rows'[id].stored =>
             \A f \in Folders : uid[f][rows[id].msg] = 0]_vars

\* A move never loses mail, whatever fails between its COPY and its EXPUNGE and
\* whatever runs beside it, the task of a dropped handler included: mail that came is in
\* some folder unless a copy of it was deleted for good (a purge, an emptied trash,
\* another client) since a move copied it last (move_safely copies before it expunges,
\* and expunges the UID it copied).
OnlyDeletingLosesMail ==
    \A m \in arrived \ discarded : \E f \in Folders : uid[f][m] > 0

\* Emptying the trash drops the row of a message only if the message has left
\* the server's trash ("the app never reads those folders back, so deleting
\* them locally would be an unrecoverable deletion").
TrashRowsOutliveTheirMail ==
    [][\A h \in Handlers : LocalWrite(h) /\ act[h].verb = "emptyTrash" =>
         \A id \in RemoteIds : rows[id].stored /\ ~rows'[id].stored =>
             uid[TRASH][rows[id].msg] = 0]_vars

\* A request moves or expunges the message its row was stored for, never
\* another one that happens to carry the same UID in another folder.
ActsOnItsOwnMessage ==
    [][\A h \in Handlers : RemoteMove(h) \/ RemotePurge(h) =>
         \A m \in Messages :
             (rows[act[h].id].stored /\ \E f \in Folders : uid'[f][m] # uid[f][m])
                 => rows[act[h].id].msg = m]_vars
=============================================================================
