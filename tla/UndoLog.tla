------------------------------ MODULE UndoLog ------------------------------
(***************************************************************************)
(* One message with a Message-ID, the actions recorded about it in         *)
(* ai_actions, and the undo of an action: the claim made in one            *)
(* transaction, the inverse verb run remote first, and the claim retracted *)
(* when the inverse fails.  A move is one step here (its commands are      *)
(* ImapSession's and MailboxSync's), but what its handler hears of it and  *)
(* what the server does are two things.                                    *)
(*                                                                         *)
(* The transaction is deferred: it reads a snapshot, and its INSERT fails  *)
(* when anyone else committed since (SQLite cannot upgrade an old          *)
(* snapshot).  Nothing else keeps two undos of one action apart.           *)
(***************************************************************************)
EXTENDS Integers, FiniteSets

CONSTANTS
    Handlers,       \* requests the backend may be working on at one time
    Verbs,          \* the verbs in use
    MaxActions,     \* bound on the audit rows
    Budgets         \* bounds on how often each kind of event in Events happens: a
                    \* behaviour keeps within one of them

INBOX   == "INBOX"
ARCHIVE == "archive"
TRASH   == "trash"
Folders == {INBOX, ARCHIVE, TRASH}
Flags   == {"archived", "deleted", "pinned"}
AllVerbs == {"archive", "unarchive", "trash", "restore", "pin", "unpin"}
Events  == {"act", "undo", "beside", "fail", "astray", "disk", "crash", "expire"}
Actions == 1..MaxActions

ASSUME UndoAssumption ==
    /\ Verbs \subseteq AllVerbs
    /\ MaxActions \in Nat
    /\ Budgets \subseteq [Events -> Nat]

VARIABLES
    copies,     \* copies[f]: how many copies of the message folder f of the server holds
    adrift,     \* adrift[verb]: moves nobody waits for that the server may still carry out
    flags,      \* the flags of its row
    logged,     \* the audit rows so far are 1..logged
    log,        \* log[a]: the verb, whether it expired, and what it replaced
    undos,      \* the undo rows of ai_actions: the action, the request that wrote it
    inverted,   \* the actions whose inverse has run, remotely and locally
    answers,    \* answers[a]: how many undos of a answered 200
    req,        \* req[h]: a request in flight
    spent       \* how often each kind of event has happened

mail == <<copies, adrift, flags>>
past == <<logged, log>>
vars == <<copies, adrift, flags, logged, log, undos, inverted, answers, req, spent>>

-----------------------------------------------------------------------------
(* Verbs *)

OnServer(verb) == verb \notin {"pin", "unpin"}

Source(verb) == CASE verb \in {"archive", "trash"} -> INBOX
                  [] verb = "unarchive"            -> ARCHIVE
                  [] OTHER                         -> TRASH
Target(verb) == CASE verb = "archive" -> ARCHIVE
                  [] verb = "trash"   -> TRASH
                  [] OTHER            -> INBOX

Local(verb, fs) == CASE verb = "archive"   -> fs \cup {"archived"}
                     [] verb = "unarchive" -> fs \ {"archived"}
                     [] verb = "trash"     -> fs \cup {"deleted"}
                     [] verb = "restore"   -> fs \ {"deleted"}
                     [] verb = "pin"       -> fs \cup {"pinned"}
                     [] OTHER              -> fs \ {"pinned"}

\* Mutant: an action is undone by running it again.
InverseSame(verb) == verb

Inverse(verb) == CASE verb = "archive"   -> "unarchive"
                   [] verb = "unarchive" -> "archive"
                   [] verb = "trash"     -> "restore"
                   [] verb = "restore"   -> "trash"
                   [] verb = "pin"       -> "unpin"
                   [] OTHER              -> "pin"

\* The message in one folder alone; a move of it; and a move that got no further than
\* its COPY (a server without MOVE refused the STORE or the EXPUNGE, or hung up).
Only(f) == [g \in Folders |-> IF g = f THEN 1 ELSE 0]
Moved(verb)  == [copies EXCEPT ![Source(verb)] = @ - 1, ![Target(verb)] = @ + 1]
Copied(verb) == [copies EXCEPT ![Target(verb)] = @ + 1]
Found(verb)  == copies[Source(verb)] > 0
SentAdrift(verb) == adrift' = [adrift EXCEPT ![verb] = @ + 1]

\* The verbs the list that shows the message offers.
Offered(verb) == CASE verb \in {"archive", "trash"} -> flags \cap {"archived", "deleted"} = {}
                   [] verb = "unarchive" -> "archived" \in flags /\ "deleted" \notin flags
                   [] verb = "restore"   -> "deleted" \in flags
                   [] verb = "pin"       -> "pinned" \notin flags
                   [] OTHER              -> "pinned" \in flags

-----------------------------------------------------------------------------

NoAction == 0
Idle     == [phase |-> "idle", verb |-> "archive", action |-> NoAction, fresh |-> FALSE,
             from |-> Only(INBOX), old |-> {}]
Places   == [Folders -> Nat]
Phases   == {"idle", "remote", "local", "audit",
             "read", "claim", "undoRemote", "undoLocal", "retract"}
Requests == [phase : Phases, verb : AllVerbs, action : {NoAction} \cup Actions, fresh : BOOLEAN,
             from : Places, old : SUBSET Flags]
Records  == [verb : AllVerbs, expired : BOOLEAN, from : Places, old : SUBSET Flags]

Undone(a) == \E u \in undos : u.of = a

Spend(events) ==
    /\ spent' = [e \in Events |-> IF e \in events THEN spent[e] + 1 ELSE spent[e]]
    /\ \E budget \in Budgets : \A e \in Events : spent'[e] <= budget[e]

\* A request that comes while the backend works on another one counts as "beside".
Beside(h) == IF \E k \in Handlers \ {h} : req[k].phase # "idle" THEN {"beside"} ELSE {}

\* h moves on to r; with a commit, no snapshot read before it can be upgraded.
Becomes(h, r)  == req' = [req EXCEPT ![h] = r]
Commits(h, r)  == req' = [k \in Handlers |-> IF k = h THEN r ELSE [req[k] EXCEPT !.fresh = FALSE]]

Init ==
    /\ copies = Only(INBOX) /\ adrift = [verb \in AllVerbs |-> 0] /\ flags = {}
    /\ logged = 0
    /\ log = [a \in Actions |-> [verb |-> "archive", expired |-> FALSE, from |-> Only(INBOX), old |-> {}]]
    /\ undos = {} /\ inverted = {}
    /\ answers = [a \in Actions |-> 0]
    /\ req = [h \in Handlers |-> Idle]
    /\ spent = [e \in Events |-> 0]

-----------------------------------------------------------------------------
(* An action: run_message_action and pin *)

Request(h) ==
    /\ req[h].phase = "idle"
    /\ \E verb \in Verbs :
         /\ Offered(verb)
         /\ Becomes(h, [Idle EXCEPT !.phase = IF OnServer(verb) THEN "remote" ELSE "local",
                                    !.verb = verb, !.from = copies])
    /\ Spend({"act"} \cup Beside(h))
    /\ UNCHANGED <<mail, past, undos, inverted, answers>>

\* The verb on the server, before anything is written here: it moves the message; or
\* the message is not there, or the move is refused or not asked for, and the request
\* ends; or the request ends with an error although the server carries the move out.
ActRemote(h) ==
    LET r == req[h]
    IN  /\ r.phase = "remote"
        /\ \/ /\ Found(r.verb)
              /\ copies' = Moved(r.verb)
              /\ Becomes(h, [r EXCEPT !.phase = "local", !.from = copies])
              /\ UNCHANGED <<adrift, spent>>
           \/ /\ (~Found(r.verb) /\ UNCHANGED spent) \/ Spend({"fail"})
              /\ Becomes(h, Idle)
              /\ UNCHANGED <<copies, adrift>>
           \/ /\ Spend({"astray"}) /\ SentAdrift(r.verb)
              /\ Becomes(h, Idle)
              /\ UNCHANGED copies
        /\ UNCHANGED <<flags, past, undos, inverted, answers>>

\* The flag of the row, and then the audit row: two statements.
ActLocal(h) ==
    LET r == req[h]
    IN  /\ r.phase = "local"
        /\ flags' = Local(r.verb, flags)
        /\ Commits(h, [r EXCEPT !.phase = "audit", !.old = flags])
        /\ UNCHANGED <<copies, adrift, past, undos, inverted, answers, spent>>

ActAudit(h) ==
    LET r == req[h]
    IN  /\ r.phase = "audit"
        /\ logged < MaxActions
        /\ logged' = logged + 1
        /\ log' = [log EXCEPT ![logged + 1] =
                     [verb |-> r.verb, expired |-> FALSE, from |-> r.from, old |-> r.old]]
        /\ Commits(h, Idle)
        /\ UNCHANGED <<mail, undos, inverted, answers, spent>>

-----------------------------------------------------------------------------
(* An undo: undo_one *)

RequestUndo(h) ==
    /\ req[h].phase = "idle"
    /\ Spend({"undo"} \cup Beside(h))
    /\ \E a \in 1..logged : Becomes(h, [Idle EXCEPT !.phase = "read", !.action = a])
    /\ UNCHANGED <<mail, past, undos, inverted, answers>>

\* Mutant: the claim does not look for an earlier undo of the action.
UndoReadBlindly(h) ==
    LET r == req[h]
    IN  /\ r.phase = "read"
        /\ Becomes(h, IF log[r.action].expired THEN Idle
                      ELSE [r EXCEPT !.phase = "claim", !.fresh = TRUE])
        /\ UNCHANGED <<mail, past, undos, inverted, answers, spent>>

\* find_action, the expiry and is_undone, from one snapshot.
UndoRead(h) ==
    LET r == req[h]
    IN  /\ r.phase = "read"
        /\ Becomes(h, IF log[r.action].expired \/ Undone(r.action) THEN Idle
                      ELSE [r EXCEPT !.phase = "claim", !.fresh = TRUE])
        /\ UNCHANGED <<mail, past, undos, inverted, answers, spent>>

\* Mutant: the claim is checked and written in two transactions.
UndoClaimSplit(h) ==
    LET r    == req[h]
        verb == Inverse(log[r.action].verb)
    IN  /\ r.phase = "claim"
        /\ undos' = undos \cup {[of |-> r.action, by |-> h]}
        /\ Commits(h, [r EXCEPT !.phase = IF OnServer(verb) THEN "undoRemote" ELSE "undoLocal",
                                !.verb = verb, !.fresh = FALSE])
        /\ UNCHANGED <<mail, past, inverted, answers, spent>>

\* Mutant: the undo row does not say which action it undoes.
UndoClaimUnlinked(h) ==
    LET r    == req[h]
        verb == Inverse(log[r.action].verb)
    IN  /\ r.phase = "claim" /\ r.fresh
        /\ undos' = undos \cup {[of |-> NoAction, by |-> h]}
        /\ Commits(h, [r EXCEPT !.phase = IF OnServer(verb) THEN "undoRemote" ELSE "undoLocal",
                                !.verb = verb, !.fresh = FALSE])
        /\ UNCHANGED <<mail, past, inverted, answers, spent>>

\* record_undo and COMMIT, unless the snapshot is no longer the newest.
UndoClaim(h) ==
    LET r    == req[h]
        verb == Inverse(log[r.action].verb)
    IN  /\ r.phase = "claim"
        /\ \/ /\ r.fresh
              /\ undos' = undos \cup {[of |-> r.action, by |-> h]}
              /\ Commits(h, [r EXCEPT !.phase = IF OnServer(verb) THEN "undoRemote" ELSE "undoLocal",
                                      !.verb = verb, !.fresh = FALSE])
           \/ ~r.fresh /\ Becomes(h, Idle) /\ UNCHANGED undos
        /\ UNCHANGED <<mail, past, inverted, answers, spent>>

\* Mutant: a failed inverse leaves the claim where it is.
UndoRemoteKeepsClaim(h) ==
    LET r == req[h]
    IN  /\ r.phase = "undoRemote"
        /\ \/ /\ Found(r.verb)
              /\ copies' = Moved(r.verb)
              /\ Becomes(h, [r EXCEPT !.phase = "undoLocal"])
              /\ UNCHANGED <<adrift, spent>>
           \/ /\ (~Found(r.verb) /\ UNCHANGED spent) \/ Spend({"fail"})
              /\ Becomes(h, Idle)
              /\ UNCHANGED <<copies, adrift>>
           \/ /\ Spend({"astray"}) /\ SentAdrift(r.verb)
              /\ Becomes(h, Idle)
              /\ UNCHANGED copies
        /\ UNCHANGED <<flags, past, undos, inverted, answers>>

\* Mutant: a failed remote inverse is followed by the local one all the same.
UndoRemoteIgnored(h) ==
    LET r == req[h]
    IN  /\ r.phase = "undoRemote"
        /\ \/ /\ Found(r.verb)
              /\ copies' = Moved(r.verb)
              /\ Becomes(h, [r EXCEPT !.phase = "undoLocal"])
              /\ UNCHANGED <<adrift, spent>>
           \/ /\ (~Found(r.verb) /\ UNCHANGED spent) \/ Spend({"fail"})
              /\ Becomes(h, [r EXCEPT !.phase = "undoLocal"])
              /\ UNCHANGED <<copies, adrift>>
           \/ /\ Spend({"astray"}) /\ SentAdrift(r.verb)
              /\ Becomes(h, [r EXCEPT !.phase = "undoLocal"])
              /\ UNCHANGED copies
        /\ UNCHANGED <<flags, past, undos, inverted, answers>>

\* The inverse on the server, with the same outcomes; any error sends it to "retract".
UndoRemote(h) ==
    LET r == req[h]
    IN  /\ r.phase = "undoRemote"
        /\ \/ /\ Found(r.verb)
              /\ copies' = Moved(r.verb)
              /\ Becomes(h, [r EXCEPT !.phase = "undoLocal"])
              /\ UNCHANGED <<adrift, spent>>
           \/ /\ (~Found(r.verb) /\ UNCHANGED spent) \/ Spend({"fail"})
              /\ Becomes(h, [r EXCEPT !.phase = "retract"])
              /\ UNCHANGED <<copies, adrift>>
           \/ /\ Spend({"astray"}) /\ SentAdrift(r.verb)
              /\ Becomes(h, [r EXCEPT !.phase = "retract"])
              /\ UNCHANGED copies
        /\ UNCHANGED <<flags, past, undos, inverted, answers>>

\* The inverse on the row, and the answer 200.
UndoLocal(h) ==
    LET r == req[h]
    IN  /\ r.phase = "undoLocal"
        /\ \/ /\ flags' = Local(r.verb, flags)
              /\ inverted' = inverted \cup {r.action}
              /\ answers' = [answers EXCEPT ![r.action] = @ + 1]
              /\ Commits(h, Idle)
              /\ UNCHANGED spent
           \/ /\ Spend({"disk"})
              /\ Becomes(h, [r EXCEPT !.phase = "retract"])
              /\ UNCHANGED <<flags, inverted, answers>>
        /\ UNCHANGED <<copies, adrift, past, undos>>

\* delete_action_row; its own failure is ignored.
Retract(h) ==
    LET r == req[h]
    IN  /\ r.phase = "retract"
        /\ \/ /\ undos' = undos \ {[of |-> r.action, by |-> h]}
              /\ Commits(h, Idle)
              /\ UNCHANGED spent
           \/ Spend({"disk"}) /\ Becomes(h, Idle) /\ UNCHANGED undos
        /\ UNCHANGED <<mail, past, inverted, answers>>

-----------------------------------------------------------------------------
(* Everything else *)

\* A sync round or another request commits something.
OthersCommit ==
    /\ \E h \in Handlers : req[h].fresh
    /\ req' = [h \in Handlers |-> [req[h] EXCEPT !.fresh = FALSE]]
    /\ UNCHANGED <<mail, past, undos, inverted, answers, spent>>

\* 30 days pass.
Expire(a) ==
    /\ a <= logged /\ ~log[a].expired
    /\ Spend({"expire"})
    /\ log' = [log EXCEPT ![a].expired = TRUE]
    /\ UNCHANGED <<mail, logged, undos, inverted, answers, req>>

\* A write that fails.
ActFails(h) ==
    /\ req[h].phase \in {"local", "audit"}
    /\ Spend({"disk"})
    /\ Becomes(h, Idle)
    /\ UNCHANGED <<mail, past, undos, inverted, answers>>

\* A handler dropped at its await, the end of the process.  What runs on the server for
\* it, on a blocking thread of its own or on the wire, may go on.
Dies(h) ==
    /\ req[h].phase # "idle"
    /\ Spend({"crash"})
    /\ IF req[h].phase \in {"remote", "undoRemote"} THEN SentAdrift(req[h].verb) ELSE UNCHANGED adrift
    /\ Becomes(h, Idle)
    /\ UNCHANGED <<copies, flags, past, undos, inverted, answers>>

\* The server carries out a move nobody waits for, wholly or its COPY alone.
Drifts(verb) ==
    /\ adrift[verb] > 0 /\ Found(verb)
    /\ adrift' = [adrift EXCEPT ![verb] = @ - 1]
    /\ copies' \in {Moved(verb), Copied(verb)}
    /\ UNCHANGED <<flags, past, undos, inverted, answers, req, spent>>

Next ==
    \/ \E h \in Handlers :
         \/ Request(h) \/ ActRemote(h) \/ ActLocal(h) \/ ActAudit(h)
         \/ RequestUndo(h) \/ UndoRead(h) \/ UndoClaim(h) \/ UndoRemote(h) \/ UndoLocal(h)
         \/ Retract(h) \/ ActFails(h) \/ Dies(h)
    \/ \E a \in Actions : Expire(a)
    \/ \E verb \in AllVerbs : Drifts(verb)
    \/ OthersCommit

Spec == Init /\ [][Next]_vars

-----------------------------------------------------------------------------
(* Properties *)

TypeOK ==
    /\ copies \in Places /\ adrift \in [AllVerbs -> Nat] /\ flags \subseteq Flags
    /\ logged \in 0..MaxActions
    /\ log \in [Actions -> Records]
    /\ undos \subseteq [of : Actions, by : Handlers]
    /\ inverted \subseteq Actions
    /\ answers \in [Actions -> Nat]
    /\ req \in [Handlers -> Requests]
    /\ spent \in [Events -> Nat]

\* An action has one undo row at most, however many undos of it run at once
\* ("undo claims single-use inside one transaction").
SingleClaim == \A u, v \in undos : u.of = v.of => u = v

\* An undo answers 200 once per action at most, and only with the claim kept.
UndoneOnce == \A a \in Actions : /\ answers[a] <= 1
                                 /\ answers[a] = 1 => Undone(a)

\* An action reads as undone only when its inverse ran or is still being run
\* ("a failed undo must not read as done").
UndoneMeansInverted ==
    \A u \in undos :
        \/ u.of \in inverted
        \/ req[u.by].action = u.of /\ req[u.by].phase \in {"undoRemote", "undoLocal", "retract"}

\* ... unless a statement failed or the handler was dropped on the way (scenario
\* undo_dropped).
Calm == spent["disk"] = 0 /\ spent["crash"] = 0

UndoneUnlessCut == Calm => UndoneMeansInverted

\* ... if the requests came one at a time, and no move went astray: every move that was
\* reported as failed left the mail where it was.
OneAtATime == spent["beside"] = 0
Heard      == spent["astray"] = 0

\* At rest, a row is in the inbox exactly when its message is in the INBOX and nowhere
\* else ("a local success must not hide a failed remote write"), if the requests came
\* one at a time, none was cut off and no move went astray.
Quiet == \A h \in Handlers : req[h].phase = "idle"
Shown == flags \cap {"archived", "deleted"} = {}

ShownIffInInbox == Calm /\ OneAtATime /\ Heard /\ Quiet => (Shown <=> copies = Only(INBOX))

\* Without the last condition it fails (scenario undo_astray): the undo of an archive
\* whose answer is lost leaves the row archived, and the mail back in the INBOX.
HiddenMeansMoved == Calm /\ OneAtATime /\ Quiet /\ ~Shown => copies[INBOX] = 0

\* The undo of an action puts the message back where the action found it, on the
\* server and in the row, and touches no other flag, when the requests come one at
\* a time, none is cut off and no move goes astray.
FlagOf(verb) == CASE verb \in {"archive", "unarchive"} -> "archived"
                  [] verb \in {"trash", "restore"}     -> "deleted"
                  [] OTHER                             -> "pinned"
UndoRestores ==
    [][\A h \in Handlers :
         LET a == req[h].action
             own == {FlagOf(log[a].verb)}
         IN  Calm /\ OneAtATime /\ Heard /\ UndoLocal(h) /\ a \in inverted' \ inverted
               => /\ flags' = (log[a].old \cap own) \cup (flags \ own)
                  /\ OnServer(log[a].verb) => copies = log[a].from]_vars
=============================================================================
