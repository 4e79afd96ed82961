----------------------------- MODULE ImapSession -----------------------------
(***************************************************************************)
(* One ImapProvider, its connection and the server it talks to: every call *)
(* of the provider as the commands it sends, how execute, append and idle  *)
(* match what the server answers, which failures keep the session and      *)
(* which drop it, and what the provider remembers between two calls.       *)
(*                                                                         *)
(* A call is a list of phases still to do; most phases are one command.    *)
(* A UID is a position in the sequence of its folder, so the same number   *)
(* means another mail in another folder. The command names the operation   *)
(* it was sent for, a ghost the server does not use.                       *)
(***************************************************************************)
EXTENDS Naturals, FiniteSets, SequencesExt

CONSTANTS
    Mails,          \* mails with a Message-ID of their own
    LocalIds,       \* those the store knows by the UID they had in INBOX
    StoredAt,       \* StoredAt[m]: that UID
    Subjects,       \* the mails that the calls and the other client touch
    Outgoing,       \* the message append_to_sent files
    Ops,            \* the provider calls an instance makes
    Servers,        \* the mailboxes a server may hold at the start and what it advertises
    Marked,         \* the mails another client has flagged \Deleted
    MaxCalls,       \* bound on the calls
    MaxFaults       \* bound on refusals, empty searches, oversize literals, ...

INBOX == "INBOX"
Nowhere == "nowhere"
Gone == "gone"          \* the UID holds nothing any more
NotAsked == {"not asked"}

Operations == {"probe", "negotiate", "pull", "members", "raw", "seen", "archive", "unarchive", "trash",
               "restore", "delete", "empty", "folders", "file", "append", "sent"}

ASSUME SessionAssumption ==
    /\ LocalIds \subseteq Mails /\ Subjects \subseteq Mails /\ Outgoing \notin Mails
    /\ Ops \subseteq Operations /\ MaxCalls \in Nat /\ MaxFaults \in Nat

\* What a server holds at the start is Mails, each in one folder or more.
ASSUME ServersAssumption ==
    /\ Outgoing # Gone /\ Gone \notin Mails
    /\ \A server \in Servers :
        /\ Nowhere \notin DOMAIN server.box
        /\ server.box \in [DOMAIN server.box -> Seq(Mails)]
        /\ \A m \in Mails : \E f \in DOMAIN server.box : m \in ToSet(server.box[f])

VARIABLES
    mbox,       \* mbox[f][uid]: the folders of the server
    flagged,    \* the <<folder, uid>> flagged \Deleted
    offers,     \* what the server advertises
    srv,        \* the server's side of the connection
    wire,       \* what it answered and the client has not read
    late,       \* commands of a dropped connection the server still holds
    session,    \* the provider: client, selected, roles, capabilities
    call,       \* the call in progress
    outcome,    \* what the last call reported
    forgone,    \* ghost: mails purged on request or removed by another client
    overtaken,  \* ghost: mails another client or a dropped connection touched
    calls, faults

held == <<mbox, flagged, offers, forgone, overtaken>>
link == <<srv, late>>
vars == <<held, link, wire, session, call, outcome, calls, faults>>

P(do, in) == [do |-> do, in |-> in]
\* Mutant: the original goes first, the copy is made last.
CopiesLast(target) == <<P("caps", Nowhere), P("plus", Nowhere), P("flag", Nowhere),
                        P("expunge", Nowhere), P("copy", target)>>

Fallback(target) == <<P("caps", Nowhere), P("plus", Nowhere), P("copy", target),
                      P("flag", Nowhere), P("expunge", Nowhere)>>
Moves(target)    == <<P("search", Nowhere), P("caps", Nowhere), P("move", target)>>
Role(folder)     == <<P("list", Nowhere), P("role", folder)>>
ReadsIn(folder)  == <<P("look", folder), P("search", Nowhere), P("body", Nowhere)>>
MembersOf(folder) == <<P("look", folder), P("all", Nowhere), P("scan", Nowhere)>>
Forget           == <<P("forget", Nowhere)>>

\* What a call of the provider does, command by command.
Program(op) ==
    CASE op = "probe"     -> <<P("caps", Nowhere), P("relist", Nowhere), P("create", "Archive"), P("select", INBOX)>>
      [] op = "negotiate" -> Forget \o <<P("caps", Nowhere), P("relist", Nowhere), P("create", "Archive")>>
      [] op = "pull"      -> <<P("select", INBOX), P("caps", Nowhere), P("idle", Nowhere),
                               P("select", INBOX), P("headers", Nowhere)>>
      [] op = "members"   -> <<P("list", Nowhere)>> \o MembersOf(INBOX) \o MembersOf("Archive") \o MembersOf("Trash")
      [] op = "raw"       -> <<P("inbox", INBOX), P("hint", Nowhere), P("inbox", INBOX), P("search", Nowhere),
                               P("body", Nowhere), P("list", Nowhere)>> \o ReadsIn("Archive") \o ReadsIn("Trash")
      [] op = "seen"      -> <<P("inbox", INBOX), P("search", Nowhere), P("seen", Nowhere)>>
      [] op = "archive"   -> Role("Archive") \o <<P("inbox", INBOX)>> \o Moves("Archive")
      [] op = "unarchive" -> Role("Archive") \o <<P("select", "Archive")>> \o Moves(INBOX) \o Forget
      [] op = "trash"     -> Role("Trash") \o <<P("inbox", INBOX)>> \o Moves("Trash")
      [] op = "restore"   -> Role("Trash") \o <<P("select", "Trash")>> \o Moves(INBOX) \o Forget
      [] op = "delete"    -> Role("Trash") \o <<P("select", "Trash"), P("search", Nowhere), P("caps", Nowhere),
                               P("plus", Nowhere), P("flag", Nowhere), P("expunge", Nowhere)>> \o Forget
      [] op = "empty"     -> Role("Trash") \o <<P("select", "Trash"), P("caps", Nowhere), P("plus", Nowhere),
                               P("all", Nowhere), P("flag", Nowhere), P("expunge", Nowhere)>> \o Forget
      [] op = "folders"   -> <<P("relist", Nowhere)>>
      [] op = "file"      -> <<P("inbox", INBOX)>> \o Moves("Work")
      [] op = "append"    -> Role("Sent") \o <<P("append", "Sent")>>
      [] op = "sent"      -> Role("Sent") \o <<P("peek", "Sent"), P("headers", Nowhere)>>

Destination == [archive |-> "Archive", unarchive |-> INBOX, trash |-> "Trash", restore |-> INBOX, file |-> "Work"]
Login == <<P("connect", Nowhere), P("auth", Nowhere), P("caps", Nowhere), P("id", Nowhere), P("ready", Nowhere)>>

Verb(do) ==
    CASE do = "auth" -> "AUTHENTICATE"
      [] do = "login" -> "LOGIN"
      [] do = "caps" -> "CAPABILITY"
      [] do = "id" -> "ID"
      [] do \in {"list", "relist"} -> "LIST"
      [] do \in {"role", "create", "make"} -> "CREATE"
      [] do \in {"select", "inbox", "look", "peek"} -> "SELECT"
      [] do \in {"search", "all"} -> "SEARCH"
      [] do \in {"scan", "headers"} -> "FETCH"
      [] do \in {"hint", "body"} -> "BODY"
      [] do = "seen" -> "SEEN"
      [] do = "move" -> "MOVE"
      [] do \in {"copy", "recopy"} -> "COPY"
      [] do = "flag" -> "STORE"
      [] do = "expunge" -> "EXPUNGE"
      [] do = "append" -> "APPEND"
      [] do = "literal" -> "LITERAL"
      [] do = "idle" -> "IDLE"
      [] OTHER -> "DONE"
Writes == {"MOVE", "COPY", "STORE", "EXPUNGE", "CREATE"}

Closed == [up |-> FALSE, ready |-> FALSE, tag |-> 0, selected |-> Nowhere, roles |-> NotAsked,
           caps |-> NotAsked, refused |-> FALSE, negotiated |-> FALSE]
IdleCall == [op |-> "none", mail |-> Outgoing, todo |-> <<>>, tag |-> 0, got |-> <<>>, uids |-> {}, names |-> {}]
NoOutcome == [op |-> "none", mail |-> Outgoing, result |-> "none", served |-> Outgoing]
Listening == [open |-> Nowhere, idling |-> 0, queue |-> <<>>, up |-> FALSE]

Here(f, m) == {u \in DOMAIN mbox[f] : mbox[f][u] = m}
Live(f)    == {u \in DOMAIN mbox[f] : mbox[f][u] # Gone}
Phase == Head(call.todo)
Rest  == Tail(call.todo)
Fault == faults < MaxFaults /\ faults' = faults + 1

Init ==
    /\ \E server \in Servers : mbox = server.box /\ offers = server.offers
    /\ flagged = {at \in {INBOX, "Trash"} \X (1..Cardinality(Mails)) :
                    at[1] \in DOMAIN mbox /\ at[2] \in DOMAIN mbox[at[1]] /\ mbox[at[1]][at[2]] \in Marked}
    /\ srv = Listening /\ wire = <<>> /\ late = {}
    /\ session = Closed /\ call = IdleCall /\ outcome = NoOutcome
    /\ forgone = {} /\ overtaken = {} /\ calls = 0 /\ faults = 0

-----------------------------------------------------------------------------
(* The calls of the provider.                                              *)

\* A call starts on the session there is, or logs in first.
Begin(op, m, hints) ==
    /\ call.op = "none" /\ calls < MaxCalls /\ calls' = calls + 1
    /\ ~(op = "negotiate" /\ session.negotiated)
    /\ call' = [IdleCall EXCEPT !.op = op, !.mail = IF op = "append" THEN Outgoing ELSE m, !.uids = hints,
                                !.todo = (IF session.ready THEN <<>> ELSE Login) \o Program(op)]
    /\ outcome' = NoOutcome
    /\ UNCHANGED <<held, link, wire, session, faults>>

\* Closing the socket discards what was not read.
Unread(rest) == wire' = IF session'.up THEN rest ELSE <<>>

Continues(todo) == call' = [call EXCEPT !.todo = todo, !.tag = 0, !.got = <<>>]

Reports(result, served) ==
    /\ call' = IdleCall
    /\ outcome' = [op |-> call.op, mail |-> call.mail, result |-> result, served |-> served]

\* The socket closes; what the server has received it may still carry out.
Drops ==
    /\ session' = Closed /\ srv' = Listening
    /\ late' = late \cup {[open |-> srv.open, cmd |-> cmd] : cmd \in {c \in ToSet(srv.queue) : c.verb \in Writes}}

\* The phases after this one from the next folder on.
NextFolder(todo) ==
    LET at == {i \in DOMAIN todo : todo[i].do \in {"list", "look"}}
    IN IF at = {} THEN <<>> ELSE SubSeq(todo, Min(at), Len(todo))

\* A failure that the call itself answers with something else to do. Of the
\* login only AUTHENTICATE has another way.
Recovery(kind) ==
    IF ~session.ready
    THEN IF Phase.do = "auth" /\ kind # "auth" THEN {<<P("login", Nowhere)>> \o Rest} ELSE {}
    ELSE
    CASE Phase.do = "move" /\ kind = "verdict" -> {Fallback(Phase.in) \o Rest}
      [] Phase.do = "caps" /\ kind = "verdict" /\ Rest # <<>> /\ Head(Rest).do = "move" /\ call.op # "file" ->
            {Fallback(Head(Rest).in) \o Tail(Rest)}
      [] Phase.do = "copy" /\ kind = "verdict" /\ call.op = "file" ->
            {<<P("make", Phase.in), P("recopy", Phase.in)>> \o Rest}
      [] Phase.do = "create" /\ kind = "verdict" -> {Rest}
      [] Phase.do = "caps" /\ call.op = "pull" -> {Tail(Tail(Rest))}
      [] Phase.do \in {"idle", "wait", "done"} -> {Rest}
      [] Phase.do = "hint" /\ kind = "gone" -> {Rest}
      [] call.op = "raw" /\ kind = "gone" /\ call.mail \notin LocalIds /\ NextFolder(Rest) # <<>> -> {NextFolder(Rest)}
      [] call.op = "members" /\ Phase.do # "list" /\ kind # "dead" /\ NextFolder(Rest) # <<>> -> {NextFolder(Rest)}
      [] OTHER -> {}

\* with_client: a dead or rejected session is dropped, a missing mail makes
\* the folder selected unknown, any other verdict keeps everything.
DropsSession(kind) == kind \in {"dead", "auth"} \/ ~session.ready

Fails(failure) ==
    LET kind == IF call.op = "file" /\ Phase.do \in {"search", "scan"} THEN "gone" ELSE failure
    IN \/ /\ Recovery(kind) # {}
          /\ Continues(CHOOSE todo \in Recovery(kind) : TRUE)
          /\ session' = [session EXCEPT !.selected = IF kind = "gone" \/ call.op = "members" THEN Nowhere ELSE @]
          /\ UNCHANGED <<link, outcome>>
       \/ /\ Recovery(kind) = {}
          /\ Reports(kind, Outgoing)
          /\ IF DropsSession(kind) THEN Drops
             ELSE /\ session' = [session EXCEPT !.selected = IF kind = "gone" \/ call.op = "members" THEN Nowhere ELSE @,
                                                !.refused = @ \/ Phase = P("role", "Archive")]
                  /\ UNCHANGED link

Enough(result, served) ==
    /\ Reports(result, served)
    /\ session' = IF call.op \in {"probe", "negotiate"}
                  THEN [session EXCEPT !.roles = call.names, !.negotiated = TRUE] ELSE session
    /\ UNCHANGED link

-----------------------------------------------------------------------------
(* Phases the provider decides by itself.                                  *)

InboxOpen == session.selected = INBOX

Skipped(p) ==
    CASE p.do = "caps"   -> session.caps # NotAsked
      [] p.do = "list"   -> session.roles # NotAsked
      [] p.do = "role"   -> p.in \in session.roles
      [] p.do = "create" -> p.in \in call.names
      [] p.do = "inbox"  -> InboxOpen
      [] p.do = "id"     -> "ID" \notin session.caps
      [] p.do = "plus"   -> "UIDPLUS" \in session.caps
      [] p.do = "search" -> call.mail \in LocalIds
      [] p.do = "hint"   -> call.uids = {} \/ call.mail \in LocalIds
      [] p.do \in {"forget", "ready"} -> TRUE
      [] OTHER -> FALSE

\* The folder is not one the server has, the capability is missing: no command.
Without(p) ==
    \/ p.do = "look" /\ p.in \notin session.roles
    \/ p.do = "role" /\ (p.in # "Archive" \/ session.refused)
    \/ p.do = "plus"
    \/ p.do = "move" /\ "MOVE" \notin session.caps
    \/ p.do = "idle" /\ "IDLE" \notin session.caps

Decide ==
    /\ call.op # "none" /\ call.tag = 0 /\ call.todo # <<>>
    /\ UNCHANGED <<held, calls, faults>>
    /\ \/ /\ Skipped(Phase)
          /\ call' = [call EXCEPT !.todo = Rest, !.uids = IF Phase.do = "search" THEN {StoredAt[call.mail]} ELSE @]
          /\ session' = [session EXCEPT !.selected = IF Phase.do = "forget" THEN Nowhere ELSE @,
                                        !.ready = @ \/ Phase.do = "ready"]
          /\ UNCHANGED <<link, outcome>>
       \/ /\ ~Skipped(Phase) /\ Without(Phase)
          /\ CASE Phase.do = "idle" -> Continues(Tail(Rest)) /\ UNCHANGED <<link, session, outcome>>
               [] Phase.do = "look" -> /\ IF NextFolder(Rest) # <<>> THEN Continues(NextFolder(Rest)) /\ UNCHANGED outcome
                                          ELSE Reports(IF call.op = "raw" THEN "gone" ELSE "ok", Outgoing)
                                       /\ UNCHANGED <<link, session>>
               [] Phase.do = "plus" /\ call.op \in {"delete", "empty"} ->
                     /\ Reports("verdict", Outgoing) /\ session' = [session EXCEPT !.selected = Nowhere]
                     /\ UNCHANGED link
               [] OTHER -> Fails("verdict")
    /\ Unread(wire)

\* The last phase is done.
Return ==
    /\ call.op # "none" /\ call.tag = 0 /\ call.todo = <<>>
    /\ Enough("ok", Outgoing)
    /\ UNCHANGED <<held, wire, calls, faults>>

Connect ==
    /\ call.op # "none" /\ call.todo # <<>> /\ Phase.do = "connect"
    /\ \/ /\ session' = [Closed EXCEPT !.up = TRUE] /\ srv' = [Listening EXCEPT !.up = TRUE]
          /\ Continues(Rest) /\ UNCHANGED <<outcome, late, faults>>
       \/ Fault /\ Reports("dead", Outgoing) /\ Drops
    /\ UNCHANGED <<held, wire, calls>>

\* One command under a freshly minted tag.
Send ==
    /\ call.op # "none" /\ call.tag = 0 /\ call.todo # <<>>
    /\ Phase.do # "connect" /\ ~Skipped(Phase) /\ ~Without(Phase)
    /\ session' = [session EXCEPT !.tag = @ + 1]
    /\ call' = [call EXCEPT !.tag = session.tag + 1]
    /\ srv' = [srv EXCEPT !.queue = Append(@,
                  [tag |-> session.tag + 1, verb |-> Verb(Phase.do), folder |-> Phase.in, phase |-> Phase.do,
                   uids |-> call.uids, op |-> call.op, mail |-> call.mail])]
    /\ UNCHANGED <<held, wire, late, outcome, calls, faults>>

-----------------------------------------------------------------------------
(* What the server answers, and how a command reads it.                    *)

Lines(verb)   == {i \in DOMAIN call.got : call.got[i].of = verb}
Answers(verb) == UNION {call.got[i].data : i \in Lines(verb)}

\* SEARCH: the first line counts; of a Message-ID its highest UID.
Searched == IF Lines("SEARCH") = {} THEN {} ELSE call.got[Min(Lines("SEARCH"))].data
FoundUid == IF Searched = {} THEN {} ELSE {Max(Searched)}
ScannedUid == {row[1] : row \in {row \in Answers("FETCH") : row[2] = call.mail}}
Bodies == {i \in Lines("BODY") : call.got[i].data # {}}
FirstBody == IF Bodies = {} THEN Gone ELSE CHOOSE m \in call.got[Min(Bodies)].data : TRUE

Resolves(uids) == call' = [call EXCEPT !.todo = Rest, !.tag = 0, !.got = <<>>, !.uids = uids]
Stays          == UNCHANGED <<link, session, outcome>>
Remembers(known) == session' = known /\ UNCHANGED <<link, outcome>>

\* Mutant: any bytes at the stored UID are served.
HintTrusted == FirstBody # Gone

\* The stored UID is believed only when the bytes carry the row's Message-ID.
HintHolds == FirstBody = call.mail

Succeeds ==
    CASE Phase.do \in {"select", "inbox", "look"} -> Continues(Rest) /\ Remembers([session EXCEPT !.selected = Phase.in])
      [] Phase.do = "peek" -> Continues(Rest) /\ Remembers([session EXCEPT !.selected = Nowhere])
      [] Phase.do = "list" -> Continues(Rest) /\ Remembers([session EXCEPT !.roles = Answers("LIST")])
      [] Phase.do = "relist" -> call' = [call EXCEPT !.todo = Rest, !.tag = 0, !.got = <<>>, !.names = Answers("LIST")] /\ Stays
      [] Phase.do = "role" -> Continues(Rest) /\ Remembers([session EXCEPT !.roles = @ \cup {Phase.in}])
      [] Phase.do = "create" -> call' = [call EXCEPT !.todo = Rest, !.tag = 0, !.got = <<>>, !.names = @ \cup {Phase.in}] /\ Stays
      [] Phase.do = "caps" -> /\ Continues(Rest)
                              /\ Remembers([session EXCEPT !.caps = IF Lines("CAPABILITY") = {} THEN NotAsked
                                                                     ELSE Answers("CAPABILITY")])
      [] Phase.do = "search" -> /\ IF FoundUid # {} THEN Resolves(FoundUid)
                                   ELSE Continues(<<P("scan", Nowhere)>> \o Rest)
                                /\ Stays
      [] Phase.do = "scan" /\ call.op # "members" ->
            IF ScannedUid = {} THEN Fails("gone") ELSE Resolves({Min(ScannedUid)}) /\ Stays
      [] Phase.do = "all" ->
            IF call.op = "empty" /\ FoundUid = {}
            THEN /\ Reports("ok", Outgoing) /\ session' = [session EXCEPT !.selected = Nowhere] /\ UNCHANGED link
            ELSE IF Searched = {} THEN Continues(Tail(Rest)) /\ Stays ELSE Resolves(Searched) /\ Stays
      [] Phase.do = "hint" -> IF HintHolds THEN Enough("ok", FirstBody)
                              ELSE IF FirstBody = Gone THEN Fails("gone") ELSE Continues(Rest) /\ Stays
      [] Phase.do = "body" -> IF FirstBody = Gone THEN Fails("gone") ELSE Enough("ok", FirstBody)
      [] OTHER -> Continues(Rest) /\ Stays

\* Only the tag of the command completes it.
Mine(r) == r.tag = call.tag

\* Mutant: a tagged NO is taken for the end of the command like an OK.
CompletesAnyhow(r) == Succeeds

Completes(r) == IF r.status = "ok" THEN Succeeds ELSE Fails(IF r.status = "authfailed" THEN "auth" ELSE "verdict")

Keeps(r) == call' = [call EXCEPT !.got = Append(@, r)] /\ Stays
Ignores  == UNCHANGED call /\ Stays
Replies(verb, phase) ==
    /\ srv' = [srv EXCEPT !.queue = Append(@, [tag |-> call.tag, verb |-> verb, folder |-> Phase.in, phase |-> phase,
                                               uids |-> {}, op |-> call.op, mail |-> call.mail])]
    /\ call' = [call EXCEPT !.todo = IF phase = "blank" THEN @ ELSE <<P(phase, Phase.in)>> \o Rest]
    /\ UNCHANGED <<late, session, outcome>>

Handle(r) ==
    IF r.kind = "huge" THEN Fails("verdict")
    ELSE CASE Phase.do = "append" -> CASE r.kind = "plus"   -> Replies("LITERAL", "literal")
                                       [] r.kind = "tagged" -> Fails("verdict")
                                       [] OTHER             -> Ignores
           [] Phase.do = "idle"   -> CASE r.kind = "plus"   -> call' = [call EXCEPT !.todo = <<P("wait", Nowhere)>> \o Rest] /\ Stays
                                       [] r.kind = "tagged" -> Fails("verdict")
                                       [] OTHER             -> Ignores
           [] Phase.do = "wait"   -> CASE r.kind = "tagged" -> Fails("verdict")
                                       [] r.of = "EXISTS"   -> Replies("DONE", "done")
                                       [] OTHER             -> Ignores
           [] Phase.do \in {"done", "literal"} -> IF r.kind = "tagged" /\ Mine(r) THEN Completes(r) ELSE Ignores
           [] OTHER               -> CASE r.kind = "tagged" /\ Mine(r) -> Completes(r)
                                       [] r.kind = "plus"   -> Replies("BLANK", "blank")
                                       [] r.kind = "row"    -> Keeps(r)
                                       [] OTHER             -> Ignores

Waiting == call.tag # 0

Read ==
    /\ Waiting /\ wire # <<>>
    /\ Handle(Head(wire))
    /\ Unread(Tail(wire))
    /\ UNCHANGED <<held, calls, faults>>

\* Mutant: a read that times out is tried again.
TriedAgain == IF Phase.do = "wait" /\ srv.up THEN Replies("DONE", "done") ELSE Ignores

\* No answer within the read timeout, or the server hung up. The end of an
\* IDLE's budget is its normal end.
Expired == IF Phase.do = "wait" /\ srv.up THEN Replies("DONE", "done") ELSE Fails("dead")

Timeout ==
    /\ Waiting /\ wire = <<>>
    /\ Expired
    /\ UNCHANGED <<held, wire, calls, faults>>

-----------------------------------------------------------------------------
(* The server, its other clients and the network.                          *)

Reply(tag, status) == [kind |-> "tagged", tag |-> tag, of |-> "", data |-> {}, status |-> status]
Row(of, data) == [kind |-> "row", tag |-> 0, of |-> of, data |-> data, status |-> "ok"]
Plus == [Reply(0, "ok") EXCEPT !.kind = "plus"]
Huge == [Reply(0, "ok") EXCEPT !.kind = "huge"]

Accepts(cmd, open) ==
    CASE cmd.verb = "SELECT" \/ cmd.verb = "APPEND" -> cmd.folder \in DOMAIN mbox
      [] cmd.verb = "CREATE" -> cmd.folder \notin DOMAIN mbox
      [] cmd.verb \in {"MOVE", "COPY"} -> open # Nowhere /\ cmd.folder \in DOMAIN mbox
      [] cmd.verb \in {"SEARCH", "FETCH", "BODY", "SEEN", "STORE", "EXPUNGE"} -> open # Nowhere
      [] OTHER -> TRUE

\* Mutant: the folder-wide EXPUNGE.
ExpungedAll(cmd, open) == {u \in DOMAIN mbox[open] : <<open, u>> \in flagged}

\* UID EXPUNGE removes the named UIDs that carry \Deleted, and no others.
Expunged(cmd, open) == {u \in cmd.uids : <<open, u>> \in flagged}

Carried(cmd, open) == cmd.uids \cap Live(open)
Removed(seq, uids) == [u \in DOMAIN seq |-> IF u \in uids THEN Gone ELSE seq[u]]

Effect(cmd, open) ==
    /\ mbox' = CASE cmd.verb \in {"MOVE", "COPY"} ->
                     [f \in DOMAIN mbox |->
                        (IF f = open /\ cmd.verb = "MOVE" THEN Removed(mbox[f], cmd.uids) ELSE mbox[f])
                        \o (IF f = cmd.folder THEN SetToSeq({mbox[open][u] : u \in Carried(cmd, open)}) ELSE <<>>)]
                 [] cmd.verb = "EXPUNGE" -> [mbox EXCEPT ![open] = Removed(@, Expunged(cmd, open))]
                 [] cmd.verb = "CREATE"  -> [f \in DOMAIN mbox \cup {cmd.folder} |-> IF f \in DOMAIN mbox THEN mbox[f] ELSE <<>>]
                 [] cmd.verb = "LITERAL" -> [mbox EXCEPT ![cmd.folder] = Append(@, cmd.mail)]
                 [] OTHER -> mbox
    /\ flagged' = IF cmd.verb = "STORE" THEN flagged \cup {<<open, u>> : u \in Carried(cmd, open)} ELSE flagged
    /\ forgone' = forgone \cup IF cmd.verb = "EXPUNGE" /\ cmd.op \in {"delete", "empty"} /\ open = "Trash"
                               THEN {mbox[open][u] : u \in Expunged(cmd, open) \cap Live(open)} ELSE {}
    /\ UNCHANGED offers

RowsOf(cmd) ==
    CASE cmd.verb = "LIST" -> <<Row("LIST", DOMAIN mbox)>>
      [] cmd.verb = "CAPABILITY" -> <<Row("CAPABILITY", offers)>>
      [] cmd.verb = "SEARCH" -> <<Row("SEARCH", IF cmd.phase = "all" THEN Live(srv.open) ELSE Here(srv.open, cmd.mail))>>
      [] cmd.verb = "FETCH" -> <<Row("FETCH", {<<u, mbox[srv.open][u]>> : u \in Live(srv.open)})>>
      [] cmd.verb = "BODY" -> <<Row("BODY", {mbox[srv.open][u] : u \in Carried(cmd, srv.open)})>>
      [] OTHER -> <<>>

\* The server may leave a search empty, leave the line out or print a literal
\* past the limit; an oversize literal leaves the rest of its answer unread.
Said(cmd) ==
    \/ wire' = wire \o RowsOf(cmd) \o <<Reply(cmd.tag, "ok")>> /\ UNCHANGED faults
    \/ /\ Fault /\ RowsOf(cmd) # <<>>
       /\ \/ cmd.phase = "search" /\ wire' = wire \o <<Row("SEARCH", {}), Reply(cmd.tag, "ok")>>
          \/ cmd.verb = "CAPABILITY" /\ wire' = Append(wire, Reply(cmd.tag, "ok"))
          \/ cmd.verb \in {"FETCH", "BODY"} /\ wire' = wire \o <<Huge>> \o RowsOf(cmd) \o <<Reply(cmd.tag, "ok")>>

Serve ==
    /\ srv.up /\ srv.queue # <<>>
    /\ UNCHANGED <<late, session, call, outcome, calls>>
    /\ LET cmd == Head(srv.queue) served == [srv EXCEPT !.queue = Tail(@)]
       IN \/ /\ srv.idling # 0 /\ cmd.verb # "DONE"
             /\ srv' = [served EXCEPT !.idling = 0] /\ wire' = Append(wire, Reply(srv.idling, "bad"))
             /\ UNCHANGED <<held, faults>>
          \/ /\ srv.idling # 0 /\ cmd.verb = "DONE"
             /\ srv' = [served EXCEPT !.idling = 0] /\ wire' = Append(wire, Reply(srv.idling, "ok"))
             /\ UNCHANGED <<held, faults>>
          \/ /\ srv.idling = 0 /\ cmd.verb \in {"DONE", "BLANK"}
             /\ srv' = served /\ UNCHANGED <<held, wire, faults>>
          \/ /\ srv.idling = 0 /\ cmd.verb \in {"IDLE", "APPEND"} /\ Accepts(cmd, srv.open)
             /\ srv' = [served EXCEPT !.idling = IF cmd.verb = "IDLE" THEN cmd.tag ELSE 0]
             /\ wire' = Append(wire, Plus) /\ UNCHANGED <<held, faults>>
          \/ /\ srv.idling = 0 /\ cmd.verb \notin {"DONE", "BLANK", "IDLE", "APPEND"} /\ Accepts(cmd, srv.open)
             /\ srv' = [served EXCEPT !.open = IF cmd.verb = "SELECT" THEN cmd.folder ELSE @]
             /\ Effect(cmd, srv.open) /\ Said(cmd) /\ UNCHANGED overtaken
          \/ /\ srv.idling = 0 /\ cmd.verb \notin {"DONE", "BLANK"}
             /\ IF Accepts(cmd, srv.open) THEN Fault ELSE UNCHANGED faults
             /\ srv' = [served EXCEPT !.open = IF cmd.verb = "SELECT" THEN Nowhere ELSE @]
             /\ \E status \in IF cmd.verb = "AUTHENTICATE" THEN {"authfailed", "no"} ELSE {"no"} :
                   wire' = Append(wire, Reply(cmd.tag, status))
             /\ UNCHANGED held

\* Something happens in the folder a session idles in.
Event ==
    /\ srv.idling # 0 /\ wire = <<>> /\ Phase.do = "wait"
    /\ wire' = <<Row("EXISTS", {})>>
    /\ UNCHANGED <<held, link, session, call, outcome, calls, faults>>

HangUp ==
    /\ srv.up /\ Fault
    /\ srv' = [srv EXCEPT !.up = FALSE]
    /\ UNCHANGED <<held, wire, late, session, call, outcome, calls>>

Touched(l) == {l.cmd.mail} \cup IF l.open \in DOMAIN mbox THEN {mbox[l.open][u] : u \in Carried(l.cmd, l.open)} ELSE {}

\* A command of a closed connection is carried out after all, or is lost.
CarryOut(l) ==
    /\ late' = late \ {l}
    /\ \/ Accepts(l.cmd, l.open) /\ Effect(l.cmd, l.open) /\ overtaken' = overtaken \cup Touched(l)
       \/ UNCHANGED held
    /\ UNCHANGED <<srv, wire, session, call, outcome, calls, faults>>

OtherClient(f, u) ==
    /\ Fault /\ call.op # "none" /\ mbox[f][u] \in Subjects
    /\ mbox' = [mbox EXCEPT ![f] = Removed(@, {u})]
    /\ forgone' = forgone \cup {mbox[f][u]} /\ overtaken' = overtaken \cup {mbox[f][u]}
    /\ UNCHANGED <<flagged, offers, link, wire, session, call, outcome, calls>>

Hints == {{}} \cup {{u} : u \in 1..Cardinality(Mails)}

Next ==
    \/ \E op \in Ops, m \in Subjects, hints \in Hints : (op = "raw" \/ hints = {}) /\ Begin(op, m, hints)
    \/ Decide \/ Return \/ Connect \/ Send \/ Read \/ Timeout
    \/ Serve \/ Event \/ HangUp
    \/ \E l \in late : CarryOut(l)
    \/ \E f \in DOMAIN mbox : \E u \in DOMAIN mbox[f] : OtherClient(f, u)

\* The provider's own code keeps running; the server owes nothing.
Fairness == WF_vars(Decide) /\ WF_vars(Return) /\ WF_vars(Connect) /\ WF_vars(Send)
            /\ WF_vars(Read) /\ WF_vars(Timeout)

Spec == Init /\ [][Next]_vars /\ Fairness

-----------------------------------------------------------------------------

\* Nothing leaves a folder except the mail some command on the way was sent
\* for, and, when the Trash is emptied, what the Trash held (provider.rs:46
\* and 654: never a folder-wide expunge, never another mail's UID).
Asked == {cmd.mail : cmd \in {c \in ToSet(srv.queue) : c.verb \in Writes}} \cup {l.cmd.mail : l \in late}
Emptying(f) == f = "Trash" /\ (\E cmd \in ToSet(srv.queue) \cup {l.cmd : l \in late} : cmd.op = "empty")
ActsOnItsMail ==
    [][\A f \in DOMAIN mbox : \A u \in DOMAIN mbox[f] :
          (mbox[f][u] # Gone /\ mbox'[f][u] = Gone /\ faults' = faults)
             => mbox[f][u] \in Asked \/ Emptying(f)]_mbox

\* A mail that is in no folder was deleted for good on request or removed by
\* another client: no refused, half finished or timed out move loses one.
NothingIsLost ==
    \A m \in Mails : m \in forgone \/ \E f \in DOMAIN mbox : Here(f, m) # {}

\* A move that reports success has put the mail where it says, whatever was
\* refused, answered late or belongs to an earlier command of the connection.
\* Another client, or a command of a dropped connection the server carries out
\* after all, may overtake it.
DoneIsDone ==
    outcome.result = "ok" /\ outcome.op \in DOMAIN Destination /\ outcome.mail \notin overtaken
        => LET to == Destination[outcome.op] IN to \in DOMAIN mbox /\ Here(to, outcome.mail) # {}

\* The bytes shown for a mail are that mail's, also from a stale stored UID
\* (provider.rs:464) and after answers nobody waited for.
ServesItsMail == outcome.served \in {Outgoing, outcome.mail}

\* Every call of the provider ends, whatever the server leaves unanswered.
CallsEnd == (call.op # "none") ~> (call.op = "none")
=============================================================================
