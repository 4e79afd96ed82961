------------------------- MODULE ImapSession_proofs -------------------------
(***************************************************************************)
(* No mail is lost, done is done, nothing leaves a folder but the mail a   *)
(* command was sent for and the bytes shown are the mail's, for any        *)
(* mailbox, any calls and any number of faults.                            *)
(***************************************************************************)
EXTENDS ImapSession, FiniteSetTheorems, SequenceTheorems, WellFoundedInduction, TLAPS

-----------------------------------------------------------------------------
(* Types *)

Kept    == Mails \cup {Outgoing, Gone}
Places  == {INBOX, "Archive", "Trash", "Sent", "Work", Nowhere}
Folders == Places \cup UNION {DOMAIN server.box : server \in Servers}
Dos     == {"connect", "auth", "login", "caps", "id", "ready", "list", "relist", "role", "create", "make",
            "select", "inbox", "look", "peek", "search", "all", "scan", "headers", "hint", "body", "seen",
            "move", "copy", "recopy", "plus", "flag", "expunge", "forget", "append", "literal",
            "idle", "wait", "done", "blank"}
Verbs   == {Verb(do) : do \in Dos} \cup {"BLANK"}
Values  == Nat \cup Kept \cup (Nat \X Kept) \cup Folders \cup NotAsked \cup UNION {server.offers : server \in Servers}

Phases   == [do : Dos, in : Places]
Commands == {cmd \in [tag : Nat, verb : Verbs, folder : Places, phase : Dos, uids : SUBSET Nat,
                       op : Operations, mail : Mails \cup {Outgoing}] :
                cmd.phase # "blank" => cmd.verb = Verb(cmd.phase)}
Heard    == [kind : {"tagged", "row", "plus", "huge"}, tag : Nat,
             of : {"", "LIST", "CAPABILITY", "SEARCH", "FETCH", "BODY", "EXISTS"},
             data : SUBSET Values, status : {"ok", "no", "bad", "authfailed"}]
Calls    == [op : Operations \cup {"none"}, mail : Mails \cup {Outgoing}, todo : Seq(Phases), tag : Nat,
             got : Seq(Heard), uids : SUBSET Nat, names : SUBSET Values]

\* A search finds UIDs of one folder.
Plausible(r) == /\ r.of = "SEARCH" => \E n \in Nat : r.data \subseteq 1..n
                /\ r.of = "FETCH" => r.data \subseteq Nat \X Kept

\* Every variable holds what the code can put there.
TypeOK ==
    /\ mbox = [f \in DOMAIN mbox |-> mbox[f]] /\ DOMAIN mbox \subseteq Folders
    /\ \A f \in DOMAIN mbox : mbox[f] \in Seq(Kept)
    /\ offers \subseteq Values
    /\ srv \in [open : Folders, idling : Nat, queue : Seq(Commands), up : BOOLEAN]
    /\ wire \in Seq(Heard) /\ \A i \in DOMAIN wire : Plausible(wire[i])
    /\ late \subseteq [open : Folders, cmd : Commands]
    /\ session \in [up : BOOLEAN, ready : BOOLEAN, tag : Nat, selected : Places, roles : SUBSET Values,
                    caps : SUBSET Values, refused : BOOLEAN, negotiated : BOOLEAN]
    /\ call \in Calls /\ \A i \in DOMAIN call.got : Plausible(call.got[i])

-----------------------------------------------------------------------------
(* What a call still has to do *)

Movers    == {"archive", "unarchive", "trash", "restore", "file"}
Purges    == {"delete", "empty"}
Seekers   == Movers \cup {"delete"}
Entering  == {"connect", "auth", "login", "caps", "id"}
Selecting == {"select", "inbox", "look", "peek"}
Finding   == {"search", "scan"}
Copying   == {"copy", "recopy"}
Placing   == {"move", "copy", "recopy"}
Ending    == {"flag", "expunge", "forget"}
Modifying == {"move", "copy", "recopy", "flag", "expunge"}

Has(todo, dos) == \E i \in DOMAIN todo : todo[i].do \in dos

\* A phase a call of the kind may have.
Fits(op, p) ==
    /\ op \in Movers =>
         /\ p.do \in Entering \cup {"ready", "list", "role", "select", "inbox", "plus", "make"}
                       \cup Finding \cup Placing \cup Ending
         /\ p.do \in Placing => p.in = Destination[op]
    /\ op \in Purges =>
         /\ p.do \in Entering \cup {"ready", "list", "role", "select", "plus", "all"} \cup Finding \cup Ending
         /\ p.do = "select" => p.in = "Trash"
         /\ p.do = "all" => op = "empty"
    /\ op \notin Movers \cup Purges => p.do \notin Modifying

\* p may come before q.
Before(op, p, q) ==
    /\ q.do # "connect"
    /\ q.do = "ready" => p.do \in Entering
    /\ op \in Seekers =>
         /\ q.do # "scan"
         /\ p.do \in Finding => q.do \in {"caps", "plus", "make"} \cup Placing \cup Ending
    /\ op \in Movers =>
         /\ p.do = "move" => q.do = "forget"
         /\ p.do = "make" => q.do \in {"recopy"} \cup Ending
    /\ op \in Movers \cup Purges =>
         (p.do \in Copying \cup {"flag", "expunge"} => q.do \in Ending)

Chained(op, todo) ==
    /\ \A i \in DOMAIN todo : Fits(op, todo[i])
    /\ \A i, j \in DOMAIN todo : i < j => Before(op, todo[i], todo[j])

\* A move selects, finds, places and only then, if it placed a copy, removes. A mail that
\* is deleted is found first too.
Staged(op, todo) ==
    /\ op \in Seekers => (Has(todo, Selecting) => Has(todo, Finding))
    /\ op \in Movers =>
         /\ Has(todo, Finding) => Has(todo, Placing)
         /\ Has(todo, {"expunge"}) /\ ~Has(todo, Copying) => \A i \in DOMAIN todo : todo[i].do \in Ending

Shaped ==
    /\ call.op = "none" => call = IdleCall /\ session.up = session.ready
    /\ Chained(call.op, call.todo) /\ Staged(call.op, call.todo)
    /\ call.op # "none" =>
         /\ ~session.ready => /\ Has(call.todo, {"ready"})
                              /\ call.op \in Movers \cup Purges => Has(call.todo, Selecting)
         /\ Has(call.todo, {"connect"}) <=> ~session.up
    /\ call.tag # 0 => session.up /\ call.todo # <<>> /\ Phase.do # "ready"
    /\ call.tag = 0 => call.got = <<>>
    /\ session.ready => session.up
    /\ ~session.up => srv = Listening /\ wire = <<>>

-----------------------------------------------------------------------------
(* The connection *)

Quiet == {"AUTHENTICATE", "CAPABILITY", "IDLE", "DONE", "BLANK", "APPEND", "LITERAL"}

\* The command the call waits for.
Asking == call.tag # 0 /\ Verb(Phase.do) \notin Quiet
Current == [tag |-> call.tag, verb |-> Verb(Phase.do), folder |-> Phase.in, phase |-> Phase.do,
            uids |-> call.uids, op |-> call.op, mail |-> call.mail]

Own(r) == r.kind = "tagged" /\ r.tag = call.tag
Granted == \E i \in DOMAIN wire : Own(wire[i]) /\ wire[i].status = "ok"
Blank == srv.idling = 0 /\ \A i \in DOMAIN srv.queue : srv.queue[i].verb = "BLANK"

\* Tags are minted in order.
Tagged ==
    /\ call.tag <= session.tag /\ srv.idling <= session.tag
    /\ \A i \in DOMAIN wire : wire[i].tag <= session.tag
    /\ \A i \in DOMAIN srv.queue : srv.queue[i].tag <= session.tag
    /\ Asking => /\ srv.idling # call.tag
                 /\ \A i \in DOMAIN srv.queue :
                       srv.queue[i].verb \in Quiet \ {"BLANK"} => srv.queue[i].tag # call.tag

\* Of the commands that move or remove mail only the one waited for is on its way. What
\* comes behind the command waited for are blank lines, and its answer is the last thing said.
OneByOne ==
    /\ \A i \in DOMAIN srv.queue :
         /\ Asking /\ srv.queue[i].verb # "BLANK" /\ srv.queue[i].tag = call.tag =>
              /\ srv.queue[i] = Current
              /\ \A j \in DOMAIN srv.queue : i < j => srv.queue[j].verb = "BLANK"
         /\ srv.queue[i].verb \in Writes \ {"CREATE"} => Asking /\ srv.queue[i].tag = call.tag
    /\ Asking => \A i \in DOMAIN wire : Own(wire[i]) => i = Len(wire) /\ Blank

\* The folder the provider takes for selected is the one it works on from here.
Chosen == session.selected # Nowhere \/ (call.op \in Movers \cup Purges /\ ~Has(call.todo, Selecting))

\* Then nothing is left of the commands before. (A move to a folder gives up a search that
\* times out and keeps the connection, but selects again.)
Drained ==
    Chosen =>
        /\ \A i \in DOMAIN srv.queue : srv.queue[i].verb \notin Quiet => Asking /\ srv.queue[i].tag = call.tag
        /\ \A i \in DOMAIN wire :
             /\ wire[i].kind = "huge" => /\ Asking /\ Blank /\ Verb(Phase.do) \in {"FETCH", "BODY"}
                                        /\ \A j \in DOMAIN wire : wire[j].kind = "huge" => i = j
             /\ wire[i].of = "SEARCH" => Asking /\ Verb(Phase.do) = "SEARCH"

-----------------------------------------------------------------------------
(* Where the mail is *)

Hit(f, u, m) == f \in DOMAIN mbox /\ u \in DOMAIN mbox[f] /\ mbox[f][u] \in {m, Gone}
StillHit(f, u, m) == Hit(f, u, m) /\ (mbox[f][u] = m \/ m \in overtaken)

\* What the lines of an answer that is being read say of the folder that is open.
TruthOf(r) ==
    call.op \in Seekers /\ call.tag # 0 =>
        /\ Phase.do = "search" /\ r.of = "SEARCH" => \A u \in r.data : StillHit(srv.open, u, call.mail)
        /\ Phase.do = "scan" /\ r.of = "FETCH" => \A row \in r.data : StillHit(srv.open, row[1], row[2])

Truthful ==
    /\ \A i \in DOMAIN wire : TruthOf(wire[i])
    /\ \A i \in DOMAIN call.got : TruthOf(call.got[i])
    /\ call.op \in Seekers /\ call.tag = 0 /\ call.todo # <<>> /\ Phase.do = "scan" => wire = <<>> /\ Blank

\* A selected folder is the one that was asked for, and a purge is in the Trash.
Selected ==
    /\ srv.open = Nowhere \/ srv.open \in DOMAIN mbox
    /\ call.tag # 0 /\ Phase.do \in Selecting /\ Granted => srv.open = Phase.in
    /\ call.op \in Purges /\ Has(call.todo, {"expunge"}) /\ ~Has(call.todo, Selecting) => srv.open = "Trash"

\* The call knows where its mail is: nothing is left to select or to find.
Found == call.op \in Seekers /\ ~Has(call.todo, Selecting \cup Finding)

\* The answer that the mail has been placed is there.
Placed == call.tag # 0 /\ Phase.do \in Placing /\ Granted

Aimed ==
    Found => /\ \A u \in call.uids : Hit(srv.open, u, call.mail)
             /\ call.uids # {}
             /\ Has(call.todo, Placing) /\ ~Placed => \A u \in call.uids : StillHit(srv.open, u, call.mail)

\* The mail is where the call was to put it, and the call will not remove it there.
Settled ==
    LET to == Destination[call.op]
    IN to \in DOMAIN mbox /\ \E u \in Here(to, call.mail) : ~(to = srv.open /\ u \in call.uids)

PlacedWhenDone ==
    call.op \in Movers /\ (~Has(call.todo, Placing) \/ Placed) => call.mail \in overtaken \/ Settled

\* What the call or a command of a dropped connection is about to remove because a copy
\* of it has been made.
Copied == /\ call.op \in Movers /\ Has(call.todo, {"expunge"})
          /\ ~Has(call.todo, Copying) \/ (Placed /\ Phase.do \in Copying)
Doomed(f, u) == \/ Copied /\ f = srv.open /\ u \in call.uids
                \/ \E l \in late : /\ l.cmd.verb = "EXPUNGE" /\ l.cmd.op \notin Purges
                                   /\ f = l.open /\ u \in l.cmd.uids

LateKept ==
    \A l \in late :
        /\ l.cmd.verb \in Writes /\ (l.open = Nowhere \/ l.open \in DOMAIN mbox)
        /\ l.cmd.verb = "EXPUNGE" =>
             IF l.cmd.op \in Purges THEN l.open = "Trash"
             ELSE l.open \in DOMAIN mbox /\ l.cmd.uids \subseteq DOMAIN mbox[l.open]

Spared ==
    \A m \in Mails : m \in forgone \/ \E f \in DOMAIN mbox : \E u \in Here(f, m) : ~Doomed(f, u)

Reported == /\ outcome.result # "none" => call.op = "none"
            /\ DoneIsDone

Connected == Shaped /\ Tagged /\ OneByOne /\ Drained
Aware     == Truthful /\ Selected /\ Aimed
Safe      == PlacedWhenDone /\ LateKept /\ Spared /\ Reported
IInv      == TypeOK /\ Connected /\ Aware /\ Safe

-----------------------------------------------------------------------------
(* Sequences *)

\* A sequence that is not empty and what follows its first element.
LEMMA TailFacts ==
    ASSUME NEW S, NEW s \in Seq(S), s # <<>>
    PROVE  /\ Tail(s) \in Seq(S) /\ Len(Tail(s)) = Len(s) - 1 /\ Head(s) = s[1] /\ Head(s) \in S /\ 1 \in DOMAIN s
           /\ \A i \in DOMAIN Tail(s) : i + 1 \in DOMAIN s /\ Tail(s)[i] = s[i + 1]
           /\ \A i \in DOMAIN s : i # 1 => i - 1 \in DOMAIN Tail(s) /\ s[i] = Tail(s)[i - 1]
  OBVIOUS

LEMMA ConcatFacts ==
    ASSUME NEW S, NEW s \in Seq(S), NEW t \in Seq(S)
    PROVE  /\ s \o t \in Seq(S) /\ Len(s \o t) = Len(s) + Len(t)
           /\ \A i \in DOMAIN (s \o t) : IF i <= Len(s) THEN i \in DOMAIN s /\ (s \o t)[i] = s[i]
                                         ELSE i - Len(s) \in DOMAIN t /\ (s \o t)[i] = t[i - Len(s)]
           /\ \A i \in DOMAIN s : i \in DOMAIN (s \o t) /\ (s \o t)[i] = s[i]
           /\ \A i \in DOMAIN t : i + Len(s) \in DOMAIN (s \o t) /\ (s \o t)[i + Len(s)] = t[i]
  OBVIOUS

LEMMA AppendFacts ==
    ASSUME NEW S, NEW s \in Seq(S), NEW e \in S
    PROVE  /\ Append(s, e) \in Seq(S) /\ Len(Append(s, e)) = Len(s) + 1
           /\ DOMAIN Append(s, e) = 1..(Len(s) + 1) /\ DOMAIN s = 1..Len(s)
           /\ \A i \in DOMAIN s : Append(s, e)[i] = s[i]
           /\ Append(s, e)[Len(s) + 1] = e
  OBVIOUS

LEMMA LeastIn ==
    ASSUME NEW S, S \subseteq Nat, S # {}
    PROVE  \E x \in S : \A y \in S : x <= y
<1>1. PICK x \in S : \A y \in S : <<y, x>> \notin OpToRel(<, Nat)
  BY WFMin, NatLessThanWellFounded, Zenon
<1>2. \A y \in S : x \in Nat /\ y \in Nat /\ ~(y < x)
  BY <1>1, Zenon DEF OpToRel
<1>3. \A y \in S : x <= y
  BY <1>2
<1> QED BY <1>3

LEMMA MinIn ==
    ASSUME NEW S, S \subseteq Nat, S # {}
    PROVE  Min(S) \in S
  BY LeastIn DEF Min

LEMMA MaxIn ==
    ASSUME NEW n \in Nat, NEW S, S \subseteq 1..n, S # {}
    PROVE  Max(S) \in S
<1> DEFINE T == {n - x : x \in S}
<1>1. T \subseteq Nat /\ T # {}
  <2>1. \A x \in S : n - x \in Nat
    OBVIOUS
  <2>2. \A x \in S : n - x \in T
    OBVIOUS
  <2>3. \A z \in T : \E x \in S : z = n - x
    OBVIOUS
  <2> HIDE DEF T
  <2> QED BY <2>1, <2>2, <2>3
<1>2. PICK y \in T : \A z \in T : y <= z
  BY <1>1, LeastIn
<1>3. PICK x \in S : y = n - x
  OBVIOUS
<1>4. ASSUME NEW w \in S PROVE x >= w
  <2>1. n - x <= n - w
    BY <1>2, <1>3, n - w \in T
  <2> QED BY <2>1
<1> QED BY <1>3, <1>4 DEF Max

-----------------------------------------------------------------------------
(* Lists of phases *)

LEMMA RestHas ==
    ASSUME NEW s \in Seq(Phases), s # <<>>
    PROVE  \A dos : Has(s, dos) <=> Head(s).do \in dos \/ Has(Tail(s), dos)
<1> SUFFICES ASSUME NEW dos PROVE Has(s, dos) <=> Head(s).do \in dos \/ Has(Tail(s), dos)
  OBVIOUS
<1>1. /\ Head(s) = s[1] /\ 1 \in DOMAIN s
      /\ \A i \in DOMAIN Tail(s) : i + 1 \in DOMAIN s /\ Tail(s)[i] = s[i + 1]
      /\ \A i \in DOMAIN s : i # 1 => i - 1 \in DOMAIN Tail(s) /\ s[i] = Tail(s)[i - 1]
  BY TailFacts
<1>2. Has(s, dos) => Head(s).do \in dos \/ Has(Tail(s), dos)
  BY <1>1 DEF Has
<1>3. Head(s).do \in dos => Has(s, dos)
  BY <1>1 DEF Has
<1>4. Has(Tail(s), dos) => Has(s, dos)
  BY <1>1 DEF Has
<1> QED BY <1>2, <1>3, <1>4

LEMMA ConcatHas ==
    ASSUME NEW s \in Seq(Phases), NEW t \in Seq(Phases)
    PROVE  \A dos : Has(s \o t, dos) <=> Has(s, dos) \/ Has(t, dos)
<1> SUFFICES ASSUME NEW dos PROVE Has(s \o t, dos) <=> Has(s, dos) \/ Has(t, dos)
  OBVIOUS
<1>1. /\ \A i \in DOMAIN (s \o t) : IF i <= Len(s) THEN i \in DOMAIN s /\ (s \o t)[i] = s[i]
                                    ELSE i - Len(s) \in DOMAIN t /\ (s \o t)[i] = t[i - Len(s)]
      /\ \A i \in DOMAIN s : i \in DOMAIN (s \o t) /\ (s \o t)[i] = s[i]
      /\ \A i \in DOMAIN t : i + Len(s) \in DOMAIN (s \o t) /\ (s \o t)[i + Len(s)] = t[i]
  BY ConcatFacts
<1>2. Has(s \o t, dos) => Has(s, dos) \/ Has(t, dos)
  BY <1>1 DEF Has
<1>3. Has(s, dos) => Has(s \o t, dos)
  BY <1>1 DEF Has
<1>4. Has(t, dos) => Has(s \o t, dos)
  BY <1>1 DEF Has
<1> QED BY <1>2, <1>3, <1>4

LEMMA HeadHas ==
    ASSUME NEW s \in Seq(Phases), s # <<>>
    PROVE  \A dos : Head(s).do \in dos => Has(s, dos)
  BY RestHas

\* What may follow the first phase.
LEMMA RestChained ==
    ASSUME NEW op, NEW s \in Seq(Phases), s # <<>>, Chained(op, s)
    PROVE  /\ Tail(s) \in Seq(Phases) /\ Head(s) \in Phases /\ Fits(op, Head(s)) /\ Chained(op, Tail(s))
           /\ \A i \in DOMAIN Tail(s) : Before(op, Head(s), Tail(s)[i])
<1>1. /\ Tail(s) \in Seq(Phases) /\ Head(s) = s[1] /\ Head(s) \in Phases /\ 1 \in DOMAIN s
      /\ \A i \in DOMAIN Tail(s) : i + 1 \in DOMAIN s /\ Tail(s)[i] = s[i + 1]
  BY TailFacts
<1>2. \A i \in DOMAIN Tail(s) : i \in Nat /\ 1 < i + 1
  BY <1>1
<1>3. \A i, j \in DOMAIN Tail(s) : i < j => i + 1 < j + 1
  BY <1>1
<1> QED BY <1>1, <1>2, <1>3 DEF Chained

LEMMA ConcatChained ==
    ASSUME NEW op, NEW s \in Seq(Phases), NEW t \in Seq(Phases), Chained(op, s), Chained(op, t),
           \A i \in DOMAIN s, j \in DOMAIN t : Before(op, s[i], t[j])
    PROVE  s \o t \in Seq(Phases) /\ Chained(op, s \o t)
<1>1. /\ s \o t \in Seq(Phases)
      /\ \A i \in DOMAIN (s \o t) : IF i <= Len(s) THEN i \in DOMAIN s /\ (s \o t)[i] = s[i]
                                    ELSE i - Len(s) \in DOMAIN t /\ (s \o t)[i] = t[i - Len(s)]
  BY ConcatFacts
<1>2. \A i \in DOMAIN (s \o t) : Fits(op, (s \o t)[i])
  BY <1>1 DEF Chained
<1>3. ASSUME NEW i \in DOMAIN (s \o t), NEW j \in DOMAIN (s \o t), i < j
      PROVE  Before(op, (s \o t)[i], (s \o t)[j])
  <2>1. i \in Nat /\ j \in Nat /\ Len(s) \in Nat
    BY <1>1
  <2>2. CASE j <= Len(s)
    BY <1>1, <1>3, <2>1, <2>2 DEF Chained
  <2>3. CASE i <= Len(s) /\ ~(j <= Len(s))
    BY <1>1, <2>1, <2>3
  <2>4. CASE ~(i <= Len(s))
    <3>1. ~(j <= Len(s)) /\ i - Len(s) < j - Len(s)
      BY <1>3, <2>1, <2>4
    <3> QED BY <1>1, <2>4, <3>1 DEF Chained
  <2> QED BY <2>1, <2>2, <2>3, <2>4
<1> QED BY <1>1, <1>2, <1>3 DEF Chained

LEMMA SuffixChained ==
    ASSUME NEW op, NEW s \in Seq(Phases), Chained(op, s), NEW k \in 1..(Len(s) + 1)
    PROVE  SubSeq(s, k, Len(s)) \in Seq(Phases) /\ Chained(op, SubSeq(s, k, Len(s)))
           /\ \A dos : Has(SubSeq(s, k, Len(s)), dos) => Has(s, dos)
<1>1. /\ SubSeq(s, k, Len(s)) \in Seq(Phases)
      /\ \A i \in DOMAIN SubSeq(s, k, Len(s)) : i + k - 1 \in DOMAIN s /\ SubSeq(s, k, Len(s))[i] = s[i + k - 1]
  OBVIOUS
<1>2. \A i, j \in DOMAIN SubSeq(s, k, Len(s)) : i < j => i + k - 1 < j + k - 1
  BY <1>1
<1> QED BY <1>1, <1>2 DEF Chained, Has

LEMMA ConsChained ==
    ASSUME NEW op, NEW p \in Phases, Fits(op, p), NEW t \in Seq(Phases), Chained(op, t),
           \A i \in DOMAIN t : Before(op, p, t[i])
    PROVE  /\ <<p>> \o t \in Seq(Phases) /\ Chained(op, <<p>> \o t)
           /\ \A dos : Has(<<p>> \o t, dos) <=> p.do \in dos \/ Has(t, dos)
           /\ Head(<<p>> \o t) = p /\ Tail(<<p>> \o t) = t /\ <<p>> \o t # <<>>
<1>1. <<p>> \in Seq(Phases) /\ Chained(op, <<p>>) /\ \A dos : Has(<<p>>, dos) <=> p.do \in dos
  BY DEF Chained, Has
<1>2. \A i \in DOMAIN <<p>> : <<p>>[i] = p
  OBVIOUS
<1>3. <<p>> \o t \in Seq(Phases) /\ Chained(op, <<p>> \o t)
  BY <1>1, <1>2, ConcatChained
<1>4. \A dos : Has(<<p>> \o t, dos) <=> p.do \in dos \/ Has(t, dos)
  BY <1>1, ConcatHas
<1>5. Head(<<p>> \o t) = p /\ Tail(<<p>> \o t) = t /\ <<p>> \o t # <<>>
  OBVIOUS
<1> QED BY <1>3, <1>4, <1>5

-----------------------------------------------------------------------------
(* The calls of the provider *)

\* Phases that neither move nor remove mail nor log in.
Plain(s) == /\ s \in Seq(Phases)
            /\ \A i \in DOMAIN s : s[i].do \notin {"connect", "ready"} \cup Modifying

LEMMA PlainConcat ==
    ASSUME NEW s, NEW t, Plain(s), Plain(t)
    PROVE  Plain(s \o t)
<1>1. s \in Seq(Phases) /\ t \in Seq(Phases)
  BY DEF Plain
<1> QED BY <1>1, ConcatFacts DEF Plain

LEMMA PlainPrograms ==
    ASSUME NEW op \in Operations \ (Movers \cup Purges)
    PROVE  Plain(Program(op))
<1> USE DEF P, Phases, Dos, Places, Nowhere, INBOX, Modifying
<1>1. CASE op \in {"probe", "pull", "seen", "folders"}
  <2>1. /\ Plain(<<P("caps", Nowhere), P("relist", Nowhere), P("create", "Archive"), P("select", INBOX)>>)
        /\ Plain(<<P("inbox", INBOX), P("search", Nowhere), P("seen", Nowhere)>>)
        /\ Plain(<<P("relist", Nowhere)>>)
    BY DEF Plain
  <2>2. Plain(<<P("select", INBOX), P("caps", Nowhere), P("idle", Nowhere), P("select", INBOX), P("headers", Nowhere)>>)
    BY DEF Plain
  <2> QED BY <1>1, <2>1, <2>2 DEF Program
<1>2. Plain(Forget)
  BY DEF Forget, Plain
<1>3. ASSUME NEW f \in {INBOX, "Archive", "Trash", "Sent"}
      PROVE  Plain(MembersOf(f)) /\ Plain(ReadsIn(f)) /\ Plain(Role(f))
  BY <1>3 DEF MembersOf, ReadsIn, Role, Plain
<1>4. CASE op = "negotiate"
  <2>1. Plain(<<P("caps", Nowhere), P("relist", Nowhere), P("create", "Archive")>>)
    BY DEF Plain
  <2> QED BY <1>2, <1>4, <2>1, PlainConcat DEF Program
<1>5. CASE op = "members"
  <2>1. Plain(<<P("list", Nowhere)>>)
    BY DEF Plain
  <2> QED BY <1>3, <1>5, <2>1, PlainConcat DEF Program
<1>6. CASE op = "raw"
  <2>1. Plain(<<P("inbox", INBOX), P("hint", Nowhere), P("inbox", INBOX), P("search", Nowhere),
                P("body", Nowhere), P("list", Nowhere)>>)
    BY DEF Plain
  <2> QED BY <1>3, <1>6, <2>1, PlainConcat DEF Program
<1>7. CASE op \in {"append", "sent"}
  <2>1. Plain(<<P("append", "Sent")>>) /\ Plain(<<P("peek", "Sent"), P("headers", Nowhere)>>)
    BY DEF Plain
  <2> QED BY <1>3, <1>7, <2>1, PlainConcat DEF Program
<1> QED BY <1>1, <1>4, <1>5, <1>6, <1>7 DEF Operations, Movers, Seekers, Purges

LEMMA PlainChained ==
    ASSUME NEW op \in (Operations \cup {"none"}) \ (Movers \cup Purges), NEW s, Plain(s)
    PROVE  s \in Seq(Phases) /\ Chained(op, s) /\ Staged(op, s) /\ ~Has(s, {"connect", "ready"})
  BY DEF Seekers, Purges, Plain, Chained, Staged, Fits, Before, Has

\* A piece of a move or a purge: its phases do what dos lists, in that order.
Piece(op, s, dos) == /\ s \in Seq(Phases) /\ Chained(op, s)
                     /\ \A i \in DOMAIN s : s[i].do \in dos
                     /\ \A do \in dos : \E i \in DOMAIN s : s[i].do = do

LEMMA PieceConcat ==
    ASSUME NEW op, NEW s, NEW t, NEW D, NEW E, Piece(op, s, D), Piece(op, t, E),
           \A p, q \in Phases : p.do \in D /\ q.do \in E => Before(op, p, q)
    PROVE  Piece(op, s \o t, D \cup E)
<1>1. s \in Seq(Phases) /\ t \in Seq(Phases)
  BY DEF Piece
<1>2. /\ \A i \in DOMAIN s : s[i] \in Phases /\ s[i].do \in D
      /\ \A i \in DOMAIN t : t[i] \in Phases /\ t[i].do \in E
  BY <1>1 DEF Piece
<1>3. s \o t \in Seq(Phases) /\ Chained(op, s \o t)
  BY <1>1, <1>2, ConcatChained DEF Piece
<1>4. \A i \in DOMAIN (s \o t) : (s \o t)[i].do \in D \cup E
  BY <1>1, <1>2, ConcatFacts
<1>5. \A do \in D \cup E : \E i \in DOMAIN (s \o t) : (s \o t)[i].do = do
  <2>1. /\ \A i \in DOMAIN s : i \in DOMAIN (s \o t) /\ (s \o t)[i] = s[i]
        /\ \A i \in DOMAIN t : i + Len(s) \in DOMAIN (s \o t) /\ (s \o t)[i + Len(s)] = t[i]
    BY <1>1, ConcatFacts
  <2>2. ASSUME NEW do \in D PROVE \E i \in DOMAIN (s \o t) : (s \o t)[i].do = do
    <3>1. PICK i \in DOMAIN s : s[i].do = do
      BY DEF Piece
    <3> QED BY <2>1, <3>1
  <2>3. ASSUME NEW do \in E PROVE \E i \in DOMAIN (s \o t) : (s \o t)[i].do = do
    <3>1. PICK i \in DOMAIN t : t[i].do = do
      BY DEF Piece
    <3> QED BY <2>1, <3>1
  <2> QED BY <2>2, <2>3
<1> QED BY <1>3, <1>4, <1>5 DEF Piece

LEMMA Pieces ==
    ASSUME NEW op \in Movers \cup Purges
    PROVE  /\ \A f \in {"Archive", "Trash"} : Piece(op, Role(f), {"list", "role"})
           /\ Piece(op, Forget, {"forget"})
           /\ op \in Movers => /\ Piece(op, <<P("inbox", INBOX)>>, {"inbox"})
                               /\ Piece(op, <<P("select", "Archive")>>, {"select"})
                               /\ Piece(op, Moves(Destination[op]), {"search", "caps", "move"})
           /\ Piece(op, <<P("select", "Trash")>>, {"select"})
           /\ op \in Purges => /\ Piece(op, <<P("search", Nowhere), P("caps", Nowhere), P("plus", Nowhere),
                                              P("flag", Nowhere), P("expunge", Nowhere)>>,
                                        {"search", "caps", "plus", "flag", "expunge"})
           /\ op = "empty" => Piece(op, <<P("caps", Nowhere), P("plus", Nowhere), P("all", Nowhere),
                                          P("flag", Nowhere), P("expunge", Nowhere)>>,
                                    {"caps", "plus", "all", "flag", "expunge"})
<1> USE DEF Piece, P, Phases, Dos, Places, Nowhere, INBOX, Chained, Fits, Before,
            Movers, Seekers, Purges, Entering, Finding, Copying, Placing, Ending, Modifying
<1>1. \A f \in {"Archive", "Trash"} : Piece(op, Role(f), {"list", "role"})
  BY DEF Role
<1>2. Piece(op, Forget, {"forget"})
  BY DEF Forget
<1>3. /\ op \in Movers => /\ Piece(op, <<P("inbox", INBOX)>>, {"inbox"})
                          /\ Piece(op, <<P("select", "Archive")>>, {"select"})
      /\ Piece(op, <<P("select", "Trash")>>, {"select"})
  OBVIOUS
<1>4. op \in Movers => Piece(op, Moves(Destination[op]), {"search", "caps", "move"})
  <2>1. op \in Movers => Destination[op] \in {"Archive", INBOX, "Trash", "Work"}
    BY DEF Destination
  <2> QED BY <2>1 DEF Moves
<1>5. op \in Purges => Piece(op, <<P("search", Nowhere), P("caps", Nowhere), P("plus", Nowhere),
                                   P("flag", Nowhere), P("expunge", Nowhere)>>,
                             {"search", "caps", "plus", "flag", "expunge"})
  OBVIOUS
<1>6. op = "empty" => Piece(op, <<P("caps", Nowhere), P("plus", Nowhere), P("all", Nowhere),
                                   P("flag", Nowhere), P("expunge", Nowhere)>>,
                             {"caps", "plus", "all", "flag", "expunge"})
  OBVIOUS
<1> QED BY <1>1, <1>2, <1>3, <1>4, <1>5, <1>6

\* What the program of a move or a purge is like.
Capable(op, s) ==
    /\ s \in Seq(Phases) /\ Chained(op, s) /\ Staged(op, s)
    /\ ~Has(s, {"connect", "ready"}) /\ Has(s, Selecting)
    /\ op \in Seekers => Has(s, {"search"}) /\ ~Has(s, {"scan"})
    /\ op \in Movers => Has(s, {"move"}) /\ ~Has(s, {"expunge"})

LEMMA MoverCapable ==
    ASSUME NEW op \in Movers, NEW s, NEW D, Piece(op, s, D),
           D \subseteq {"list", "role", "inbox", "select", "search", "caps", "move", "forget"},
           "inbox" \in D \/ "select" \in D, "search" \in D, "move" \in D
    PROVE  Capable(op, s)
<1>1. Has(s, {"search"}) /\ Has(s, {"move"}) /\ Has(s, Selecting) /\ Has(s, Finding) /\ Has(s, Placing)
  BY DEF Piece, Has, Selecting, Finding, Placing
<1>2. ~Has(s, {"connect", "ready"}) /\ ~Has(s, {"expunge"}) /\ ~Has(s, {"scan"})
  BY DEF Piece, Has
<1>3. op \notin Purges /\ op \in Seekers
  BY DEF Movers, Seekers, Purges
<1> QED BY <1>1, <1>2, <1>3 DEF Piece, Capable, Staged

LEMMA MoverPrograms ==
    ASSUME NEW op \in Movers
    PROVE  Capable(op, Program(op))
<1> DEFINE to == Destination[op]
           moving == {"search", "caps", "move"}
<1>1. op \in Movers \cup Purges
  OBVIOUS
<1>2. ASSUME NEW f \in {"Archive", "Trash"}, NEW s, NEW do \in {"inbox", "select"}, Piece(op, s, {do})
      PROVE  /\ Piece(op, s \o Moves(to), {do} \cup moving)
             /\ Piece(op, Role(f) \o s, {"list", "role"} \cup {do})
             /\ Piece(op, Role(f) \o s \o Moves(to), ({"list", "role"} \cup {do}) \cup moving)
             /\ Piece(op, Role(f) \o s \o Moves(to) \o Forget, (({"list", "role"} \cup {do}) \cup moving) \cup {"forget"})
  <2>1. Piece(op, Moves(to), moving) /\ Piece(op, Role(f), {"list", "role"}) /\ Piece(op, Forget, {"forget"})
    BY <1>1, Pieces
  <2> USE DEF Before, Movers, Seekers, Purges, Entering, Finding, Copying, Placing, Ending
  <2>2. Piece(op, s \o Moves(to), {do} \cup moving)
    BY <1>2, <2>1, PieceConcat
  <2>3. Piece(op, Role(f) \o s, {"list", "role"} \cup {do})
    BY <1>2, <2>1, PieceConcat
  <2>4. Piece(op, Role(f) \o s \o Moves(to), ({"list", "role"} \cup {do}) \cup moving)
    <3>1. \A p, q \in Phases : p.do \in {"list", "role"} \cup {do} /\ q.do \in moving => Before(op, p, q)
      BY <1>2
    <3> QED BY <2>1, <2>3, <3>1, PieceConcat
  <2>5. Piece(op, Role(f) \o s \o Moves(to) \o Forget, (({"list", "role"} \cup {do}) \cup moving) \cup {"forget"})
    <3>1. \A p, q \in Phases : p.do \in ({"list", "role"} \cup {do}) \cup moving /\ q.do \in {"forget"} => Before(op, p, q)
      BY <1>2
    <3> QED BY <2>1, <2>4, <3>1, PieceConcat
  <2> QED BY <2>2, <2>3, <2>4, <2>5
<1>3. /\ Piece(op, <<P("inbox", INBOX)>>, {"inbox"}) /\ Piece(op, <<P("select", "Archive")>>, {"select"})
      /\ Piece(op, <<P("select", "Trash")>>, {"select"})
  BY <1>1, Pieces
<1>4. CASE op = "archive"
  <2>1. Program(op) = Role("Archive") \o <<P("inbox", INBOX)>> \o Moves(to)
    BY <1>4 DEF Program, Destination
  <2>2. Piece(op, Program(op), ({"list", "role"} \cup {"inbox"}) \cup moving)
    BY <1>2, <1>3, <2>1
  <2> QED BY <2>2, MoverCapable
<1>5. CASE op = "trash"
  <2>1. Program(op) = Role("Trash") \o <<P("inbox", INBOX)>> \o Moves(to)
    BY <1>5 DEF Program, Destination
  <2>2. Piece(op, Program(op), ({"list", "role"} \cup {"inbox"}) \cup moving)
    BY <1>2, <1>3, <2>1
  <2> QED BY <2>2, MoverCapable
<1>6. CASE op = "unarchive"
  <2>1. Program(op) = Role("Archive") \o <<P("select", "Archive")>> \o Moves(to) \o Forget
    BY <1>6 DEF Program, Destination
  <2>2. Piece(op, Program(op), (({"list", "role"} \cup {"select"}) \cup moving) \cup {"forget"})
    BY <1>2, <1>3, <2>1
  <2> QED BY <2>2, MoverCapable
<1>7. CASE op = "restore"
  <2>1. Program(op) = Role("Trash") \o <<P("select", "Trash")>> \o Moves(to) \o Forget
    BY <1>7 DEF Program, Destination
  <2>2. Piece(op, Program(op), (({"list", "role"} \cup {"select"}) \cup moving) \cup {"forget"})
    BY <1>2, <1>3, <2>1
  <2> QED BY <2>2, MoverCapable
<1>8. CASE op = "file"
  <2>1. Program(op) = <<P("inbox", INBOX)>> \o Moves(to)
    BY <1>8 DEF Program, Destination
  <2>2. Piece(op, Program(op), {"inbox"} \cup moving)
    BY <1>2, <1>3, <2>1
  <2> QED BY <2>2, MoverCapable
<1> QED BY <1>4, <1>5, <1>6, <1>7, <1>8 DEF Movers, Seekers

LEMMA PurgePrograms ==
    ASSUME NEW op \in Purges
    PROVE  Capable(op, Program(op))
<1> DEFINE role == {"list", "role"}
           purge(s) == Role("Trash") \o <<P("select", "Trash")>> \o s \o Forget
<1>1. op \in Movers \cup Purges /\ op \notin Movers
  BY DEF Movers, Seekers, Purges
<1>2. ASSUME NEW s, NEW D, D \subseteq {"search", "caps", "plus", "all", "flag", "expunge"}, Piece(op, s, D),
             op = "delete" => "search" \in D
      PROVE  Capable(op, purge(s))
  <2>1. Piece(op, <<P("select", "Trash")>>, {"select"}) /\ Piece(op, Role("Trash"), role) /\ Piece(op, Forget, {"forget"})
    BY <1>1, Pieces
  <2> USE DEF Before, Movers, Seekers, Purges, Entering, Finding, Copying, Placing, Ending
  <2>2. Piece(op, Role("Trash") \o <<P("select", "Trash")>>, role \cup {"select"})
    BY <2>1, PieceConcat
  <2>3. Piece(op, Role("Trash") \o <<P("select", "Trash")>> \o s, (role \cup {"select"}) \cup D)
    <3>1. \A p, q \in Phases : p.do \in role \cup {"select"} /\ q.do \in D => Before(op, p, q)
      BY <1>2
    <3> QED BY <1>2, <2>2, <3>1, PieceConcat
  <2>4. Piece(op, purge(s), ((role \cup {"select"}) \cup D) \cup {"forget"})
    <3>1. \A p, q \in Phases : p.do \in (role \cup {"select"}) \cup D /\ q.do \in {"forget"} => Before(op, p, q)
      BY <1>2
    <3> QED BY <2>1, <2>3, <3>1, PieceConcat
  <2>5. Has(purge(s), Selecting) /\ ~Has(purge(s), {"connect", "ready"})
    <3> DEFINE t == purge(s)
    <3>1. /\ \A i \in DOMAIN t : t[i].do \in ((role \cup {"select"}) \cup D) \cup {"forget"}
          /\ \E i \in DOMAIN t : t[i].do = "select"
      BY <2>4 DEF Piece
    <3>2. "connect" \notin D /\ "ready" \notin D
      BY <1>2
    <3> HIDE DEF t
    <3>3. Has(t, Selecting) /\ ~Has(t, {"connect", "ready"})
      BY <3>1, <3>2 DEF Has, Selecting
    <3> QED BY <3>3 DEF t
  <2>6. /\ "search" \in D => Has(purge(s), {"search"}) /\ Has(purge(s), Finding)
        /\ ~Has(purge(s), {"scan"})
    <3> DEFINE t == purge(s)
    <3>1. /\ \A i \in DOMAIN t : t[i].do \in ((role \cup {"select"}) \cup D) \cup {"forget"}
          /\ "search" \in D => \E i \in DOMAIN t : t[i].do = "search"
      BY <2>4 DEF Piece
    <3>2. "scan" \notin D
      BY <1>2
    <3> HIDE DEF t
    <3>3. /\ "search" \in D => Has(t, {"search"}) /\ Has(t, Finding)
          /\ ~Has(t, {"scan"})
      BY <3>1, <3>2 DEF Has, Finding
    <3> QED BY <3>3 DEF t
  <2>7. op \in Seekers => "search" \in D
    BY <1>1, <1>2 DEF Seekers
  <2>8. Staged(op, purge(s))
    BY <1>1, <2>6, <2>7 DEF Staged
  <2> QED BY <1>1, <2>4, <2>5, <2>6, <2>7, <2>8 DEF Piece, Capable
<1>3. CASE op = "delete"
  <2> DEFINE s == <<P("search", Nowhere), P("caps", Nowhere), P("plus", Nowhere), P("flag", Nowhere), P("expunge", Nowhere)>>
  <2>1. Program(op) = Role("Trash") \o <<P("select", "Trash"), P("search", Nowhere), P("caps", Nowhere),
                        P("plus", Nowhere), P("flag", Nowhere), P("expunge", Nowhere)>> \o Forget
    BY <1>3 DEF Program
  <2>2. Piece(op, s, {"search", "caps", "plus", "flag", "expunge"})
    BY <1>1, Pieces
  <2>3. Program(op) = purge(s)
    BY <2>1 DEF Role, Forget
  <2> HIDE DEF s, purge
  <2> QED BY <1>2, <2>2, <2>3
<1>4. CASE op = "empty"
  <2> DEFINE s == <<P("caps", Nowhere), P("plus", Nowhere), P("all", Nowhere), P("flag", Nowhere), P("expunge", Nowhere)>>
  <2>1. Program(op) = Role("Trash") \o <<P("select", "Trash"), P("caps", Nowhere), P("plus", Nowhere),
                        P("all", Nowhere), P("flag", Nowhere), P("expunge", Nowhere)>> \o Forget
    BY <1>4 DEF Program
  <2>2. Piece(op, s, {"caps", "plus", "all", "flag", "expunge"})
    BY <1>1, <1>4, Pieces
  <2>3. Program(op) = purge(s)
    BY <2>1 DEF Role, Forget
  <2> HIDE DEF s, purge
  <2> QED BY <1>2, <1>4, <2>2, <2>3
<1> QED BY <1>3, <1>4 DEF Purges

LEMMA LoginPhases ==
    ASSUME NEW op \in Operations
    PROVE  /\ Login \in Seq(Phases) /\ Chained(op, Login)
           /\ Has(Login, {"ready"}) /\ Has(Login, {"connect"}) /\ ~Has(Login, Selecting \cup Finding \cup {"expunge"} \cup Placing)
           /\ \A t \in Seq(Phases) : Chained(op, t) /\ ~Has(t, {"connect", "ready"}) /\ (op \in Seekers => ~Has(t, {"scan"}))
                => \A i \in DOMAIN Login, j \in DOMAIN t : Before(op, Login[i], t[j])
<1> USE DEF Login, P, Phases, Dos, Places, Nowhere, Movers, Seekers, Purges, Entering, Finding, Selecting, Copying, Placing, Ending, Modifying
<1>1. Login \in Seq(Phases) /\ \A i \in DOMAIN Login : Login[i].do \in Entering \cup {"ready"}
  OBVIOUS
<1>2. Chained(op, Login)
  BY DEF Chained, Fits, Before
<1>3. /\ Has(Login, {"ready"}) /\ Has(Login, {"connect"})
      /\ ~Has(Login, Selecting \cup Finding \cup {"expunge"} \cup Placing)
  BY DEF Has
<1>4. ASSUME NEW t \in Seq(Phases), Chained(op, t), ~Has(t, {"connect", "ready"}), op \in Seekers => ~Has(t, {"scan"})
      PROVE  \A i \in DOMAIN Login, j \in DOMAIN t : Before(op, Login[i], t[j])
  <2>1. \A j \in DOMAIN t : t[j].do \notin {"connect", "ready"} /\ (op \in Seekers => t[j].do # "scan")
    BY <1>4 DEF Has
  <2> HIDE DEF Login
  <2> QED BY <1>1, <2>1 DEF Before
<1> QED BY <1>1, <1>2, <1>3, <1>4

\* The list a call starts with.
LEMMA BeginShaped ==
    ASSUME NEW op \in Operations, NEW s, s = (IF session.ready THEN <<>> ELSE Login) \o Program(op)
    PROVE  /\ s \in Seq(Phases) /\ Chained(op, s) /\ Staged(op, s)
           /\ ~session.ready => Has(s, {"ready"})
           /\ Has(s, {"connect"}) <=> ~session.ready
           /\ op \in Movers \cup Purges => Has(s, Selecting)
           /\ op \in Movers => Has(s, Placing) /\ ~Has(s, {"expunge"})
<1> DEFINE t == Program(op)
<1>1. /\ t \in Seq(Phases) /\ Chained(op, t) /\ Staged(op, t) /\ ~Has(t, {"connect", "ready"})
      /\ op \in Movers \cup Purges => Capable(op, t)
  BY MoverPrograms, PurgePrograms, PlainPrograms, PlainChained DEF Capable
<1>2. /\ op \in Seekers => ~Has(t, {"scan"}) /\ Has(t, Finding)
      /\ op \in Movers => ~Has(t, {"expunge"}) /\ Has(t, Placing)
  <2>1. /\ op \in Seekers => Has(t, {"search"}) /\ ~Has(t, {"scan"})
        /\ op \in Movers => Has(t, {"move"}) /\ ~Has(t, {"expunge"})
    BY <1>1 DEF Capable, Seekers, Purges
  <2>2. Has(t, {"search"}) => Has(t, Finding)
    BY DEF Has, Finding
  <2>3. Has(t, {"move"}) => Has(t, Placing)
    BY DEF Has, Placing
  <2> QED BY <2>1, <2>2, <2>3
<1>3. Has(t, {"connect"}) \/ Has(t, {"ready"}) => Has(t, {"connect", "ready"})
  BY DEF Has
<1>4. op \in Movers \cup Purges => Has(t, Selecting)
  BY <1>1 DEF Capable
<1> HIDE DEF t
<1>5. CASE session.ready
  <2>1. s = t
    BY <1>1, <1>5 DEF t
  <2> QED BY <1>1, <1>2, <1>3, <1>4, <1>5, <2>1
<1>6. CASE ~session.ready
  <2>1. s = Login \o t
    BY <1>6 DEF t
  <2>2. /\ Login \in Seq(Phases) /\ Chained(op, Login) /\ Has(Login, {"ready"}) /\ Has(Login, {"connect"})
        /\ ~Has(Login, Selecting \cup Finding \cup {"expunge"} \cup Placing)
        /\ \A i \in DOMAIN Login, j \in DOMAIN t : Before(op, Login[i], t[j])
    BY <1>1, <1>2, LoginPhases
  <2>8. t \in Seq(Phases) /\ Chained(op, t)
    BY <1>1
  <2>9. Login \o t \in Seq(Phases) /\ Chained(op, Login \o t)
    BY <2>2, <2>8, ConcatChained
  <2>3. s \in Seq(Phases) /\ Chained(op, s)
    BY <2>1, <2>9
  <2>10. \A dos : Has(Login \o t, dos) <=> Has(Login, dos) \/ Has(t, dos)
    BY <2>2, <2>8, ConcatHas
  <2>6. \A dos : Has(s, dos) <=> Has(Login, dos) \/ Has(t, dos)
    BY <2>1, <2>10
  <2>4. ~Has(Login, Selecting) /\ ~Has(Login, Finding) /\ ~Has(Login, {"expunge"}) /\ ~Has(Login, Placing)
    BY <2>2 DEF Has
  <2>7. /\ Has(s, {"ready"}) /\ Has(s, {"connect"}) /\ (op \in Movers \cup Purges => Has(s, Selecting))
        /\ op \in Movers => Has(s, Placing) /\ ~Has(s, {"expunge"})
    BY <1>2, <1>4, <2>2, <2>4, <2>6
  <2>5. Staged(op, s)
    BY <1>1, <1>2, <2>4, <2>6 DEF Staged
  <2> QED BY <1>6, <2>3, <2>5, <2>7
<1> QED BY <1>5, <1>6

-----------------------------------------------------------------------------
(* How a list of phases goes on *)

LEMMA HeadFacts ==
    ASSUME NEW op, NEW s \in Seq(Phases), s # <<>>, Chained(op, s)
    PROVE  /\ ~Has(Tail(s), {"connect"})
           /\ Has(Tail(s), {"ready"}) => Head(s).do \in Entering
           /\ Head(s).do \in Modifying => op \in Movers \cup Purges /\ ~Has(s, Selecting)
           /\ op \in Seekers =>
                /\ ~Has(Tail(s), {"scan"})
                /\ Head(s).do \in Finding => ~Has(Tail(s), Selecting)
           /\ op \in Movers =>
                /\ Head(s).do \in Placing \cup {"flag", "expunge"} => \A i \in DOMAIN Tail(s) : Tail(s)[i].do \in Ending
                /\ Head(s).do = "move" => \A i \in DOMAIN Tail(s) : Tail(s)[i].do = "forget"
           /\ op \in Purges => (Head(s).do \in {"flag", "expunge"} => \A i \in DOMAIN Tail(s) : Tail(s)[i].do \in Ending)
<1> USE DEF Movers, Seekers, Purges, Entering, Finding, Copying, Placing, Ending, Modifying, Selecting
<1>1. Fits(op, Head(s)) /\ \A i \in DOMAIN Tail(s) : Before(op, Head(s), Tail(s)[i])
  BY RestChained
<1>2. /\ ~Has(Tail(s), {"connect"})
      /\ Has(Tail(s), {"ready"}) => Head(s).do \in Entering
  BY <1>1 DEF Has, Before
<1>3. op \in Seekers =>
                /\ ~Has(Tail(s), {"scan"})
                /\ Head(s).do \in Finding => ~Has(Tail(s), Selecting)
  BY <1>1 DEF Has, Before
<1>4. /\ op \in Movers =>
           /\ Head(s).do \in Placing \cup {"flag", "expunge"} => \A i \in DOMAIN Tail(s) : Tail(s)[i].do \in Ending
           /\ Head(s).do = "move" => \A i \in DOMAIN Tail(s) : Tail(s)[i].do = "forget"
      /\ op \in Purges => (Head(s).do \in {"flag", "expunge"} => \A i \in DOMAIN Tail(s) : Tail(s)[i].do \in Ending)
  BY <1>1 DEF Before
<1>5. Head(s).do \in Modifying => op \in Movers \cup Purges /\ ~Has(s, Selecting)
  <2>1. Head(s).do \in Modifying => op \in Movers \cup Purges
    BY <1>1 DEF Fits
  <2>2. Head(s).do \in Modifying => (op \in Purges => Head(s).do \in {"flag", "expunge"})
    BY <1>1 DEF Fits
  <2>3. Head(s).do \in Modifying => \A i \in DOMAIN Tail(s) : Tail(s)[i].do \in Ending
    BY <1>4, <2>1, <2>2
  <2>4. Head(s).do \in Modifying => ~Has(Tail(s), Selecting) /\ Head(s).do \notin Selecting
    BY <2>3 DEF Has
  <2> QED BY <2>1, <2>4, RestHas
<1> QED BY <1>2, <1>3, <1>4, <1>5

LEMMA EndingHas ==
    ASSUME NEW s, \A i \in DOMAIN s : s[i].do \in Ending
    PROVE  ~Has(s, Selecting) /\ ~Has(s, Finding) /\ ~Has(s, Placing) /\ ~Has(s, Copying) /\ ~Has(s, {"ready"})
  BY DEF Has, Ending, Selecting, Finding, Placing, Copying

LEMMA HasSplit ==
    ASSUME NEW s
    PROVE  /\ Has(s, Selecting \cup Finding) <=> Has(s, Selecting) \/ Has(s, Finding)
           /\ Has(s, Copying) => Has(s, Placing)
  BY DEF Has, Copying, Placing

\* Only a move places mail.
LEMMA NoPlacing ==
    ASSUME NEW op, op \notin Movers, NEW s, Chained(op, s)
    PROVE  ~Has(s, Placing)
<1>1. \A i \in DOMAIN s : s[i].do \notin Placing
  BY DEF Chained, Fits, Movers, Purges, Entering, Finding, Placing, Ending, Modifying
<1> QED BY <1>1 DEF Has

LEMMA RestStaged ==
    ASSUME NEW op, NEW s \in Seq(Phases), s # <<>>, Chained(op, s), Staged(op, s)
    PROVE  Staged(op, Tail(s))
<1> DEFINE r == Tail(s)
<1>1. \A dos : Has(s, dos) <=> Head(s).do \in dos \/ Has(r, dos)
  BY RestHas
<1>5. op \in Seekers => (Has(r, Selecting) => Has(r, Finding))
  <2>1. op \in Seekers => (Has(s, Selecting) => Has(s, Finding))
    BY DEF Staged
  <2>2. op \in Seekers => (Head(s).do \in Finding => ~Has(r, Selecting))
    BY HeadFacts
  <2> QED BY <1>1, <2>1, <2>2
<1> SUFFICES ASSUME op \in Movers
             PROVE  /\ Has(r, Finding) => Has(r, Placing)
                    /\ Has(r, {"expunge"}) /\ ~Has(r, Copying) => \A i \in DOMAIN r : r[i].do \in Ending
  BY <1>5 DEF Staged
<1>2. /\ Head(s).do \in Finding => ~Has(r, Selecting)
      /\ Head(s).do \in Placing => \A i \in DOMAIN r : r[i].do \in Ending
  BY HeadFacts DEF Seekers
<1>3. Head(s).do \in Placing => ~Has(r, Finding) /\ ~Has(r, Selecting)
  BY <1>2, EndingHas
<1>4. /\ Has(s, Finding) => Has(s, Placing)
      /\ Has(s, {"expunge"}) /\ ~Has(s, Copying) => \A i \in DOMAIN s : s[i].do \in Ending
  BY DEF Staged
<1>6. Has(r, Finding) => Has(r, Placing)
  BY <1>1, <1>3, <1>4
<1>7. Has(r, {"expunge"}) /\ ~Has(r, Copying) => \A i \in DOMAIN r : r[i].do \in Ending
  <2>1. CASE Head(s).do \in Copying
    BY <1>2, <2>1 DEF Copying, Placing
  <2>2. CASE Head(s).do \notin Copying
    <3>1. Has(r, {"expunge"}) /\ ~Has(r, Copying) => \A i \in DOMAIN s : s[i].do \in Ending
      BY <1>1, <1>4, <2>2
    <3>2. \A i \in DOMAIN r : i + 1 \in DOMAIN s /\ r[i] = s[i + 1]
      BY TailFacts
    <3> QED BY <3>1, <3>2
  <2> QED BY <2>1, <2>2
<1> QED BY <1>6, <1>7

\* A refused move: copy, flag, expunge.
LEMMA FallbackList ==
    ASSUME NEW op \in Movers, NEW to, to = Destination[op], NEW r \in Seq(Phases), Chained(op, r),
           \A i \in DOMAIN r : r[i].do = "forget"
    PROVE  /\ Fallback(to) \o r \in Seq(Phases) /\ Chained(op, Fallback(to) \o r) /\ Staged(op, Fallback(to) \o r)
           /\ Has(Fallback(to) \o r, Copying) /\ ~Has(Fallback(to) \o r, {"connect", "ready"})
           /\ ~Has(Fallback(to) \o r, Selecting) /\ ~Has(Fallback(to) \o r, Finding)
           /\ Fallback(to) \o r # <<>> => Head(Fallback(to) \o r).do # "scan"
<1> DEFINE b == Fallback(to)
<1>1. to \in {"Archive", INBOX, "Trash", "Work"}
  BY DEF Destination, Movers, Seekers
<1> USE DEF P, Phases, Dos, Places, Nowhere, INBOX, Movers, Seekers, Purges, Entering, Finding, Selecting, Copying, Placing, Ending, Modifying
<1>2. b \in Seq(Phases) /\ Chained(op, b)
  BY <1>1 DEF Fallback, Chained, Fits, Before
<1>3. /\ \A i \in DOMAIN b : b[i].do \in {"caps", "plus", "copy", "flag", "expunge"}
      /\ Has(b, Copying) /\ ~Has(b, {"connect", "ready"}) /\ ~Has(b, Selecting) /\ ~Has(b, Finding)
  BY DEF Fallback, Has
<1>4. b # <<>> /\ Head(b).do # "scan" /\ Len(b) > 0
  BY DEF Fallback
<1> HIDE DEF b
<1>5. \A i \in DOMAIN b, j \in DOMAIN r : Before(op, b[i], r[j])
  BY <1>3 DEF Before
<1>6. b \o r \in Seq(Phases) /\ Chained(op, b \o r)
  BY <1>2, <1>5, ConcatChained
<1>7. \A dos : Has(b \o r, dos) <=> Has(b, dos) \/ Has(r, dos)
  BY <1>2, ConcatHas
<1>8. ~Has(r, {"connect", "ready"}) /\ ~Has(r, Selecting) /\ ~Has(r, Finding)
  BY DEF Has
<1>9. Head(b \o r) = Head(b)
  <2>1. b \o r # <<>> /\ (b \o r)[1] = b[1]
    BY <1>2, <1>4
  <2> QED BY <1>2, <1>4, <1>6, <2>1
<1>10. Has(b \o r, Copying) /\ Has(b \o r, Placing) /\ ~Has(b \o r, Selecting) /\ ~Has(b \o r, Finding)
  BY <1>3, <1>7, <1>8, HasSplit
<1>11. Staged(op, b \o r)
  BY <1>10 DEF Staged
<1> QED BY <1>3, <1>4, <1>6, <1>7, <1>8, <1>9, <1>10, <1>11 DEF b

\* A folder that does not exist yet is made, then the copy is tried again.
LEMMA MakeList ==
    ASSUME NEW op \in Movers, NEW to, to = Destination[op], NEW r \in Seq(Phases), Chained(op, r),
           \A i \in DOMAIN r : r[i].do \in Ending
    PROVE  LET t == <<P("make", to), P("recopy", to)>> \o r
           IN /\ t \in Seq(Phases) /\ Chained(op, t) /\ Staged(op, t)
              /\ Has(t, Copying) /\ ~Has(t, {"connect", "ready"}) /\ ~Has(t, Selecting) /\ ~Has(t, Finding)
              /\ t # <<>> => Head(t).do # "scan"
<1> DEFINE b == <<P("make", to), P("recopy", to)>>
<1>1. to \in {"Archive", INBOX, "Trash", "Work"}
  BY DEF Destination, Movers, Seekers
<1> USE DEF P, Phases, Dos, Places, Nowhere, INBOX, Movers, Seekers, Purges, Entering, Finding, Selecting, Copying, Placing, Ending, Modifying
<1>2. b \in Seq(Phases) /\ Chained(op, b)
  BY <1>1 DEF Chained, Fits, Before
<1>3. /\ \A i \in DOMAIN b : b[i].do \in {"make", "recopy"}
      /\ Has(b, Copying) /\ ~Has(b, {"connect", "ready"}) /\ ~Has(b, Selecting) /\ ~Has(b, Finding)
  <2>1. \A i \in DOMAIN b : b[i].do \in {"make", "recopy"}
    OBVIOUS
  <2>2. 2 \in DOMAIN b /\ b[2].do = "recopy"
    OBVIOUS
  <2> HIDE DEF b
  <2>3. Has(b, Copying)
    BY <2>2 DEF Has
  <2>4. ~Has(b, {"connect", "ready"}) /\ ~Has(b, Selecting) /\ ~Has(b, Finding)
    BY <2>1 DEF Has
  <2> QED BY <2>1, <2>3, <2>4
<1>4. b # <<>> /\ Head(b).do # "scan" /\ Len(b) > 0
  OBVIOUS
<1> HIDE DEF b
<1>5. \A i \in DOMAIN b, j \in DOMAIN r : Before(op, b[i], r[j])
  BY <1>3 DEF Before
<1>6. b \o r \in Seq(Phases) /\ Chained(op, b \o r)
  BY <1>2, <1>5, ConcatChained
<1>7. \A dos : Has(b \o r, dos) <=> Has(b, dos) \/ Has(r, dos)
  BY <1>2, ConcatHas
<1>8. ~Has(r, {"connect", "ready"}) /\ ~Has(r, Selecting) /\ ~Has(r, Finding)
  BY DEF Has
<1>9. Head(b \o r) = Head(b)
  <2>1. b \o r # <<>> /\ (b \o r)[1] = b[1]
    BY <1>2, <1>4
  <2> QED BY <1>2, <1>4, <1>6, <2>1
<1>10. Has(b \o r, Copying) /\ Has(b \o r, Placing) /\ ~Has(b \o r, Selecting) /\ ~Has(b \o r, Finding)
  BY <1>3, <1>7, <1>8, HasSplit
<1>11. Staged(op, b \o r)
  BY <1>10 DEF Staged
<1> QED BY <1>3, <1>4, <1>6, <1>7, <1>8, <1>9, <1>10, <1>11 DEF b

\* A search that finds nothing is followed by a scan of the folder.
LEMMA ScanList ==
    ASSUME NEW op, NEW s \in Seq(Phases), s # <<>>, Chained(op, s), Staged(op, s), Head(s).do = "search"
    PROVE  LET t == <<P("scan", Nowhere)>> \o Tail(s)
           IN /\ t \in Seq(Phases) /\ Chained(op, t) /\ Staged(op, t)
              /\ \A dos : Has(t, dos) <=> "scan" \in dos \/ Has(Tail(s), dos)
<1> DEFINE p == P("scan", Nowhere)
           r == Tail(s)
           t == <<p>> \o r
<1>1. r \in Seq(Phases) /\ Chained(op, r) /\ Fits(op, Head(s)) /\ \A i \in DOMAIN r : Before(op, Head(s), r[i])
  BY RestChained
<1> USE DEF P, Movers, Seekers, Purges, Entering, Finding, Selecting, Copying, Placing, Ending, Modifying
<1>2. p \in Phases /\ p.do = "scan"
  BY DEF Phases, Dos, Places, Nowhere
<1>3. Fits(op, p)
  BY <1>1, <1>2 DEF Fits
<1>4. \A i \in DOMAIN r : Before(op, p, r[i])
  BY <1>1, <1>2 DEF Before
<1> HIDE DEF p
<1>5. t \in Seq(Phases) /\ Chained(op, t) /\ \A dos : Has(t, dos) <=> p.do \in dos \/ Has(r, dos)
  BY <1>1, <1>2, <1>3, <1>4, ConsChained
<1>6. \A dos : Has(s, dos) <=> Head(s).do \in dos \/ Has(r, dos)
  BY RestHas
<1>7. Staged(op, t)
  <2>5. Has(t, Finding)
    BY <1>2, <1>5
  <2> SUFFICES ASSUME op \in Movers
               PROVE  /\ Has(t, Finding) => Has(t, Placing)
                      /\ Has(t, {"expunge"}) /\ ~Has(t, Copying) => \A i \in DOMAIN t : t[i].do \in Ending
    BY <2>5 DEF Staged
  <2>1. Has(s, Finding) /\ Has(s, Placing) /\ Has(r, Placing)
    BY <1>6 DEF Staged
  <2>2. Has(t, Placing)
    BY <1>2, <1>5, <2>1
  <2>3. Has(t, {"expunge"}) /\ ~Has(t, Copying) => Has(s, {"expunge"}) /\ ~Has(s, Copying)
    BY <1>2, <1>5, <1>6
  <2>4. ~(\A i \in DOMAIN s : s[i].do \in Ending)
    BY TailFacts
  <2> QED BY <2>2, <2>3, <2>4 DEF Staged
<1> QED BY <1>2, <1>5, <1>7 DEF p

LEMMA LoginList ==
    ASSUME NEW op, NEW s \in Seq(Phases), s # <<>>, Chained(op, s), Staged(op, s), Head(s).do = "auth"
    PROVE  LET t == <<P("login", Nowhere)>> \o Tail(s)
           IN /\ t \in Seq(Phases) /\ Chained(op, t) /\ Staged(op, t)
              /\ \A dos : "auth" \notin dos /\ "login" \notin dos => (Has(t, dos) <=> Has(s, dos))
              /\ t # <<>> /\ Head(t).do # "scan"
<1> DEFINE p == P("login", Nowhere)
           r == Tail(s)
           t == <<p>> \o r
<1>1. r \in Seq(Phases) /\ Chained(op, r) /\ Fits(op, Head(s)) /\ \A i \in DOMAIN r : Before(op, Head(s), r[i])
  BY RestChained
<1> USE DEF P, Movers, Seekers, Purges, Entering, Finding, Selecting, Copying, Placing, Ending, Modifying
<1>2. p \in Phases /\ p.do = "login"
  BY DEF Phases, Dos, Places, Nowhere
<1>3. Fits(op, p)
  BY <1>1, <1>2 DEF Fits
<1>4. \A i \in DOMAIN r : Before(op, p, r[i])
  BY <1>1, <1>2 DEF Before
<1> HIDE DEF p
<1>5. /\ t \in Seq(Phases) /\ Chained(op, t) /\ \A dos : Has(t, dos) <=> p.do \in dos \/ Has(r, dos)
      /\ t # <<>> /\ Head(t) = p
  BY <1>1, <1>2, <1>3, <1>4, ConsChained
<1>6. \A dos : Has(s, dos) <=> Head(s).do \in dos \/ Has(r, dos)
  BY RestHas
<1>7. \A dos : "auth" \notin dos /\ "login" \notin dos => (Has(t, dos) <=> Has(s, dos))
  BY <1>2, <1>5, <1>6
<1>8. Staged(op, t)
  <2>1. /\ Has(t, Selecting) <=> Has(s, Selecting)
        /\ Has(t, Finding) <=> Has(s, Finding)
        /\ Has(t, Placing) <=> Has(s, Placing)
        /\ Has(t, Copying) <=> Has(s, Copying)
        /\ Has(t, {"expunge"}) <=> Has(s, {"expunge"})
    BY <1>7
  <2>2. ~(\A i \in DOMAIN s : s[i].do \in Ending)
    BY TailFacts
  <2> QED BY <2>1, <2>2 DEF Staged
<1> QED BY <1>2, <1>5, <1>7, <1>8 DEF p

-----------------------------------------------------------------------------
(* How a call goes on *)

\* The next line is the answer that grants the command.
Completed == call.tag # 0 /\ wire # <<>> /\ Own(Head(wire)) /\ Head(wire).status = "ok"

\* The phases t and the UIDs the call may go on with.
Onward(t, uids) ==
    /\ t \in Seq(Phases) /\ Chained(call.op, t) /\ Staged(call.op, t)
    /\ ~(session.ready \/ Phase.do = "ready") =>
         Has(t, {"ready"}) /\ (call.op \in Movers \cup Purges => Has(t, Selecting))
    /\ ~Has(t, {"connect"})
    /\ call.op \in Movers \cup Purges /\ ~Has(t, Selecting) => Chosen \/ (Completed /\ Phase.do \in Selecting)
    /\ call.op \in Purges /\ Has(t, {"expunge"}) /\ ~Has(t, Selecting) => srv.open = "Trash"
    /\ call.op \in Seekers =>
         /\ t # <<>> /\ Head(t).do = "scan" => Completed /\ Phase.do \in Finding
         /\ ~Has(t, Selecting) /\ ~Has(t, Finding) =>
              (uids = call.uids /\ Found) \/ (uids # {} /\ \A u \in uids : StillHit(srv.open, u, call.mail))
    /\ call.op \in Movers =>
         /\ Has(t, Placing) => Has(call.todo, Placing) /\ ~Placed
         /\ ~Has(t, Placing) => uids = call.uids /\ (~Has(call.todo, Placing) \/ Placed)
         /\ Has(t, {"expunge"}) /\ ~Has(t, Copying) => uids = call.uids /\ Copied

LEMMA TodoFacts ==
    ASSUME TypeOK, Connected, call.todo # <<>>
    PROVE  /\ call.todo \in Seq(Phases) /\ Rest \in Seq(Phases) /\ Phase \in Phases /\ Fits(call.op, Phase)
           /\ Chained(call.op, call.todo) /\ Chained(call.op, Rest)
           /\ Staged(call.op, call.todo) /\ Staged(call.op, Rest)
           /\ \A i \in DOMAIN Rest : Before(call.op, Phase, Rest[i])
           /\ \A dos : Has(call.todo, dos) <=> Phase.do \in dos \/ Has(Rest, dos)
           /\ call.op # "none"
<1>1. call.todo \in Seq(Phases) /\ Chained(call.op, call.todo) /\ Staged(call.op, call.todo)
  BY DEF TypeOK, Calls, Connected, Shaped
<1>2. call.op # "none"
  BY DEF Connected, Shaped, IdleCall
<1> QED BY <1>1, <1>2, RestChained, RestStaged, RestHas DEF Rest, Phase

\* Completed commands have their answer on the wire.
LEMMA CompletedGranted ==
    ASSUME TypeOK, Completed
    PROVE  Granted /\ 1 \in DOMAIN wire /\ Head(wire) = wire[1]
<1>1. wire \in Seq(Heard) /\ wire # <<>>
  BY DEF TypeOK, Completed
<1>2. Head(wire) = wire[1] /\ 1 \in DOMAIN wire
  BY <1>1, TailFacts
<1> QED BY <1>2 DEF Completed, Granted

LEMMA RestOnward ==
    ASSUME TypeOK, Connected, Aware, call.todo # <<>>,
           Phase.do \in Finding => call.op \notin Seekers,
           Phase.do \in Placing => Placed,
           Phase.do \in Selecting => Completed \/ (Chosen /\ call.op \notin Purges)
    PROVE  Onward(Rest, call.uids)
<1>1. /\ Rest \in Seq(Phases) /\ Fits(call.op, Phase) /\ Chained(call.op, Rest) /\ Staged(call.op, Rest)
      /\ \A dos : Has(call.todo, dos) <=> Phase.do \in dos \/ Has(Rest, dos)
      /\ call.op # "none" /\ call.todo \in Seq(Phases) /\ Chained(call.op, call.todo)
  BY TodoFacts
<1>2. /\ ~Has(Rest, {"connect"})
      /\ Has(Rest, {"ready"}) => Phase.do \in Entering
      /\ call.op \in Seekers => ~Has(Rest, {"scan"})
      /\ call.op \in Movers => (Phase.do \in Placing => \A i \in DOMAIN Rest : Rest[i].do \in Ending)
  BY <1>1, HeadFacts DEF Rest, Phase
<1>3. ~(session.ready \/ Phase.do = "ready") => Has(Rest, {"ready"}) /\ (call.op \in Movers \cup Purges => Has(Rest, Selecting))
  <2>1. ~session.ready => Has(call.todo, {"ready"}) /\ (call.op \in Movers \cup Purges => Has(call.todo, Selecting))
    BY <1>1 DEF Connected, Shaped
  <2>2. Phase.do \in Entering => Phase.do \notin Selecting
    BY DEF Entering, Selecting
  <2> QED BY <1>1, <1>2, <2>1, <2>2
<1>4. call.op \in Movers \cup Purges /\ ~Has(Rest, Selecting) => Chosen \/ (Completed /\ Phase.do \in Selecting)
  BY <1>1 DEF Chosen
<1>5. call.op \in Purges /\ Has(Rest, {"expunge"}) /\ ~Has(Rest, Selecting) => srv.open = "Trash"
  <2> SUFFICES ASSUME call.op \in Purges, Has(Rest, {"expunge"}), ~Has(Rest, Selecting) PROVE srv.open = "Trash"
    OBVIOUS
  <2>1. CASE Phase.do \notin Selecting
    BY <1>1, <2>1 DEF Aware, Selected
  <2>2. CASE Phase.do \in Selecting
    <3>1. call.tag # 0 /\ Granted
      BY <2>2, CompletedGranted DEF Completed
    <3>2. Phase.do = "select" /\ Phase.in = "Trash"
      BY <1>1, <2>2 DEF Fits, Selecting, Entering, Finding, Ending
    <3> QED BY <2>2, <3>1, <3>2 DEF Aware, Selected
  <2> QED BY <2>1, <2>2
<1>7. ASSUME call.op \in Seekers
      PROVE  /\ Rest # <<>> /\ Head(Rest).do = "scan" => Completed /\ Phase.do \in Finding
             /\ ~Has(Rest, Selecting) /\ ~Has(Rest, Finding) => Found
  <2>1. Rest # <<>> => Head(Rest).do # "scan"
    BY <1>1, <1>2, <1>7, HeadHas
  <2>3. Phase.do \notin Finding
    BY <1>7
  <2>4. ~Has(Rest, Selecting) /\ ~Has(Rest, Finding) => Found
    <3>1. Phase.do \in Selecting => Has(Rest, Selecting) \/ Has(Rest, Finding)
      <4>1. Phase.do \in Selecting => Has(call.todo, Finding)
        BY <1>1, <1>7, TodoFacts DEF Staged
      <4> QED BY <1>1, <2>3, <4>1
    <3> QED BY <1>1, <1>7, <2>3, <3>1, HasSplit DEF Found
  <2> QED BY <2>1, <2>4
<1>6. ASSUME call.op \in Movers
      PROVE  /\ Has(Rest, Placing) => Has(call.todo, Placing) /\ ~Placed
             /\ ~Has(Rest, Placing) => ~Has(call.todo, Placing) \/ Placed
             /\ Has(Rest, {"expunge"}) /\ ~Has(Rest, Copying) => Copied
  <2>2. Phase.do \in Placing => ~Has(Rest, Placing)
    BY <1>2, <1>6, EndingHas
  <2>5. Has(Rest, Placing) => Has(call.todo, Placing) /\ ~Placed
    BY <1>1, <2>2 DEF Placed
  <2>6. ~Has(Rest, Placing) => ~Has(call.todo, Placing) \/ Placed
    BY <1>1
  <2>7. Has(Rest, {"expunge"}) /\ ~Has(Rest, Copying) => Copied
    <3>1. Phase.do \in Copying => Placed
      BY DEF Copying, Placing
    <3> QED BY <1>1, <1>6, <3>1 DEF Copied
  <2> QED BY <2>5, <2>6, <2>7
<1> QED BY <1>1, <1>2, <1>3, <1>4, <1>5, <1>6, <1>7 DEF Onward

\* The mail has been found.
LEMMA FoundOnward ==
    ASSUME TypeOK, Connected, Aware, call.todo # <<>>, Phase.do \in Finding, NEW uids,
           call.op \in Seekers => uids # {} /\ \A u \in uids : StillHit(srv.open, u, call.mail)
    PROVE  Onward(Rest, uids)
<1>1. /\ Rest \in Seq(Phases) /\ Chained(call.op, Rest) /\ Staged(call.op, Rest)
      /\ \A dos : Has(call.todo, dos) <=> Phase.do \in dos \/ Has(Rest, dos)
      /\ call.op # "none" /\ call.todo \in Seq(Phases) /\ Chained(call.op, call.todo) /\ Staged(call.op, call.todo)
  BY TodoFacts
<1>2. /\ ~Has(Rest, {"connect"})
      /\ Has(Rest, {"ready"}) => Phase.do \in Entering
      /\ call.op \in Seekers => ~Has(Rest, {"scan"}) /\ ~Has(Rest, Selecting)
  BY <1>1, HeadFacts DEF Rest, Phase
<1>3. /\ Phase.do \notin Selecting /\ Phase.do \notin Entering /\ Phase.do \notin Placing /\ Phase.do \notin Copying
      /\ Phase.do # "expunge" /\ Phase.do \notin Ending
  BY DEF Finding, Selecting, Entering, Placing, Copying, Ending
<1>4. session.ready
  BY <1>1, <1>2, <1>3 DEF Connected, Shaped, Finding
<1>5. call.op \in Movers \cup Purges /\ ~Has(Rest, Selecting) => Chosen
  BY <1>1, <1>3 DEF Chosen
<1>6. call.op \in Purges /\ Has(Rest, {"expunge"}) /\ ~Has(Rest, Selecting) => srv.open = "Trash"
  BY <1>1, <1>3 DEF Aware, Selected
<1>8. call.op \in Seekers /\ Rest # <<>> => Head(Rest).do # "scan"
  BY <1>1, <1>2, HeadHas
<1>7. ASSUME call.op \in Movers
      PROVE  /\ Has(Rest, Placing) /\ Has(call.todo, Placing) /\ ~Placed
             /\ ~(Has(Rest, {"expunge"}) /\ ~Has(Rest, Copying))
  <2>2. Has(call.todo, Placing)
    BY <1>1, <1>7 DEF Staged
  <2>3. ~(\A i \in DOMAIN call.todo : call.todo[i].do \in Ending)
    <3>1. 1 \in DOMAIN call.todo /\ call.todo[1] = Phase
      BY <1>1, TailFacts DEF Phase
    <3> QED BY <1>3, <3>1
  <2>4. ~(Has(Rest, {"expunge"}) /\ ~Has(Rest, Copying))
    BY <1>1, <1>3, <1>7, <2>3 DEF Staged
  <2> QED BY <1>1, <1>3, <2>2, <2>4 DEF Placed
<1> QED BY <1>1, <1>2, <1>4, <1>5, <1>6, <1>7, <1>8 DEF Onward

LEMMA ScanOnward ==
    ASSUME TypeOK, Connected, Aware, call.todo # <<>>, Phase.do = "search", Completed
    PROVE  Onward(<<P("scan", Nowhere)>> \o Rest, call.uids)
<1> DEFINE t == <<P("scan", Nowhere)>> \o Rest
<1>1. /\ \A dos : Has(call.todo, dos) <=> Phase.do \in dos \/ Has(Rest, dos)
      /\ call.op # "none" /\ call.todo \in Seq(Phases) /\ Chained(call.op, call.todo) /\ Staged(call.op, call.todo)
  BY TodoFacts
<1>2. /\ t \in Seq(Phases) /\ Chained(call.op, t) /\ Staged(call.op, t)
      /\ \A dos : Has(t, dos) <=> "scan" \in dos \/ Has(Rest, dos)
  BY <1>1, ScanList DEF Rest, Phase
<1> HIDE DEF t
<1>3. ~Has(Rest, {"connect"}) /\ (Has(Rest, {"ready"}) => Phase.do \in Entering)
  BY <1>1, HeadFacts DEF Rest, Phase
<1>4. ~Has(t, {"connect"}) /\ session.ready
  BY <1>1, <1>2, <1>3 DEF Connected, Shaped, Entering
<1>5. /\ Has(t, Selecting) <=> Has(call.todo, Selecting)
      /\ Has(t, Placing) <=> Has(call.todo, Placing)
      /\ Has(t, Copying) <=> Has(call.todo, Copying)
      /\ Has(t, {"expunge"}) <=> Has(call.todo, {"expunge"})
      /\ Has(t, Finding) /\ Has(call.todo, Finding)
  BY <1>1, <1>2 DEF Selecting, Placing, Copying, Finding
<1>6. call.op \in Movers => Has(t, Placing)
  BY <1>1, <1>5 DEF Staged
<1>7. ~Placed /\ Phase.do \in Finding
  BY DEF Placed, Placing, Finding
<1>8. call.op \in Movers => ~(Has(t, {"expunge"}) /\ ~Has(t, Copying))
  <2>1. 1 \in DOMAIN call.todo /\ call.todo[1] = Phase /\ Phase.do \notin Ending
    BY <1>1, TailFacts DEF Phase, Ending
  <2> QED BY <1>1, <1>5, <2>1 DEF Staged
<1>9. call.op \in Purges /\ Has(t, {"expunge"}) /\ ~Has(t, Selecting) => srv.open = "Trash"
  BY <1>5 DEF Aware, Selected
<1>10. call.op \in Movers \cup Purges /\ ~Has(t, Selecting) => Chosen
  BY <1>5 DEF Chosen
<1> QED BY <1>2, <1>4, <1>5, <1>6, <1>7, <1>8, <1>9, <1>10 DEF Onward, t

LEMMA LoginOnward ==
    ASSUME TypeOK, Connected, Aware, call.todo # <<>>, Phase.do = "auth"
    PROVE  Onward(<<P("login", Nowhere)>> \o Rest, call.uids)
<1> DEFINE t == <<P("login", Nowhere)>> \o Rest
<1>1. /\ \A dos : Has(call.todo, dos) <=> Phase.do \in dos \/ Has(Rest, dos)
      /\ call.op # "none" /\ call.todo \in Seq(Phases) /\ Chained(call.op, call.todo) /\ Staged(call.op, call.todo)
  BY TodoFacts
<1>2. /\ t \in Seq(Phases) /\ Chained(call.op, t) /\ Staged(call.op, t)
      /\ \A dos : "auth" \notin dos /\ "login" \notin dos => (Has(t, dos) <=> Has(call.todo, dos))
      /\ t # <<>> /\ Head(t).do # "scan"
  BY <1>1, LoginList DEF Rest, Phase
<1> HIDE DEF t
<1>3. ~Has(Rest, {"connect"})
  BY <1>1, HeadFacts DEF Rest, Phase
<1>4. /\ Has(t, Selecting) <=> Has(call.todo, Selecting)
      /\ Has(t, Finding) <=> Has(call.todo, Finding)
      /\ Has(t, Placing) <=> Has(call.todo, Placing)
      /\ Has(t, Copying) <=> Has(call.todo, Copying)
      /\ Has(t, {"expunge"}) <=> Has(call.todo, {"expunge"})
      /\ Has(t, {"ready"}) <=> Has(call.todo, {"ready"})
      /\ ~Has(t, {"connect"})
  BY <1>1, <1>2, <1>3 DEF Selecting, Finding, Placing, Copying
<1>5. ~session.ready => Has(t, {"ready"}) /\ (call.op \in Movers \cup Purges => Has(t, Selecting))
  BY <1>1, <1>4 DEF Connected, Shaped
<1>6. call.op \in Purges /\ Has(t, {"expunge"}) /\ ~Has(t, Selecting) => srv.open = "Trash"
  BY <1>4 DEF Aware, Selected
<1>7. call.op \in Movers \cup Purges /\ ~Has(t, Selecting) => Chosen
  BY <1>4 DEF Chosen
<1>8. ~Placed
  BY DEF Placed, Placing
<1>9. ~Has(t, Selecting) /\ ~Has(t, Finding) => (call.op \in Seekers => Found)
  BY <1>4, HasSplit DEF Found
<1>10. call.op \in Movers /\ Has(t, {"expunge"}) /\ ~Has(t, Copying) => Copied
  BY <1>4 DEF Copied
<1> QED BY <1>2, <1>4, <1>5, <1>6, <1>7, <1>8, <1>9, <1>10 DEF Onward, t

\* The mail is copied in the place of a move.
LEMMA CopyOnward ==
    ASSUME NEW t \in Seq(Phases), Chained(call.op, t), Staged(call.op, t), call.op \in Movers, session.ready,
           Has(t, Copying), ~Has(t, {"connect", "ready"}), ~Has(t, Selecting), ~Has(t, Finding),
           t # <<>> => Head(t).do # "scan", Found, Has(call.todo, Placing), ~Placed
    PROVE  Onward(t, call.uids)
<1>1. Has(t, Placing) /\ ~Has(t, {"connect"})
  BY DEF Has, Copying, Placing
<1>2. Chosen
  BY HasSplit DEF Chosen, Found
<1>3. call.op \notin Purges
  BY DEF Movers, Seekers, Purges
<1> QED BY <1>1, <1>2, <1>3 DEF Onward

LEMMA OtherOnward ==
    ASSUME NEW t \in Seq(Phases), Chained(call.op, t), call.op \notin Movers \cup Purges, session.ready,
           ~Has(t, {"connect"}), NEW uids
    PROVE  Onward(t, uids)
  BY DEF Onward, Staged, Movers, Seekers, Purges

\* What is left of a list after some phases.
Remains(op, t, s) == /\ t \in Seq(Phases) /\ Chained(op, t)
                     /\ \A dos : Has(t, dos) => Has(s, dos)

LEMMA TailRemains ==
    ASSUME NEW op, NEW s \in Seq(Phases), Chained(op, s)
    PROVE  Remains(op, Tail(s), s)
<1>1. CASE s = <<>>
  <2>1. Tail(s) = <<>>
    BY <1>1
  <2> QED BY <1>1, <2>1 DEF Remains
<1>2. CASE s # <<>>
  BY <1>2, RestChained, RestHas DEF Remains
<1> QED BY <1>1, <1>2

LEMMA NextFolderRemains ==
    ASSUME NEW op, NEW s \in Seq(Phases), Chained(op, s)
    PROVE  Remains(op, NextFolder(s), s)
<1> DEFINE at == {i \in DOMAIN s : s[i].do \in {"list", "look"}}
<1>1. CASE at = {}
  <2>1. NextFolder(s) = <<>>
    BY <1>1 DEF NextFolder
  <2>2. <<>> \in Seq(Phases) /\ Chained(op, <<>>) /\ \A dos : ~Has(<<>>, dos)
    BY DEF Chained, Has
  <2> QED BY <2>1, <2>2 DEF Remains
<1>2. CASE at # {}
  <2>1. at \subseteq 1..Len(s) /\ at \subseteq Nat /\ Len(s) \in Nat
    OBVIOUS
  <2> HIDE DEF at
  <2>4. Min(at) \in at
    BY <1>2, <2>1, MinIn
  <2> DEFINE first == Min(at)
  <2>5. first \in 1..Len(s)
    BY <2>1, <2>4
  <2> HIDE DEF first
  <2>2. first \in 1..(Len(s) + 1)
    BY <2>1, <2>5
  <2>3. NextFolder(s) = SubSeq(s, first, Len(s))
    BY <1>2 DEF NextFolder, at, first
  <2> QED BY <2>2, <2>3, SuffixChained DEF Remains
<1> QED BY <1>1, <1>2

\* What a call does about a failure that it answers itself.
LEMMA RecoveryOnward ==
    ASSUME TypeOK, Connected, Aware, call.todo # <<>>, NEW kind, NEW t \in Recovery(kind),
           Phase.do \in Placing => ~Placed
    PROVE  Onward(t, call.uids)
<1>1. /\ Rest \in Seq(Phases) /\ Fits(call.op, Phase) /\ Chained(call.op, Rest) /\ Staged(call.op, Rest)
      /\ \A dos : Has(call.todo, dos) <=> Phase.do \in dos \/ Has(Rest, dos)
      /\ call.op # "none" /\ call.todo \in Seq(Phases) /\ Chained(call.op, call.todo)
  BY TodoFacts
<1>2. ~Has(Rest, {"connect"})
  BY <1>1, HeadFacts DEF Rest, Phase
<1>3. ~Placed
  BY DEF Placed
<1>4. CASE ~session.ready
  <2>1. Phase.do = "auth" /\ t = <<P("login", Nowhere)>> \o Rest
    BY <1>4 DEF Recovery
  <2> QED BY <2>1, LoginOnward
<1>5. CASE session.ready /\ Phase.do = "move" /\ kind = "verdict"
  <2>2. call.op \in Movers /\ Phase.in = Destination[call.op]
    BY <1>1, <1>5 DEF Fits, Movers, Seekers, Purges, Modifying, Placing, Entering, Finding, Ending
  <2>1. t = Fallback(Phase.in) \o Rest
    BY <1>5, <2>2 DEF Recovery, Movers, Seekers
  <2>3. \A i \in DOMAIN Rest : Rest[i].do = "forget"
    BY <1>1, <1>5, <2>2, HeadFacts DEF Rest, Phase, Movers, Seekers
  <2>4. \A i \in DOMAIN Rest : Rest[i].do \in Ending
    BY <2>3 DEF Ending
  <2>5. Found /\ Has(call.todo, Placing)
    BY <1>1, <1>5, <2>2, <2>4, EndingHas, HasSplit DEF Seekers, Found, Selecting, Finding, Placing
  <2> QED BY <1>1, <1>3, <1>5, <2>1, <2>2, <2>3, <2>5, FallbackList, CopyOnward
<1>6. CASE session.ready /\ Phase.do = "caps" /\ kind = "verdict" /\ Rest # <<>> /\ Head(Rest).do = "move" /\ call.op # "file"
  <2>2. /\ Tail(Rest) \in Seq(Phases) /\ Fits(call.op, Head(Rest)) /\ Chained(call.op, Tail(Rest))
        /\ \A dos : Has(Rest, dos) <=> Head(Rest).do \in dos \/ Has(Tail(Rest), dos)
    BY <1>1, <1>6, RestChained, RestHas
  <2>3. call.op \in Movers /\ Head(Rest).in = Destination[call.op]
    BY <1>6, <2>2 DEF Fits, Movers, Seekers, Purges, Modifying, Placing, Entering, Finding, Ending
  <2>1. t = Fallback(Head(Rest).in) \o Tail(Rest)
    BY <1>6, <2>3 DEF Recovery, Movers, Seekers
  <2>4. \A i \in DOMAIN Tail(Rest) : Tail(Rest)[i].do = "forget"
    BY <1>1, <1>6, <2>3, HeadFacts DEF Movers, Seekers
  <2>5. \A i \in DOMAIN Tail(Rest) : Tail(Rest)[i].do \in Ending
    BY <2>4 DEF Ending
  <2>6. Found /\ Has(call.todo, Placing)
    BY <1>1, <1>6, <2>2, <2>3, <2>5, EndingHas, HasSplit DEF Seekers, Found, Selecting, Finding, Placing
  <2> QED BY <1>3, <1>6, <2>1, <2>2, <2>3, <2>4, <2>6, FallbackList, CopyOnward
<1>7. CASE session.ready /\ Phase.do = "copy" /\ kind = "verdict" /\ call.op = "file"
  <2>1. t = <<P("make", Phase.in), P("recopy", Phase.in)>> \o Rest
    BY <1>7 DEF Recovery
  <2>2. call.op \in Movers /\ Phase.in = Destination[call.op]
    BY <1>1, <1>7 DEF Fits, Movers, Seekers, Placing
  <2>3. \A i \in DOMAIN Rest : Rest[i].do \in Ending
    BY <1>1, <1>7, <2>2, HeadFacts DEF Rest, Phase, Placing
  <2>5. Found /\ Has(call.todo, Placing)
    BY <1>1, <1>7, <2>2, <2>3, EndingHas, HasSplit DEF Seekers, Found, Selecting, Finding, Placing
  <2> QED BY <1>1, <1>3, <1>7, <2>1, <2>2, <2>3, <2>5, MakeList, CopyOnward
<1>8. CASE /\ session.ready
           /\ ~(Phase.do = "move" /\ kind = "verdict") /\ ~(Phase.do = "copy" /\ kind = "verdict" /\ call.op = "file")
           /\ ~(Phase.do = "caps" /\ kind = "verdict" /\ Rest # <<>> /\ Head(Rest).do = "move" /\ call.op # "file")
  <2>1. /\ call.op \notin Movers \cup Purges
        /\ t \in {Rest, Tail(Tail(Rest)), NextFolder(Rest)}
    <3>1. \/ Phase.do \in {"create", "idle", "wait", "done", "hint"} /\ t = Rest
          \/ call.op = "pull" /\ t = Tail(Tail(Rest))
          \/ call.op \in {"raw", "members"} /\ t = NextFolder(Rest)
      BY <1>8 DEF Recovery
    <3>2. Phase.do \in {"create", "idle", "wait", "done", "hint"} => call.op \notin Movers \cup Purges
      BY <1>1 DEF Fits, Entering, Finding, Placing, Ending
    <3> QED BY <3>1, <3>2 DEF Movers, Seekers, Purges
  <2>2. Remains(call.op, Rest, Rest)
    BY <1>1 DEF Remains
  <2>3. Remains(call.op, Tail(Tail(Rest)), Rest)
    <3>1. Remains(call.op, Tail(Rest), Rest)
      BY <1>1, TailRemains
    <3>2. Tail(Rest) \in Seq(Phases) /\ Chained(call.op, Tail(Rest))
      BY <3>1 DEF Remains
    <3>3. Remains(call.op, Tail(Tail(Rest)), Tail(Rest))
      BY <3>2, TailRemains
    <3> QED BY <3>1, <3>3 DEF Remains
  <2>4. Remains(call.op, NextFolder(Rest), Rest)
    BY <1>1, NextFolderRemains
  <2>5. Remains(call.op, t, Rest)
    BY <2>1, <2>2, <2>3, <2>4
  <2>6. t \in Seq(Phases) /\ Chained(call.op, t) /\ ~Has(t, {"connect"})
    BY <1>2, <2>5 DEF Remains
  <2> QED BY <1>8, <2>1, <2>6, OtherOnward
<1> QED BY <1>4, <1>5, <1>6, <1>7, <1>8

-----------------------------------------------------------------------------
(* A call that goes on keeps the invariant *)

LEMMA VerbFacts ==
    /\ \A do : Verb(do) \in Writes \ {"CREATE"} => do \in Modifying
    /\ \A do \in Selecting \cup Finding \cup Modifying : Verb(do) \notin Quiet
    /\ \A do \in Selecting : Verb(do) = "SELECT"
    /\ \A do : Verb(do) = "SELECT" => do \in Selecting
    /\ \A do : Verb(do) # "BLANK"
    /\ Writes \cap Quiet = {} /\ "BLANK" \in Quiet
<1>1. \A do : Verb(do) \in Writes \ {"CREATE"} => do \in Modifying
  BY DEF Verb, Writes, Modifying
<1>2. \A do \in Selecting \cup Finding \cup Modifying : Verb(do) \notin Quiet
  BY DEF Verb, Selecting, Finding, Modifying, Quiet
<1>3. \A do : Verb(do) = "SELECT" <=> do \in Selecting
  BY DEF Verb, Selecting
<1>4. \A do : Verb(do) # "BLANK"
  BY DEF Verb
<1> QED BY <1>1, <1>2, <1>3, <1>4 DEF Writes, Quiet

\* Lines are only read.
Shorter == wire' = <<>> \/ wire' = wire \/ (wire # <<>> /\ wire' = Tail(wire))

\* Why a call may leave the phase it is in: it waits for nothing, it has its answer, or it
\* has to select a folder again.
Leaves ==
    \/ ~Asking /\ Shorter
    \/ wire # <<>> /\ wire' = Tail(wire) /\ (Own(Head(wire)) \/ Head(wire).kind = "huge")
    \/ Shorter /\ ~Chosen' /\ Phase.do \notin Modifying

LEMMA ShorterWire ==
    ASSUME TypeOK, Shorter
    PROVE  \A i \in DOMAIN wire' : \E j \in DOMAIN wire : wire'[i] = wire[j]
<1>1. wire \in Seq(Heard)
  BY DEF TypeOK
<1>2. CASE wire' = Tail(wire) /\ wire # <<>>
  BY <1>1, <1>2, TailFacts
<1>3. CASE wire' = <<>>
  BY <1>3
<1>4. CASE wire' = wire
  BY <1>4
<1> QED BY <1>2, <1>3, <1>4 DEF Shorter

\* The answer is the last line.
LEMMA OwnLast ==
    ASSUME TypeOK, OneByOne, Asking, wire # <<>>, Own(Head(wire))
    PROVE  Blank /\ Tail(wire) = <<>> /\ Len(wire) = 1 /\ (Granted <=> Head(wire).status = "ok")
<1>1. wire \in Seq(Heard)
  BY DEF TypeOK
<1>2. Head(wire) = wire[1] /\ 1 \in DOMAIN wire
  BY <1>1, TailFacts
<1>3. Len(wire) = 1 /\ Blank
  BY <1>2 DEF OneByOne
<1>4. Tail(wire) = <<>>
  <2>1. Tail(wire) \in Seq(Heard) /\ Len(Tail(wire)) = 0
    BY <1>1, <1>3, TailFacts
  <2> HIDE <1>1, <1>2, <1>3
  <2> QED BY <2>1, EmptySeq
<1>5. Granted <=> Head(wire).status = "ok"
  <2>1. \A i \in DOMAIN wire : i = 1
    BY <1>1, <1>3
  <2> QED BY <1>2, <2>1 DEF Granted
<1> QED BY <1>3, <1>4, <1>5

LEMMA ModifyingChosen ==
    ASSUME TypeOK, Connected, call.todo # <<>>, Phase.do \in Modifying
    PROVE  Chosen /\ call.op \in Movers \cup Purges /\ ~Has(call.todo, Selecting)
<1>1. call.todo \in Seq(Phases) /\ Chained(call.op, call.todo)
  BY TodoFacts
<1>2. call.op \in Movers \cup Purges /\ ~Has(call.todo, Selecting)
  BY <1>1, HeadFacts DEF Phase
<1> QED BY <1>2 DEF Chosen

\* What is on its way when a call leaves a phase.
LEMMA LeavesQuiet ==
    ASSUME TypeOK, Connected, Leaves, srv' = srv, call'.tag = 0, session'.tag = session.tag,
           Asking => call.todo # <<>>,
           Chosen' => Chosen \/ (Asking /\ wire # <<>> /\ wire' = Tail(wire) /\ Own(Head(wire)))
    PROVE  (Tagged /\ OneByOne /\ Drained)'
<1>1. OneByOne /\ Drained /\ Tagged
  BY DEF Connected
<1>2. Asking' = FALSE
  BY DEF Asking
<1>3. \A i \in DOMAIN wire' : \E j \in DOMAIN wire : wire'[i] = wire[j]
  BY ShorterWire DEF Leaves, Shorter
<1>4. Tagged'
  <2>1. call'.tag <= session'.tag
    BY DEF TypeOK
  <2> QED BY <1>1, <1>2, <1>3, <2>1 DEF Tagged
<1>5. CASE Asking /\ wire # <<>> /\ wire' = Tail(wire) /\ Own(Head(wire))
  <2>1. Blank /\ wire' = <<>>
    BY <1>1, <1>5, OwnLast
  <2>2. \A i \in DOMAIN srv'.queue : srv'.queue[i].verb = "BLANK"
    BY <2>1 DEF Blank
  <2>3. OneByOne'
    BY <1>2, <2>2, VerbFacts DEF OneByOne
  <2>4. Drained'
    BY <2>1, <2>2, VerbFacts DEF Drained
  <2> QED BY <1>4, <2>3, <2>4
<1>6. CASE ~Asking
  <2>1. OneByOne'
    BY <1>1, <1>2, <1>6 DEF OneByOne
  <2>2. Chosen' => Chosen
    BY <1>6
  <2>3. Drained'
    BY <1>1, <1>2, <1>3, <1>6, <2>2 DEF Drained
  <2> QED BY <1>4, <2>1, <2>3
<1>7. CASE Asking /\ ~(wire # <<>> /\ wire' = Tail(wire) /\ Own(Head(wire)))
  <2>1. \/ wire # <<>> /\ wire' = Tail(wire) /\ Head(wire).kind = "huge"
        \/ ~Chosen' /\ Phase.do \notin Modifying
    BY <1>7 DEF Leaves
  <2>2. wire # <<>> /\ Head(wire).kind = "huge" /\ Chosen =>
          /\ Blank /\ Verb(Phase.do) \in {"FETCH", "BODY"}
          /\ \A i \in DOMAIN Tail(wire) : Tail(wire)[i].kind # "huge" /\ Tail(wire)[i].of # "SEARCH"
    <3> SUFFICES ASSUME wire # <<>>, Head(wire).kind = "huge", Chosen
                 PROVE  /\ Blank /\ Verb(Phase.do) \in {"FETCH", "BODY"}
                        /\ \A i \in DOMAIN Tail(wire) : Tail(wire)[i].kind # "huge" /\ Tail(wire)[i].of # "SEARCH"
      OBVIOUS
    <3>1. /\ Head(wire) = wire[1] /\ 1 \in DOMAIN wire
          /\ \A i \in DOMAIN Tail(wire) : i \in Nat /\ i > 0 /\ i + 1 \in DOMAIN wire /\ Tail(wire)[i] = wire[i + 1]
      BY TailFacts DEF TypeOK
    <3>2. Blank /\ Verb(Phase.do) \in {"FETCH", "BODY"} /\ \A j \in DOMAIN wire : wire[j].kind = "huge" => 1 = j
      BY <1>1, <3>1 DEF Drained
    <3>3. \A j \in DOMAIN wire : wire[j].of # "SEARCH"
      BY <1>1, <3>2 DEF Drained
    <3>4. \A i \in DOMAIN Tail(wire) : i + 1 # 1
      BY <3>1
    <3> QED BY <3>1, <3>2, <3>3, <3>4
  <2>3. \A i \in DOMAIN srv.queue : srv.queue[i].verb \notin Writes \ {"CREATE"}
    <3> SUFFICES ASSUME NEW i \in DOMAIN srv.queue, srv.queue[i].verb \in Writes \ {"CREATE"} PROVE FALSE
      OBVIOUS
    <3>1. srv.queue[i].tag = call.tag /\ srv.queue[i].verb # "BLANK"
      BY <1>1, VerbFacts DEF OneByOne
    <3>2. srv.queue[i] = Current
      BY <1>1, <1>7, <3>1 DEF OneByOne
    <3>3. Phase.do \in Modifying
      BY <3>2, VerbFacts DEF Current
    <3>4. Chosen
      BY <1>7, <3>3, ModifyingChosen
    <3>5. Blank
      BY <2>1, <2>2, <3>3, <3>4
    <3> QED BY <3>1, <3>5 DEF Blank
  <2>4. OneByOne'
    BY <1>2, <2>3 DEF OneByOne
  <2>5. Chosen' => /\ \A i \in DOMAIN srv.queue : srv.queue[i].verb = "BLANK"
                   /\ \A i \in DOMAIN wire' : wire'[i].kind # "huge" /\ wire'[i].of # "SEARCH"
    <3>1. Chosen' => Chosen /\ wire # <<>> /\ wire' = Tail(wire) /\ Head(wire).kind = "huge"
      BY <1>7, <2>1
    <3> QED BY <2>2, <3>1 DEF Blank
  <2>6. Drained'
    BY <2>5, VerbFacts DEF Drained
  <2> QED BY <1>4, <2>4, <2>6
<1> QED BY <1>5, <1>6, <1>7

\* A call goes on with the phases t and the UIDs.
Advances(t, uids) ==
    /\ call'.op = call.op /\ call'.mail = call.mail /\ call'.todo = t /\ call'.tag = 0 /\ call'.got = <<>>
    /\ call'.uids = uids
    /\ session'.up = session.up /\ session'.tag = session.tag
    /\ session'.ready = (session.ready \/ Phase.do = "ready")
    /\ session'.selected # Nowhere => session.selected # Nowhere \/ (Completed /\ Phase.do \in Selecting)
    /\ Leaves /\ (Completed => wire' = Tail(wire))
    /\ UNCHANGED <<held, srv, late, outcome>>

LEMMA ConnectFirst ==
    ASSUME TypeOK, Connected, call.todo # <<>>
    PROVE  Phase.do = "connect" <=> ~session.up
<1>1. /\ call.todo \in Seq(Phases) /\ Chained(call.op, call.todo) /\ call.op # "none"
      /\ \A dos : Has(call.todo, dos) <=> Phase.do \in dos \/ Has(Rest, dos)
      /\ Fits(call.op, Phase) /\ Chained(call.op, Rest)
  BY TodoFacts
<1>2. ~Has(Rest, {"connect"})
  BY <1>1, HeadFacts DEF Rest, Phase
<1>3. Has(call.todo, {"connect"}) <=> ~session.up
  BY <1>1 DEF Connected, Shaped
<1> QED BY <1>1, <1>2, <1>3

LEMMA AdvancesConnected ==
    ASSUME TypeOK, Connected, Aware, call.todo # <<>>, Phase.do # "connect", NEW t, NEW uids,
           Advances(t, uids), Onward(t, uids)
    PROVE  Connected'
<1>1. call.op # "none"
  BY TodoFacts
<1>2. session.up
  BY ConnectFirst
<1>3. Shaped'
  BY <1>1, <1>2 DEF Shaped, Advances, Onward
<1>4. Chosen' => Chosen \/ (Completed /\ Phase.do \in Selecting)
  BY DEF Advances, Onward, Chosen
<1>5. Completed /\ Phase.do \in Selecting => Asking /\ wire # <<>> /\ wire' = Tail(wire) /\ Own(Head(wire))
  BY VerbFacts DEF Completed, Asking, Advances
<1>6. (Tagged /\ OneByOne /\ Drained)'
  BY <1>4, <1>5, LeavesQuiet DEF Advances
<1> QED BY <1>3, <1>6 DEF Connected

LEMMA AdvancesAware ==
    ASSUME TypeOK, Connected, Aware, call.todo # <<>>, NEW t, NEW uids,
           Advances(t, uids), Onward(t, uids)
    PROVE  Aware'
<1>1. Truthful'
  <2>1. \A r : TruthOf(r)'
    BY DEF TruthOf, Advances
  <2>2. ASSUME call.op \in Seekers, t # <<>>, Head(t).do = "scan" PROVE wire' = <<>> /\ Blank'
    <3>1. Completed /\ Phase.do \in Finding
      BY <2>2 DEF Onward
    <3>2. Asking
      BY <3>1, VerbFacts DEF Completed, Asking
    <3>3. Blank /\ Tail(wire) = <<>>
      BY <3>1, <3>2, OwnLast DEF Completed, Connected
    <3> QED BY <3>1, <3>3 DEF Advances, Blank
  <2> QED BY <2>1, <2>2 DEF Truthful, Phase, Advances
<1>2. Selected'
  BY DEF Aware, Selected, Advances, Onward, held
<1>3. ASSUME Found' PROVE Aimed'
  <2>1. call.op \in Seekers /\ ~Has(t, Selecting) /\ ~Has(t, Finding)
    BY <1>3, HasSplit DEF Found, Advances
  <2>2. \/ uids = call.uids /\ Found
        \/ uids # {} /\ \A u \in uids : StillHit(srv.open, u, call.mail)
    BY <2>1 DEF Onward
  <2>3. \A u \in uids : Hit(srv.open, u, call.mail)
    BY <2>2 DEF Aware, Aimed, StillHit
  <2>4. uids # {}
    BY <2>2 DEF Aware, Aimed
  <2>5. Has(t, Placing) => \A u \in uids : StillHit(srv.open, u, call.mail)
    <3>1. call.op \in Movers => (Has(t, Placing) => Has(call.todo, Placing) /\ ~Placed)
      BY DEF Onward
    <3>2. call.op \notin Movers => ~Has(t, Placing)
      BY NoPlacing DEF Onward
    <3> QED BY <2>2, <3>1, <3>2 DEF Aware, Aimed
  <2>6. \A u : Hit(srv.open, u, call.mail)' = Hit(srv.open, u, call.mail) /\ StillHit(srv.open, u, call.mail)' = StillHit(srv.open, u, call.mail)
    BY DEF Hit, StillHit, Advances, held
  <2> QED BY <2>3, <2>4, <2>5, <2>6 DEF Aimed, Advances
<1> QED BY <1>1, <1>2, <1>3 DEF Aware, Aimed

LEMMA AdvancesSafe ==
    ASSUME TypeOK, Connected, Safe, call.todo # <<>>, NEW t, NEW uids, Advances(t, uids), Onward(t, uids)
    PROVE  Safe'
<1>1. PlacedWhenDone'
  <2> SUFFICES ASSUME (call.op \in Movers /\ (~Has(call.todo, Placing) \/ Placed))'
               PROVE  (call.mail \in overtaken \/ Settled)'
    BY DEF PlacedWhenDone
  <2>1. call.op \in Movers /\ ~Has(t, Placing)
    BY DEF Placed, Advances
  <2>2. uids = call.uids /\ (~Has(call.todo, Placing) \/ Placed)
    BY <2>1 DEF Onward
  <2>3. call.mail \in overtaken \/ Settled
    BY <2>1, <2>2 DEF Safe, PlacedWhenDone
  <2>4. Settled => Settled'
    BY <2>2 DEF Settled, Advances, held, Here
  <2> QED BY <2>3, <2>4 DEF Advances, held
<1>2. LateKept'
  BY DEF Safe, LateKept, Advances, held
<1>3. Spared'
  <2>1. Copied' => call'.uids = call.uids /\ Copied
    BY DEF Copied, Placed, Advances, Onward
  <2>2. \A f, u : Doomed(f, u)' => Doomed(f, u)
    BY <2>1 DEF Doomed, Advances
  <2> QED BY <2>2 DEF Safe, Spared, Advances, held, Here
<1>4. Reported'
  <2>1. call.op # "none"
    BY TodoFacts
  <2>2. outcome'.result = "none"
    BY <2>1 DEF Safe, Reported, Advances
  <2> QED BY <2>2 DEF Reported, DoneIsDone
<1> QED BY <1>1, <1>2, <1>3, <1>4 DEF Safe

-----------------------------------------------------------------------------
(* A call that ends keeps the invariant *)

LEMMA MoverDestinations ==
    /\ DOMAIN Destination = Movers /\ Movers \subseteq Operations /\ Purges \subseteq Operations
    /\ Movers \cap Purges = {} /\ "none" \notin Operations
  BY DEF Destination, Movers, Seekers, Purges, Operations

\* A call ends and the session stays.
Ends ==
    /\ call' = IdleCall
    /\ session'.up = session.up /\ session'.tag = session.tag /\ session'.ready = session.ready
    /\ session'.selected # Nowhere => session.selected # Nowhere
    /\ outcome'.op = call.op /\ outcome'.mail = call.mail
    /\ outcome'.result = "ok" /\ call.op \in Movers => ~Has(call.todo, Placing) \/ Placed
    /\ Leaves
    /\ UNCHANGED <<held, srv, late>>

LEMMA IdleFacts ==
    ASSUME call' = IdleCall
    PROVE  /\ call'.op = "none" /\ call'.op \notin Movers \cup Purges /\ call'.tag = 0 /\ call'.todo = <<>> /\ call'.got = <<>>
           /\ Chained(call'.op, call'.todo) /\ Staged(call'.op, call'.todo)
  BY DEF IdleCall, Movers, Seekers, Purges, Chained, Staged

LEMMA EndsConnected ==
    ASSUME TypeOK, Connected, Ends, session.ready, Asking => call.todo # <<>>
    PROVE  Connected'
<1>1. /\ call'.op = "none" /\ call'.op \notin Movers \cup Purges /\ call'.tag = 0 /\ call'.todo = <<>> /\ call'.got = <<>>
      /\ Chained(call'.op, call'.todo) /\ Staged(call'.op, call'.todo) /\ call' = IdleCall
  BY IdleFacts DEF Ends
<1>2. Shaped'
  BY <1>1 DEF Shaped, Ends, Connected
<1>3. Chosen' => Chosen
  BY <1>1 DEF Chosen, Ends
<1>4. (Tagged /\ OneByOne /\ Drained)'
  BY <1>1, <1>3, LeavesQuiet DEF Ends
<1> QED BY <1>2, <1>4 DEF Connected

LEMMA EndsAware ==
    ASSUME Aware, Ends
    PROVE  Aware'
<1>1. call'.op \notin Movers \cup Purges /\ call'.tag = 0 /\ call'.got = <<>>
  BY IdleFacts DEF Ends
<1>2. srv' = srv /\ mbox' = mbox
  BY DEF Ends, held
<1>3. call'.op \notin Seekers
  BY <1>1 DEF Seekers, Purges
<1> QED BY <1>1, <1>2, <1>3 DEF Aware, Truthful, TruthOf, Selected, Aimed, Found

LEMMA EndsSafe ==
    ASSUME Safe, Ends
    PROVE  Safe'
<1>1. call'.op = "none" /\ call'.op \notin Movers \cup Purges
  BY IdleFacts DEF Ends
<1>2. mbox' = mbox /\ forgone' = forgone /\ overtaken' = overtaken /\ late' = late
  BY DEF Ends, held
<1>3. PlacedWhenDone' /\ LateKept'
  BY <1>1, <1>2 DEF Safe, PlacedWhenDone, LateKept
<1>4. \A f, u : Doomed(f, u)' => Doomed(f, u)
  BY <1>1, <1>2 DEF Doomed, Copied
<1>5. Spared'
  BY <1>2, <1>4 DEF Safe, Spared, Here
<1>6. DoneIsDone'
  <2> SUFFICES ASSUME outcome'.result = "ok", call.op \in Movers, call.mail \notin overtaken
               PROVE  Destination[call.op] \in DOMAIN mbox /\ Here(Destination[call.op], call.mail) # {}
    BY <1>2, MoverDestinations DEF DoneIsDone, Ends, Here
  <2>1. Settled
    BY DEF Ends, Safe, PlacedWhenDone
  <2> QED BY <2>1 DEF Settled
<1> QED BY <1>1, <1>3, <1>5, <1>6 DEF Safe, Reported

\* A call ends and the connection with it.
Cuts ==
    /\ call' = IdleCall /\ Drops /\ wire' = <<>> /\ outcome'.result # "ok" /\ UNCHANGED held

\* The only command that can remove or move mail is the one waited for.
LEMMA PendingWrite ==
    ASSUME TypeOK, Connected, NEW i \in DOMAIN srv.queue, srv.queue[i].verb \in Writes \ {"CREATE"}
    PROVE  /\ Asking /\ srv.queue[i] = Current /\ Phase.do \in Modifying /\ call.todo # <<>>
           /\ Verb(Phase.do) = srv.queue[i].verb
<1>1. srv.queue[i].tag = call.tag /\ srv.queue[i].verb # "BLANK" /\ Asking
  BY VerbFacts DEF OneByOne, Connected
<1>2. srv.queue[i] = Current
  BY <1>1 DEF OneByOne, Connected
<1>3. Phase.do \in Modifying
  BY <1>2, VerbFacts DEF Current
<1>4. call.todo # <<>>
  BY <1>1 DEF Asking, Connected, Shaped
<1> QED BY <1>1, <1>2, <1>3, <1>4 DEF Current

LEMMA PendingExpunge ==
    ASSUME TypeOK, Connected, Aware, NEW i \in DOMAIN srv.queue, srv.queue[i].verb = "EXPUNGE"
    PROVE  /\ srv.queue[i] = Current /\ Asking /\ call.op \in Movers \cup Purges /\ Phase.do = "expunge"
           /\ call.op \in Purges => srv.open = "Trash"
           /\ call.op \in Movers => Copied /\ Found /\ srv.open \in DOMAIN mbox /\ call.uids \subseteq DOMAIN mbox[srv.open]
<1>1. srv.queue[i] = Current /\ Phase.do \in Modifying /\ call.todo # <<>> /\ Verb(Phase.do) = "EXPUNGE" /\ Asking
  BY PendingWrite DEF Writes
<1>2. Phase.do = "expunge"
  BY <1>1 DEF Verb, Modifying
<1>3. call.op \in Movers \cup Purges /\ ~Has(call.todo, Selecting)
  BY <1>1, ModifyingChosen
<1>4. /\ \A dos : Has(call.todo, dos) <=> Phase.do \in dos \/ Has(Rest, dos)
      /\ call.todo \in Seq(Phases) /\ Rest \in Seq(Phases) /\ Chained(call.op, call.todo)
  BY <1>1, TodoFacts
<1>5. Has(call.todo, {"expunge"})
  BY <1>2, <1>4
<1>6. call.op \in Purges => srv.open = "Trash"
  BY <1>3, <1>5 DEF Aware, Selected
<1>7. ASSUME call.op \in Movers
      PROVE  Copied /\ Found /\ srv.open \in DOMAIN mbox /\ call.uids \subseteq DOMAIN mbox[srv.open]
  <2>1. \A k \in DOMAIN Rest : Rest[k].do \in Ending
    BY <1>1, <1>2, <1>4, <1>7, HeadFacts DEF Rest, Phase
  <2>2. ~Has(Rest, Copying) /\ ~Has(Rest, Selecting) /\ ~Has(Rest, Finding)
    BY <1>4, <2>1, EndingHas
  <2>3. ~Has(call.todo, Copying) /\ ~Has(call.todo, Finding)
    BY <1>2, <1>4, <2>2 DEF Copying, Finding
  <2>4. Copied /\ Found
    BY <1>3, <1>5, <1>7, <2>3, HasSplit DEF Copied, Found, Seekers
  <2>5. call.uids # {} /\ \A u \in call.uids : Hit(srv.open, u, call.mail)
    BY <2>4 DEF Aware, Aimed
  <2> QED BY <2>4, <2>5 DEF Hit
<1> QED BY <1>1, <1>2, <1>3, <1>6, <1>7

LEMMA CutsKeeps ==
    ASSUME TypeOK, Connected, Aware, Safe, Cuts
    PROVE  (Connected /\ Aware /\ Safe)'
<1>1. /\ call'.op = "none" /\ call'.op \notin Movers \cup Purges /\ call'.tag = 0 /\ call'.todo = <<>> /\ call'.got = <<>>
      /\ Chained(call'.op, call'.todo) /\ Staged(call'.op, call'.todo) /\ call' = IdleCall
  BY IdleFacts DEF Cuts
<1>2. /\ session'.up = FALSE /\ session'.ready = FALSE /\ session'.tag = 0 /\ session'.selected = Nowhere
      /\ srv' = Listening /\ wire' = <<>>
      /\ srv'.idling = 0 /\ srv'.queue = <<>> /\ srv'.open = Nowhere
  BY DEF Cuts, Drops, Closed, Listening
<1>3. mbox' = mbox /\ forgone' = forgone /\ overtaken' = overtaken
  BY DEF Cuts, held
<1>4. Connected'
  <2>1. Shaped'
    BY <1>1, <1>2 DEF Shaped
  <2>2. Tagged' /\ OneByOne'
    BY <1>1, <1>2 DEF Tagged, OneByOne, Asking
  <2>3. Drained'
    BY <1>1, <1>2 DEF Drained, Chosen
  <2> QED BY <2>1, <2>2, <2>3 DEF Connected
<1>5. Aware'
  BY <1>1, <1>2 DEF Aware, Truthful, TruthOf, Selected, Aimed, Found, Seekers, Purges
<1>6. ASSUME NEW l \in late', l \notin late
      PROVE  /\ l.open = srv.open /\ l.cmd.verb \in Writes
             /\ l.cmd.verb = "EXPUNGE" =>
                  /\ l.cmd.op = call.op /\ l.cmd.uids = call.uids /\ call.op \in Movers \cup Purges
                  /\ call.op \in Purges => srv.open = "Trash"
                  /\ call.op \in Movers => Copied /\ srv.open \in DOMAIN mbox /\ call.uids \subseteq DOMAIN mbox[srv.open]
  <2>1. PICK cmd \in ToSet(srv.queue) : cmd.verb \in Writes /\ l = [open |-> srv.open, cmd |-> cmd]
    BY <1>6 DEF Cuts, Drops
  <2>2. PICK i \in DOMAIN srv.queue : cmd = srv.queue[i]
    BY <2>1 DEF ToSet
  <2>3. l.open = srv.open /\ l.cmd = srv.queue[i]
    BY <2>1, <2>2
  <2> QED BY <2>1, <2>2, <2>3, PendingExpunge DEF Current
<1>7. LateKept'
  <2> SUFFICES ASSUME NEW l \in late'
               PROVE  /\ l.cmd.verb \in Writes /\ (l.open = Nowhere \/ l.open \in DOMAIN mbox)
                      /\ l.cmd.verb = "EXPUNGE" =>
                           IF l.cmd.op \in Purges THEN l.open = "Trash"
                           ELSE l.open \in DOMAIN mbox /\ l.cmd.uids \subseteq DOMAIN mbox[l.open]
    BY <1>3 DEF LateKept
  <2> QED BY <1>6 DEF Safe, LateKept, Aware, Selected
<1>8. \A f, u : Doomed(f, u)' => Doomed(f, u)
  <2> SUFFICES ASSUME NEW f, NEW u, Doomed(f, u)' PROVE Doomed(f, u)
    OBVIOUS
  <2>1. PICK l \in late' : l.cmd.verb = "EXPUNGE" /\ l.cmd.op \notin Purges /\ f = l.open /\ u \in l.cmd.uids
    BY <1>1 DEF Doomed, Copied
  <2> QED BY <1>6, <2>1 DEF Doomed
<1>9. Spared'
  BY <1>3, <1>8 DEF Safe, Spared, Here
<1>10. PlacedWhenDone' /\ Reported'
  BY <1>1 DEF PlacedWhenDone, Reported, DoneIsDone, Cuts
<1> QED BY <1>4, <1>5, <1>7, <1>9, <1>10 DEF Safe

-----------------------------------------------------------------------------
(* A call that waits on keeps the invariant *)

\* A call takes note of a line, or answers it with a blank one.
Listens ==
    /\ call.tag # 0 /\ wire # <<>> /\ wire' = Tail(wire)
    /\ ~(Asking /\ Own(Head(wire))) /\ Head(wire).kind # "huge"
    /\ call'.op = call.op /\ call'.mail = call.mail /\ call'.todo = call.todo /\ call'.tag = call.tag /\ call'.uids = call.uids
    /\ call'.got = call.got \/ call'.got = Append(call.got, Head(wire))
    /\ \/ srv' = srv
       \/ \E cmd \in Commands : cmd.verb = "BLANK" /\ cmd.tag = call.tag /\ srv' = [srv EXCEPT !.queue = Append(@, cmd)]
    /\ UNCHANGED <<held, late, session, outcome>>

\* The lines that are left when the first has been read.
LEMMA WireTail ==
    ASSUME TypeOK, wire # <<>>
    PROVE  /\ Tail(wire) \in Seq(Heard) /\ Len(Tail(wire)) = Len(wire) - 1
           /\ Head(wire) = wire[1] /\ 1 \in DOMAIN wire /\ Head(wire) \in Heard
           /\ \A i \in DOMAIN Tail(wire) : i + 1 \in DOMAIN wire /\ i \in Nat /\ i + 1 # 1 /\ Tail(wire)[i] = wire[i + 1]
           /\ \A i \in DOMAIN wire : i # 1 => i - 1 \in DOMAIN Tail(wire) /\ wire[i] = Tail(wire)[i - 1]
<1>1. wire \in Seq(Heard)
  BY DEF TypeOK
<1>2. \A i \in DOMAIN Tail(wire) : i \in Nat /\ i + 1 # 1
  BY <1>1, TailFacts
<1> QED BY <1>1, <1>2, TailFacts

LEMMA QueueGrows ==
    ASSUME TypeOK, NEW cmd \in Commands, srv' = [srv EXCEPT !.queue = Append(@, cmd)]
    PROVE  /\ srv'.open = srv.open /\ srv'.idling = srv.idling /\ srv'.up = srv.up /\ srv'.queue \in Seq(Commands)
           /\ Len(srv'.queue) = Len(srv.queue) + 1 /\ DOMAIN srv'.queue = 1..(Len(srv.queue) + 1)
           /\ DOMAIN srv.queue = 1..Len(srv.queue) /\ Len(srv.queue) \in Nat
           /\ \A i \in DOMAIN srv.queue : srv'.queue[i] = srv.queue[i]
           /\ srv'.queue[Len(srv.queue) + 1] = cmd
           /\ \A i \in DOMAIN srv'.queue : i \in DOMAIN srv.queue \/ srv'.queue[i] = cmd
<1>1. srv.queue \in Seq(Commands)
  BY DEF TypeOK
<1>2. srv'.queue = Append(srv.queue, cmd) /\ srv'.open = srv.open /\ srv'.idling = srv.idling /\ srv'.up = srv.up
  BY DEF TypeOK
<1>3. \A i \in 1..(Len(srv.queue) + 1) : i \in 1..Len(srv.queue) \/ i = Len(srv.queue) + 1
  BY <1>1
<1> QED BY <1>1, <1>2, <1>3, AppendFacts

LEMMA ListensQueue ==
    ASSUME TypeOK, Listens
    PROVE  /\ srv'.open = srv.open /\ srv'.idling = srv.idling
           /\ \A i \in DOMAIN srv'.queue :
                \/ i \in DOMAIN srv.queue /\ srv'.queue[i] = srv.queue[i]
                \/ srv'.queue[i].verb = "BLANK" /\ srv'.queue[i].tag = call.tag
<1>1. CASE srv' = srv
  BY <1>1
<1>2. CASE srv' # srv
  <2>1. PICK cmd \in Commands : cmd.verb = "BLANK" /\ cmd.tag = call.tag /\ srv' = [srv EXCEPT !.queue = Append(@, cmd)]
    BY <1>2 DEF Listens
  <2> QED BY <2>1, QueueGrows
<1> QED BY <1>1, <1>2

\* The answer stays where it is when another line is read.
LEMMA ListensGranted ==
    ASSUME TypeOK, Listens
    PROVE  /\ Granted' => Granted
           /\ Asking /\ Granted => Granted'
           /\ \A r : Own(r)' <=> Own(r)
           /\ Phase' = Phase /\ Current' = Current /\ Asking' = Asking
<1>1. /\ Head(wire) = wire[1] /\ 1 \in DOMAIN wire
      /\ \A i \in DOMAIN Tail(wire) : i + 1 \in DOMAIN wire /\ i \in Nat /\ i + 1 # 1 /\ Tail(wire)[i] = wire[i + 1]
      /\ \A i \in DOMAIN wire : i # 1 => i - 1 \in DOMAIN Tail(wire) /\ wire[i] = Tail(wire)[i - 1]
  BY WireTail DEF Listens
<1>2. \A r : Own(r)' <=> Own(r)
  BY DEF Own, Listens
<1>3. Phase' = Phase /\ Current' = Current /\ Asking' = Asking
  BY DEF Phase, Current, Asking, Listens
<1>4. Granted' => Granted
  BY <1>1, <1>2 DEF Granted, Listens
<1>5. ASSUME Asking, Granted PROVE Granted'
  <2>1. PICK i \in DOMAIN wire : Own(wire[i]) /\ wire[i].status = "ok"
    BY <1>5 DEF Granted
  <2>2. i # 1
    BY <1>1, <1>5, <2>1 DEF Listens
  <2>3. i - 1 \in DOMAIN Tail(wire) /\ wire[i] = Tail(wire)[i - 1]
    BY <1>1, <2>2
  <2> QED BY <1>2, <2>1, <2>3 DEF Granted, Listens
<1> QED BY <1>2, <1>3, <1>4, <1>5

LEMMA ListensConnected ==
    ASSUME TypeOK, Connected, Listens
    PROVE  Connected'
<1>1. /\ srv'.open = srv.open /\ srv'.idling = srv.idling
      /\ \A i \in DOMAIN srv'.queue :
                \/ i \in DOMAIN srv.queue /\ srv'.queue[i] = srv.queue[i]
                \/ srv'.queue[i].verb = "BLANK" /\ srv'.queue[i].tag = call.tag
  BY ListensQueue
<1>2. /\ \A r : Own(r)' <=> Own(r)
      /\ Phase' = Phase /\ Current' = Current /\ Asking' = Asking
  BY ListensGranted
<1>3. /\ wire' = Tail(wire) /\ Len(wire') = Len(wire) - 1 /\ Len(wire) \in Nat
      /\ \A i \in DOMAIN wire' : i + 1 \in DOMAIN wire /\ i \in Nat /\ wire'[i] = wire[i + 1]
  BY WireTail DEF Listens, TypeOK
<1>4. Shaped'
  <2>1. call.tag # 0 /\ session.up /\ call.op # "none"
    BY DEF Listens, Connected, Shaped, IdleCall
  <2>2. Phase.do # "ready"
    BY <2>1 DEF Shaped, Connected
  <2> QED BY <1>2, <2>1, <2>2 DEF Shaped, Listens, Connected
<1>5. Tagged'
  <2>1. \A i \in DOMAIN wire' : wire'[i].tag <= session.tag
    BY <1>3 DEF Connected, Tagged
  <2>2. \A i \in DOMAIN srv'.queue : srv'.queue[i].tag <= session.tag
    BY <1>1 DEF Connected, Tagged
  <2>3. Asking => \A i \in DOMAIN srv'.queue : srv'.queue[i].verb \in Quiet \ {"BLANK"} => srv'.queue[i].tag # call.tag
    BY <1>1 DEF Connected, Tagged
  <2>4. call'.tag = call.tag /\ session' = session /\ call.tag <= session.tag /\ srv.idling <= session.tag
        /\ (Asking => srv.idling # call.tag)
    BY DEF Listens, Connected, Tagged
  <2> QED BY <1>1, <1>2, <2>1, <2>2, <2>3, <2>4 DEF Tagged
<1>6. Blank => Blank'
  BY <1>1 DEF Blank
<1>7. OneByOne'
  <2>1. ASSUME NEW i \in DOMAIN srv'.queue, Asking, srv'.queue[i].verb # "BLANK", srv'.queue[i].tag = call.tag
        PROVE  /\ srv'.queue[i] = Current
               /\ \A j \in DOMAIN srv'.queue : i < j => srv'.queue[j].verb = "BLANK"
    BY <1>1, <2>1 DEF Connected, OneByOne
  <2>2. ASSUME NEW i \in DOMAIN srv'.queue, srv'.queue[i].verb \in Writes \ {"CREATE"}
        PROVE  Asking /\ srv'.queue[i].tag = call.tag
    BY <1>1, <2>2, VerbFacts DEF Connected, OneByOne
  <2>3. ASSUME Asking, NEW i \in DOMAIN wire', Own(wire'[i]) PROVE i = Len(wire') /\ Blank'
    <3>1. i + 1 = Len(wire) /\ Blank
      BY <1>3, <2>3 DEF Connected, OneByOne
    <3> QED BY <1>3, <1>6, <3>1
  <2>4. call'.tag = call.tag
    BY DEF Listens
  <2> QED BY <1>2, <2>1, <2>2, <2>3, <2>4 DEF OneByOne
<1>8. Drained'
  <2>1. Chosen' => Chosen
    BY DEF Chosen, Listens
  <2>2. ASSUME Chosen, NEW i \in DOMAIN srv'.queue, srv'.queue[i].verb \notin Quiet PROVE Asking /\ srv'.queue[i].tag = call.tag
    BY <1>1, <2>2, VerbFacts DEF Connected, Drained
  <2>3. ASSUME Chosen, NEW i \in DOMAIN wire', wire'[i].kind = "huge"
        PROVE  /\ Asking /\ Blank' /\ Verb(Phase.do) \in {"FETCH", "BODY"}
               /\ \A j \in DOMAIN wire' : wire'[j].kind = "huge" => i = j
    <3>1. /\ Asking /\ Blank /\ Verb(Phase.do) \in {"FETCH", "BODY"}
          /\ \A j \in DOMAIN wire : wire[j].kind = "huge" => i + 1 = j
      BY <1>3, <2>3 DEF Connected, Drained
    <3>2. \A j \in DOMAIN wire' : wire'[j].kind = "huge" => i + 1 = j + 1
      BY <1>3, <3>1
    <3> QED BY <1>3, <1>6, <3>1, <3>2
  <2>4. ASSUME Chosen, NEW i \in DOMAIN wire', wire'[i].of = "SEARCH" PROVE Asking /\ Verb(Phase.do) = "SEARCH"
    BY <1>3, <2>4 DEF Connected, Drained
  <2>5. call'.tag = call.tag
    BY DEF Listens
  <2> QED BY <1>2, <2>1, <2>2, <2>3, <2>4, <2>5 DEF Drained
<1> QED BY <1>4, <1>5, <1>7, <1>8 DEF Connected

LEMMA ListensAware ==
    ASSUME TypeOK, Connected, Aware, Listens
    PROVE  Aware'
<1>1. /\ Granted' => Granted
      /\ Asking /\ Granted => Granted'
      /\ Phase' = Phase /\ Asking' = Asking
  BY ListensGranted
<1>2. srv'.open = srv.open /\ mbox' = mbox /\ overtaken' = overtaken
  BY ListensQueue DEF Listens, held
<1>3. \A f, u, m : Hit(f, u, m)' = Hit(f, u, m) /\ StillHit(f, u, m)' = StillHit(f, u, m)
  BY <1>2 DEF Hit, StillHit
<1>4. Truthful'
  <2>1. /\ \A i \in DOMAIN wire' : i + 1 \in DOMAIN wire /\ wire'[i] = wire[i + 1]
        /\ Head(wire) = wire[1] /\ 1 \in DOMAIN wire /\ Head(wire) \in Heard
    BY WireTail DEF Listens
  <2>2. \A r : TruthOf(r) => TruthOf(r)'
    BY <1>1, <1>2, <1>3 DEF TruthOf, Listens
  <2>3. \A i \in DOMAIN call'.got : TruthOf(call'.got[i])
    <3>1. \A i \in DOMAIN call.got : TruthOf(call.got[i])
      BY DEF Aware, Truthful
    <3>2. TruthOf(Head(wire))
      BY <2>1 DEF Aware, Truthful
    <3>3. \A i \in DOMAIN Append(call.got, Head(wire)) : TruthOf(Append(call.got, Head(wire))[i])
      <4>1. call.got \in Seq(Heard)
        BY DEF TypeOK, Calls
      <4>2. \A i \in 1..(Len(call.got) + 1) : i \in 1..Len(call.got) \/ i = Len(call.got) + 1
        BY <4>1
      <4> QED BY <2>1, <3>1, <3>2, <4>1, <4>2, AppendFacts
    <3> QED BY <3>1, <3>3 DEF Listens
  <2>4. \A i \in DOMAIN wire' : TruthOf(wire'[i])
    BY <2>1 DEF Aware, Truthful
  <2>5. call'.tag # 0
    BY DEF Listens
  <2> QED BY <2>2, <2>3, <2>4, <2>5 DEF Truthful
<1>5. Selected'
  BY <1>1, <1>2 DEF Aware, Selected, Listens
<1>6. Found' = Found /\ Placed' = Placed
  <2>1. Phase.do \in Placing /\ call.tag # 0 => Asking
    BY VerbFacts DEF Asking, Placing, Modifying
  <2> QED BY <1>1, <2>1 DEF Found, Placed, Listens
<1>7. Aimed'
  BY <1>2, <1>3, <1>6 DEF Aware, Aimed, Listens
<1> QED BY <1>4, <1>5, <1>7 DEF Aware

LEMMA ListensSafe ==
    ASSUME TypeOK, Connected, Safe, Listens
    PROVE  Safe'
<1>1. /\ Granted' => Granted
      /\ Asking /\ Granted => Granted'
      /\ Phase' = Phase /\ Asking' = Asking
  BY ListensGranted
<1>2. srv'.open = srv.open /\ mbox' = mbox /\ overtaken' = overtaken /\ forgone' = forgone /\ late' = late /\ outcome' = outcome
  BY ListensQueue DEF Listens, held
<1>3. Placed' = Placed
  <2>1. Phase.do \in Placing /\ call.tag # 0 => Asking
    BY VerbFacts DEF Asking, Placing, Modifying
  <2> QED BY <1>1, <2>1 DEF Placed, Listens
<1>4. PlacedWhenDone'
  BY <1>2, <1>3 DEF Safe, PlacedWhenDone, Settled, Here, Listens
<1>5. LateKept' /\ Reported'
  BY <1>2 DEF Safe, LateKept, Reported, DoneIsDone, Here, Listens
<1>6. \A f, u : Doomed(f, u)' => Doomed(f, u)
  BY <1>1, <1>2, <1>3 DEF Doomed, Copied, Listens
<1>7. Spared'
  BY <1>2, <1>6 DEF Safe, Spared, Here
<1> QED BY <1>4, <1>5, <1>7 DEF Safe

\* The exchange of an APPEND or an IDLE moves to its next phase.
Turns ==
    /\ call.todo # <<>> /\ call.tag # 0 /\ Phase.do \in {"append", "idle", "wait"}
    /\ wire' = wire \/ (wire # <<>> /\ wire' = Tail(wire))
    /\ \E q \in Phases : q.do \in {"literal", "wait", "done"} /\ call' = [call EXCEPT !.todo = <<q>> \o Rest]
    /\ \/ srv' = srv
       \/ \E cmd \in Commands : cmd.verb \in {"LITERAL", "DONE"} /\ cmd.tag = call.tag /\ srv' = [srv EXCEPT !.queue = Append(@, cmd)]
    /\ UNCHANGED <<held, late, session, outcome>>

LEMMA TurnsFacts ==
    ASSUME TypeOK, Connected, Turns
    PROVE  /\ call.op \notin Movers \cup Purges /\ call.op # "none" /\ session.up /\ ~Asking /\ ~Asking'
           /\ call'.op = call.op /\ call'.mail = call.mail /\ call'.tag = call.tag /\ call'.got = call.got /\ call'.uids = call.uids
           /\ call'.todo # <<>> /\ Phase'.do \in {"literal", "wait", "done"}
           /\ Chained(call.op, call'.todo)
           /\ Has(call'.todo, {"ready"}) <=> Has(call.todo, {"ready"})
           /\ Has(call'.todo, {"connect"}) <=> Has(call.todo, {"connect"})
           /\ srv'.open = srv.open /\ srv'.idling = srv.idling
           /\ \A i \in DOMAIN srv'.queue :
                \/ i \in DOMAIN srv.queue /\ srv'.queue[i] = srv.queue[i]
                \/ srv'.queue[i].verb \in {"LITERAL", "DONE"} /\ srv'.queue[i].tag = call.tag
<1>1. /\ call.todo \in Seq(Phases) /\ Rest \in Seq(Phases) /\ Phase \in Phases /\ Fits(call.op, Phase)
      /\ Chained(call.op, Rest) /\ \A i \in DOMAIN Rest : Before(call.op, Phase, Rest[i])
      /\ \A dos : Has(call.todo, dos) <=> Phase.do \in dos \/ Has(Rest, dos)
      /\ call.op # "none"
  BY TodoFacts DEF Turns
<1>2. call.op \notin Movers \cup Purges
  BY <1>1 DEF Turns, Fits, Entering, Finding, Placing, Ending
<1>3. PICK q \in Phases : q.do \in {"literal", "wait", "done"} /\ call' = [call EXCEPT !.todo = <<q>> \o Rest]
  BY DEF Turns
<1>4. Fits(call.op, q) /\ \A i \in DOMAIN Rest : Before(call.op, q, Rest[i])
  <2>1. Phase.do \notin Entering
    BY DEF Turns, Entering
  <2>2. Fits(call.op, q)
    BY <1>2, <1>3 DEF Fits, Modifying
  <2>3. \A i \in DOMAIN Rest : Rest[i].do # "connect" /\ Rest[i].do # "ready"
    BY <1>1, <2>1 DEF Before
  <2> QED BY <1>2, <2>2, <2>3 DEF Before, Seekers, Purges
<1>5. /\ Chained(call.op, <<q>> \o Rest) /\ Head(<<q>> \o Rest) = q /\ <<q>> \o Rest # <<>>
      /\ \A dos : Has(<<q>> \o Rest, dos) <=> q.do \in dos \/ Has(Rest, dos)
  BY <1>1, <1>3, <1>4, ConsChained
<1>6. /\ call'.op = call.op /\ call'.mail = call.mail /\ call'.tag = call.tag /\ call'.got = call.got /\ call'.uids = call.uids
      /\ call'.todo = <<q>> \o Rest
  BY <1>3 DEF TypeOK, Calls
<1>7. Phase' = q
  BY <1>5, <1>6 DEF Phase
<1>8. ~Asking /\ ~Asking'
  <2>1. Verb(Phase.do) \in Quiet
    BY DEF Turns, Verb, Quiet
  <2>2. Verb(q.do) \in Quiet
    BY <1>3 DEF Verb, Quiet
  <2> QED BY <1>7, <2>1, <2>2 DEF Asking
<1>9. session.up
  BY DEF Turns, Connected, Shaped
<1>10. /\ Has(<<q>> \o Rest, {"ready"}) <=> Has(call.todo, {"ready"})
       /\ Has(<<q>> \o Rest, {"connect"}) <=> Has(call.todo, {"connect"})
  <2>1. Phase.do \notin {"ready", "connect"} /\ q.do \notin {"ready", "connect"}
    BY <1>3 DEF Turns
  <2> QED BY <1>1, <1>5, <2>1
<1>11. /\ srv'.open = srv.open /\ srv'.idling = srv.idling
       /\ \A i \in DOMAIN srv'.queue :
                \/ i \in DOMAIN srv.queue /\ srv'.queue[i] = srv.queue[i]
                \/ srv'.queue[i].verb \in {"LITERAL", "DONE"} /\ srv'.queue[i].tag = call.tag
  <2>1. CASE srv' = srv
    BY <2>1
  <2>2. CASE srv' # srv
    <3>1. PICK cmd \in Commands : cmd.verb \in {"LITERAL", "DONE"} /\ cmd.tag = call.tag /\ srv' = [srv EXCEPT !.queue = Append(@, cmd)]
      BY <2>2 DEF Turns
    <3> QED BY <3>1, QueueGrows
  <2> QED BY <2>1, <2>2
<1> QED BY <1>1, <1>2, <1>3, <1>5, <1>6, <1>7, <1>8, <1>9, <1>10, <1>11

LEMMA TurnsKeeps ==
    ASSUME TypeOK, Connected, Aware, Safe, Turns
    PROVE  (Connected /\ Aware /\ Safe)'
<1>1. /\ call.op \notin Movers \cup Purges /\ call.op # "none" /\ session.up /\ ~Asking /\ ~Asking'
      /\ call'.op = call.op /\ call'.mail = call.mail /\ call'.tag = call.tag /\ call'.got = call.got /\ call'.uids = call.uids
      /\ call'.todo # <<>> /\ Phase'.do \in {"literal", "wait", "done"}
      /\ Chained(call.op, call'.todo)
      /\ Has(call'.todo, {"ready"}) <=> Has(call.todo, {"ready"})
      /\ Has(call'.todo, {"connect"}) <=> Has(call.todo, {"connect"})
      /\ srv'.open = srv.open /\ srv'.idling = srv.idling
      /\ \A i \in DOMAIN srv'.queue :
                \/ i \in DOMAIN srv.queue /\ srv'.queue[i] = srv.queue[i]
                \/ srv'.queue[i].verb \in {"LITERAL", "DONE"} /\ srv'.queue[i].tag = call.tag
  BY TurnsFacts
<1>2. mbox' = mbox /\ forgone' = forgone /\ overtaken' = overtaken /\ late' = late /\ outcome' = outcome /\ session' = session
  BY DEF Turns, held
<1>3. \A i \in DOMAIN wire' : \E j \in DOMAIN wire : wire'[i] = wire[j]
  BY ShorterWire DEF Turns, Shorter
<1>4. Shaped'
  BY <1>1, <1>2 DEF Connected, Shaped, Staged, Movers, Seekers, Purges, Turns
<1>5. Tagged'
  <2>1. \A i \in DOMAIN wire' : wire'[i].tag <= session.tag
    BY <1>3 DEF Connected, Tagged
  <2>2. \A i \in DOMAIN srv'.queue : srv'.queue[i].tag <= session.tag
    BY <1>1 DEF Connected, Tagged
  <2> QED BY <1>1, <1>2, <2>1, <2>2 DEF Connected, Tagged
<1>6. OneByOne'
  <2>1. \A i \in DOMAIN srv'.queue : srv'.queue[i].verb \notin Writes \ {"CREATE"}
    BY <1>1 DEF Connected, OneByOne, Writes
  <2> QED BY <1>1, <2>1 DEF OneByOne
<1>7. Drained'
  <2>1. Chosen' => Chosen
    BY <1>1, <1>2 DEF Chosen
  <2>2. Chosen => \A i \in DOMAIN srv'.queue : srv'.queue[i].verb \in Quiet
    BY <1>1 DEF Connected, Drained, Quiet
  <2>3. Chosen => \A i \in DOMAIN wire' : wire'[i].kind # "huge" /\ wire'[i].of # "SEARCH"
    BY <1>1, <1>3 DEF Connected, Drained
  <2> QED BY <2>1, <2>2, <2>3 DEF Drained
<1>8. Aware'
  <2>1. Truthful'
    BY <1>1 DEF Truthful, TruthOf, Seekers, Purges
  <2>2. Selected' /\ Aimed'
    BY <1>1, <1>2 DEF Aware, Selected, Aimed, Found, Selecting, Seekers, Purges
  <2> QED BY <2>1, <2>2 DEF Aware
<1>9. Safe'
  <2>1. \A f, u : Doomed(f, u)' => Doomed(f, u)
    BY <1>1, <1>2 DEF Doomed, Copied
  <2>2. Spared'
    BY <1>2, <2>1 DEF Safe, Spared, Here
  <2>3. PlacedWhenDone' /\ LateKept' /\ Reported'
    BY <1>1, <1>2 DEF Safe, PlacedWhenDone, LateKept, Reported, DoneIsDone, Here
  <2> QED BY <2>2, <2>3 DEF Safe
<1> QED BY <1>4, <1>5, <1>6, <1>7, <1>8, <1>9 DEF Connected

-----------------------------------------------------------------------------
(* A call that sends a command, starts or connects keeps the invariant *)

LEMMA SendsCommand ==
    ASSUME TypeOK, Connected, Send
    PROVE  /\ Current' \in Commands /\ srv' = [srv EXCEPT !.queue = Append(@, Current')] /\ call'.tag = session.tag + 1
           /\ call' = [call EXCEPT !.tag = session.tag + 1] /\ session' = [session EXCEPT !.tag = session.tag + 1]
           /\ call'.op = call.op /\ call'.mail = call.mail /\ call'.todo = call.todo /\ call'.got = call.got /\ call'.uids = call.uids
           /\ session'.tag = session.tag + 1 /\ session'.up = session.up /\ session'.ready = session.ready
           /\ session'.selected = session.selected
           /\ Phase' = Phase /\ session.tag \in Nat /\ call.op # "none"
<1>1. Phase \in Phases /\ call.op # "none"
  BY TodoFacts DEF Send
<1>2. /\ call' = [call EXCEPT !.tag = session.tag + 1] /\ session' = [session EXCEPT !.tag = session.tag + 1]
      /\ session.tag \in Nat
  BY DEF Send, TypeOK
<1>3. /\ call'.tag = session.tag + 1
      /\ call'.op = call.op /\ call'.mail = call.mail /\ call'.todo = call.todo /\ call'.got = call.got /\ call'.uids = call.uids
      /\ session'.tag = session.tag + 1 /\ session'.up = session.up /\ session'.ready = session.ready
      /\ session'.selected = session.selected
  BY <1>2 DEF TypeOK, Calls
<1>4. Phase' = Phase
  BY <1>3 DEF Phase
<1>5. Current' = [tag |-> session.tag + 1, verb |-> Verb(Phase.do), folder |-> Phase.in, phase |-> Phase.do,
                  uids |-> call.uids, op |-> call.op, mail |-> call.mail]
  BY <1>3, <1>4 DEF Current
<1>6. Current' \in Commands
  <2>1. Verb(Phase.do) \in Verbs /\ Phase.in \in Places /\ Phase.do \in Dos
    BY <1>1 DEF Phases, Verbs
  <2>2. call.uids \in SUBSET Nat /\ call.op \in Operations /\ call.mail \in Mails \cup {Outgoing}
    BY <1>1 DEF TypeOK, Calls
  <2> QED BY <1>2, <1>5, <2>1, <2>2 DEF Commands
<1> QED BY <1>1, <1>2, <1>3, <1>4, <1>5, <1>6 DEF Send

LEMMA MintedTags ==
    ASSUME TypeOK, Connected
    PROVE  /\ \A i \in DOMAIN wire : wire[i].tag \in Nat /\ wire[i].tag <= session.tag
           /\ \A i \in DOMAIN srv.queue : srv.queue[i].tag \in Nat /\ srv.queue[i].tag <= session.tag
           /\ srv.idling \in Nat /\ srv.idling <= session.tag
<1>1. wire \in Seq(Heard) /\ srv.queue \in Seq(Commands) /\ srv.idling \in Nat
  BY DEF TypeOK
<1>2. \A r \in Heard : r.tag \in Nat
  BY DEF Heard
<1>3. \A cmd \in Commands : cmd.tag \in Nat
  BY DEF Commands
<1>4. \A i \in DOMAIN wire : wire[i] \in Heard
  BY <1>1
<1>5. \A i \in DOMAIN srv.queue : srv.queue[i] \in Commands
  BY <1>1
<1> QED BY <1>1, <1>2, <1>3, <1>4, <1>5 DEF Connected, Tagged

LEMMA SendConnected ==
    ASSUME TypeOK, Connected, Send
    PROVE  Connected'
<1>1. /\ Current' \in Commands /\ srv' = [srv EXCEPT !.queue = Append(@, Current')] /\ call'.tag = session.tag + 1
      /\ call'.op = call.op /\ call'.todo = call.todo
      /\ session'.tag = session.tag + 1 /\ session'.up = session.up /\ session'.ready = session.ready
      /\ session'.selected = session.selected
      /\ Phase' = Phase /\ session.tag \in Nat /\ call.op # "none"
  BY SendsCommand
<1>2. /\ srv'.idling = srv.idling
      /\ \A i \in DOMAIN srv'.queue : (i \in DOMAIN srv.queue /\ srv'.queue[i] = srv.queue[i]) \/ srv'.queue[i] = Current'
      /\ DOMAIN srv'.queue = 1..(Len(srv.queue) + 1) /\ DOMAIN srv.queue = 1..Len(srv.queue)
      /\ \A i \in DOMAIN srv.queue : srv'.queue[i] = srv.queue[i]
  BY <1>1, QueueGrows
<1>3. /\ Current'.tag = session.tag + 1 /\ Current'.verb = Verb(Phase.do)
  BY <1>1 DEF Current
<1>4. ~Asking /\ wire' = wire /\ call.tag = 0
  BY DEF Send, Asking
<1>5. /\ \A i \in DOMAIN wire : wire[i].tag \in Nat /\ wire[i].tag <= session.tag
      /\ \A i \in DOMAIN srv.queue : srv.queue[i].tag \in Nat /\ srv.queue[i].tag <= session.tag
      /\ srv.idling \in Nat /\ srv.idling <= session.tag
  BY MintedTags
<1>6. Shaped'
  <2>1. session.up /\ call.todo # <<>> /\ session.tag + 1 # 0
    BY <1>1, ConnectFirst DEF Send
  <2>2. Phase.do # "ready"
    BY DEF Send, Skipped
  <2> QED BY <1>1, <2>1, <2>2 DEF Connected, Shaped
<1>7. Asking' <=> Verb(Phase.do) \notin Quiet
  BY <1>1 DEF Asking
<1>8. Tagged'
  <2>1. \A i \in DOMAIN srv'.queue : srv'.queue[i].tag <= session.tag + 1
    BY <1>1, <1>2, <1>3, <1>5
  <2>2. \A i \in DOMAIN wire : wire[i].tag <= session.tag + 1
    BY <1>1, <1>5
  <2>3. srv.idling <= session.tag + 1 /\ srv.idling # session.tag + 1
    BY <1>1, <1>5
  <2>4. Asking' => \A i \in DOMAIN srv'.queue : srv'.queue[i].verb \in Quiet \ {"BLANK"} => srv'.queue[i].tag # session.tag + 1
    <3>1. \A i \in DOMAIN srv.queue : srv.queue[i].tag # session.tag + 1
      BY <1>1, <1>5
    <3> QED BY <1>2, <1>3, <1>7, <3>1
  <2>5. session.tag + 1 <= session.tag + 1
    BY <1>1
  <2> QED BY <1>1, <1>2, <1>4, <2>1, <2>2, <2>3, <2>4, <2>5 DEF Tagged
<1>9. OneByOne'
  <2>1. ASSUME NEW i \in DOMAIN srv'.queue, srv'.queue[i].tag = session.tag + 1
        PROVE  srv'.queue[i] = Current' /\ \A j \in DOMAIN srv'.queue : ~(i < j)
    <3>1. i \notin DOMAIN srv.queue
      BY <1>1, <1>2, <1>5, <2>1
    <3>2. Len(srv.queue) \in Nat
      BY DEF TypeOK
    <3>3. i = Len(srv.queue) + 1
      BY <1>2, <3>1, <3>2
    <3>4. \A j \in DOMAIN srv'.queue : ~(i < j)
      BY <1>2, <3>2, <3>3
    <3> QED BY <1>2, <3>1, <3>4
  <2>2. ASSUME NEW i \in DOMAIN srv'.queue, srv'.queue[i].verb \in Writes \ {"CREATE"}
        PROVE  Asking' /\ srv'.queue[i].tag = session.tag + 1
    <3>1. i \notin DOMAIN srv.queue
      BY <1>2, <1>4, <2>2 DEF Connected, OneByOne
    <3> QED BY <1>2, <1>3, <1>7, <2>2, <3>1, VerbFacts
  <2>3. \A i \in DOMAIN wire : ~Own(wire[i])'
    <3>1. \A i \in DOMAIN wire : wire[i].tag # session.tag + 1
      BY <1>1, <1>5
    <3> QED BY <1>1, <1>4, <3>1 DEF Own
  <2> QED BY <1>1, <1>4, <2>1, <2>2, <2>3 DEF OneByOne
<1>10. Drained'
  <2>1. Chosen' => Chosen
    BY <1>1 DEF Chosen
  <2>2. ASSUME Chosen, NEW i \in DOMAIN srv'.queue, srv'.queue[i].verb \notin Quiet PROVE Asking' /\ srv'.queue[i].tag = session.tag + 1
    BY <1>2, <1>3, <1>4, <1>7, <2>2 DEF Connected, Drained
  <2>3. Chosen => \A i \in DOMAIN wire' : wire'[i].kind # "huge" /\ wire'[i].of # "SEARCH"
    BY <1>4 DEF Connected, Drained
  <2> QED BY <1>1, <2>1, <2>2, <2>3 DEF Drained
<1> QED BY <1>6, <1>8, <1>9, <1>10 DEF Connected

LEMMA SendAware ==
    ASSUME TypeOK, Connected, Aware, Send
    PROVE  Aware'
<1>1. /\ call'.tag = session.tag + 1
      /\ call'.op = call.op /\ call'.mail = call.mail /\ call'.todo = call.todo /\ call'.got = call.got /\ call'.uids = call.uids
      /\ Phase' = Phase /\ session.tag \in Nat
      /\ Current' \in Commands /\ srv' = [srv EXCEPT !.queue = Append(@, Current')]
  BY SendsCommand
<1>2. srv'.open = srv.open
  BY <1>1, QueueGrows
<1>3. wire' = wire /\ mbox' = mbox /\ overtaken' = overtaken /\ call.tag = 0 /\ call.todo # <<>> /\ call'.tag # 0
  BY <1>1 DEF Send, held
<1>4. \A i \in DOMAIN wire : ~Own(wire[i])'
  <2>1. \A i \in DOMAIN wire : wire[i].tag # session.tag + 1
    BY <1>1, MintedTags
  <2> QED BY <1>1, <1>3, <2>1 DEF Own
<1>5. ~Granted' /\ ~Placed' /\ ~Placed
  BY <1>3, <1>4 DEF Granted, Placed
<1>6. call.got = <<>>
  BY <1>3 DEF Connected, Shaped
<1>7. Truthful'
  <2>1. ASSUME call.op \in Seekers, Phase.do = "search", NEW i \in DOMAIN wire, wire[i].of = "SEARCH" PROVE FALSE
    <3>1. call.todo \in Seq(Phases) /\ Chained(call.op, call.todo) /\ \A dos : Has(call.todo, dos) <=> Phase.do \in dos \/ Has(Rest, dos)
      BY <1>3, TodoFacts
    <3>2. ~Has(Rest, Selecting)
      BY <1>3, <2>1, <3>1, HeadFacts DEF Rest, Phase, Finding
    <3>3. Chosen
      BY <2>1, <3>1, <3>2 DEF Chosen, Selecting, Seekers, Purges
    <3> QED BY <1>3, <2>1, <3>3 DEF Connected, Drained, Asking
  <2>2. ASSUME call.op \in Seekers, Phase.do = "scan" PROVE wire = <<>>
    BY <1>3, <2>2 DEF Aware, Truthful
  <2>3. \A i \in DOMAIN wire : TruthOf(wire[i])'
    <3> SUFFICES ASSUME NEW i \in DOMAIN wire PROVE TruthOf(wire[i])'
      BY <1>3
    <3>1. ASSUME call.op \in Seekers, Phase.do = "scan" PROVE FALSE
      BY <2>2, <3>1
    <3> QED BY <1>1, <1>3, <2>1, <3>1 DEF TruthOf
  <2> QED BY <1>1, <1>3, <1>6, <2>3 DEF Truthful
<1>8. Selected'
  BY <1>1, <1>2, <1>3, <1>5 DEF Aware, Selected
<1>9. Aimed'
  BY <1>1, <1>2, <1>3, <1>5 DEF Aware, Aimed, Found, Hit, StillHit
<1> QED BY <1>7, <1>8, <1>9 DEF Aware

LEMMA SendSafe ==
    ASSUME TypeOK, Connected, Aware, Safe, Send
    PROVE  Safe'
<1>1. /\ call'.tag = session.tag + 1
      /\ call'.op = call.op /\ call'.mail = call.mail /\ call'.todo = call.todo /\ call'.uids = call.uids
      /\ Phase' = Phase /\ session.tag \in Nat
      /\ Current' \in Commands /\ srv' = [srv EXCEPT !.queue = Append(@, Current')]
  BY SendsCommand
<1>2. srv'.open = srv.open
  BY <1>1, QueueGrows
<1>3. /\ wire' = wire /\ mbox' = mbox /\ overtaken' = overtaken /\ forgone' = forgone /\ late' = late /\ outcome' = outcome
      /\ call.tag = 0
  BY DEF Send, held
<1>4. \A i \in DOMAIN wire : ~Own(wire[i])'
  <2>1. \A i \in DOMAIN wire : wire[i].tag # session.tag + 1
    BY <1>1, MintedTags
  <2> QED BY <1>1, <1>3, <2>1 DEF Own
<1>5. ~Placed' /\ ~Placed
  BY <1>3, <1>4 DEF Granted, Placed
<1>6. PlacedWhenDone' /\ LateKept' /\ Reported'
  BY <1>1, <1>2, <1>3, <1>5 DEF Safe, PlacedWhenDone, Settled, LateKept, Reported, DoneIsDone, Here
<1>7. \A f, u : Doomed(f, u)' => Doomed(f, u)
  BY <1>1, <1>2, <1>3, <1>5 DEF Doomed, Copied
<1>8. Spared'
  BY <1>3, <1>7 DEF Safe, Spared, Here
<1> QED BY <1>6, <1>8 DEF Safe

\* A list that still selects has not found or placed anything.
LEMMA SelectingFirst ==
    ASSUME NEW op \in Movers \cup Purges, NEW t \in Seq(Phases), Chained(op, t), Staged(op, t), Has(t, Selecting)
    PROVE  /\ op \in Movers => Has(t, Placing) /\ ~(Has(t, {"expunge"}) /\ ~Has(t, Copying))
           /\ op \in Seekers => Head(t).do # "scan"
<1>1. op \in Movers => Has(t, Placing)
  BY DEF Staged, Seekers
<1>2. PICK i \in DOMAIN t : t[i].do \in Selecting
  BY DEF Has
<1>3. op \in Movers => ~(Has(t, {"expunge"}) /\ ~Has(t, Copying))
  <2>1. t[i].do \notin Ending
    BY <1>2 DEF Selecting, Ending
  <2> QED BY <2>1 DEF Staged
<1>4. op \in Seekers => Head(t).do # "scan"
  <2> SUFFICES ASSUME op \in Seekers, Head(t).do = "scan" PROVE FALSE
    OBVIOUS
  <2>1. t # <<>> /\ Head(t) = t[1] /\ 1 \in DOMAIN t /\ DOMAIN t = 1..Len(t)
    BY <1>2
  <2>2. i # 1
    BY <1>2, <2>1 DEF Selecting
  <2>3. 1 < i
    BY <2>1, <2>2
  <2>4. Before(op, t[1], t[i])
    BY <2>1, <2>3 DEF Chained
  <2> QED BY <1>2, <2>1, <2>4 DEF Before, Finding, Selecting, Placing, Ending
<1> QED BY <1>1, <1>3, <1>4

LEMMA ConnectKeeps ==
    ASSUME TypeOK, Connected, Aware, Safe, Connect
    PROVE  (Connected /\ Aware /\ Safe)'
<1>1. /\ call.todo # <<>> /\ Phase.do = "connect" /\ call.op # "none"
      /\ Rest \in Seq(Phases) /\ Chained(call.op, Rest) /\ Staged(call.op, Rest)
      /\ \A dos : Has(call.todo, dos) <=> Phase.do \in dos \/ Has(Rest, dos)
      /\ call.todo \in Seq(Phases) /\ Chained(call.op, call.todo) /\ Fits(call.op, Phase)
  BY TodoFacts DEF Connect
<1>2. ~session.up /\ ~session.ready /\ wire = <<>>
  BY <1>1, ConnectFirst DEF Connected, Shaped
<1>3. ~Has(Rest, {"connect"})
  BY <1>1, HeadFacts DEF Rest, Phase
<1>4. wire' = <<>> /\ UNCHANGED held
  BY <1>2 DEF Connect
<1>5. CASE call' = IdleCall /\ outcome'.result = "dead" /\ Drops
  BY <1>4, <1>5, CutsKeeps DEF Cuts
<1>6. CASE /\ session' = [Closed EXCEPT !.up = TRUE] /\ srv' = [Listening EXCEPT !.up = TRUE]
           /\ Continues(Rest) /\ UNCHANGED <<outcome, late, faults>>
  <2>1. /\ session'.up = TRUE /\ session'.ready = FALSE /\ session'.tag = 0 /\ session'.selected = Nowhere
        /\ srv'.idling = 0 /\ srv'.queue = <<>> /\ srv'.open = Nowhere
    BY <1>6 DEF Closed, Listening
  <2>2. /\ call'.op = call.op /\ call'.mail = call.mail /\ call'.todo = Rest /\ call'.tag = 0 /\ call'.got = <<>>
        /\ call'.uids = call.uids
    BY <1>6 DEF Continues, TypeOK, Calls
  <2>3. Has(Rest, {"ready"}) /\ (call.op \in Movers \cup Purges => Has(Rest, Selecting))
    BY <1>1, <1>2 DEF Connected, Shaped, Selecting
  <2>4. /\ call.op \in Movers => Has(Rest, Placing) /\ ~(Has(Rest, {"expunge"}) /\ ~Has(Rest, Copying))
        /\ call.op \in Seekers => Head(Rest).do # "scan"
    BY <1>1, <2>3, SelectingFirst DEF Seekers, Purges
  <2>5. Connected'
    <3>1. Shaped'
      BY <1>1, <1>3, <2>1, <2>2, <2>3 DEF Shaped
    <3>2. Tagged' /\ OneByOne'
      BY <1>4, <2>1, <2>2 DEF Tagged, OneByOne, Asking
    <3>3. Drained'
      BY <1>4, <2>1, <2>2 DEF Drained
    <3> QED BY <3>1, <3>2, <3>3 DEF Connected
  <2>6. Aware'
    <3>1. Truthful'
      BY <1>4, <2>1, <2>2, <2>4 DEF Truthful, TruthOf, Phase
    <3>2. Selected'
      BY <2>1, <2>2, <2>3 DEF Selected
    <3>3. Found' = FALSE
      BY <2>2, <2>3, HasSplit DEF Found, Seekers, Purges
    <3> QED BY <3>1, <3>2, <3>3 DEF Aware, Aimed
  <2>7. Safe'
    <3>1. ~Placed'
      BY <2>2 DEF Placed
    <3>2. PlacedWhenDone' /\ LateKept' /\ Reported'
      BY <1>4, <1>6, <2>2, <2>4, <3>1 DEF Safe, PlacedWhenDone, LateKept, Reported, DoneIsDone, Here, held
    <3>3. ~Copied'
      BY <2>2, <2>4, <3>1 DEF Copied
    <3>4. \A f, u : Doomed(f, u)' => Doomed(f, u)
      BY <1>6, <3>3 DEF Doomed
    <3>5. Spared'
      BY <1>4, <3>4 DEF Safe, Spared, Here, held
    <3> QED BY <3>2, <3>5 DEF Safe
  <2> QED BY <2>5, <2>6, <2>7
<1> QED BY <1>5, <1>6 DEF Connect, Reports

LEMMA BeginKeeps ==
    ASSUME TypeOK, Connected, Aware, Safe, NEW op \in Operations, NEW m, NEW hints, Begin(op, m, hints)
    PROVE  (Connected /\ Aware /\ Safe)'
<1> DEFINE todo == (IF session.ready THEN <<>> ELSE Login) \o Program(op)
<1>1. /\ todo \in Seq(Phases) /\ Chained(op, todo) /\ Staged(op, todo)
      /\ ~session.ready => Has(todo, {"ready"})
      /\ Has(todo, {"connect"}) <=> ~session.ready
      /\ op \in Movers \cup Purges => Has(todo, Selecting)
      /\ op \in Movers => Has(todo, Placing) /\ ~Has(todo, {"expunge"})
  BY BeginShaped
<1>2. /\ call'.op = op /\ call'.todo = todo /\ call'.tag = 0 /\ call'.got = <<>>
  BY DEF Begin, IdleCall
<1> HIDE DEF todo
<1>3. /\ wire' = wire /\ srv' = srv /\ late' = late /\ session' = session /\ mbox' = mbox /\ forgone' = forgone
      /\ overtaken' = overtaken /\ call.op = "none" /\ op # "none"
  BY MoverDestinations DEF Begin, held, link
<1>4. session.up = session.ready /\ call = IdleCall /\ ~Asking /\ ~Asking'
  BY <1>2, <1>3 DEF Connected, Shaped, Asking, IdleCall
<1>5. op \in Seekers => Head(todo).do # "scan"
  BY <1>1, SelectingFirst DEF Seekers, Purges
<1>6. Connected'
  <2>1. Shaped'
    BY <1>1, <1>2, <1>3, <1>4 DEF Connected, Shaped
  <2>2. Tagged'
    <3>1. 0 <= session.tag
      BY DEF TypeOK
    <3> QED BY <1>2, <1>3, <1>4, <3>1 DEF Connected, Tagged
  <2>3. OneByOne'
    BY <1>3, <1>4 DEF Connected, OneByOne
  <2>4. Chosen' => Chosen
    BY <1>1, <1>2, <1>3 DEF Chosen
  <2>5. Drained'
    BY <1>3, <1>4, <2>4 DEF Connected, Drained
  <2> QED BY <2>1, <2>2, <2>3, <2>5 DEF Connected
<1>7. Aware'
  <2>2. ~Found'
    BY <1>1, <1>2, HasSplit DEF Found, Seekers, Purges
  <2>3. Truthful'
    BY <1>2, <1>5 DEF Truthful, TruthOf, Phase
  <2>4. Selected'
    BY <1>1, <1>2, <1>3 DEF Aware, Selected
  <2> QED BY <2>2, <2>3, <2>4 DEF Aware, Aimed
<1>8. Safe'
  <2>1. ~Placed' /\ ~Copied'
    BY <1>1, <1>2 DEF Placed, Copied
  <2>2. \A f, u : Doomed(f, u)' => Doomed(f, u)
    BY <1>3, <2>1 DEF Doomed
  <2>3. Spared'
    BY <1>3, <2>2 DEF Safe, Spared, Here
  <2>4. PlacedWhenDone' /\ LateKept'
    BY <1>1, <1>2, <1>3, <2>1 DEF Safe, PlacedWhenDone, LateKept
  <2>5. Reported'
    BY DEF Begin, NoOutcome, Reported, DoneIsDone
  <2> QED BY <2>3, <2>4, <2>5 DEF Safe
<1> QED BY <1>6, <1>7, <1>8

-----------------------------------------------------------------------------
(* What a step of the provider amounts to *)

Proceeds ==
    \/ Cuts
    \/ Ends /\ session.ready
    \/ \E t, uids : Advances(t, uids) /\ Onward(t, uids)
    \/ Listens
    \/ Turns

LEMMA ProceedsKeeps ==
    ASSUME TypeOK, Connected, Aware, Safe, Proceeds,
           call.todo # <<>> => Phase.do # "connect" \/ Cuts, call.todo = <<>> => Ends /\ session.ready
    PROVE  (Connected /\ Aware /\ Safe)'
<1>1. CASE Cuts
  BY <1>1, CutsKeeps
<1>2. CASE Ends /\ session.ready
  <2>1. Asking => call.todo # <<>>
    BY DEF Asking, Connected, Shaped
  <2> QED BY <1>2, <2>1, EndsConnected, EndsAware, EndsSafe
<1>3. CASE call.todo # <<>> /\ ~Cuts /\ \E t, uids : Advances(t, uids) /\ Onward(t, uids)
  BY <1>3, AdvancesConnected, AdvancesAware, AdvancesSafe
<1>4. CASE Listens
  BY <1>4, ListensConnected, ListensAware, ListensSafe
<1>5. CASE Turns
  BY <1>5, TurnsKeeps
<1> QED BY <1>1, <1>2, <1>3, <1>4, <1>5 DEF Proceeds

\* A phase after the login has a session that is ready.
LEMMA ReadyPhase ==
    ASSUME TypeOK, Connected, call.todo # <<>>, Phase.do \notin Entering \cup {"ready"}
    PROVE  session.ready
<1>1. /\ call.todo \in Seq(Phases) /\ Chained(call.op, call.todo) /\ call.op # "none"
      /\ \A dos : Has(call.todo, dos) <=> Phase.do \in dos \/ Has(Rest, dos)
  BY TodoFacts
<1>2. ~Has(Rest, {"ready"})
  BY <1>1, HeadFacts DEF Rest, Phase
<1> QED BY <1>1, <1>2 DEF Connected, Shaped

\* How the lines a step has read leave the wire.
Reads(rest) ==
    /\ wire' = IF session'.up THEN rest ELSE <<>>
    /\ session'.up => Leaves /\ (Completed => wire' = Tail(wire))

LEMMA SessionFields ==
    ASSUME TypeOK
    PROVE  /\ \A f : [session EXCEPT !.selected = f].up = session.up /\ [session EXCEPT !.selected = f].tag = session.tag
                     /\ [session EXCEPT !.selected = f].ready = session.ready /\ [session EXCEPT !.selected = f].selected = f
           /\ \A f, b : /\ [session EXCEPT !.selected = f, !.refused = b].up = session.up
                        /\ [session EXCEPT !.selected = f, !.refused = b].tag = session.tag
                        /\ [session EXCEPT !.selected = f, !.refused = b].ready = session.ready
                        /\ [session EXCEPT !.selected = f, !.refused = b].selected = f
           /\ \A v : [session EXCEPT !.roles = v].up = session.up /\ [session EXCEPT !.roles = v].tag = session.tag
                     /\ [session EXCEPT !.roles = v].ready = session.ready /\ [session EXCEPT !.roles = v].selected = session.selected
           /\ \A v : [session EXCEPT !.caps = v].up = session.up /\ [session EXCEPT !.caps = v].tag = session.tag
                     /\ [session EXCEPT !.caps = v].ready = session.ready /\ [session EXCEPT !.caps = v].selected = session.selected
           /\ \A v, b : /\ [session EXCEPT !.roles = v, !.negotiated = b].up = session.up
                        /\ [session EXCEPT !.roles = v, !.negotiated = b].tag = session.tag
                        /\ [session EXCEPT !.roles = v, !.negotiated = b].ready = session.ready
                        /\ [session EXCEPT !.roles = v, !.negotiated = b].selected = session.selected
  BY DEF TypeOK

\* A phase is replaced by others.
LEMMA ContinuesAdvances ==
    ASSUME TypeOK, Connected, call.todo # <<>>, Phase.do \notin {"connect", "ready"}, NEW t, Continues(t),
           UNCHANGED <<held, link, outcome>>, Reads(wire) \/ Reads(Tail(wire)),
           session'.up = session.up, session'.tag = session.tag, session'.ready = session.ready,
           session'.selected # Nowhere => session.selected # Nowhere \/ (Completed /\ Phase.do \in Selecting)
    PROVE  Advances(t, call.uids)
<1>1. /\ call'.op = call.op /\ call'.mail = call.mail /\ call'.todo = t /\ call'.tag = 0 /\ call'.got = <<>>
      /\ call'.uids = call.uids
  BY DEF Continues, TypeOK, Calls
<1>2. session'.up
  BY ConnectFirst
<1>3. Leaves /\ (Completed => wire' = Tail(wire))
  BY <1>2 DEF Reads
<1>4. session'.ready = (session.ready \/ Phase.do = "ready")
  BY DEF TypeOK
<1> QED BY <1>1, <1>3, <1>4 DEF Advances, link

\* A call reports and keeps the session.
LEMMA ReportsEnds ==
    ASSUME TypeOK, Connected, call.todo # <<>>, Phase.do # "connect", NEW result, NEW served, Reports(result, served),
           UNCHANGED <<held, link>>, Reads(wire) \/ Reads(Tail(wire)),
           session'.up = session.up, session'.tag = session.tag, session'.ready = session.ready,
           session'.selected # Nowhere => session.selected # Nowhere,
           result = "ok" => call.op \notin Movers
    PROVE  Ends
<1>1. session'.up
  BY ConnectFirst
<1>2. Leaves
  BY <1>1 DEF Reads
<1>3. outcome'.op = call.op /\ outcome'.mail = call.mail /\ outcome'.result = result
  BY DEF Reports
<1> QED BY <1>2, <1>3 DEF Ends, Reports, link

LEMMA FailsProceeds ==
    ASSUME TypeOK, Connected, Aware, call.todo # <<>>, Phase.do \notin {"connect", "ready"},
           NEW failure \in {"verdict", "dead", "auth", "gone"}, Fails(failure), UNCHANGED held,
           Reads(wire) \/ Reads(Tail(wire)), Phase.do \in Placing => ~Placed
    PROVE  Proceeds
<1> DEFINE kind == IF call.op = "file" /\ Phase.do \in {"search", "scan"} THEN "gone" ELSE failure
<1>1. kind # "ok"
  OBVIOUS
<1>2. CASE Recovery(kind) # {}
  <2> DEFINE t == CHOOSE todo \in Recovery(kind) : TRUE
  <2>1. t \in Recovery(kind)
    BY <1>2
  <2>2. /\ Continues(t) /\ UNCHANGED <<link, outcome>>
        /\ session' = [session EXCEPT !.selected = IF kind = "gone" \/ call.op = "members" THEN Nowhere ELSE @]
    BY <1>2 DEF Fails
  <2> HIDE DEF t, kind
  <2>3. Onward(t, call.uids)
    BY <2>1, RecoveryOnward
  <2>4. /\ session'.up = session.up /\ session'.tag = session.tag /\ session'.ready = session.ready
        /\ session'.selected # Nowhere => session.selected # Nowhere
    BY <2>2, SessionFields
  <2>5. Advances(t, call.uids)
    BY <2>2, <2>4, ContinuesAdvances
  <2> QED BY <2>3, <2>5 DEF Proceeds
<1>3. CASE Recovery(kind) = {} /\ DropsSession(kind)
  <2>1. Reports(kind, Outgoing) /\ Drops
    BY <1>3 DEF Fails
  <2>2. session'.up = FALSE
    BY <2>1 DEF Drops, Closed
  <2>3. wire' = <<>>
    BY <2>2 DEF Reads
  <2>4. call' = IdleCall /\ outcome'.result = kind
    BY <2>1 DEF Reports
  <2> QED BY <1>1, <2>1, <2>3, <2>4 DEF Proceeds, Cuts
<1>4. CASE Recovery(kind) = {} /\ ~DropsSession(kind)
  <2>1. /\ Reports(kind, Outgoing) /\ UNCHANGED link
        /\ session' = [session EXCEPT !.selected = IF kind = "gone" \/ call.op = "members" THEN Nowhere ELSE @,
                                                !.refused = @ \/ Phase = P("role", "Archive")]
    BY <1>4 DEF Fails
  <2>2. session.ready
    BY <1>4 DEF DropsSession
  <2> HIDE DEF kind
  <2>3. /\ session'.up = session.up /\ session'.tag = session.tag /\ session'.ready = session.ready
        /\ session'.selected # Nowhere => session.selected # Nowhere
    BY <2>1, SessionFields
  <2>4. Ends
    BY <1>1, <2>1, <2>3, ReportsEnds
  <2> QED BY <2>2, <2>4 DEF Proceeds
<1> QED BY <1>2, <1>3, <1>4

\* What the provider decides by itself goes on with the call or ends it.
LEMMA DecideProceeds ==
    ASSUME LocalIds = {}, TypeOK, Connected, Aware, Decide
    PROVE  Proceeds /\ call.todo # <<>> /\ (Phase.do = "connect" => Cuts)
<1>1. /\ call.todo # <<>> /\ call.tag = 0 /\ UNCHANGED held /\ wire' = IF session'.up THEN wire ELSE <<>>
      /\ call.got = <<>> /\ wire \in Seq(Heard)
  BY DEF Decide, Unread, Connected, Shaped, TypeOK
<1>2. /\ call.op # "none" /\ Phase \in Phases /\ Fits(call.op, Phase) /\ Rest \in Seq(Phases) /\ Chained(call.op, Rest)
      /\ call.todo \in Seq(Phases) /\ Chained(call.op, call.todo)
  BY <1>1, TodoFacts
<1>3. Phase.do # "connect"
  BY DEF Decide, Skipped, Without
<1>4. session.up
  BY <1>1, <1>3, ConnectFirst
<1>5. ~Asking /\ ~Completed /\ ~Placed
  BY <1>1 DEF Asking, Completed, Placed
<1>6. Reads(wire)
  BY <1>1, <1>5 DEF Reads, Leaves, Shorter
<1>7. CASE Skipped(Phase) /\ call' = [call EXCEPT !.todo = Rest, !.uids = IF Phase.do = "search" THEN {StoredAt[call.mail]} ELSE @]
           /\ session' = [session EXCEPT !.selected = IF Phase.do = "forget" THEN Nowhere ELSE @,
                                         !.ready = @ \/ Phase.do = "ready"]
           /\ UNCHANGED <<link, outcome>>
  <2>1. Phase.do \notin {"search", "scan", "select", "look", "peek"} \cup Placing /\ (Phase.do = "inbox" => session.selected = INBOX)
    BY <1>7 DEF Skipped, Placing, InboxOpen
  <2>2. call' = [call EXCEPT !.todo = Rest]
    BY <1>7, <2>1 DEF TypeOK, Calls
  <2>3. /\ call'.op = call.op /\ call'.mail = call.mail /\ call'.todo = Rest /\ call'.tag = 0 /\ call'.got = <<>>
        /\ call'.uids = call.uids
    BY <1>1, <2>2 DEF TypeOK, Calls
  <2>4. /\ session'.up = session.up /\ session'.tag = session.tag
        /\ session'.ready = (session.ready \/ Phase.do = "ready")
        /\ session'.selected # Nowhere => session.selected # Nowhere
    BY <1>7 DEF TypeOK
  <2>5. Phase.do \in Selecting => Chosen /\ call.op \notin Purges
    <3>1. Phase.do \in Selecting => Phase.do = "inbox"
      BY <2>1 DEF Selecting
    <3>2. Phase.do = "inbox" => call.op \notin Purges
      BY <1>2 DEF Fits, Entering, Finding, Ending
    <3>3. Phase.do = "inbox" => Chosen
      BY <2>1 DEF Chosen, INBOX, Nowhere
    <3> QED BY <3>1, <3>2, <3>3
  <2>6. Onward(Rest, call.uids)
    BY <1>1, <2>1, <2>5, RestOnward DEF Finding
  <2>7. Advances(Rest, call.uids)
    BY <1>1, <1>4, <1>5, <1>6, <1>7, <2>3, <2>4 DEF Advances, Reads, link
  <2> QED BY <1>1, <1>3, <2>6, <2>7 DEF Proceeds
<1>8. CASE ~Skipped(Phase) /\ Without(Phase) /\ Phase.do = "idle"
  <2>1. Continues(Tail(Rest)) /\ UNCHANGED <<link, session, outcome>>
    BY <1>8 DEF Decide
  <2>2. call.op \notin Movers \cup Purges /\ session.ready
    <3>1. call.op \notin Movers \cup Purges
      BY <1>2, <1>8 DEF Fits, Entering, Finding, Placing, Ending
    <3> QED BY <1>1, <1>8, <3>1, ReadyPhase DEF Entering
  <2>3. Remains(call.op, Tail(Rest), Rest)
    BY <1>2, TailRemains
  <2>4. Tail(Rest) \in Seq(Phases) /\ Chained(call.op, Tail(Rest)) /\ ~Has(Tail(Rest), {"connect"})
    <3>1. ~Has(Rest, {"connect"})
      BY <1>1, <1>2, HeadFacts DEF Rest, Phase
    <3> QED BY <2>3, <3>1 DEF Remains
  <2>5. Onward(Tail(Rest), call.uids)
    BY <2>2, <2>4, OtherOnward
  <2>6. Advances(Tail(Rest), call.uids)
    BY <1>1, <1>6, <1>8, <2>1, ContinuesAdvances
  <2> QED BY <1>1, <1>3, <2>5, <2>6 DEF Proceeds
<1>9. CASE ~Skipped(Phase) /\ Without(Phase) /\ Phase.do = "look"
  <2>1. /\ IF NextFolder(Rest) # <<>> THEN Continues(NextFolder(Rest)) /\ UNCHANGED outcome
           ELSE Reports(IF call.op = "raw" THEN "gone" ELSE "ok", Outgoing)
        /\ UNCHANGED <<link, session>>
    BY <1>9 DEF Decide
  <2>2. call.op \notin Movers \cup Purges /\ session.ready
    <3>1. call.op \notin Movers \cup Purges
      BY <1>2, <1>9 DEF Fits, Entering, Finding, Placing, Ending
    <3> QED BY <1>1, <1>9, <3>1, ReadyPhase DEF Entering
  <2>3. CASE NextFolder(Rest) # <<>>
    <3>1. Remains(call.op, NextFolder(Rest), Rest)
      BY <1>2, NextFolderRemains
    <3>2. NextFolder(Rest) \in Seq(Phases) /\ Chained(call.op, NextFolder(Rest)) /\ ~Has(NextFolder(Rest), {"connect"})
      <4>1. ~Has(Rest, {"connect"})
        BY <1>1, <1>2, HeadFacts DEF Rest, Phase
      <4> QED BY <3>1, <4>1 DEF Remains
    <3>3. Onward(NextFolder(Rest), call.uids)
      BY <2>2, <3>2, OtherOnward
    <3>4. Advances(NextFolder(Rest), call.uids)
      BY <1>1, <1>6, <1>9, <2>1, <2>3, ContinuesAdvances
    <3> QED BY <1>1, <1>3, <3>3, <3>4 DEF Proceeds
  <2>4. CASE NextFolder(Rest) = <<>>
    <3>1. Ends
      BY <1>1, <1>3, <1>6, <2>1, <2>2, <2>4, ReportsEnds
    <3> QED BY <1>1, <1>3, <2>2, <3>1 DEF Proceeds
  <2> QED BY <2>3, <2>4
<1>10. CASE ~Skipped(Phase) /\ Without(Phase) /\ Phase.do = "plus" /\ call.op \in {"delete", "empty"}
  <2>1. Reports("verdict", Outgoing) /\ session' = [session EXCEPT !.selected = Nowhere] /\ UNCHANGED link
    BY <1>10 DEF Decide
  <2>2. session.ready
    BY <1>1, <1>10, ReadyPhase DEF Entering
  <2>3. Ends
    BY <1>1, <1>3, <1>6, <2>1, SessionFields, ReportsEnds
  <2> QED BY <1>1, <1>3, <2>2, <2>3 DEF Proceeds
<1>11. CASE /\ ~Skipped(Phase) /\ Without(Phase) /\ Phase.do \notin {"idle", "look"}
            /\ ~(Phase.do = "plus" /\ call.op \in {"delete", "empty"})
  <2>1. Fails("verdict")
    BY <1>11 DEF Decide
  <2>2. Phase.do # "ready"
    BY <1>11 DEF Skipped
  <2> QED BY <1>1, <1>3, <1>5, <1>6, <2>1, <2>2, FailsProceeds
<1> QED BY <1>7, <1>8, <1>9, <1>10, <1>11 DEF Decide

\* A call whose phases are done ends.
LEMMA ReturnEnds ==
    ASSUME TypeOK, Connected, Return
    PROVE  Ends /\ session.ready /\ call.todo = <<>>
<1>1. ~Has(call.todo, {"ready"}) /\ ~Has(call.todo, Placing)
  BY DEF Return, Has
<1>2. session.ready
  BY <1>1 DEF Return, Connected, Shaped
<1>3. /\ session'.up = session.up /\ session'.tag = session.tag /\ session'.ready = session.ready
      /\ session'.selected = session.selected
  BY SessionFields DEF Return, Enough
<1>4. outcome'.op = call.op /\ outcome'.mail = call.mail /\ outcome'.result = "ok" /\ call' = IdleCall
  BY DEF Return, Enough, Reports
<1>5. Leaves
  BY DEF Return, Leaves, Asking, Shorter
<1> QED BY <1>1, <1>2, <1>3, <1>4, <1>5 DEF Return, Enough, Ends, link

LEMMA FieldsAdvance ==
    ASSUME TypeOK, Connected, call.todo # <<>>, Phase.do \notin {"connect", "ready"}, NEW t, NEW uids,
           call'.op = call.op, call'.mail = call.mail, call'.todo = t, call'.tag = 0, call'.got = <<>>, call'.uids = uids,
           UNCHANGED <<held, link, outcome>>, Reads(wire) \/ Reads(Tail(wire)),
           session'.up = session.up, session'.tag = session.tag, session'.ready = session.ready,
           session'.selected # Nowhere => session.selected # Nowhere \/ (Completed /\ Phase.do \in Selecting)
    PROVE  Advances(t, uids)
<1>1. session'.up
  BY ConnectFirst
<1>2. Leaves /\ (Completed => wire' = Tail(wire))
  BY <1>1 DEF Reads
<1>3. session'.ready = (session.ready \/ Phase.do = "ready")
  BY DEF TypeOK
<1> QED BY <1>2, <1>3 DEF Advances, link

LEMMA CallFields ==
    ASSUME TypeOK, NEW t
    PROVE  /\ \A uids : call' = [call EXCEPT !.todo = t, !.tag = 0, !.got = <<>>, !.uids = uids] =>
                /\ call'.op = call.op /\ call'.mail = call.mail /\ call'.todo = t /\ call'.tag = 0 /\ call'.got = <<>>
                /\ call'.uids = uids
           /\ \A names : call' = [call EXCEPT !.todo = t, !.tag = 0, !.got = <<>>, !.names = names] =>
                /\ call'.op = call.op /\ call'.mail = call.mail /\ call'.todo = t /\ call'.tag = 0 /\ call'.got = <<>>
                /\ call'.uids = call.uids
           /\ call' = [call EXCEPT !.todo = t, !.tag = 0, !.got = <<>>] =>
                /\ call'.op = call.op /\ call'.mail = call.mail /\ call'.todo = t /\ call'.tag = 0 /\ call'.got = <<>>
                /\ call'.uids = call.uids
  BY DEF TypeOK, Calls

LEMMA ResolvesAdvances ==
    ASSUME TypeOK, Connected, call.todo # <<>>, Phase.do \notin {"connect", "ready"}, NEW uids, Resolves(uids), Stays,
           UNCHANGED held, Reads(Tail(wire))
    PROVE  Advances(Rest, uids)
<1>1. /\ call'.op = call.op /\ call'.mail = call.mail /\ call'.todo = Rest /\ call'.tag = 0 /\ call'.got = <<>>
      /\ call'.uids = uids
  BY CallFields DEF Resolves
<1> QED BY <1>1, FieldsAdvance DEF Stays

\* What a search or a scan found is a UID of the folder that is open.
LEMMA SearchFinds ==
    ASSUME TypeOK, Aware, call.op \in Seekers, call.tag # 0, Phase.do = "search", FoundUid # {}
    PROVE  \A u \in FoundUid : StillHit(srv.open, u, call.mail)
<1>1. Searched # {} /\ FoundUid = {Max(Searched)}
  BY DEF FoundUid
<1>2. Lines("SEARCH") # {} /\ Searched = call.got[Min(Lines("SEARCH"))].data
  BY <1>1 DEF Searched
<1>3. call.got \in Seq(Heard) /\ DOMAIN call.got \subseteq Nat
  BY DEF TypeOK, Calls
<1>4. Min(Lines("SEARCH")) \in Lines("SEARCH")
  BY <1>2, <1>3, MinIn DEF Lines
<1>5. PICK i \in DOMAIN call.got : call.got[i].of = "SEARCH" /\ Searched = call.got[i].data
  BY <1>2, <1>4 DEF Lines
<1>6. PICK n \in Nat : Searched \subseteq 1..n
  BY <1>5 DEF TypeOK, Plausible
<1>7. Max(Searched) \in Searched
  BY <1>1, <1>6, MaxIn
<1>8. TruthOf(call.got[i])
  BY <1>5 DEF Aware, Truthful
<1> QED BY <1>1, <1>5, <1>7, <1>8 DEF TruthOf

LEMMA ScanFinds ==
    ASSUME TypeOK, Aware, call.op \in Seekers, call.tag # 0, Phase.do = "scan", ScannedUid # {}
    PROVE  StillHit(srv.open, Min(ScannedUid), call.mail)
<1>1. \A u \in ScannedUid : \E i \in DOMAIN call.got : \E row \in call.got[i].data :
          call.got[i].of = "FETCH" /\ row[2] = call.mail /\ row[1] = u
  BY DEF ScannedUid, Answers, Lines
<1>2. ScannedUid \subseteq Nat
  <2> SUFFICES ASSUME NEW u \in ScannedUid PROVE u \in Nat
    OBVIOUS
  <2>1. PICK i \in DOMAIN call.got : \E row \in call.got[i].data : call.got[i].of = "FETCH" /\ row[2] = call.mail /\ row[1] = u
    BY <1>1
  <2>2. PICK row \in call.got[i].data : call.got[i].of = "FETCH" /\ row[2] = call.mail /\ row[1] = u
    BY <2>1
  <2>3. row \in Nat \X Kept
    BY <2>2 DEF TypeOK, Plausible
  <2> QED BY <2>2, <2>3
<1>3. Min(ScannedUid) \in ScannedUid
  BY <1>2, MinIn
<1>4. PICK i \in DOMAIN call.got : \E row \in call.got[i].data :
          call.got[i].of = "FETCH" /\ row[2] = call.mail /\ row[1] = Min(ScannedUid)
  BY <1>1, <1>3
<1>5. PICK row \in call.got[i].data : call.got[i].of = "FETCH" /\ row[2] = call.mail /\ row[1] = Min(ScannedUid)
  BY <1>4
<1>6. TruthOf(call.got[i])
  BY DEF Aware, Truthful
<1>7. StillHit(srv.open, row[1], row[2])
  BY <1>5, <1>6 DEF TruthOf
<1> QED BY <1>5, <1>7

\* A granted command goes on with the call or ends it.
LEMMA SucceedsProceeds ==
    ASSUME TypeOK, Connected, Aware, call.tag # 0, Completed, Succeeds, UNCHANGED held, Reads(Tail(wire))
    PROVE  Proceeds
<1>1. call.todo # <<>> /\ session.up /\ Phase.do \notin {"connect", "ready"}
  BY ConnectFirst DEF Connected, Shaped
<1>2. /\ call.op # "none" /\ Phase \in Phases /\ Fits(call.op, Phase) /\ Rest \in Seq(Phases) /\ Chained(call.op, Rest)
      /\ call.todo \in Seq(Phases) /\ Chained(call.op, call.todo)
  BY <1>1, TodoFacts
<1>3. Granted
  BY CompletedGranted
<1>4. ASSUME Phase.do \in Finding => call.op \notin Seekers PROVE Onward(Rest, call.uids)
  BY <1>1, <1>3, <1>4, RestOnward DEF Placed
<1>5. CASE Phase.do \in Selecting
  <2>1. Continues(Rest) /\ Remembers([session EXCEPT !.selected = IF Phase.do = "peek" THEN Nowhere ELSE Phase.in])
    BY <1>5 DEF Succeeds, Selecting
  <2>2. /\ session'.up = session.up /\ session'.tag = session.tag /\ session'.ready = session.ready
    BY <2>1 DEF Remembers, TypeOK
  <2>3. Advances(Rest, call.uids)
    BY <1>1, <1>5, <2>1, <2>2, ContinuesAdvances DEF Remembers
  <2> QED BY <1>4, <1>5, <2>3 DEF Proceeds, Selecting, Finding
<1>6. CASE Phase.do \in {"list", "role", "caps"}
  <2>1. PICK v : Continues(Rest) /\ (Remembers([session EXCEPT !.roles = v]) \/ Remembers([session EXCEPT !.caps = v]))
    <3>1. CASE Phase.do = "list"
      BY <3>1 DEF Succeeds
    <3>2. CASE Phase.do = "role"
      <4>1. [session EXCEPT !.roles = @ \cup {Phase.in}] = [session EXCEPT !.roles = session.roles \cup {Phase.in}]
        OBVIOUS
      <4> QED BY <3>2, <4>1 DEF Succeeds
    <3>3. CASE Phase.do = "caps"
      BY <3>3 DEF Succeeds
    <3> QED BY <1>6, <3>1, <3>2, <3>3
  <2>2. /\ session'.up = session.up /\ session'.tag = session.tag /\ session'.ready = session.ready
        /\ session'.selected = session.selected
    BY <2>1 DEF Remembers, TypeOK
  <2>3. Advances(Rest, call.uids)
    BY <1>1, <2>1, <2>2, ContinuesAdvances DEF Remembers
  <2> QED BY <1>4, <1>6, <2>3 DEF Proceeds, Finding
<1>7. CASE Phase.do \in {"relist", "create"}
  <2>1. PICK names : call' = [call EXCEPT !.todo = Rest, !.tag = 0, !.got = <<>>, !.names = names] /\ Stays
    <3>1. CASE Phase.do = "relist"
      BY <3>1 DEF Succeeds
    <3>2. CASE Phase.do = "create"
      <4>1. call' = [call EXCEPT !.todo = Rest, !.tag = 0, !.got = <<>>, !.names = call.names \cup {Phase.in}] /\ Stays
        BY <3>2 DEF Succeeds
      <4> QED BY <4>1
    <3> QED BY <1>7, <3>1, <3>2
  <2>2. Advances(Rest, call.uids)
    BY <1>1, <2>1, CallFields, FieldsAdvance DEF Stays
  <2> QED BY <1>4, <1>7, <2>2 DEF Proceeds, Finding
<1>8. CASE Phase.do = "search"
  <2>1. CASE FoundUid # {}
    <3>1. Resolves(FoundUid) /\ Stays
      BY <1>8, <2>1 DEF Succeeds
    <3>2. Onward(Rest, FoundUid)
      BY <1>1, <1>8, <2>1, SearchFinds, FoundOnward DEF Finding
    <3>3. Advances(Rest, FoundUid)
      BY <1>1, <3>1, ResolvesAdvances
    <3> QED BY <3>2, <3>3 DEF Proceeds
  <2>2. CASE FoundUid = {}
    <3>1. Continues(<<P("scan", Nowhere)>> \o Rest) /\ Stays
      BY <1>8, <2>2 DEF Succeeds
    <3>2. Onward(<<P("scan", Nowhere)>> \o Rest, call.uids)
      BY <1>1, <1>8, ScanOnward
    <3>3. Advances(<<P("scan", Nowhere)>> \o Rest, call.uids)
      BY <1>1, <3>1, ContinuesAdvances DEF Stays
    <3> QED BY <3>2, <3>3 DEF Proceeds
  <2> QED BY <2>1, <2>2
<1>9. CASE Phase.do = "scan" /\ call.op # "members"
  <2>1. CASE ScannedUid = {}
    <3>1. Fails("gone")
      BY <1>9, <2>1 DEF Succeeds
    <3>2. Phase.do \notin Placing
      BY <1>9 DEF Placing
    <3> QED BY <1>1, <3>1, <3>2, FailsProceeds
  <2>2. CASE ScannedUid # {}
    <3>1. Resolves({Min(ScannedUid)}) /\ Stays
      BY <1>9, <2>2 DEF Succeeds
    <3>2. call.op \in Seekers => StillHit(srv.open, Min(ScannedUid), call.mail)
      BY <1>9, <2>2, ScanFinds
    <3>3. Onward(Rest, {Min(ScannedUid)})
      BY <1>1, <1>9, <3>2, FoundOnward DEF Finding
    <3>4. Advances(Rest, {Min(ScannedUid)})
      BY <1>1, <3>1, ResolvesAdvances
    <3> QED BY <3>3, <3>4 DEF Proceeds
  <2> QED BY <2>1, <2>2
<1>10. CASE Phase.do = "all"
  <2>1. /\ call.op \notin Movers /\ session.ready /\ (call.op \in Purges => call.op = "empty")
        /\ call.op \notin Seekers
    <3>1. call.op \notin Movers /\ (call.op \in Purges => call.op = "empty")
      BY <1>2, <1>10 DEF Fits, Entering, Finding, Placing, Ending
    <3>2. call.op \notin Seekers
      BY <3>1 DEF Seekers, Purges
    <3> QED BY <1>1, <1>10, <3>1, <3>2, ReadyPhase DEF Entering
  <2>2. CASE call.op = "empty" /\ FoundUid = {}
    <3>1. Reports("ok", Outgoing) /\ session' = [session EXCEPT !.selected = Nowhere] /\ UNCHANGED link
      BY <1>10, <2>2 DEF Succeeds
    <3>2. /\ session'.up = session.up /\ session'.tag = session.tag /\ session'.ready = session.ready
          /\ session'.selected = Nowhere
      BY <3>1, SessionFields
    <3>3. Ends
      BY <1>1, <2>1, <3>1, <3>2, ReportsEnds
    <3> QED BY <2>1, <3>3 DEF Proceeds
  <2>3. CASE ~(call.op = "empty" /\ FoundUid = {}) /\ Searched = {}
    <3>1. Continues(Tail(Rest)) /\ Stays
      BY <1>10, <2>3 DEF Succeeds
    <3>2. call.op \notin Movers \cup Purges
      BY <2>1, <2>3 DEF FoundUid
    <3>3. Remains(call.op, Tail(Rest), Rest)
      BY <1>2, TailRemains
    <3>4. ~Has(Rest, {"connect"})
      BY <1>1, <1>2, HeadFacts DEF Rest, Phase
    <3>5. Onward(Tail(Rest), call.uids)
      BY <2>1, <3>2, <3>3, <3>4, OtherOnward DEF Remains
    <3>6. Advances(Tail(Rest), call.uids)
      BY <1>1, <3>1, ContinuesAdvances DEF Stays
    <3> QED BY <3>5, <3>6 DEF Proceeds
  <2>4. CASE ~(call.op = "empty" /\ FoundUid = {}) /\ Searched # {}
    <3>1. Resolves(Searched) /\ Stays
      BY <1>10, <2>4 DEF Succeeds
    <3>2. Onward(Rest, call.uids)
      BY <1>4, <2>1
    <3>3. Onward(Rest, Searched)
      BY <2>1, <3>2 DEF Onward
    <3>4. Advances(Rest, Searched)
      BY <1>1, <3>1, ResolvesAdvances
    <3> QED BY <3>3, <3>4 DEF Proceeds
  <2> QED BY <2>2, <2>3, <2>4
<1>11. CASE Phase.do \in {"hint", "body"}
  <2>1. call.op \notin Movers /\ call.op \notin Seekers /\ session.ready
    <3>1. call.op \notin Movers \cup Purges
      BY <1>2, <1>11 DEF Fits, Entering, Finding, Placing, Ending
    <3> QED BY <1>1, <1>11, <3>1, ReadyPhase DEF Entering, Seekers, Purges
  <2>2. \/ Enough("ok", FirstBody)
        \/ Fails("gone")
        \/ Continues(Rest) /\ Stays
    <3>1. CASE Phase.do = "hint"
      BY <3>1 DEF Succeeds
    <3>2. CASE Phase.do = "body"
      BY <3>2 DEF Succeeds
    <3> QED BY <1>11, <3>1, <3>2
  <2>3. CASE Enough("ok", FirstBody)
    <3>1. /\ session'.up = session.up /\ session'.tag = session.tag /\ session'.ready = session.ready
          /\ session'.selected = session.selected
      BY <2>3, SessionFields DEF Enough
    <3>2. Ends
      BY <1>1, <2>1, <2>3, <3>1, ReportsEnds DEF Enough
    <3> QED BY <2>1, <3>2 DEF Proceeds
  <2>4. CASE Fails("gone")
    <3>1. Phase.do \notin Placing
      BY <1>11 DEF Placing
    <3> QED BY <1>1, <2>4, <3>1, FailsProceeds
  <2>5. CASE Continues(Rest) /\ Stays
    <3>1. Advances(Rest, call.uids)
      BY <1>1, <2>5, ContinuesAdvances DEF Stays
    <3> QED BY <1>4, <2>1, <3>1 DEF Proceeds
  <2> QED BY <2>2, <2>3, <2>4, <2>5
<1>12. CASE /\ Phase.do \notin Selecting \cup {"list", "role", "caps", "relist", "create", "search", "all", "hint", "body"}
            /\ ~(Phase.do = "scan" /\ call.op # "members")
  <2>1. Continues(Rest) /\ Stays
    BY <1>12 DEF Succeeds, Selecting
  <2>2. Phase.do \in Finding => call.op \notin Seekers
    BY <1>12 DEF Finding, Movers, Seekers
  <2>3. Advances(Rest, call.uids)
    BY <1>1, <2>1, ContinuesAdvances DEF Stays
  <2> QED BY <1>4, <2>2, <2>3 DEF Proceeds
<1> QED BY <1>5, <1>6, <1>7, <1>8, <1>9, <1>10, <1>11, <1>12

\* What the provider writes in the middle of a command.
LEMMA RepliesCommand ==
    ASSUME TypeOK, Connected, call.todo # <<>>, NEW verb, NEW phase, <<verb, phase>> \in {<<"LITERAL", "literal">>, <<"DONE", "done">>, <<"BLANK", "blank">>},
           Replies(verb, phase)
    PROVE  \E cmd \in Commands : cmd.verb = verb /\ cmd.tag = call.tag /\ srv' = [srv EXCEPT !.queue = Append(@, cmd)]
<1> DEFINE cmd == [tag |-> call.tag, verb |-> verb, folder |-> Phase.in, phase |-> phase,
                   uids |-> {}, op |-> call.op, mail |-> call.mail]
<1>1. Phase \in Phases /\ call.op # "none"
  BY TodoFacts
<1>2. verb \in Verbs
  <2>1. Verb("literal") = "LITERAL" /\ Verb("done") = "DONE"
    BY DEF Verb
  <2>2. "literal" \in Dos /\ "done" \in Dos
    BY DEF Dos
  <2>3. "LITERAL" \in Verbs /\ "DONE" \in Verbs /\ "BLANK" \in Verbs
    BY <2>1, <2>2 DEF Verbs
  <2> QED BY <2>3
<1>3. phase \in Dos
  BY DEF Dos
<1>6. phase # "blank" => verb = Verb(phase)
  BY DEF Verb
<1>4. cmd \in Commands
  BY <1>1, <1>2, <1>3, <1>6 DEF Commands, Phases, TypeOK, Calls
<1>5. cmd.verb = verb /\ cmd.tag = call.tag /\ srv' = [srv EXCEPT !.queue = Append(@, cmd)]
  BY DEF Replies
<1> QED BY <1>4, <1>5

LEMMA RepliesTurns ==
    ASSUME TypeOK, Connected, call.tag # 0, Phase.do \in {"append", "idle", "wait"}, NEW verb, NEW phase,
           <<verb, phase>> \in {<<"LITERAL", "literal">>, <<"DONE", "done">>}, Replies(verb, phase), UNCHANGED held,
           wire' = wire \/ (wire # <<>> /\ wire' = Tail(wire))
    PROVE  Turns
<1>1. call.todo # <<>>
  BY DEF Connected, Shaped
<1>2. \E cmd \in Commands : cmd.verb = verb /\ cmd.tag = call.tag /\ srv' = [srv EXCEPT !.queue = Append(@, cmd)]
  BY <1>1, RepliesCommand
<1>3. P(phase, Phase.in) \in Phases /\ P(phase, Phase.in).do = phase
  BY <1>1, TodoFacts DEF P, Phases, Dos
<1>4. call' = [call EXCEPT !.todo = <<P(phase, Phase.in)>> \o Rest]
  BY DEF Replies
<1>5. \E q \in Phases : q.do \in {"literal", "wait", "done"} /\ call' = [call EXCEPT !.todo = <<q>> \o Rest]
  BY <1>3, <1>4
<1>6. \E cmd \in Commands : cmd.verb \in {"LITERAL", "DONE"} /\ cmd.tag = call.tag /\ srv' = [srv EXCEPT !.queue = Append(@, cmd)]
  BY <1>2
<1> QED BY <1>1, <1>5, <1>6 DEF Turns, Replies

\* What reading a line amounts to.
LEMMA ReadCases ==
    ASSUME TypeOK, Connected, Aware, Read
    PROVE  \/ Listens
           \/ Turns
           \/ Own(Head(wire)) /\ Completes(Head(wire))
           \/ Fails("verdict") /\ (~Asking \/ Head(wire).kind = "huge") /\ Phase.do \notin Placing
<1> DEFINE r == Head(wire)
<1>1. /\ call.tag # 0 /\ wire # <<>> /\ Handle(r) /\ wire' = (IF session'.up THEN Tail(wire) ELSE <<>>) /\ UNCHANGED held
  BY DEF Read, Waiting, Unread
<1>2. call.todo # <<>> /\ session.up /\ Phase.do \notin {"connect", "ready"}
  BY <1>1, ConnectFirst DEF Connected, Shaped
<1>3. r \in Heard /\ r.kind \in {"tagged", "row", "plus", "huge"} /\ wire \in Seq(Heard)
  BY <1>1, WireTail DEF Heard, TypeOK
<1> HIDE DEF r
<1>5. Own(r) <=> r.kind = "tagged" /\ Mine(r)
  BY DEF Own, Mine
<1>7. ASSUME Ignores \/ Keeps(r) \/ Replies("BLANK", "blank"), ~(Asking /\ Own(r)), r.kind # "huge"
      PROVE  Listens
  <2>1. session' = session /\ late' = late /\ outcome' = outcome /\ wire' = Tail(wire)
    BY <1>1, <1>2, <1>7 DEF Ignores, Keeps, Replies, Stays, link
  <2>2. /\ call'.op = call.op /\ call'.mail = call.mail /\ call'.todo = call.todo /\ call'.tag = call.tag /\ call'.uids = call.uids
        /\ call'.got = call.got \/ call'.got = Append(call.got, r)
    BY <1>7 DEF Ignores, Keeps, Replies, TypeOK, Calls
  <2>3. \/ srv' = srv
        \/ \E cmd \in Commands : cmd.verb = "BLANK" /\ cmd.tag = call.tag /\ srv' = [srv EXCEPT !.queue = Append(@, cmd)]
    <3>1. CASE Ignores \/ Keeps(r)
      BY <3>1 DEF Ignores, Keeps, Stays, link
    <3>2. CASE Replies("BLANK", "blank")
      BY <1>2, <3>2, RepliesCommand
    <3> QED BY <1>7, <3>1, <3>2
  <2> QED BY <1>1, <1>7, <2>1, <2>2, <2>3 DEF Listens, r
<1>10. CASE r.kind = "huge"
  <2>1. Fails("verdict")
    BY <1>1, <1>10 DEF Handle
  <2>2. Phase.do \notin Placing
    <3> SUFFICES ASSUME Phase.do \in Placing PROVE FALSE
      OBVIOUS
    <3>1. Chosen
      BY <1>2, ModifyingChosen DEF Placing, Modifying
    <3>2. 1 \in DOMAIN wire /\ r = wire[1]
      BY <1>1, WireTail DEF r
    <3>3. Verb(Phase.do) \in {"FETCH", "BODY"}
      BY <1>10, <3>1, <3>2 DEF Connected, Drained
    <3> QED BY <3>3 DEF Placing, Verb
  <2> QED BY <1>10, <2>1, <2>2 DEF r
<1>11. CASE r.kind # "huge" /\ Phase.do \in {"append", "idle", "wait", "done", "literal"}
  <2>1. ~Asking /\ Phase.do \notin Placing
    BY <1>11 DEF Asking, Verb, Quiet, Placing
  <2>2. \/ Fails("verdict")
        \/ Ignores
        \/ Own(r) /\ Completes(r)
        \/ Phase.do = "append" /\ Replies("LITERAL", "literal")
        \/ Phase.do = "wait" /\ Replies("DONE", "done")
        \/ Phase.do = "idle" /\ call' = [call EXCEPT !.todo = <<P("wait", Nowhere)>> \o Rest] /\ Stays
    <3>1. CASE Phase.do = "append"
      BY <1>1, <1>11, <3>1 DEF Handle
    <3>2. CASE Phase.do = "idle"
      BY <1>1, <1>11, <3>2 DEF Handle
    <3>3. CASE Phase.do = "wait"
      BY <1>1, <1>11, <3>3 DEF Handle
    <3>4. CASE Phase.do \in {"done", "literal"}
      BY <1>1, <1>5, <1>11, <3>4 DEF Handle
    <3> QED BY <1>11, <3>1, <3>2, <3>3, <3>4
  <2>3. CASE Fails("verdict")
    BY <2>1, <2>3 DEF r
  <2>4. CASE Ignores
    BY <1>7, <1>11, <2>1, <2>4
  <2>5. CASE Own(r) /\ Completes(r)
    BY <2>5 DEF r
  <2>6. CASE \/ Phase.do = "append" /\ Replies("LITERAL", "literal")
             \/ Phase.do = "wait" /\ Replies("DONE", "done")
    <3>1. wire' = Tail(wire)
      BY <1>1, <1>2, <2>6 DEF Replies
    <3> QED BY <1>1, <2>6, <3>1, RepliesTurns
  <2>7. CASE Phase.do = "idle" /\ call' = [call EXCEPT !.todo = <<P("wait", Nowhere)>> \o Rest] /\ Stays
    <3>1. wire' = Tail(wire)
      BY <1>1, <1>2, <2>7 DEF Stays
    <3>2. P("wait", Nowhere) \in Phases /\ P("wait", Nowhere).do = "wait"
      BY DEF P, Phases, Dos, Places
    <3> QED BY <1>1, <1>2, <2>7, <3>1, <3>2 DEF Turns, Stays, link
  <2> QED BY <2>2, <2>3, <2>4, <2>5, <2>6, <2>7
<1>12. CASE r.kind # "huge" /\ Phase.do \notin {"append", "idle", "wait", "done", "literal"}
  <2>1. \/ Own(r) /\ Completes(r)
        \/ ~Own(r) /\ (Ignores \/ Keeps(r) \/ Replies("BLANK", "blank"))
    <3>1. CASE Own(r)
      BY <1>1, <1>5, <1>12, <3>1 DEF Handle
    <3>2. CASE ~Own(r) /\ r.kind = "plus"
      BY <1>1, <1>5, <1>12, <3>2 DEF Handle
    <3>3. CASE ~Own(r) /\ r.kind = "row"
      BY <1>1, <1>5, <1>12, <3>3 DEF Handle
    <3>4. CASE ~Own(r) /\ r.kind = "tagged"
      BY <1>1, <1>5, <1>12, <3>4 DEF Handle
    <3> QED BY <1>3, <1>12, <3>1, <3>2, <3>3, <3>4
  <2>2. CASE Own(r) /\ Completes(r)
    BY <2>2 DEF r
  <2>3. CASE ~Own(r) /\ (Ignores \/ Keeps(r) \/ Replies("BLANK", "blank"))
    BY <1>7, <1>12, <2>3
  <2> QED BY <2>1, <2>2, <2>3
<1> QED BY <1>10, <1>11, <1>12

LEMMA ReadProceeds ==
    ASSUME TypeOK, Connected, Aware, Read
    PROVE  Proceeds /\ call.todo # <<>> /\ Phase.do # "connect"
<1> DEFINE r == Head(wire)
<1>1. /\ call.tag # 0 /\ wire # <<>> /\ wire' = (IF session'.up THEN Tail(wire) ELSE <<>>) /\ UNCHANGED held
  BY DEF Read, Waiting, Unread
<1>2. call.todo # <<>> /\ session.up /\ Phase.do \notin {"connect", "ready"}
  BY <1>1, ConnectFirst DEF Connected, Shaped
<1> HIDE DEF r
<1>3. ASSUME ~Asking \/ Own(r) \/ r.kind = "huge" PROVE Reads(Tail(wire))
  <2>1. session'.up => wire' = Tail(wire)
    BY <1>1
  <2>2. session'.up => Leaves
    BY <1>1, <1>3, <2>1 DEF Leaves, Shorter, r
  <2> QED BY <1>1, <2>1, <2>2 DEF Reads
<1>4. ASSUME NEW failure \in {"verdict", "dead", "auth", "gone"}, Fails(failure), ~Asking \/ Own(r) \/ r.kind = "huge",
             Phase.do \in Placing => ~Placed
      PROVE  Proceeds
  BY <1>1, <1>2, <1>3, <1>4, FailsProceeds
<1>5. ASSUME Completes(r), Own(r) PROVE Proceeds
  <2>1. CASE r.status = "ok"
    <3>1. Succeeds /\ Completed
      BY <1>1, <1>5, <2>1 DEF Completes, Completed, r
    <3> QED BY <1>1, <1>3, <1>5, <3>1, SucceedsProceeds
  <2>2. CASE r.status # "ok"
    <3>1. PICK failure \in {"auth", "verdict"} : Fails(failure)
      BY <1>5, <2>2 DEF Completes
    <3>2. Phase.do \in Placing => ~Placed
      <4>1. Phase.do \in Placing => Asking
        BY <1>1, VerbFacts DEF Placing, Modifying, Asking
      <4>2. Asking => ~Granted
        BY <1>1, <1>5, <2>2, OwnLast DEF Connected, r
      <4> QED BY <4>1, <4>2 DEF Placed
    <3> QED BY <1>4, <1>5, <3>1, <3>2
  <2> QED BY <2>1, <2>2
<1>6. CASE Listens \/ Turns
  BY <1>2, <1>6 DEF Proceeds
<1>7. CASE Fails("verdict") /\ (~Asking \/ r.kind = "huge") /\ Phase.do \notin Placing
  BY <1>2, <1>4, <1>7
<1> QED BY <1>2, <1>5, <1>6, <1>7, ReadCases DEF r

LEMMA TimeoutProceeds ==
    ASSUME TypeOK, Connected, Aware, Timeout
    PROVE  Proceeds /\ call.todo # <<>> /\ Phase.do # "connect"
<1>1. call.tag # 0 /\ wire = <<>> /\ wire' = wire /\ Expired /\ UNCHANGED held
  BY DEF Timeout, Waiting
<1>2. call.todo # <<>> /\ session.up /\ Phase.do \notin {"connect", "ready"}
  BY <1>1, ConnectFirst DEF Connected, Shaped
<1>3. ~Completed /\ ~Placed
  BY <1>1 DEF Completed, Placed, Granted
<1>4. CASE Phase.do = "wait" /\ srv.up
  <2>1. Replies("DONE", "done")
    BY <1>1, <1>4 DEF Expired
  <2>2. Turns
    BY <1>1, <1>4, <2>1, RepliesTurns
  <2> QED BY <1>2, <2>2 DEF Proceeds
<1>5. CASE ~(Phase.do = "wait" /\ srv.up)
  <2>1. Fails("dead")
    BY <1>1, <1>5 DEF Expired
  <2> DEFINE kind == IF call.op = "file" /\ Phase.do \in {"search", "scan"} THEN "gone" ELSE "dead"
  <2>2. CASE ~Asking
    <3>1. Reads(wire)
      BY <1>1, <1>3, <2>2 DEF Reads, Leaves, Shorter
    <3> QED BY <1>1, <1>2, <1>3, <2>1, <3>1, FailsProceeds
  <2>3. CASE Asking
    <3>1. Recovery(kind) = {}
      <4>1. Phase.do \notin {"auth", "caps", "idle", "wait", "done", "literal", "append"}
        BY <2>3 DEF Asking, Verb, Quiet
      <4>2. CASE ~session.ready
        BY <4>1, <4>2 DEF Recovery
      <4>3. CASE session.ready
        BY <4>1, <4>3 DEF Recovery
      <4> QED BY <4>2, <4>3
    <3>2. Reports(kind, Outgoing)
      BY <2>1, <3>1 DEF Fails
    <3>3. CASE DropsSession(kind)
      <4>1. Drops
        BY <2>1, <3>1, <3>3 DEF Fails
      <4> QED BY <1>1, <1>2, <3>2, <4>1 DEF Proceeds, Cuts, Reports
    <3>4. CASE ~DropsSession(kind)
      <4>1. kind = "gone" /\ call.op = "file" /\ Phase.do \in {"search", "scan"} /\ session.ready
        BY <3>4 DEF DropsSession
      <4>2. /\ UNCHANGED link
            /\ session' = [session EXCEPT !.selected = IF kind = "gone" \/ call.op = "members" THEN Nowhere ELSE @,
                                                    !.refused = @ \/ Phase = P("role", "Archive")]
        BY <2>1, <3>1, <3>4 DEF Fails
      <4>3. /\ session'.up = session.up /\ session'.tag = session.tag /\ session'.ready = session.ready
            /\ session'.selected = Nowhere
        BY <4>1, <4>2 DEF TypeOK
      <4>4. ~Chosen' /\ Phase.do \notin Modifying
        BY <3>2, <4>1, <4>3, IdleFacts DEF Chosen, Reports, Modifying
      <4>5. Reads(wire)
        BY <1>1, <1>3, <4>4 DEF Reads, Leaves, Shorter
      <4>6. Ends
        BY <1>1, <1>2, <3>2, <4>1, <4>2, <4>3, <4>5, ReportsEnds
      <4> QED BY <1>2, <4>1, <4>6 DEF Proceeds
    <3> QED BY <3>3, <3>4
  <2> QED BY <2>2, <2>3
<1> QED BY <1>4, <1>5

-----------------------------------------------------------------------------
(* What a command does to the mailbox *)

\* A finite set as a sequence has all its members.
LEMMA ListsAll ==
    ASSUME NEW S, IsFiniteSet(S)
    PROVE  SetToSeq(S) \in Seq(S) /\ \A x \in S : \E i \in DOMAIN SetToSeq(S) : SetToSeq(S)[i] = x
<1> DEFINE n == Cardinality(S)
<1>1. n \in Nat /\ ExistsBijection(1..n, S)
  BY FS_CardinalityType
<1>2. PICK g : g \in Bijection(1..n, S)
  BY <1>1 DEF ExistsBijection
<1>3. g \in [1..n -> S] /\ IsInjective(g)
  BY <1>2 DEF Bijection, Injection
<1>4. SetToSeq(S) \in [1..n -> S] /\ IsInjective(SetToSeq(S))
  BY <1>3 DEF SetToSeq
<1>5. SetToSeq(S) \in Injection(1..n, S)
  BY <1>4 DEF Injection
<1>6. Cardinality(1..n) = n
  <2>1. IsFiniteSet(1..n) /\ Cardinality(1..n) = IF 1 > n THEN 0 ELSE n - 1 + 1
    BY <1>1, FS_Interval
  <2> QED BY <1>1, <2>1
<1>7. SetToSeq(S) \in Surjection(1..n, S)
  BY <1>5, <1>6, FS_Injection
<1> QED BY <1>1, <1>4, <1>7 DEF Surjection

LEMMA CarriedFinite ==
    ASSUME TypeOK, NEW uids, NEW open \in DOMAIN mbox
    PROVE  LET S == {mbox[open][u] : u \in uids \cap Live(open)} IN IsFiniteSet(S) /\ S \subseteq Kept
<1> DEFINE T == uids \cap Live(open)
           S == {mbox[open][u] : u \in T}
           f == [u \in T |-> mbox[open][u]]
<1>1. mbox[open] \in Seq(Kept)
  BY DEF TypeOK
<1>2. T \subseteq 1..Len(mbox[open]) /\ Len(mbox[open]) \in Int
  BY <1>1 DEF Live
<1>3. IsFiniteSet(T)
  <2>1. IsFiniteSet(1..Len(mbox[open]))
    BY <1>2, FS_Interval
  <2>2. T \in SUBSET (1..Len(mbox[open]))
    BY <1>2
  <2> HIDE DEF T
  <2> QED BY <2>1, <2>2, FS_Subset
<1>4. f \in Surjection(T, S)
  BY DEF Surjection
<1>5. IsFiniteSet(S)
  BY <1>3, <1>4, FS_Surjection
<1>6. \A u \in T : mbox[open][u] \in Kept
  BY <1>1, <1>2
<1> QED BY <1>5, <1>6

LEMMA RemovedFacts ==
    ASSUME NEW seq \in Seq(Kept), NEW uids
    PROVE  /\ Removed(seq, uids) \in Seq(Kept) /\ DOMAIN Removed(seq, uids) = DOMAIN seq
           /\ Len(Removed(seq, uids)) = Len(seq)
           /\ \A u \in DOMAIN seq : Removed(seq, uids)[u] = IF u \in uids THEN Gone ELSE seq[u]
<1>1. Len(seq) \in Nat /\ DOMAIN seq = 1..Len(seq) /\ \A u \in 1..Len(seq) : seq[u] \in Kept
  OBVIOUS
<1>2. Gone \in Kept
  BY DEF Kept
<1>3. Removed(seq, uids) = [u \in 1..Len(seq) |-> IF u \in uids THEN Gone ELSE seq[u]]
  BY <1>1 DEF Removed
<1>4. Removed(seq, uids) \in [1..Len(seq) -> Kept]
  BY <1>1, <1>2, <1>3
<1>5. Removed(seq, uids) \in Seq(Kept)
  BY <1>1, <1>4
<1>6. Len(Removed(seq, uids)) = Len(seq)
  BY <1>1, <1>3, <1>5
<1> QED BY <1>1, <1>3, <1>5, <1>6

\* UIDs are given out once: a folder keeps its positions, whose mail stays or is gone.
Grows ==
    /\ DOMAIN mbox \subseteq DOMAIN mbox'
    /\ \A f \in DOMAIN mbox : /\ DOMAIN mbox[f] \subseteq DOMAIN mbox'[f]
                              /\ \A u \in DOMAIN mbox[f] : mbox'[f][u] = mbox[f][u] \/ mbox'[f][u] = Gone

\* Only the UIDs of a command are taken out of the folder it works in, and only by some commands.
Takes(cmd, open) ==
    \A f \in DOMAIN mbox : \A u \in DOMAIN mbox[f] :
        mbox'[f][u] # mbox[f][u] => /\ cmd.verb \in {"MOVE", "EXPUNGE"} /\ f = open /\ u \in cmd.uids
                                    /\ cmd.verb = "EXPUNGE" => u \in Expunged(cmd, open)

\* What is moved or copied gets a new position where it goes.
Brings(cmd, open) ==
    cmd.verb \in {"MOVE", "COPY"} =>
        /\ open \in DOMAIN mbox /\ cmd.folder \in DOMAIN mbox
        /\ \A u \in cmd.uids : u \in DOMAIN mbox[open] /\ mbox[open][u] # Gone =>
             \E p \in DOMAIN mbox'[cmd.folder] : p \notin DOMAIN mbox[cmd.folder] /\ mbox'[cmd.folder][p] = mbox[open][u]

LEMMA EffectFacts ==
    ASSUME TypeOK, NEW cmd \in Commands, NEW open, open = Nowhere \/ open \in DOMAIN mbox,
           Accepts(cmd, open), Effect(cmd, open)
    PROVE  /\ Grows /\ Takes(cmd, open) /\ Brings(cmd, open)
           /\ mbox' = [f \in DOMAIN mbox' |-> mbox'[f]] /\ DOMAIN mbox' \subseteq Folders
           /\ \A f \in DOMAIN mbox' : mbox'[f] \in Seq(Kept)
<1>1. /\ mbox = [f \in DOMAIN mbox |-> mbox[f]] /\ DOMAIN mbox \subseteq Folders
      /\ \A f \in DOMAIN mbox : mbox[f] \in Seq(Kept)
  BY DEF TypeOK
<1>2. CASE cmd.verb \in {"MOVE", "COPY"}
  <2>1. open \in DOMAIN mbox /\ cmd.folder \in DOMAIN mbox
    BY <1>2 DEF Accepts
  <2> DEFINE S == {mbox[open][u] : u \in Carried(cmd, open)}
             kept(f) == IF f = open /\ cmd.verb = "MOVE" THEN Removed(mbox[f], cmd.uids) ELSE mbox[f]
             new(f) == IF f = cmd.folder THEN SetToSeq(S) ELSE <<>>
  <2>2. mbox' = [f \in DOMAIN mbox |-> kept(f) \o new(f)]
    BY <1>2 DEF Effect
  <2>3. IsFiniteSet(S) /\ S \subseteq Kept
    BY <2>1, CarriedFinite DEF Carried
  <2> HIDE DEF S
  <2>4. SetToSeq(S) \in Seq(S) /\ \A x \in S : \E i \in DOMAIN SetToSeq(S) : SetToSeq(S)[i] = x
    BY <2>3, ListsAll
  <2>5. SetToSeq(S) \in Seq(Kept)
    BY <2>3, <2>4
  <2>6. \A f : new(f) \in Seq(Kept)
    BY <2>5
  <2>7. \A f \in DOMAIN mbox : /\ kept(f) \in Seq(Kept) /\ DOMAIN kept(f) = DOMAIN mbox[f] /\ Len(kept(f)) = Len(mbox[f])
                               /\ \A u \in DOMAIN mbox[f] : kept(f)[u] = IF f = open /\ cmd.verb = "MOVE" /\ u \in cmd.uids THEN Gone ELSE mbox[f][u]
    BY <1>1, RemovedFacts
  <2> HIDE DEF kept
  <2>8. \A f \in DOMAIN mbox : /\ kept(f) \o new(f) \in Seq(Kept)
                               /\ \A i \in DOMAIN kept(f) : i \in DOMAIN (kept(f) \o new(f)) /\ (kept(f) \o new(f))[i] = kept(f)[i]
                               /\ \A i \in DOMAIN new(f) : i + Len(kept(f)) \in DOMAIN (kept(f) \o new(f))
                                                           /\ (kept(f) \o new(f))[i + Len(kept(f))] = new(f)[i]
    BY <2>6, <2>7, ConcatFacts
  <2>9. DOMAIN mbox' = DOMAIN mbox /\ \A f \in DOMAIN mbox : mbox'[f] = kept(f) \o new(f)
    BY <2>2
  <2>10. Grows /\ Takes(cmd, open)
    BY <1>2, <2>7, <2>8, <2>9 DEF Grows, Takes
  <2>11. ASSUME NEW u \in cmd.uids, u \in DOMAIN mbox[open], mbox[open][u] # Gone
         PROVE  \E p \in DOMAIN mbox'[cmd.folder] : p \notin DOMAIN mbox[cmd.folder] /\ mbox'[cmd.folder][p] = mbox[open][u]
    <3>1. mbox[open][u] \in S
      BY <2>11 DEF S, Carried, Live
    <3>2. PICK i \in DOMAIN SetToSeq(S) : SetToSeq(S)[i] = mbox[open][u]
      BY <2>4, <3>1
    <3>3. i \in DOMAIN new(cmd.folder) /\ new(cmd.folder)[i] = mbox[open][u]
      BY <3>2
    <3> HIDE DEF new
    <3>6. /\ i + Len(kept(cmd.folder)) \in DOMAIN (kept(cmd.folder) \o new(cmd.folder))
          /\ (kept(cmd.folder) \o new(cmd.folder))[i + Len(kept(cmd.folder))] = mbox[open][u]
      BY <2>1, <2>8, <3>3
    <3>7. Len(kept(cmd.folder)) = Len(mbox[cmd.folder]) /\ mbox'[cmd.folder] = kept(cmd.folder) \o new(cmd.folder)
      BY <2>1, <2>7, <2>9
    <3>4. /\ i + Len(mbox[cmd.folder]) \in DOMAIN mbox'[cmd.folder]
          /\ mbox'[cmd.folder][i + Len(mbox[cmd.folder])] = mbox[open][u]
      BY <3>6, <3>7
    <3>5. i + Len(mbox[cmd.folder]) \notin DOMAIN mbox[cmd.folder]
      <4>1. i \in Nat /\ i > 0
        BY <2>5
      <4>2. Len(mbox[cmd.folder]) \in Nat /\ DOMAIN mbox[cmd.folder] = 1..Len(mbox[cmd.folder])
        BY <1>1, <2>1
      <4> QED BY <4>1, <4>2
    <3> QED BY <3>4, <3>5
  <2>12. Brings(cmd, open)
    BY <2>1, <2>11 DEF Brings
  <2> QED BY <1>1, <2>2, <2>8, <2>9, <2>10, <2>12
<1>3. CASE cmd.verb = "EXPUNGE"
  <2>1. open \in DOMAIN mbox
    BY <1>3 DEF Accepts
  <2>2. mbox' = [mbox EXCEPT ![open] = Removed(mbox[open], Expunged(cmd, open))]
    BY <1>3 DEF Effect
  <2>3. /\ DOMAIN mbox' = DOMAIN mbox /\ mbox' = [f \in DOMAIN mbox' |-> mbox'[f]]
        /\ mbox'[open] = Removed(mbox[open], Expunged(cmd, open))
        /\ \A f \in DOMAIN mbox : f # open => mbox'[f] = mbox[f]
    BY <1>1, <2>1, <2>2
  <2>4. /\ mbox'[open] \in Seq(Kept) /\ DOMAIN mbox'[open] = DOMAIN mbox[open]
        /\ \A u \in DOMAIN mbox[open] : mbox'[open][u] = IF u \in Expunged(cmd, open) THEN Gone ELSE mbox[open][u]
    BY <1>1, <2>1, <2>3, RemovedFacts
  <2>5. Grows
    BY <2>3, <2>4 DEF Grows
  <2>6. Expunged(cmd, open) \subseteq cmd.uids
    BY DEF Expunged
  <2>7. Takes(cmd, open)
    BY <1>3, <2>3, <2>4, <2>6 DEF Takes
  <2>8. Brings(cmd, open)
    BY <1>3 DEF Brings
  <2>9. \A f \in DOMAIN mbox' : mbox'[f] \in Seq(Kept)
    BY <1>1, <2>3, <2>4
  <2> QED BY <1>1, <2>3, <2>5, <2>7, <2>8, <2>9
<1>4. CASE cmd.verb = "CREATE"
  <2>1. mbox' = [f \in DOMAIN mbox \cup {cmd.folder} |-> IF f \in DOMAIN mbox THEN mbox[f] ELSE <<>>]
    BY <1>4 DEF Effect
  <2>2. cmd.folder \in Folders
    BY DEF Commands, Folders
  <2>3. DOMAIN mbox' = DOMAIN mbox \cup {cmd.folder} /\ \A f \in DOMAIN mbox : mbox'[f] = mbox[f]
    BY <2>1
  <2>4. \A f \in DOMAIN mbox' : mbox'[f] \in Seq(Kept)
    BY <1>1, <2>1
  <2> QED BY <1>1, <1>4, <2>1, <2>2, <2>3, <2>4 DEF Grows, Takes, Brings
<1>5. CASE cmd.verb = "LITERAL" /\ cmd.folder \in DOMAIN mbox
  <2>1. mbox' = [mbox EXCEPT ![cmd.folder] = Append(mbox[cmd.folder], cmd.mail)]
    BY <1>5 DEF Effect
  <2>2. /\ DOMAIN mbox' = DOMAIN mbox /\ mbox' = [f \in DOMAIN mbox' |-> mbox'[f]]
        /\ mbox'[cmd.folder] = Append(mbox[cmd.folder], cmd.mail)
        /\ \A f \in DOMAIN mbox : f # cmd.folder => mbox'[f] = mbox[f]
    BY <1>1, <1>5, <2>1
  <2>3. cmd.mail \in Kept
    BY DEF Commands, Kept
  <2>4. mbox[cmd.folder] \in Seq(Kept)
    BY <1>1, <1>5
  <2>5. /\ mbox'[cmd.folder] \in Seq(Kept) /\ DOMAIN mbox[cmd.folder] \subseteq DOMAIN mbox'[cmd.folder]
        /\ \A u \in DOMAIN mbox[cmd.folder] : mbox'[cmd.folder][u] = mbox[cmd.folder][u]
    BY <2>2, <2>3, <2>4, AppendFacts
  <2>6. \A f \in DOMAIN mbox : /\ mbox'[f] \in Seq(Kept) /\ DOMAIN mbox[f] \subseteq DOMAIN mbox'[f]
                               /\ \A u \in DOMAIN mbox[f] : mbox'[f][u] = mbox[f][u]
    BY <1>1, <2>2, <2>5
  <2> QED BY <1>1, <1>5, <2>2, <2>6 DEF Grows, Takes, Brings
<1>6. CASE \/ cmd.verb \notin {"MOVE", "COPY", "EXPUNGE", "CREATE", "LITERAL"}
           \/ cmd.verb = "LITERAL" /\ cmd.folder \notin DOMAIN mbox
  <2>1. mbox' = mbox
    BY <1>1, <1>6 DEF Effect
  <2> QED BY <1>1, <1>6, <2>1 DEF Grows, Takes, Brings
<1> QED BY <1>2, <1>3, <1>4, <1>5, <1>6

-----------------------------------------------------------------------------
(* What the server answers *)

\* A row tells of the folder that is open.
Tells(r, cmd) ==
    /\ r \in Heard /\ r.kind \in {"row", "plus", "huge"} /\ r.tag = 0 /\ Plausible(r)
    /\ r.kind = "huge" => r = Huge /\ cmd.verb \in {"FETCH", "BODY"}
    /\ r.of = "SEARCH" => /\ cmd.verb = "SEARCH" /\ srv.open \in DOMAIN mbox
                          /\ cmd.phase # "all" => r.data \subseteq Here(srv.open, cmd.mail)
    /\ r.of = "FETCH" => srv.open \in DOMAIN mbox /\ r.data = {<<u, mbox[srv.open][u]>> : u \in Live(srv.open)}
    /\ r.of = "BODY" => cmd.verb = "BODY" /\ r.data = {mbox[srv.open][u] : u \in Carried(cmd, srv.open)}

LEMMA LiveNumbers ==
    ASSUME TypeOK, NEW f \in DOMAIN mbox
    PROVE  /\ Len(mbox[f]) \in Nat /\ DOMAIN mbox[f] = 1..Len(mbox[f]) /\ Live(f) \subseteq 1..Len(mbox[f])
           /\ \A m : Here(f, m) \subseteq 1..Len(mbox[f])
           /\ \A u \in DOMAIN mbox[f] : u \in Nat /\ mbox[f][u] \in Kept
<1>1. mbox[f] \in Seq(Kept)
  BY DEF TypeOK
<1> QED BY <1>1 DEF Live, Here

LEMMA RowFacts ==
    ASSUME TypeOK, Aware, NEW cmd \in Commands, Accepts(cmd, srv.open)
    PROVE  RowsOf(cmd) = <<>> \/ \E r : RowsOf(cmd) = <<r>> /\ Tells(r, cmd) /\ r.kind = "row"
<1>1. srv.open = Nowhere \/ srv.open \in DOMAIN mbox
  BY DEF Aware, Selected
<1>2. cmd.verb \in {"SEARCH", "FETCH", "BODY"} => srv.open \in DOMAIN mbox
  BY <1>1 DEF Accepts
<1>3. \A of \in {"LIST", "CAPABILITY", "SEARCH", "FETCH", "BODY"} : \A data \in SUBSET Values :
         LET r == Row(of, data) IN r \in Heard /\ r.kind = "row" /\ r.tag = 0 /\ r.of = of /\ r.data = data
  BY DEF Row, Heard
<1>4. Nat \subseteq Values /\ Kept \subseteq Values /\ Nat \X Kept \subseteq Values /\ Folders \subseteq Values
  BY DEF Values
<1>5. CASE cmd.verb = "LIST"
  <2>1. RowsOf(cmd) = <<Row("LIST", DOMAIN mbox)>>
    BY <1>5 DEF RowsOf
  <2>2. DOMAIN mbox \in SUBSET Values
    BY <1>4 DEF TypeOK
  <2> QED BY <1>3, <2>1, <2>2 DEF Tells, Plausible
<1>6. CASE cmd.verb = "CAPABILITY"
  <2>1. RowsOf(cmd) = <<Row("CAPABILITY", offers)>>
    BY <1>6 DEF RowsOf
  <2>2. offers \in SUBSET Values
    BY DEF TypeOK
  <2> QED BY <1>3, <2>1, <2>2 DEF Tells, Plausible
<1>7. CASE cmd.verb = "SEARCH"
  <2> DEFINE data == IF cmd.phase = "all" THEN Live(srv.open) ELSE Here(srv.open, cmd.mail)
  <2>1. RowsOf(cmd) = <<Row("SEARCH", data)>>
    BY <1>7 DEF RowsOf
  <2>2. /\ Len(mbox[srv.open]) \in Nat /\ data \subseteq 1..Len(mbox[srv.open])
    BY <1>2, <1>7, LiveNumbers
  <2>3. data \in SUBSET Values
    BY <1>4, <2>2
  <2>4. cmd.phase # "all" => data \subseteq Here(srv.open, cmd.mail)
    OBVIOUS
  <2> HIDE DEF data
  <2>5. Row("SEARCH", data) \in Heard /\ Row("SEARCH", data).kind = "row" /\ Row("SEARCH", data).tag = 0
        /\ Row("SEARCH", data).of = "SEARCH" /\ Row("SEARCH", data).data = data
    BY <1>3, <2>3
  <2>6. Plausible(Row("SEARCH", data))
    BY <2>2, <2>5 DEF Plausible
  <2> QED BY <1>2, <1>7, <2>1, <2>4, <2>5, <2>6 DEF Tells
<1>8. CASE cmd.verb = "FETCH"
  <2> DEFINE data == {<<u, mbox[srv.open][u]>> : u \in Live(srv.open)}
  <2>1. RowsOf(cmd) = <<Row("FETCH", data)>>
    BY <1>8 DEF RowsOf
  <2>2. \A u \in Live(srv.open) : <<u, mbox[srv.open][u]>> \in Nat \X Kept
    BY <1>2, <1>8, LiveNumbers
  <2>3. data \subseteq Nat \X Kept /\ data \in SUBSET Values
    BY <1>4, <2>2
  <2>5. Row("FETCH", data) \in Heard /\ Row("FETCH", data).kind = "row" /\ Row("FETCH", data).tag = 0
        /\ Row("FETCH", data).of = "FETCH" /\ Row("FETCH", data).data = data
    BY <1>3, <2>3
  <2>6. Plausible(Row("FETCH", data))
    BY <2>3, <2>5 DEF Plausible
  <2> QED BY <1>2, <1>8, <2>1, <2>5, <2>6 DEF Tells
<1>9. CASE cmd.verb = "BODY"
  <2> DEFINE data == {mbox[srv.open][u] : u \in Carried(cmd, srv.open)}
  <2>1. RowsOf(cmd) = <<Row("BODY", data)>>
    BY <1>9 DEF RowsOf
  <2>2. data \subseteq Kept
    BY <1>2, <1>9, CarriedFinite DEF Carried
  <2>3. data \in SUBSET Values
    BY <1>4, <2>2
  <2>4. data = {mbox[srv.open][u] : u \in Carried(cmd, srv.open)}
    OBVIOUS
  <2> HIDE DEF data
  <2>5. Row("BODY", data) \in Heard /\ Row("BODY", data).kind = "row" /\ Row("BODY", data).tag = 0
        /\ Row("BODY", data).of = "BODY" /\ Row("BODY", data).data = data
    BY <1>3, <2>3
  <2>6. Plausible(Row("BODY", data))
    BY <2>5 DEF Plausible
  <2> QED BY <1>9, <2>1, <2>4, <2>5, <2>6 DEF Tells
<1>10. CASE cmd.verb \notin {"LIST", "CAPABILITY", "SEARCH", "FETCH", "BODY"}
  BY <1>10 DEF RowsOf
<1> QED BY <1>5, <1>6, <1>7, <1>8, <1>9, <1>10

\* A tagged line.
LEMMA ReplyFacts ==
    ASSUME NEW tag \in Nat, NEW status \in {"ok", "no", "bad", "authfailed"}
    PROVE  /\ Reply(tag, status) \in Heard /\ Reply(tag, status).kind = "tagged" /\ Reply(tag, status).tag = tag
           /\ Reply(tag, status).status = status /\ Reply(tag, status).of = "" /\ Plausible(Reply(tag, status))
           /\ Plus \in Heard /\ Plus.kind = "plus" /\ Plus.tag = 0 /\ Plus.of = "" /\ Plausible(Plus)
           /\ Huge \in Heard /\ Huge.kind = "huge" /\ Huge.tag = 0 /\ Huge.of = "" /\ Plausible(Huge)
  BY DEF Reply, Plus, Huge, Heard, Plausible

\* How a command is taken from the queue and what it changes.
Taken ==
    LET cmd == Head(srv.queue)
    IN /\ srv.queue # <<>> /\ srv' = [srv EXCEPT !.queue = Tail(@), !.idling = srv'.idling, !.open = srv'.open]
       /\ srv'.idling = 0 \/ (cmd.verb = "IDLE" /\ srv'.idling = cmd.tag)
       /\ \/ srv'.open = srv.open
          \/ srv.idling = 0 /\ cmd.verb = "SELECT" /\ (srv'.open = Nowhere \/ (srv'.open = cmd.folder /\ cmd.folder \in DOMAIN mbox))
       /\ UNCHANGED <<late, session, call, outcome>>

\* Nothing is said.
Silent == /\ srv.idling = 0 /\ srv'.idling = 0 /\ srv'.open = srv.open /\ Head(srv.queue).verb \in {"DONE", "BLANK"}
          /\ UNCHANGED <<held, wire>>

\* A line is said that is not the answer to the command, or one that refuses it.
Spoken(r) ==
    LET cmd == Head(srv.queue)
    IN /\ srv.idling # 0 \/ cmd.verb \notin {"DONE", "BLANK"}
       /\ \/ srv.idling # 0 /\ r.kind = "tagged" /\ r.tag = srv.idling /\ srv'.open = srv.open
          \/ r = Plus /\ srv'.open = srv.open
          \/ srv.idling = 0 /\ r.kind = "tagged" /\ r.tag = cmd.tag /\ r.status # "ok"
       /\ r \in Heard /\ r.of = "" /\ Plausible(r)
       /\ wire' = Append(wire, r) /\ UNCHANGED held

\* The command is carried out: rows, then the answer.
Granting(rows) ==
    LET cmd == Head(srv.queue)
    IN /\ srv.idling = 0 /\ srv'.idling = 0 /\ cmd.verb \notin {"DONE", "BLANK", "IDLE", "APPEND"}
       /\ srv'.open = (IF cmd.verb = "SELECT" THEN cmd.folder ELSE srv.open)
       /\ Accepts(cmd, srv.open) /\ Effect(cmd, srv.open) /\ UNCHANGED overtaken
       /\ rows \in Seq(Heard) /\ \A i \in DOMAIN rows : Tells(rows[i], cmd) /\ rows[i].kind # "plus" /\ (rows[i].kind = "huge" => i = 1)
       /\ wire' = Append(wire \o rows, Reply(cmd.tag, "ok"))

LEMMA ConcatOne ==
    ASSUME NEW S, NEW s \in Seq(S), NEW e \in S
    PROVE  s \o <<>> = s /\ s \o <<e>> = Append(s, e) /\ s \o <<>> \o <<e>> = Append(s, e)
  OBVIOUS

LEMMA ConcatTwo ==
    ASSUME NEW S, NEW s \in Seq(S), NEW d \in S, NEW e \in S
    PROVE  s \o <<d, e>> = Append(s \o <<d>>, e)
  OBVIOUS

LEMMA PairFacts ==
    ASSUME NEW S, NEW c \in S, NEW d \in S
    PROVE  /\ <<c, d>> \in Seq(S) /\ DOMAIN <<c, d>> = 1..2 /\ <<c, d>>[1] = c /\ <<c, d>>[2] = d
           /\ \A i \in DOMAIN <<c, d>> : i = 1 \/ i = 2
           /\ <<c>> \o <<d>> = <<c, d>>
<1>1. <<c>> \in Seq(S) /\ <<d>> \in Seq(S) /\ <<c, d>> \in Seq(S) /\ DOMAIN <<c, d>> = 1..2
  OBVIOUS
<1>2. Len(<<c>>) = 1 /\ Len(<<d>>) = 1 /\ Len(<<c, d>>) = 2 /\ <<c, d>>[1] = c /\ <<c, d>>[2] = d
  OBVIOUS
<1>3. <<c>> \o <<d>> \in Seq(S) /\ Len(<<c>> \o <<d>>) = 2
  BY <1>1, <1>2
<1>4. (<<c>> \o <<d>>)[1] = c /\ (<<c>> \o <<d>>)[2] = d
  BY <1>1, <1>2
<1>5. \A i \in 1..2 : i = 1 \/ i = 2
  OBVIOUS
<1>6. <<c>> \o <<d>> = <<c, d>>
  BY <1>1, <1>2, <1>3, <1>4, <1>5, SeqEqual
<1> QED BY <1>1, <1>2, <1>5, <1>6

LEMMA ConcatThree ==
    ASSUME NEW S, NEW s \in Seq(S), NEW c \in S, NEW d \in S, NEW e \in S
    PROVE  s \o <<c>> \o <<d>> \o <<e>> = Append(s \o <<c, d>>, e)
<1>1. <<c>> \in Seq(S) /\ <<d>> \in Seq(S)
  OBVIOUS
<1>2. <<c>> \o <<d>> = <<c, d>> /\ <<c, d>> \in Seq(S)
  BY PairFacts
<1>3. (s \o <<c>>) \o <<d>> = s \o (<<c>> \o <<d>>)
  BY <1>1, ConcatAssociative
<1>4. s \o <<c>> \o <<d>> = s \o <<c, d>>
  BY <1>2, <1>3
<1>5. s \o <<c, d>> \in Seq(S)
  BY <1>2, ConcatFacts
<1>6. \A t \in Seq(S) : t \o <<e>> = Append(t, e)
  OBVIOUS
<1> QED BY <1>4, <1>5, <1>6

LEMMA ServeFacts ==
    ASSUME TypeOK, Aware, Serve
    PROVE  Taken /\ (Silent \/ (\E r : Spoken(r)) \/ (\E rows : Granting(rows)))
<1> DEFINE cmd == Head(srv.queue)
           served == [srv EXCEPT !.queue = Tail(srv.queue)]
<1>1. srv.queue # <<>> /\ srv.queue \in Seq(Commands) /\ cmd \in Commands /\ cmd.tag \in Nat /\ srv.idling \in Nat
  <2>1. srv.queue # <<>> /\ srv.queue \in Seq(Commands) /\ srv.idling \in Nat
    BY DEF TypeOK, Serve
  <2>2. cmd \in Commands
    BY <2>1, TailFacts
  <2> QED BY <2>1, <2>2 DEF Commands
<1>2. UNCHANGED <<late, session, call, outcome>>
  BY DEF Serve
<1>3. srv = [open |-> srv.open, idling |-> srv.idling, queue |-> srv.queue, up |-> srv.up]
  BY DEF TypeOK
<1>4. wire \in Seq(Heard)
  BY DEF TypeOK
<1>5. CASE /\ srv.idling # 0
           /\ srv' = [served EXCEPT !.idling = 0] /\ (wire' = Append(wire, Reply(srv.idling, "bad")) \/ wire' = Append(wire, Reply(srv.idling, "ok")))
           /\ UNCHANGED <<held, faults>>
  <2>1. Taken
    BY <1>1, <1>2, <1>3, <1>5 DEF Taken
  <2>2. PICK status \in {"ok", "bad"} : wire' = Append(wire, Reply(srv.idling, status))
    BY <1>5
  <2>3. srv'.open = srv.open
    BY <1>3, <1>5
  <2> DEFINE r == Reply(srv.idling, status)
  <2>6. status \in {"ok", "no", "bad", "authfailed"} /\ srv.idling \in Nat
    BY <1>1, <2>2
  <2>5. r \in Heard /\ r.kind = "tagged" /\ r.tag = srv.idling /\ r.of = "" /\ Plausible(r)
    <3>1. r \in Heard
      BY <2>6, ReplyFacts
    <3>2. r.kind = "tagged" /\ r.tag = srv.idling /\ r.of = ""
      BY <2>6 DEF Reply
    <3>3. Plausible(r)
      BY <3>2 DEF Plausible
    <3> QED BY <3>1, <3>2, <3>3
  <2> HIDE DEF r
  <2>4. Spoken(r)
    BY <1>5, <2>2, <2>3, <2>5 DEF Spoken, r
  <2> QED BY <2>1, <2>4
<1>6. CASE /\ srv.idling = 0 /\ cmd.verb \in {"DONE", "BLANK"}
           /\ srv' = served /\ UNCHANGED <<held, wire, faults>>
  <2>1. Taken /\ Silent
    BY <1>1, <1>2, <1>3, <1>6 DEF Taken, Silent
  <2> QED BY <2>1
<1>7. CASE /\ srv.idling = 0 /\ cmd.verb \in {"IDLE", "APPEND"} /\ Accepts(cmd, srv.open)
           /\ srv' = [served EXCEPT !.idling = IF cmd.verb = "IDLE" THEN cmd.tag ELSE 0]
           /\ wire' = Append(wire, Plus) /\ UNCHANGED <<held, faults>>
  <2>1. Taken
    BY <1>1, <1>2, <1>3, <1>7 DEF Taken
  <2>2. srv'.open = srv.open
    BY <1>3, <1>7
  <2>3. Spoken(Plus)
    BY <1>1, <1>7, <2>2, ReplyFacts DEF Spoken
  <2> QED BY <2>1, <2>3
<1>8. CASE /\ srv.idling = 0 /\ cmd.verb \notin {"DONE", "BLANK", "IDLE", "APPEND"} /\ Accepts(cmd, srv.open)
           /\ srv' = [served EXCEPT !.open = IF cmd.verb = "SELECT" THEN cmd.folder ELSE @]
           /\ Effect(cmd, srv.open) /\ Said(cmd) /\ UNCHANGED overtaken
  <2>1. Taken
    BY <1>1, <1>2, <1>3, <1>8 DEF Taken, Accepts
  <2>2. srv'.idling = 0 /\ srv'.open = IF cmd.verb = "SELECT" THEN cmd.folder ELSE srv.open
    BY <1>3, <1>8
  <2>3. RowsOf(cmd) = <<>> \/ \E r : RowsOf(cmd) = <<r>> /\ Tells(r, cmd) /\ r.kind = "row"
    BY <1>1, <1>8, RowFacts
  <2>4. ASSUME NEW rows, wire' = Append(wire \o rows, Reply(cmd.tag, "ok")), rows \in Seq(Heard),
               \A i \in DOMAIN rows : Tells(rows[i], cmd) /\ rows[i].kind # "plus" /\ (rows[i].kind = "huge" => i = 1)
        PROVE  Granting(rows)
    BY <1>8, <2>2, <2>4 DEF Granting
  <2> DEFINE ok == Reply(cmd.tag, "ok")
  <2>5. /\ ok \in Heard /\ Huge \in Heard /\ Huge.kind = "huge" /\ Huge.tag = 0 /\ Huge.of = "" /\ Plausible(Huge)
    BY <1>1, ReplyFacts
  <2>6. <<>> \in Seq(Heard) /\ wire \o <<>> = wire /\ DOMAIN <<>> = {}
    BY <1>4
  <2> HIDE DEF cmd, ok
  <2>7. CASE wire' = wire \o RowsOf(cmd) \o <<ok>>
    <3>1. CASE RowsOf(cmd) = <<>>
      <4>1. wire' = Append(wire \o <<>>, ok)
        BY <1>4, <2>5, <2>6, <2>7, <3>1, ConcatOne
      <4>2. Granting(<<>>)
        BY <2>4, <2>6, <4>1 DEF ok
      <4> QED BY <2>1, <4>2
    <3>2. CASE RowsOf(cmd) # <<>>
      <4>1. PICK r : RowsOf(cmd) = <<r>> /\ Tells(r, cmd) /\ r.kind = "row"
        BY <2>3, <3>2
      <4>2. r \in Heard
        BY <4>1 DEF Tells
      <4>3. <<r>> \in Seq(Heard) /\ wire \o <<r>> \in Seq(Heard) /\ \A i \in DOMAIN <<r>> : <<r>>[i] = r
        BY <1>4, <4>2
      <4>4. wire' = Append(wire \o <<r>>, ok)
        <5>1. wire \o <<r>> \o <<ok>> = Append(wire \o <<r>>, ok)
          BY <2>5, <4>3, ConcatOne
        <5> QED BY <2>7, <4>1, <5>1
      <4>5. Granting(<<r>>)
        BY <2>4, <4>1, <4>3, <4>4 DEF ok
      <4> QED BY <2>1, <4>5
    <3> QED BY <3>1, <3>2
  <2>8. CASE RowsOf(cmd) # <<>> /\ cmd.phase = "search" /\ wire' = wire \o <<Row("SEARCH", {}), ok>>
    <3> DEFINE r == Row("SEARCH", {})
    <3>1. cmd.verb = "SEARCH"
      BY <1>1, <2>8 DEF Commands, Verb
    <3>2. srv.open \in DOMAIN mbox
      BY <1>8, <3>1 DEF Accepts, Aware, Selected
    <3>3. r \in Heard /\ r.kind = "row" /\ r.tag = 0 /\ r.of = "SEARCH" /\ r.data = {}
      BY DEF Row, Heard
    <3>4. Plausible(r)
      <4>1. 0 \in Nat /\ {} \subseteq 1..0
        OBVIOUS
      <4> QED BY <3>3, <4>1 DEF Plausible
    <3> HIDE DEF r
    <3>5. Tells(r, cmd)
      BY <3>1, <3>2, <3>3, <3>4 DEF Tells
    <3>6. <<r>> \in Seq(Heard) /\ \A i \in DOMAIN <<r>> : <<r>>[i] = r
      BY <3>3
    <3>9. wire' = wire \o <<r, ok>>
      BY <2>8 DEF r
    <3>11. wire \in Seq(Heard)
      BY <1>4
    <3>12. r \in Heard
      BY <3>3
    <3>13. ok \in Heard
      BY <2>5
    <3>14. wire \o <<r, ok>> = Append(wire \o <<r>>, ok)
      BY <3>11, <3>12, <3>13, ConcatTwo
    <3>7. wire' = Append(wire \o <<r>>, ok)
      BY <3>9, <3>14
    <3>8. Granting(<<r>>)
      BY <2>4, <3>3, <3>5, <3>6, <3>7 DEF ok
    <3> QED BY <2>1, <3>8
  <2>9. CASE RowsOf(cmd) # <<>> /\ cmd.verb = "CAPABILITY" /\ wire' = Append(wire, ok)
    <3>1. Granting(<<>>)
      BY <2>4, <2>6, <2>9 DEF ok
    <3> QED BY <2>1, <3>1
  <2>10. CASE RowsOf(cmd) # <<>> /\ cmd.verb \in {"FETCH", "BODY"} /\ wire' = wire \o <<Huge>> \o RowsOf(cmd) \o <<ok>>
    <3>1. PICK r : RowsOf(cmd) = <<r>> /\ Tells(r, cmd) /\ r.kind = "row"
      BY <2>3, <2>10
    <3>2. r \in Heard
      BY <3>1 DEF Tells
    <3>3. Tells(Huge, cmd)
      BY <2>5, <2>10 DEF Tells
    <3>4. /\ <<Huge, r>> \in Seq(Heard) /\ <<Huge, r>>[1] = Huge /\ <<Huge, r>>[2] = r
          /\ \A i \in DOMAIN <<Huge, r>> : i = 1 \/ i = 2
      <4>1. Huge \in Heard
        BY <2>5
      <4> QED BY <3>2, <4>1, PairFacts
    <3>5. \A i \in DOMAIN <<Huge, r>> : Tells(<<Huge, r>>[i], cmd) /\ <<Huge, r>>[i].kind # "plus" /\ (<<Huge, r>>[i].kind = "huge" => i = 1)
      BY <2>5, <3>1, <3>3, <3>4
    <3>6. wire' = Append(wire \o <<Huge, r>>, ok)
      <4>3. Huge \in Heard
        BY <2>5
      <4>4. ok \in Heard
        BY <2>5
      <4>5. wire \in Seq(Heard)
        BY <1>4
      <4>1. wire \o <<Huge>> \o <<r>> \o <<ok>> = Append(wire \o <<Huge, r>>, ok)
        BY <3>2, <4>3, <4>4, <4>5, ConcatThree
      <4>2. wire' = wire \o <<Huge>> \o <<r>> \o <<ok>>
        BY <2>10, <3>1
      <4> QED BY <4>1, <4>2
    <3>7. Granting(<<Huge, r>>)
      BY <2>4, <3>4, <3>5, <3>6 DEF ok
    <3> QED BY <2>1, <3>7
  <2>11. \/ wire' = wire \o RowsOf(cmd) \o <<ok>>
         \/ RowsOf(cmd) # <<>> /\ cmd.phase = "search" /\ wire' = wire \o <<Row("SEARCH", {}), ok>>
         \/ RowsOf(cmd) # <<>> /\ cmd.verb = "CAPABILITY" /\ wire' = Append(wire, ok)
         \/ RowsOf(cmd) # <<>> /\ cmd.verb \in {"FETCH", "BODY"} /\ wire' = wire \o <<Huge>> \o RowsOf(cmd) \o <<ok>>
    BY <1>8 DEF Said, ok
  <2> QED BY <2>7, <2>8, <2>9, <2>10, <2>11
<1>9. CASE /\ srv.idling = 0 /\ cmd.verb \notin {"DONE", "BLANK"}
           /\ srv' = [served EXCEPT !.open = IF cmd.verb = "SELECT" THEN Nowhere ELSE @]
           /\ \E status \in IF cmd.verb = "AUTHENTICATE" THEN {"authfailed", "no"} ELSE {"no"} :
                   wire' = Append(wire, Reply(cmd.tag, status))
           /\ UNCHANGED held
  <2>1. Taken
    BY <1>1, <1>2, <1>3, <1>9 DEF Taken
  <2>2. PICK status \in {"no", "authfailed"} : wire' = Append(wire, Reply(cmd.tag, status))
    BY <1>9
  <2> DEFINE r == Reply(cmd.tag, status)
  <2>6. status \in {"ok", "no", "bad", "authfailed"} /\ cmd.tag \in Nat
    BY <1>1, <2>2
  <2>3. /\ r \in Heard /\ r.kind = "tagged" /\ r.tag = cmd.tag /\ r.of = "" /\ Plausible(r) /\ r.status = status
    <3>1. r \in Heard
      BY <2>6, ReplyFacts
    <3>2. r.kind = "tagged" /\ r.tag = cmd.tag /\ r.of = "" /\ r.status = status
      BY <2>6 DEF Reply
    <3>3. Plausible(r)
      BY <3>2 DEF Plausible
    <3> QED BY <3>1, <3>2, <3>3
  <2>4. r.status # "ok" /\ wire' = Append(wire, r)
    BY <2>2, <2>3
  <2> HIDE DEF r
  <2>5. Spoken(r)
    BY <1>9, <2>3, <2>4 DEF Spoken
  <2> QED BY <2>1, <2>5
<1> QED BY <1>5, <1>6, <1>7, <1>8, <1>9 DEF Serve

-----------------------------------------------------------------------------
(* A step of the server keeps the invariant *)

Carries == \E rows : Granting(rows)
Works   == Taken /\ (Silent \/ (\E r : Spoken(r)) \/ Carries)
First   == Head(srv.queue)

LEMMA WorksFacts ==
    ASSUME TypeOK, Works
    PROVE  /\ First \in Commands /\ First.tag \in Nat /\ 1 \in DOMAIN srv.queue /\ First = srv.queue[1] /\ srv.queue # <<>>
           /\ srv'.queue = Tail(srv.queue) /\ srv'.up = srv.up /\ srv'.queue \in Seq(Commands)
           /\ \A i \in DOMAIN srv'.queue : /\ i + 1 \in DOMAIN srv.queue /\ i \in Nat /\ i + 1 # 1 /\ 1 < i + 1
                                           /\ srv'.queue[i] = srv.queue[i + 1]
           /\ late' = late /\ session' = session /\ call' = call /\ outcome' = outcome
           /\ Phase' = Phase /\ Asking' = Asking /\ Current' = Current /\ Chosen' = Chosen
           /\ \A r : Own(r)' <=> Own(r)
           /\ srv'.idling = 0 \/ (First.verb = "IDLE" /\ srv'.idling = First.tag)
<1>1. srv.queue \in Seq(Commands) /\ srv.queue # <<>>
  BY DEF TypeOK, Works, Taken
<1>2. /\ First \in Commands /\ 1 \in DOMAIN srv.queue /\ First = srv.queue[1] /\ Tail(srv.queue) \in Seq(Commands)
      /\ \A i \in DOMAIN Tail(srv.queue) : i + 1 \in DOMAIN srv.queue /\ Tail(srv.queue)[i] = srv.queue[i + 1]
  BY <1>1, TailFacts DEF First
<1>3. First.tag \in Nat
  BY <1>2 DEF Commands
<1>4. srv'.queue = Tail(srv.queue) /\ srv'.up = srv.up
  BY DEF TypeOK, Works, Taken
<1>5. \A i \in DOMAIN Tail(srv.queue) : i \in Nat /\ i + 1 # 1 /\ 1 < i + 1
  BY <1>2
<1>6. late' = late /\ session' = session /\ call' = call /\ outcome' = outcome
  BY DEF Works, Taken
<1>7. /\ Phase' = Phase /\ Asking' = Asking /\ Current' = Current /\ Chosen' = Chosen
      /\ \A r : Own(r)' <=> Own(r)
  BY <1>6 DEF Phase, Asking, Current, Chosen, Own
<1>8. srv'.idling = 0 \/ (First.verb = "IDLE" /\ srv'.idling = First.tag)
  BY DEF Works, Taken, First
<1> QED BY <1>1, <1>2, <1>3, <1>4, <1>5, <1>6, <1>7, <1>8

\* What a line is that the step says.
Line(r) ==
    /\ srv.idling # 0 \/ First.verb \notin {"DONE", "BLANK"}
    /\ r.tag \in {0, srv.idling, First.tag} /\ r \in Heard /\ Plausible(r)
    /\ r.kind = "tagged" => \/ srv.idling # 0 /\ r.tag = srv.idling
                            \/ srv.idling = 0 /\ r.tag = First.tag /\ (r.status = "ok" => Carries)
    /\ r.kind = "huge" => Carries /\ First.verb \in {"FETCH", "BODY"}
    /\ r.of \in {"SEARCH", "FETCH", "BODY"} => Carries /\ Tells(r, First)

\* The lines on the wire stay, and new ones come behind them.
LEMMA WorksWire ==
    ASSUME TypeOK, Works
    PROVE  /\ wire' \in Seq(Heard) /\ Len(wire') \in Nat /\ Len(wire) \in Nat /\ wire \in Seq(Heard)
           /\ \A i \in DOMAIN wire : i \in DOMAIN wire' /\ wire'[i] = wire[i]
           /\ \A i \in DOMAIN wire' : \/ i \in DOMAIN wire
                                      \/ /\ Line(wire'[i])
                                         /\ wire'[i].kind = "tagged" => i = Len(wire')
                                         /\ wire'[i].kind = "huge" => i = Len(wire) + 1
           /\ Carries => \E i \in DOMAIN wire' : wire'[i].kind = "tagged" /\ wire'[i].tag = First.tag /\ wire'[i].status = "ok"
<1>1. wire \in Seq(Heard) /\ Len(wire) \in Nat
  BY DEF TypeOK
<1>2. CASE Silent /\ ~Carries
  BY <1>1, <1>2 DEF Silent
<1>3. ASSUME NEW r, Spoken(r), ~Carries
      PROVE  /\ wire' \in Seq(Heard) /\ Len(wire') \in Nat
             /\ \A i \in DOMAIN wire : i \in DOMAIN wire' /\ wire'[i] = wire[i]
             /\ \A i \in DOMAIN wire' : \/ i \in DOMAIN wire
                                        \/ /\ Line(wire'[i])
                                           /\ wire'[i].kind = "tagged" => i = Len(wire')
                                           /\ wire'[i].kind = "huge" => i = Len(wire) + 1
  <2>1. r \in Heard
    BY <1>3 DEF Spoken
  <2>2. wire' = Append(wire, r)
    BY <1>3 DEF Spoken
  <2>3. /\ wire' \in Seq(Heard) /\ Len(wire') = Len(wire) + 1
        /\ \A i \in DOMAIN wire : wire'[i] = wire[i]
        /\ wire'[Len(wire) + 1] = r
        /\ DOMAIN wire' = 1..(Len(wire) + 1) /\ DOMAIN wire = 1..Len(wire)
    BY <1>1, <2>1, <2>2, AppendFacts
  <2>4. \A i \in 1..(Len(wire) + 1) : i \in 1..Len(wire) \/ i = Len(wire) + 1
    BY <1>1
  <2>5. \A i \in 1..Len(wire) : i \in 1..(Len(wire) + 1)
    BY <1>1
  <2>6. r.kind # "huge" /\ r.of = "" /\ Plausible(r)
    BY <1>3, ReplyFacts DEF Spoken
  <2>8. Plus.kind = "plus" /\ Plus.tag = 0
    BY ReplyFacts
  <2>7. Line(r)
    BY <1>3, <2>1, <2>6, <2>8 DEF Line, Spoken, First
  <2> HIDE DEF Line
  <2>9. \A i \in DOMAIN wire : i \in DOMAIN wire' /\ wire'[i] = wire[i]
    BY <2>3, <2>5
  <2>10. \A i \in DOMAIN wire' : i \in DOMAIN wire \/ (i = Len(wire') /\ wire'[i] = r)
    BY <2>3, <2>4
  <2>11. wire' \in Seq(Heard) /\ Len(wire') \in Nat
    BY <1>1, <2>3
  <2> QED BY <2>6, <2>7, <2>9, <2>10, <2>11
<1>4. ASSUME NEW rows, Granting(rows)
      PROVE  /\ wire' \in Seq(Heard) /\ Len(wire') \in Nat
             /\ \A i \in DOMAIN wire : i \in DOMAIN wire' /\ wire'[i] = wire[i]
             /\ \A i \in DOMAIN wire' : \/ i \in DOMAIN wire
                                        \/ /\ Line(wire'[i])
                                           /\ wire'[i].kind = "tagged" => i = Len(wire')
                                           /\ wire'[i].kind = "huge" => i = Len(wire) + 1
             /\ \E i \in DOMAIN wire' : wire'[i].kind = "tagged" /\ wire'[i].tag = First.tag /\ wire'[i].status = "ok"
  <2> DEFINE ok == Reply(First.tag, "ok")
             said == wire \o rows
  <2>1. rows \in Seq(Heard)
    BY <1>4 DEF Granting
  <2>2. ok \in Heard
    BY WorksFacts, ReplyFacts
  <2>3. wire' = Append(said, ok)
    BY <1>4 DEF Granting, First
  <2>4. ok.kind = "tagged" /\ ok.tag = First.tag /\ ok.status = "ok" /\ ok.of = "" /\ ok.data = {}
    BY DEF Reply
  <2> HIDE DEF ok
  <2>5. /\ said \in Seq(Heard) /\ Len(said) = Len(wire) + Len(rows)
        /\ \A i \in DOMAIN said : IF i <= Len(wire) THEN i \in DOMAIN wire /\ said[i] = wire[i]
                                  ELSE i - Len(wire) \in DOMAIN rows /\ said[i] = rows[i - Len(wire)]
        /\ \A i \in DOMAIN wire : i \in DOMAIN said /\ said[i] = wire[i]
    BY <1>1, <2>1, ConcatFacts
  <2> HIDE DEF said
  <2>6. /\ wire' \in Seq(Heard) /\ Len(wire') = Len(said) + 1
        /\ \A i \in DOMAIN said : wire'[i] = said[i]
        /\ wire'[Len(said) + 1] = ok
        /\ DOMAIN wire' = 1..(Len(said) + 1) /\ DOMAIN said = 1..Len(said)
    BY <2>2, <2>3, <2>5, AppendFacts
  <2>7. Len(said) \in Nat /\ Len(rows) \in Nat
    BY <2>1, <2>5
  <2>8. \A i \in 1..(Len(said) + 1) : i \in 1..Len(said) \/ i = Len(said) + 1
    BY <2>7
  <2>9. \A i \in 1..Len(said) : i \in 1..(Len(said) + 1)
    BY <2>7
  <2>10. Len(said) + 1 \in 1..(Len(said) + 1)
    BY <2>7
  <2>11. Carries /\ srv.idling = 0 /\ First.verb \notin {"DONE", "BLANK", "IDLE", "APPEND"}
    BY <1>4 DEF Carries, Granting, First
  <2>12. Line(ok)
    BY <2>2, <2>4, <2>11 DEF Line, Plausible
  <2>13. ASSUME NEW i \in DOMAIN rows
         PROVE  Line(rows[i]) /\ rows[i].kind # "tagged" /\ (rows[i].kind = "huge" => i = 1)
    <3>1. Tells(rows[i], First) /\ rows[i].kind # "plus" /\ (rows[i].kind = "huge" => i = 1)
      BY <1>4, <2>13 DEF Granting, First
    <3>2. rows[i] \in Heard
      BY <3>1 DEF Tells
    <3>3. rows[i].kind # "tagged" /\ rows[i].tag = 0 /\ Plausible(rows[i]) /\ (rows[i].kind = "huge" => First.verb \in {"FETCH", "BODY"})
      BY <3>1 DEF Tells
    <3> QED BY <2>11, <3>1, <3>2, <3>3 DEF Line
  <2>14. ASSUME NEW i \in DOMAIN wire', i \notin DOMAIN wire
         PROVE  /\ Line(wire'[i])
                /\ wire'[i].kind = "tagged" => i = Len(wire')
                /\ wire'[i].kind = "huge" => i = Len(wire) + 1
    <3>1. CASE i = Len(said) + 1
      BY <2>4, <2>6, <2>12, <3>1
    <3>2. CASE i \in DOMAIN said
      <4>1. i - Len(wire) \in DOMAIN rows /\ wire'[i] = rows[i - Len(wire)] /\ i \in Nat
        BY <2>5, <2>6, <2>14, <3>2
      <4>2. i - Len(wire) = 1 => i = Len(wire) + 1
        BY <1>1, <4>1
      <4> QED BY <2>13, <4>1, <4>2
    <3> QED BY <2>6, <2>8, <3>1, <3>2
  <2>15. \A i \in DOMAIN wire : i \in DOMAIN wire' /\ wire'[i] = wire[i]
    BY <2>5, <2>6, <2>9
  <2>16. \E i \in DOMAIN wire' : wire'[i].kind = "tagged" /\ wire'[i].tag = First.tag /\ wire'[i].status = "ok"
    BY <2>4, <2>6, <2>10
  <2>17. wire' \in Seq(Heard) /\ Len(wire') \in Nat
    BY <2>6, <2>7
  <2> QED BY <2>14, <2>15, <2>16, <2>17
<1> QED BY <1>1, <1>2, <1>3, <1>4 DEF Works, Carries

\* A command that is waited for is the last one but blank lines.
LEMMA WorksCurrent ==
    ASSUME TypeOK, Connected, Works, Asking, srv.idling = 0, First.tag = call.tag, First.verb # "BLANK"
    PROVE  First = Current /\ Blank'
<1>1. First = Current /\ \A j \in DOMAIN srv.queue : 1 < j => srv.queue[j].verb = "BLANK"
  BY WorksFacts DEF Connected, OneByOne
<1>2. \A i \in DOMAIN srv'.queue : srv'.queue[i].verb = "BLANK"
  BY <1>1, WorksFacts
<1>3. srv'.idling = 0
  <2>1. First.verb # "IDLE"
    BY WorksFacts DEF Connected, Tagged, Quiet
  <2> QED BY <2>1, WorksFacts
<1> QED BY <1>1, <1>2, <1>3 DEF Blank

\* Nothing but blank lines is on its way: the server says nothing.
LEMMA WorksBlank ==
    ASSUME TypeOK, Works, Blank
    PROVE  wire' = wire /\ srv'.open = srv.open /\ Blank' /\ mbox' = mbox /\ forgone' = forgone /\ ~Carries
<1>1. First.verb = "BLANK" /\ srv.idling = 0
  BY WorksFacts DEF Blank
<1>2. ~Carries /\ \A r : ~Spoken(r)
  BY <1>1 DEF Carries, Granting, Spoken, First
<1>3. Silent
  BY <1>2 DEF Works
<1>4. Blank'
  BY <1>3, WorksFacts DEF Blank, Silent
<1> QED BY <1>2, <1>3, <1>4 DEF Silent, held

\* The answer, if the step says it.
LEMMA WorksOwn ==
    ASSUME TypeOK, Connected, Works, Asking, NEW i \in DOMAIN wire', i \notin DOMAIN wire, Own(wire'[i])
    PROVE  i = Len(wire') /\ First = Current /\ Blank' /\ (wire'[i].status = "ok" => Carries)
<1>1. Line(wire'[i]) /\ (wire'[i].kind = "tagged" => i = Len(wire'))
  BY WorksWire
<1>2. wire'[i].kind = "tagged" /\ wire'[i].tag = call.tag
  BY DEF Own
<1>3. srv.idling # call.tag
  BY DEF Connected, Tagged
<1>4. srv.idling = 0 /\ First.tag = call.tag /\ First.verb # "BLANK" /\ (wire'[i].status = "ok" => Carries)
  BY <1>1, <1>2, <1>3 DEF Line
<1> QED BY <1>1, <1>2, <1>4, WorksCurrent

\* On a folder the call has chosen only the command waited for is carried out.
LEMMA WorksChosen ==
    ASSUME TypeOK, Connected, Works, Chosen, First.verb \notin Quiet
    PROVE  Asking /\ First = Current /\ (srv.idling = 0 => Blank')
<1>1. Asking /\ First.tag = call.tag
  BY WorksFacts DEF Connected, Drained
<1>2. First.verb # "BLANK"
  BY DEF Quiet
<1>3. First = Current
  BY <1>1, <1>2, WorksFacts DEF Connected, OneByOne
<1> QED BY <1>1, <1>2, <1>3, WorksCurrent

LEMMA WorksOpen ==
    ASSUME TypeOK, Connected, Works, call.op \in Movers \cup Purges, ~Has(call.todo, Selecting)
    PROVE  srv'.open = srv.open /\ Chosen
<1>1. Chosen
  BY DEF Chosen
<1>2. srv'.open = srv.open \/ First.verb = "SELECT"
  BY DEF Works, Taken, First
<1>3. ASSUME First.verb = "SELECT" PROVE FALSE
  <2>1. Asking /\ First = Current
    BY <1>1, <1>3, WorksChosen DEF Quiet
  <2>2. call.todo # <<>>
    BY <2>1 DEF Asking, Connected, Shaped
  <2>3. Phase.do \in Selecting
    BY <1>3, <2>1, VerbFacts DEF Current
  <2> QED BY <2>2, <2>3, TodoFacts
<1> QED BY <1>1, <1>2, <1>3

\* What the step does to the mailbox.
LEMMA WorksMailbox ==
    ASSUME TypeOK, Aware, Works
    PROVE  /\ Grows /\ Takes(First, srv.open) /\ overtaken' = overtaken
           /\ Carries => /\ Brings(First, srv.open) /\ Effect(First, srv.open) /\ srv.idling = 0
                         /\ srv'.open = (IF First.verb = "SELECT" THEN First.folder ELSE srv.open)
           /\ ~Carries => mbox' = mbox /\ forgone' = forgone /\ flagged' = flagged /\ offers' = offers
           /\ srv'.open = Nowhere \/ srv'.open \in DOMAIN mbox'
           /\ mbox' = [f \in DOMAIN mbox' |-> mbox'[f]] /\ DOMAIN mbox' \subseteq Folders
           /\ \A f \in DOMAIN mbox' : mbox'[f] \in Seq(Kept)
<1>1. srv.open = Nowhere \/ srv.open \in DOMAIN mbox
  BY DEF Aware, Selected
<1>2. Grows => (srv'.open = Nowhere \/ srv'.open \in DOMAIN mbox')
  BY <1>1 DEF Works, Taken, Grows
<1>3. CASE Carries
  <2>1. PICK rows : Granting(rows)
    BY <1>3 DEF Carries
  <2>2. /\ Accepts(First, srv.open) /\ Effect(First, srv.open) /\ overtaken' = overtaken /\ srv.idling = 0
        /\ srv'.open = (IF First.verb = "SELECT" THEN First.folder ELSE srv.open)
    BY <2>1 DEF Granting, First
  <2>3. /\ Grows /\ Takes(First, srv.open) /\ Brings(First, srv.open)
        /\ mbox' = [f \in DOMAIN mbox' |-> mbox'[f]] /\ DOMAIN mbox' \subseteq Folders
        /\ \A f \in DOMAIN mbox' : mbox'[f] \in Seq(Kept)
    BY <1>1, <2>2, EffectFacts, WorksFacts
  <2> QED BY <1>2, <1>3, <2>2, <2>3
<1>4. CASE ~Carries
  <2>1. UNCHANGED held
    BY <1>4 DEF Works, Silent, Spoken
  <2>2. mbox' = mbox /\ forgone' = forgone /\ overtaken' = overtaken /\ flagged' = flagged /\ offers' = offers
    BY <2>1 DEF held
  <2>3. Grows /\ Takes(First, srv.open)
    BY <2>2 DEF Grows, Takes
  <2>4. /\ mbox = [f \in DOMAIN mbox |-> mbox[f]] /\ DOMAIN mbox \subseteq Folders
        /\ \A f \in DOMAIN mbox : mbox[f] \in Seq(Kept)
    BY DEF TypeOK
  <2> QED BY <1>2, <1>4, <2>2, <2>3, <2>4
<1> QED BY <1>3, <1>4

\* What was granted before the step and what is granted by it.
LEMMA WorksGranted ==
    ASSUME TypeOK, Connected, Works
    PROVE  /\ Granted => Granted'
           /\ Asking /\ Granted' /\ ~Granted => First = Current /\ Carries
           /\ Asking /\ Carries /\ First = Current => Granted'
<1>1. Granted => Granted'
  BY WorksWire, WorksFacts DEF Granted
<1>2. ASSUME Asking, Granted', ~Granted PROVE First = Current /\ Carries
  <2>1. PICK i \in DOMAIN wire' : Own(wire'[i]) /\ wire'[i].status = "ok"
    BY <1>2, WorksFacts DEF Granted
  <2>2. i \notin DOMAIN wire
    BY <1>2, <2>1, WorksWire DEF Granted
  <2> QED BY <1>2, <2>1, <2>2, WorksOwn
<1>3. ASSUME Asking, Carries, First = Current PROVE Granted'
  <2>1. PICK i \in DOMAIN wire' : wire'[i].kind = "tagged" /\ wire'[i].tag = First.tag /\ wire'[i].status = "ok"
    BY <1>3, WorksWire
  <2>2. First.tag = call.tag /\ call' = call
    BY <1>3, WorksFacts DEF Current
  <2> QED BY <2>1, <2>2 DEF Granted, Own
<1> QED BY <1>1, <1>2, <1>3

LEMMA WorksConnected ==
    ASSUME TypeOK, Connected, Works
    PROVE  Connected'
<1>1. /\ First \in Commands /\ First.tag \in Nat /\ 1 \in DOMAIN srv.queue /\ First = srv.queue[1] /\ srv.queue # <<>>
      /\ \A i \in DOMAIN srv'.queue : /\ i + 1 \in DOMAIN srv.queue /\ i \in Nat /\ i + 1 # 1 /\ 1 < i + 1
                                      /\ srv'.queue[i] = srv.queue[i + 1]
      /\ session' = session /\ call' = call
      /\ Phase' = Phase /\ Asking' = Asking /\ Current' = Current /\ Chosen' = Chosen
      /\ \A r : Own(r)' <=> Own(r)
      /\ srv'.idling = 0 \/ (First.verb = "IDLE" /\ srv'.idling = First.tag)
  BY WorksFacts
<1>2. /\ Len(wire') \in Nat /\ Len(wire) \in Nat
      /\ \A i \in DOMAIN wire : i \in DOMAIN wire' /\ wire'[i] = wire[i]
      /\ \A i \in DOMAIN wire' : \/ i \in DOMAIN wire
                                 \/ /\ Line(wire'[i])
                                    /\ wire'[i].kind = "tagged" => i = Len(wire')
                                    /\ wire'[i].kind = "huge" => i = Len(wire) + 1
  BY WorksWire
<1>3. Shaped'
  <2>1. session.up
    BY <1>1 DEF Connected, Shaped, Listening
  <2> QED BY <1>1, <2>1 DEF Connected, Shaped
<1>4. Tagged'
  <2>1. \A i \in DOMAIN srv.queue : srv.queue[i].tag <= session.tag
    BY DEF Connected, Tagged
  <2>2. call.tag <= session.tag /\ srv.idling <= session.tag /\ First.tag <= session.tag /\ 0 <= session.tag
    BY <1>1, <2>1 DEF Connected, Tagged, TypeOK
  <2>3. srv'.idling <= session.tag
    BY <1>1, <2>2
  <2>4. \A i \in DOMAIN wire' : wire'[i].tag <= session.tag
    BY <1>2, <2>2 DEF Connected, Tagged, Line
  <2>5. \A i \in DOMAIN srv'.queue : srv'.queue[i].tag <= session.tag
    BY <1>1, <2>1
  <2>6. ASSUME Asking PROVE srv'.idling # call.tag
    <3>1. First.verb = "IDLE" => First.tag # call.tag
      BY <1>1, <2>6 DEF Connected, Tagged, Quiet
    <3>2. call.tag # 0
      BY <2>6 DEF Asking
    <3> QED BY <1>1, <3>1, <3>2
  <2>7. ASSUME Asking, NEW i \in DOMAIN srv'.queue, srv'.queue[i].verb \in Quiet \ {"BLANK"} PROVE srv'.queue[i].tag # call.tag
    BY <1>1, <2>7 DEF Connected, Tagged
  <2> QED BY <1>1, <2>2, <2>3, <2>4, <2>5, <2>6, <2>7 DEF Tagged
<1>5. OneByOne'
  <2>1. ASSUME NEW i \in DOMAIN srv'.queue, Asking, srv'.queue[i].verb # "BLANK", srv'.queue[i].tag = call.tag
        PROVE  /\ srv'.queue[i] = Current
               /\ \A j \in DOMAIN srv'.queue : i < j => srv'.queue[j].verb = "BLANK"
    <3>1. /\ srv.queue[i + 1] = Current
          /\ \A j \in DOMAIN srv.queue : i + 1 < j => srv.queue[j].verb = "BLANK"
      BY <1>1, <2>1 DEF Connected, OneByOne
    <3>2. \A j \in DOMAIN srv'.queue : i < j => i + 1 < j + 1
      BY <1>1
    <3> QED BY <1>1, <3>1, <3>2
  <2>2. ASSUME NEW i \in DOMAIN srv'.queue, srv'.queue[i].verb \in Writes \ {"CREATE"}
        PROVE  Asking /\ srv'.queue[i].tag = call.tag
    BY <1>1, <2>2 DEF Connected, OneByOne
  <2>3. ASSUME Asking, NEW i \in DOMAIN wire', Own(wire'[i]) PROVE i = Len(wire') /\ Blank'
    <3>1. CASE i \in DOMAIN wire
      <4>1. i = Len(wire) /\ Blank
        BY <1>2, <2>3, <3>1 DEF Connected, OneByOne
      <4> QED BY <4>1, WorksBlank
    <3>2. CASE i \notin DOMAIN wire
      BY <2>3, <3>2, WorksOwn
    <3> QED BY <3>1, <3>2
  <2> QED BY <1>1, <2>1, <2>2, <2>3 DEF OneByOne
<1>6. Drained'
  <2>1. ASSUME Chosen, NEW i \in DOMAIN srv'.queue, srv'.queue[i].verb \notin Quiet PROVE Asking /\ srv'.queue[i].tag = call.tag
    BY <1>1, <2>1 DEF Connected, Drained
  <2>2. ASSUME Chosen, NEW i \in DOMAIN wire', wire'[i].kind = "huge"
        PROVE  /\ Asking /\ Blank' /\ Verb(Phase.do) \in {"FETCH", "BODY"}
               /\ \A j \in DOMAIN wire' : wire'[j].kind = "huge" => i = j
    <3>1. CASE \E k \in DOMAIN wire : wire[k].kind = "huge"
      <4>1. PICK k \in DOMAIN wire : wire[k].kind = "huge"
        BY <3>1
      <4>2. Asking /\ Blank /\ Verb(Phase.do) \in {"FETCH", "BODY"}
        BY <2>2, <4>1 DEF Connected, Drained
      <4>3. wire' = wire /\ Blank'
        BY <4>2, WorksBlank
      <4> QED BY <2>2, <4>2, <4>3 DEF Connected, Drained
    <3>2. CASE ~\E k \in DOMAIN wire : wire[k].kind = "huge"
      <4>1. \A j \in DOMAIN wire' : wire'[j].kind = "huge" => j = Len(wire) + 1 /\ Line(wire'[j])
        BY <1>2, <3>2
      <4>2. First.verb \in {"FETCH", "BODY"} /\ Carries
        BY <2>2, <4>1 DEF Line
      <4>3. srv.idling = 0
        BY <4>2 DEF Carries, Granting
      <4>4. Asking /\ First = Current /\ Blank'
        BY <2>2, <4>2, <4>3, WorksChosen DEF Quiet
      <4> QED BY <2>2, <4>1, <4>2, <4>4 DEF Current
    <3> QED BY <3>1, <3>2
  <2>3. ASSUME Chosen, NEW i \in DOMAIN wire', wire'[i].of = "SEARCH" PROVE Asking /\ Verb(Phase.do) = "SEARCH"
    <3>1. CASE i \in DOMAIN wire
      BY <1>2, <2>3, <3>1 DEF Connected, Drained
    <3>2. CASE i \notin DOMAIN wire
      <4>1. First.verb = "SEARCH"
        BY <1>2, <2>3, <3>2 DEF Line, Tells
      <4>2. Asking /\ First = Current
        BY <2>3, <4>1, WorksChosen DEF Quiet
      <4> QED BY <4>1, <4>2 DEF Current
    <3> QED BY <3>1, <3>2
  <2> QED BY <1>1, <2>1, <2>2, <2>3 DEF Drained
<1> QED BY <1>3, <1>4, <1>5, <1>6 DEF Connected

LEMMA KeptMail == Gone \notin Mails \cup {Outgoing}
  BY ServersAssumption

\* Between two searches of the folder that is open nothing leaves it but by the command waited for.
LEMMA WorksStill ==
    ASSUME TypeOK, Connected, Aware, Works, Chosen, Asking => Verb(Phase.do) \notin {"MOVE", "EXPUNGE", "SELECT"}
    PROVE  /\ srv'.open = srv.open
           /\ \A f, u, m : StillHit(f, u, m) => StillHit(f, u, m)'
<1>1. /\ Grows /\ Takes(First, srv.open) /\ overtaken' = overtaken
  BY WorksMailbox
<1>2. First.verb \notin {"MOVE", "EXPUNGE", "SELECT"}
  <2> SUFFICES ASSUME First.verb \in {"MOVE", "EXPUNGE", "SELECT"} PROVE FALSE
    OBVIOUS
  <2>1. Asking /\ First = Current
    BY WorksChosen DEF Quiet
  <2> QED BY <2>1 DEF Current
<1>3. \A f \in DOMAIN mbox : \A u \in DOMAIN mbox[f] : mbox'[f][u] = mbox[f][u]
  BY <1>1, <1>2 DEF Takes
<1>4. srv'.open = srv.open
  BY <1>2 DEF Works, Taken, First
<1> QED BY <1>1, <1>3, <1>4 DEF StillHit, Hit, Grows

LEMMA WorksTruthful ==
    ASSUME TypeOK, Connected, Aware, Works
    PROVE  Truthful'
<1>1. /\ call' = call /\ Phase' = Phase /\ First \in Commands
  BY WorksFacts
<1>2. ASSUME call.op \in Seekers, call.tag # 0, Phase.do \in Finding
      PROVE  /\ Chosen /\ srv'.open = srv.open
             /\ \A f, u, m : StillHit(f, u, m) => StillHit(f, u, m)'
  <2>1. call.todo # <<>> /\ call.todo \in Seq(Phases) /\ Chained(call.op, call.todo)
    BY <1>2, TodoFacts DEF Connected, Shaped
  <2>2. ~Has(Rest, Selecting) /\ Phase.do \notin Selecting
    BY <1>2, <2>1, HeadFacts DEF Rest, Phase, Finding, Selecting
  <2>3. Chosen
    BY <1>2, <2>1, <2>2, TodoFacts DEF Chosen, Seekers, Purges
  <2>4. Verb(Phase.do) \notin {"MOVE", "EXPUNGE", "SELECT"}
    BY <1>2 DEF Verb, Finding
  <2> QED BY <2>3, <2>4, WorksStill
<1>3. \A r : TruthOf(r) => TruthOf(r)'
  <2> SUFFICES ASSUME NEW r, TruthOf(r), call.op \in Seekers, call.tag # 0
               PROVE  /\ Phase.do = "search" /\ r.of = "SEARCH" => \A u \in r.data : StillHit(srv.open, u, call.mail)'
                      /\ Phase.do = "scan" /\ r.of = "FETCH" => \A row \in r.data : StillHit(srv.open, row[1], row[2])'
    BY <1>1 DEF TruthOf
  <2>1. CASE Phase.do = "search" /\ r.of = "SEARCH"
    <3>1. \A u \in r.data : StillHit(srv.open, u, call.mail)
      BY <2>1 DEF TruthOf
    <3>2. srv'.open = srv.open /\ call'.mail = call.mail /\ \A f, u, m : StillHit(f, u, m) => StillHit(f, u, m)'
      BY <1>1, <1>2, <2>1 DEF Finding
    <3> QED BY <2>1, <3>1, <3>2 DEF StillHit, Hit
  <2>2. CASE Phase.do = "scan" /\ r.of = "FETCH"
    <3>1. \A row \in r.data : StillHit(srv.open, row[1], row[2])
      BY <2>2 DEF TruthOf
    <3>2. srv'.open = srv.open /\ call'.mail = call.mail /\ \A f, u, m : StillHit(f, u, m) => StillHit(f, u, m)'
      BY <1>1, <1>2, <2>2 DEF Finding
    <3> QED BY <2>2, <3>1, <3>2 DEF StillHit, Hit
  <2> QED BY <2>1, <2>2
<1>4. ASSUME NEW r, Line(r) PROVE TruthOf(r)
  <2> SUFFICES ASSUME call.op \in Seekers, call.tag # 0, Phase.do \in Finding, r.of \in {"SEARCH", "FETCH"}
               PROVE  /\ Phase.do = "search" /\ r.of = "SEARCH" => \A u \in r.data : StillHit(srv.open, u, call.mail)
                      /\ Phase.do = "scan" /\ r.of = "FETCH" => \A row \in r.data : StillHit(srv.open, row[1], row[2])
    BY DEF TruthOf, Finding
  <2>1. Tells(r, First)
    BY <1>4 DEF Line
  <2>2. CASE Phase.do = "search" /\ r.of = "SEARCH"
    <3>1. First.verb = "SEARCH" /\ srv.open \in DOMAIN mbox /\ (First.phase # "all" => r.data \subseteq Here(srv.open, First.mail))
      BY <2>1, <2>2 DEF Tells
    <3>2. First = Current
      BY <1>2, <3>1, WorksChosen DEF Quiet
    <3>3. First.phase = "search" /\ First.mail = call.mail
      BY <2>2, <3>2 DEF Current
    <3> QED BY <2>2, <3>1, <3>3 DEF Here, StillHit, Hit
  <2>3. CASE Phase.do = "scan" /\ r.of = "FETCH"
    <3>1. srv.open \in DOMAIN mbox /\ r.data = {<<u, mbox[srv.open][u]>> : u \in Live(srv.open)}
      BY <2>1, <2>3 DEF Tells
    <3>2. ASSUME NEW row \in r.data PROVE StillHit(srv.open, row[1], row[2])
      <4>1. PICK u \in Live(srv.open) : row = <<u, mbox[srv.open][u]>>
        BY <3>1, <3>2
      <4>2. row[1] = u /\ row[2] = mbox[srv.open][u] /\ u \in DOMAIN mbox[srv.open]
        BY <4>1 DEF Live
      <4> QED BY <3>1, <4>2 DEF StillHit, Hit
    <3> QED BY <2>3, <3>2
  <2> QED BY <2>2, <2>3
<1>5. \A i \in DOMAIN wire' : TruthOf(wire'[i])
  <2>1. \A i \in DOMAIN wire' : (i \in DOMAIN wire /\ wire'[i] = wire[i]) \/ Line(wire'[i])
    BY WorksWire
  <2>2. \A i \in DOMAIN wire : TruthOf(wire[i])
    BY DEF Aware, Truthful
  <2> QED BY <1>4, <2>1, <2>2
<1>6. \A i \in DOMAIN call.got : TruthOf(call.got[i])
  BY DEF Aware, Truthful
<1>7. ASSUME call.op \in Seekers, call.tag = 0, call.todo # <<>>, Phase.do = "scan" PROVE wire' = <<>> /\ Blank'
  <2>1. wire = <<>> /\ Blank
    BY <1>7 DEF Aware, Truthful
  <2> QED BY <2>1, WorksBlank
<1> QED BY <1>1, <1>3, <1>5, <1>6, <1>7 DEF Truthful

LEMMA WorksSelected ==
    ASSUME TypeOK, Connected, Aware, Works
    PROVE  Selected'
<1>1. call' = call /\ Phase' = Phase
  BY WorksFacts
<1>2. srv'.open = Nowhere \/ srv'.open \in DOMAIN mbox'
  BY WorksMailbox
<1>3. ASSUME call.tag # 0, Phase.do \in Selecting, Granted' PROVE srv'.open = Phase.in
  <2>1. Asking
    BY <1>3, VerbFacts DEF Asking
  <2>2. CASE Granted
    <3>1. srv.open = Phase.in
      BY <1>3, <2>2 DEF Aware, Selected
    <3>2. Blank
      BY <2>1, <2>2 DEF Granted, Connected, OneByOne
    <3> QED BY <3>1, <3>2, WorksBlank
  <2>3. CASE ~Granted
    <3>1. First = Current /\ Carries
      BY <1>3, <2>1, <2>3, WorksGranted
    <3>2. First.verb = "SELECT" /\ First.folder = Phase.in
      BY <1>3, <3>1, VerbFacts DEF Current
    <3> QED BY <3>1, <3>2, WorksMailbox
  <2> QED BY <2>2, <2>3
<1>4. ASSUME call.op \in Purges, Has(call.todo, {"expunge"}), ~Has(call.todo, Selecting) PROVE srv'.open = "Trash"
  <2>1. srv'.open = srv.open
    BY <1>4, WorksOpen
  <2> QED BY <1>4, <2>1 DEF Aware, Selected
<1> QED BY <1>1, <1>2, <1>3, <1>4 DEF Selected

\* A phase that moves or removes comes when the mail is found and is followed by what ends.
LEMMA ModifyingFound ==
    ASSUME TypeOK, Connected, call.todo # <<>>, call.op \in Movers, Phase.do \in Modifying
    PROVE  /\ Found
           /\ Has(call.todo, Placing) <=> Phase.do \in Placing
           /\ Has(call.todo, Copying) <=> Phase.do \in Copying
<1>1. /\ call.todo \in Seq(Phases) /\ Chained(call.op, call.todo) /\ ~Has(call.todo, Selecting)
      /\ \A dos : Has(call.todo, dos) <=> Phase.do \in dos \/ Has(Rest, dos)
  BY TodoFacts, ModifyingChosen
<1>2. \A i \in DOMAIN Rest : Rest[i].do \in Ending
  BY <1>1, HeadFacts DEF Rest, Phase, Modifying, Placing
<1>3. ~Has(Rest, Finding) /\ ~Has(Rest, Placing) /\ ~Has(Rest, Copying) /\ Phase.do \notin Finding
  BY <1>2, EndingHas DEF Modifying, Finding
<1> QED BY <1>1, <1>3, HasSplit DEF Found, Seekers

\* The command that takes mail out of the folder is the one waited for.
LEMMA WorksTakes ==
    ASSUME TypeOK, Connected, Works, First.verb \in Writes \ {"CREATE"}
    PROVE  Asking /\ First = Current /\ Phase.do \in Modifying /\ call.todo # <<>> /\ Verb(Phase.do) = First.verb
  BY WorksFacts, PendingWrite

LEMMA WorksAimed ==
    ASSUME TypeOK, Connected, Aware, Works
    PROVE  Aimed'
<1>1. call' = call /\ Phase' = Phase /\ Found' = Found
  BY WorksFacts DEF Found
<1> SUFFICES ASSUME Found
             PROVE  /\ \A u \in call.uids : Hit(srv.open, u, call.mail)'
                    /\ call.uids # {}
                    /\ Has(call.todo, Placing) /\ ~Placed' => \A u \in call.uids : StillHit(srv.open, u, call.mail)'
  BY <1>1 DEF Aimed
<1>2. srv'.open = srv.open
  <2>1. call.op \in Movers \cup Purges /\ ~Has(call.todo, Selecting)
    BY HasSplit DEF Found, Seekers, Purges
  <2> QED BY <2>1, WorksOpen
<1>7. Has(call.todo, Placing) => call.op \in Movers
  BY NoPlacing DEF Connected, Shaped
<1>3. Grows /\ Takes(First, srv.open) /\ overtaken' = overtaken
  BY WorksMailbox
<1>4. call.uids # {} /\ \A u \in call.uids : Hit(srv.open, u, call.mail)
  BY DEF Aware, Aimed
<1>5. \A u \in call.uids : Hit(srv.open, u, call.mail)'
  BY <1>1, <1>2, <1>3, <1>4 DEF Hit, Grows
<1>6. ASSUME Has(call.todo, Placing), ~Placed' PROVE \A u \in call.uids : StillHit(srv.open, u, call.mail)'
  <2>1. ~Placed
    BY <1>1, <1>6, WorksGranted DEF Placed
  <2>2. \A u \in call.uids : StillHit(srv.open, u, call.mail)
    BY <1>6, <2>1 DEF Aware, Aimed
  <2>3. ASSUME Carries, First.verb \in {"MOVE", "EXPUNGE"} PROVE FALSE
    <3>1. Asking /\ First = Current /\ Phase.do \in Modifying /\ call.todo # <<>> /\ Verb(Phase.do) = First.verb
      BY <2>3, WorksTakes DEF Writes
    <3>2. Phase.do \in Placing
      BY <1>6, <1>7, <3>1, ModifyingFound
    <3>3. Granted'
      BY <2>3, <3>1, WorksGranted
    <3>4. call.tag # 0
      BY <3>1 DEF Asking
    <3> QED BY <1>1, <1>6, <3>2, <3>3, <3>4 DEF Placed
  <2>4. \A u \in DOMAIN mbox[srv.open] : srv.open \in DOMAIN mbox => mbox'[srv.open][u] = mbox[srv.open][u]
    <3>1. CASE Carries
      BY <1>3, <2>3, <3>1 DEF Takes
    <3>2. CASE ~Carries
      BY <3>2, WorksMailbox
    <3> QED BY <3>1, <3>2
  <2> QED BY <1>1, <1>2, <1>3, <2>2, <2>4 DEF StillHit, Hit, Grows
<1> QED BY <1>4, <1>5, <1>6

-----------------------------------------------------------------------------
(* What a command leaves of the mail *)

\* A mail is still spared when what is taken may go, and only the copy that has been made
\* lets its original go.
LEMMA SparedAfter ==
    ASSUME Spared, Grows, forgone \subseteq forgone', NEW cmd, NEW open, Takes(cmd, open),
           mbox' = mbox \/ Brings(cmd, open), Gone \notin Mails,
           cmd.verb = "EXPUNGE" => \A u \in Expunged(cmd, open) :
               open \in DOMAIN mbox /\ u \in DOMAIN mbox[open] /\ mbox[open][u] \in Mails /\ mbox'[open][u] # mbox[open][u] =>
                   mbox[open][u] \in forgone' \/ Doomed(open, u),
           \A f, u : Doomed(f, u)' => f \in DOMAIN mbox /\ u \in DOMAIN mbox[f],
           \A f, u : Doomed(f, u)' => Doomed(f, u) \/ (Brings(cmd, open) /\ cmd.verb = "COPY" /\ f = open /\ u \in cmd.uids)
    PROVE  Spared'
<1> SUFFICES ASSUME NEW m \in Mails, m \notin forgone'
             PROVE  \E f \in DOMAIN mbox' : \E u \in DOMAIN mbox'[f] : mbox'[f][u] = m /\ ~Doomed(f, u)'
  BY DEF Spared, Here
<1>1. PICK f \in DOMAIN mbox : \E u \in Here(f, m) : ~Doomed(f, u)
  BY DEF Spared
<1>2. PICK u \in DOMAIN mbox[f] : mbox[f][u] = m /\ ~Doomed(f, u)
  BY <1>1 DEF Here
<1>3. /\ f \in DOMAIN mbox' /\ u \in DOMAIN mbox'[f]
  BY <1>2 DEF Grows
<1>4. ASSUME Brings(cmd, open), cmd.verb \in {"MOVE", "COPY"}, f = open, u \in cmd.uids
      PROVE  \E g \in DOMAIN mbox' : \E p \in DOMAIN mbox'[g] : mbox'[g][p] = m /\ ~Doomed(g, p)'
  <2>1. cmd.folder \in DOMAIN mbox /\ cmd.folder \in DOMAIN mbox'
    BY <1>4 DEF Brings, Grows
  <2>2. PICK p \in DOMAIN mbox'[cmd.folder] : p \notin DOMAIN mbox[cmd.folder] /\ mbox'[cmd.folder][p] = m
    BY <1>2, <1>4 DEF Brings
  <2>3. ~Doomed(cmd.folder, p)'
    BY <2>2
  <2> QED BY <2>1, <2>2, <2>3
<1>5. CASE mbox'[f][u] = m /\ ~Doomed(f, u)'
  BY <1>3, <1>5
<1>6. CASE mbox'[f][u] = m /\ Doomed(f, u)'
  BY <1>2, <1>4, <1>6
<1>7. CASE mbox'[f][u] # m
  <2>1. /\ cmd.verb \in {"MOVE", "EXPUNGE"} /\ f = open /\ u \in cmd.uids
        /\ cmd.verb = "EXPUNGE" => u \in Expunged(cmd, open)
    BY <1>2, <1>7 DEF Takes
  <2>2. Brings(cmd, open)
    BY <1>2, <1>7
  <2>3. CASE cmd.verb = "MOVE"
    BY <1>4, <2>1, <2>2, <2>3
  <2>4. CASE cmd.verb = "EXPUNGE"
    <3>1. mbox[open][u] \in forgone' \/ Doomed(open, u)
      BY <1>2, <1>7, <2>1, <2>4
    <3> QED BY <1>2, <2>1, <3>1
  <2> QED BY <2>1, <2>3, <2>4
<1> QED BY <1>5, <1>6, <1>7

\* What a call is about to remove it has found.
LEMMA CopiedFound ==
    ASSUME TypeOK, Connected, call.op \in Movers, Has(call.todo, {"expunge"}),
           ~Has(call.todo, Copying) \/ (call.tag # 0 /\ Phase.do \in Copying)
    PROVE  Found
<1>1. CASE ~Has(call.todo, Copying)
  <2>1. \A i \in DOMAIN call.todo : call.todo[i].do \in Ending
    BY <1>1 DEF Connected, Shaped, Staged
  <2> QED BY <2>1, EndingHas, HasSplit DEF Found, Seekers
<1>2. CASE call.tag # 0 /\ Phase.do \in Copying
  <2>1. call.todo # <<>>
    BY <1>2 DEF Connected, Shaped
  <2>2. Phase.do \in Modifying
    BY <1>2 DEF Copying, Modifying
  <2> QED BY <2>1, <2>2, ModifyingFound
<1> QED BY <1>1, <1>2

\* Late commands know where they remove, whatever the folders get.
LEMMA LateKeptGrows ==
    ASSUME LateKept, Grows, late' \subseteq late
    PROVE  LateKept'
<1> SUFFICES ASSUME NEW l \in late
             PROVE  /\ l.cmd.verb \in Writes /\ (l.open = Nowhere \/ l.open \in DOMAIN mbox')
                    /\ l.cmd.verb = "EXPUNGE" =>
                         IF l.cmd.op \in Purges THEN l.open = "Trash"
                         ELSE l.open \in DOMAIN mbox' /\ l.cmd.uids \subseteq DOMAIN mbox'[l.open]
  BY DEF LateKept
<1>1. /\ l.cmd.verb \in Writes /\ (l.open = Nowhere \/ l.open \in DOMAIN mbox)
      /\ l.cmd.verb = "EXPUNGE" =>
           IF l.cmd.op \in Purges THEN l.open = "Trash"
           ELSE l.open \in DOMAIN mbox /\ l.cmd.uids \subseteq DOMAIN mbox[l.open]
  BY DEF LateKept
<1> QED BY <1>1 DEF Grows

LEMMA WorksPlaced ==
    ASSUME TypeOK, Connected, Aware, Safe, Works
    PROVE  PlacedWhenDone'
<1>1. call' = call /\ Phase' = Phase /\ overtaken' = overtaken /\ Grows /\ Takes(First, srv.open)
  BY WorksFacts, WorksMailbox
<1> SUFFICES ASSUME call.op \in Movers, ~Has(call.todo, Placing) \/ Placed', call.mail \notin overtaken
             PROVE  Settled'
  BY <1>1 DEF PlacedWhenDone
<1> DEFINE to == Destination[call.op]
<1>2. CASE ~Has(call.todo, Placing) \/ Placed
  <2>1. PICK u \in DOMAIN mbox[to] : to \in DOMAIN mbox /\ mbox[to][u] = call.mail /\ ~(to = srv.open /\ u \in call.uids)
    BY <1>2 DEF Safe, PlacedWhenDone, Settled, Here
  <2>2. ~Has(call.todo, Selecting)
    <3>1. CASE ~Has(call.todo, Placing)
      BY <3>1 DEF Connected, Shaped, Staged, Seekers
    <3>2. CASE Placed
      <4>1. call.todo # <<>> /\ Phase.do \in Modifying
        BY <3>2 DEF Placed, Connected, Shaped, Placing, Modifying
      <4> QED BY <4>1, ModifyingFound, HasSplit DEF Found
    <3> QED BY <1>2, <3>1, <3>2
  <2>3. srv'.open = srv.open
    BY <2>2, WorksOpen
  <2>4. mbox'[to][u] = mbox[to][u]
    <3> SUFFICES ASSUME mbox'[to][u] # mbox[to][u] PROVE FALSE
      OBVIOUS
    <3>1. First.verb \in {"MOVE", "EXPUNGE"} /\ to = srv.open /\ u \in First.uids
      BY <1>1, <2>1 DEF Takes
    <3>2. First = Current
      BY <3>1, WorksTakes DEF Writes
    <3>3. u \in call.uids
      BY <3>1, <3>2 DEF Current
    <3> QED BY <2>1, <3>1, <3>3
  <2>5. to \in DOMAIN mbox' /\ u \in DOMAIN mbox'[to] /\ mbox'[to][u] = call.mail
    BY <1>1, <2>1, <2>4 DEF Grows
  <2> QED BY <1>1, <2>1, <2>3, <2>5 DEF Settled, Here
<1>3. CASE Has(call.todo, Placing) /\ ~Placed
  <2>1. call.tag # 0 /\ Phase.do \in Placing /\ Granted' /\ ~Granted
    BY <1>1, <1>3 DEF Placed
  <2>2. call.todo # <<>> /\ Phase.do \in Modifying /\ Asking
    BY <2>1, VerbFacts DEF Connected, Shaped, Placing, Modifying, Asking
  <2>3. First = Current /\ Carries
    BY <2>1, <2>2, WorksGranted
  <2>4. Found /\ Fits(call.op, Phase)
    BY <2>2, ModifyingFound, TodoFacts
  <2>5. call.uids # {} /\ \A u \in call.uids : StillHit(srv.open, u, call.mail)
    BY <1>3, <2>4 DEF Aware, Aimed
  <2>6. PICK u \in call.uids : u \in DOMAIN mbox[srv.open] /\ mbox[srv.open][u] = call.mail
    BY <2>5 DEF StillHit, Hit
  <2>7. call.mail # Gone
    BY KeptMail DEF TypeOK, Calls
  <2>8. /\ First.verb \in {"MOVE", "COPY"} /\ First.folder = to /\ First.uids = call.uids
    <3>1. Verb(Phase.do) \in {"MOVE", "COPY"}
      BY <2>1 DEF Placing, Verb
    <3>2. Phase.in = to
      BY <2>1, <2>4 DEF Fits
    <3> QED BY <2>3, <3>1, <3>2 DEF Current
  <2>9. Brings(First, srv.open)
    BY <2>3, WorksMailbox
  <2>10. to \in DOMAIN mbox
    BY <2>8, <2>9 DEF Brings
  <2>11. PICK p \in DOMAIN mbox'[to] : p \notin DOMAIN mbox[to] /\ mbox'[to][p] = call.mail
    BY <2>6, <2>7, <2>8, <2>9 DEF Brings
  <2>12. ~(to = srv.open /\ p \in call.uids)
    BY <2>5, <2>11 DEF StillHit, Hit
  <2>13. srv'.open = srv.open
    <3>1. ~Has(call.todo, Selecting)
      BY <2>4, HasSplit DEF Found
    <3> QED BY <3>1, WorksOpen
  <2>14. to \in DOMAIN mbox'
    BY <1>1, <2>10 DEF Grows
  <2> QED BY <1>1, <2>11, <2>12, <2>13, <2>14 DEF Settled, Here
<1> QED BY <1>2, <1>3

LEMMA WorksSpared ==
    ASSUME TypeOK, Connected, Aware, Safe, Works
    PROVE  Spared'
<1>1. /\ call' = call /\ Phase' = Phase /\ late' = late /\ Grows /\ Takes(First, srv.open)
      /\ 1 \in DOMAIN srv.queue /\ First = srv.queue[1]
  BY WorksFacts, WorksMailbox
<1>2. mbox' = mbox \/ Brings(First, srv.open)
  BY WorksMailbox
<1>3. forgone \subseteq forgone'
  <2>1. CASE Carries
    BY <2>1, WorksMailbox DEF Effect
  <2>2. CASE ~Carries
    BY <2>2, WorksMailbox
  <2> QED BY <2>1, <2>2
<1>4. ASSUME First.verb = "EXPUNGE", NEW u \in Expunged(First, srv.open), srv.open \in DOMAIN mbox, u \in DOMAIN mbox[srv.open],
             mbox[srv.open][u] \in Mails, mbox'[srv.open][u] # mbox[srv.open][u]
      PROVE  mbox[srv.open][u] \in forgone' \/ Doomed(srv.open, u)
  <2>1. /\ First = Current /\ call.op \in Movers \cup Purges
        /\ call.op \in Purges => srv.open = "Trash"
        /\ call.op \in Movers => Copied
    BY <1>1, <1>4, PendingExpunge
  <2>2. First.op = call.op /\ First.uids = call.uids /\ u \in First.uids
    BY <1>4, <2>1 DEF Current, Expunged
  <2>3. CASE call.op \in Purges
    <3>1. Effect(First, srv.open)
      BY <1>4, WorksMailbox
    <3>2. u \in Live(srv.open)
      BY <1>4, KeptMail DEF Live
    <3>3. First.op \in {"delete", "empty"} /\ srv.open = "Trash"
      BY <2>1, <2>2, <2>3 DEF Purges
    <3> QED BY <1>4, <3>1, <3>2, <3>3 DEF Effect
  <2>4. CASE call.op \in Movers
    BY <2>1, <2>2, <2>4 DEF Doomed
  <2> QED BY <2>1, <2>3, <2>4
<1>5. ASSUME Copied'
      PROVE  /\ srv'.open = srv.open /\ \A u \in call.uids : srv.open \in DOMAIN mbox /\ u \in DOMAIN mbox[srv.open]
             /\ Copied \/ (Brings(First, srv.open) /\ First.verb = "COPY" /\ First.uids = call.uids)
  <2>1. /\ call.op \in Movers /\ Has(call.todo, {"expunge"})
        /\ ~Has(call.todo, Copying) \/ (Placed' /\ Phase.do \in Copying)
    BY <1>1, <1>5 DEF Copied
  <2>2. Found
    BY <1>1, <2>1, CopiedFound DEF Placed
  <2>3. srv'.open = srv.open
    <3>1. ~Has(call.todo, Selecting)
      BY <2>2, HasSplit DEF Found
    <3> QED BY <2>1, <3>1, WorksOpen
  <2>4. \A u \in call.uids : srv.open \in DOMAIN mbox /\ u \in DOMAIN mbox[srv.open]
    BY <2>2 DEF Aware, Aimed, Hit
  <2>5. ASSUME ~Copied PROVE Brings(First, srv.open) /\ First.verb = "COPY" /\ First.uids = call.uids
    <3>1. call.tag # 0 /\ Phase.do \in Copying /\ Granted' /\ ~Granted
      BY <1>1, <2>1, <2>5 DEF Copied, Placed
    <3>2. Asking /\ Verb(Phase.do) = "COPY"
      BY <3>1 DEF Asking, Verb, Copying, Quiet
    <3>3. First = Current /\ Carries
      BY <3>1, <3>2, WorksGranted
    <3> QED BY <3>2, <3>3, WorksMailbox DEF Current
  <2> QED BY <2>3, <2>4, <2>5
<1>6. ASSUME NEW f, NEW u, Doomed(f, u)'
      PROVE  /\ f \in DOMAIN mbox /\ u \in DOMAIN mbox[f]
             /\ Doomed(f, u) \/ (Brings(First, srv.open) /\ First.verb = "COPY" /\ f = srv.open /\ u \in First.uids)
  <2>1. CASE Copied' /\ f = srv'.open /\ u \in call.uids
    BY <1>5, <2>1 DEF Doomed
  <2>2. CASE \E l \in late : l.cmd.verb = "EXPUNGE" /\ l.cmd.op \notin Purges /\ f = l.open /\ u \in l.cmd.uids
    BY <2>2 DEF Doomed, Safe, LateKept
  <2> QED BY <1>1, <1>6, <2>1, <2>2 DEF Doomed
<1>7. Spared /\ Gone \notin Mails
  BY KeptMail DEF Safe
<1> HIDE DEF First
<1> QED BY <1>1, <1>2, <1>3, <1>4, <1>6, <1>7, SparedAfter

LEMMA WorksReported ==
    ASSUME TypeOK, Connected, Aware, Safe, Works
    PROVE  Reported'
<1>1. call' = call /\ outcome' = outcome /\ overtaken' = overtaken /\ Grows /\ Takes(First, srv.open)
  BY WorksFacts, WorksMailbox
<1>2. ASSUME outcome.result = "ok", outcome.op \in DOMAIN Destination, outcome.mail \notin overtaken
      PROVE  Destination[outcome.op] \in DOMAIN mbox' /\ Here(Destination[outcome.op], outcome.mail)' # {}
  <2> DEFINE to == Destination[outcome.op]
  <2>1. PICK u \in DOMAIN mbox[to] : to \in DOMAIN mbox /\ mbox[to][u] = outcome.mail
    BY <1>2 DEF Safe, Reported, DoneIsDone, Here
  <2>2. ~Asking
    BY <1>2 DEF Safe, Reported, Connected, Shaped, IdleCall, Asking
  <2>3. mbox'[to][u] = mbox[to][u]
    <3>1. First.verb \in {"MOVE", "EXPUNGE"} => FALSE
      BY <2>2, WorksTakes DEF Writes
    <3> QED BY <1>1, <2>1, <3>1 DEF Takes
  <2>4. to \in DOMAIN mbox' /\ u \in DOMAIN mbox'[to]
    BY <1>1, <2>1 DEF Grows
  <2> QED BY <1>1, <2>1, <2>3, <2>4 DEF Here
<1> QED BY <1>1, <1>2 DEF Safe, Reported, DoneIsDone

LEMMA ServeKeeps ==
    ASSUME TypeOK, Connected, Aware, Safe, Serve
    PROVE  Works /\ (Connected /\ Aware /\ Safe)'
<1>1. Works
  BY ServeFacts DEF Works, Carries
<1>2. LateKept'
  <2>1. late' = late /\ Grows
    BY <1>1, WorksFacts, WorksMailbox
  <2> QED BY <2>1, LateKeptGrows DEF Safe
<1>3. Connected'
  BY <1>1, WorksConnected
<1>4. Aware'
  BY <1>1, WorksTruthful, WorksSelected, WorksAimed DEF Aware
<1>5. Safe'
  BY <1>1, <1>2, WorksPlaced, WorksSpared, WorksReported DEF Safe
<1> QED BY <1>1, <1>3, <1>4, <1>5

-----------------------------------------------------------------------------
(* What others do to the mailbox *)

\* What was doomed is there.
LEMMA DoomedThere ==
    ASSUME TypeOK, Connected, Aware, LateKept, NEW f, NEW u, Doomed(f, u)
    PROVE  f \in DOMAIN mbox /\ u \in DOMAIN mbox[f]
<1>1. CASE Copied /\ f = srv.open /\ u \in call.uids
  <2>1. Found
    BY <1>1, CopiedFound DEF Copied, Placed
  <2> QED BY <1>1, <2>1 DEF Aware, Aimed, Hit
<1>2. CASE \E l \in late : l.cmd.verb = "EXPUNGE" /\ l.cmd.op \notin Purges /\ f = l.open /\ u \in l.cmd.uids
  BY <1>2 DEF LateKept
<1> QED BY <1>1, <1>2 DEF Doomed

\* Another actor takes mail out of the mailbox and leaves the connection as it is.
Disturbs ==
    /\ UNCHANGED <<srv, wire, session, call, outcome>>
    /\ Grows /\ late' \subseteq late /\ overtaken \subseteq overtaken'
    /\ \A f \in DOMAIN mbox : \A u \in DOMAIN mbox[f] : mbox'[f][u] # mbox[f][u] => mbox[f][u] \in overtaken'

LEMMA DisturbsHits ==
    ASSUME Disturbs
    PROVE  \A f, u, m : /\ Hit(f, u, m) => Hit(f, u, m)'
                        /\ StillHit(f, u, m) => StillHit(f, u, m)'
  BY DEF Disturbs, Grows, Hit, StillHit

LEMMA DisturbsDoomed ==
    ASSUME Disturbs
    PROVE  /\ Phase' = Phase /\ Asking' = Asking /\ Granted' = Granted /\ Placed' = Placed /\ Found' = Found
           /\ \A f, u : Doomed(f, u)' => Doomed(f, u)
<1>1. Phase' = Phase /\ Asking' = Asking /\ Granted' = Granted /\ Placed' = Placed /\ Found' = Found /\ Copied' = Copied
  BY DEF Disturbs, Phase, Asking, Granted, Own, Placed, Found, Copied
<1>2. \A f, u : Doomed(f, u)' => Doomed(f, u)
  BY <1>1 DEF Disturbs, Doomed
<1> QED BY <1>1, <1>2

LEMMA DisturbsKeeps ==
    ASSUME TypeOK, Connected, Aware, Safe, Disturbs, Spared'
    PROVE  (Connected /\ Aware /\ Safe)'
<1>1. /\ srv' = srv /\ wire' = wire /\ session' = session /\ call' = call /\ outcome' = outcome
      /\ Grows /\ late' \subseteq late /\ overtaken \subseteq overtaken'
      /\ \A f \in DOMAIN mbox : \A u \in DOMAIN mbox[f] : mbox'[f][u] # mbox[f][u] => mbox[f][u] \in overtaken'
  BY DEF Disturbs
<1>2. Phase' = Phase /\ Granted' = Granted /\ Placed' = Placed /\ Found' = Found
  BY DisturbsDoomed
<1>3. Connected'
  BY <1>1 DEF Connected, Shaped, Tagged, OneByOne, Drained, Phase, Asking, Current, Own, Blank, Chosen
<1>4. Truthful'
  <2>1. \A r : TruthOf(r) => TruthOf(r)'
    <3> SUFFICES ASSUME NEW r, TruthOf(r), call.op \in Seekers, call.tag # 0
                 PROVE  /\ Phase.do = "search" /\ r.of = "SEARCH" => \A u \in r.data : StillHit(srv.open, u, call.mail)'
                        /\ Phase.do = "scan" /\ r.of = "FETCH" => \A row \in r.data : StillHit(srv.open, row[1], row[2])'
      BY <1>1, <1>2 DEF TruthOf
    <3>1. CASE Phase.do = "search" /\ r.of = "SEARCH"
      <4>1. \A u \in r.data : StillHit(srv.open, u, call.mail)
        BY <3>1 DEF TruthOf
      <4> QED BY <3>1, <4>1, <1>1 DEF Grows, StillHit, Hit
    <3>2. CASE Phase.do = "scan" /\ r.of = "FETCH"
      <4>1. \A row \in r.data : StillHit(srv.open, row[1], row[2])
        BY <3>2 DEF TruthOf
      <4> QED BY <3>2, <4>1, <1>1 DEF Grows, StillHit, Hit
    <3> QED BY <3>1, <3>2
  <2>2. Blank' = Blank
    BY <1>1 DEF Blank
  <2> QED BY <1>1, <1>2, <2>1, <2>2 DEF Aware, Truthful
<1>5. Selected'
  BY <1>1, <1>2 DEF Aware, Selected, Grows
<1>6. Aimed'
  <2> SUFFICES ASSUME Found
               PROVE  /\ \A u \in call.uids : Hit(srv.open, u, call.mail)'
                      /\ call.uids # {}
                      /\ Has(call.todo, Placing) /\ ~Placed => \A u \in call.uids : StillHit(srv.open, u, call.mail)'
    BY <1>1, <1>2 DEF Aimed
  <2>1. /\ \A u \in call.uids : Hit(srv.open, u, call.mail)
        /\ call.uids # {}
        /\ Has(call.todo, Placing) /\ ~Placed => \A u \in call.uids : StillHit(srv.open, u, call.mail)
    BY DEF Aware, Aimed
  <2> QED BY <1>1, <2>1 DEF Grows, StillHit, Hit
<1>7. PlacedWhenDone'
  <2> SUFFICES ASSUME call.op \in Movers, ~Has(call.todo, Placing) \/ Placed, call.mail \notin overtaken'
               PROVE  Settled'
    BY <1>1, <1>2 DEF PlacedWhenDone
  <2> DEFINE to == Destination[call.op]
  <2>1. PICK u \in DOMAIN mbox[to] : to \in DOMAIN mbox /\ mbox[to][u] = call.mail /\ ~(to = srv.open /\ u \in call.uids)
    BY <1>1 DEF Safe, PlacedWhenDone, Settled, Here
  <2>2. to \in DOMAIN mbox' /\ u \in DOMAIN mbox'[to] /\ mbox'[to][u] = call.mail
    BY <1>1, <2>1 DEF Grows
  <2> QED BY <1>1, <2>1, <2>2 DEF Settled, Here
<1>8. LateKept'
  BY <1>1, LateKeptGrows DEF Safe
<1>9. Reported'
  <2>1. ASSUME outcome.result = "ok", outcome.op \in DOMAIN Destination, outcome.mail \notin overtaken'
        PROVE  Destination[outcome.op] \in DOMAIN mbox' /\ Here(Destination[outcome.op], outcome.mail)' # {}
    <3> DEFINE to == Destination[outcome.op]
    <3>1. PICK u \in DOMAIN mbox[to] : to \in DOMAIN mbox /\ mbox[to][u] = outcome.mail
      BY <1>1, <2>1 DEF Safe, Reported, DoneIsDone, Here
    <3>2. to \in DOMAIN mbox' /\ u \in DOMAIN mbox'[to] /\ mbox'[to][u] = outcome.mail
      BY <1>1, <2>1, <3>1 DEF Grows
    <3> QED BY <1>1, <3>2 DEF Here
  <2> QED BY <1>1, <2>1 DEF Safe, Reported, DoneIsDone
<1> QED BY <1>3, <1>4, <1>5, <1>6, <1>7, <1>8, <1>9 DEF Aware, Safe

\* A command of a dropped connection, carried out after all.
LEMMA CarryOutKeeps ==
    ASSUME TypeOK, Connected, Aware, Safe, NEW l \in late, CarryOut(l)
    PROVE  (Connected /\ Aware /\ Safe)'
<1>1. late' \subseteq late /\ UNCHANGED <<srv, wire, session, call, outcome>>
  BY DEF CarryOut
<1>2. l.cmd \in Commands
  BY DEF TypeOK
<1>3. /\ l.open = Nowhere \/ l.open \in DOMAIN mbox
      /\ l.cmd.verb = "EXPUNGE" /\ l.cmd.op \in Purges => l.open = "Trash"
  BY DEF Safe, LateKept
<1>4. CASE Accepts(l.cmd, l.open) /\ Effect(l.cmd, l.open) /\ overtaken' = overtaken \cup Touched(l)
  <2>1. Grows /\ Takes(l.cmd, l.open) /\ Brings(l.cmd, l.open)
    BY <1>2, <1>3, <1>4, EffectFacts
  <2>2. ASSUME NEW f \in DOMAIN mbox, NEW u \in DOMAIN mbox[f], mbox'[f][u] # mbox[f][u]
        PROVE  mbox[f][u] \in overtaken' /\ mbox[f][u] # Gone
    <3>1. f = l.open /\ u \in l.cmd.uids /\ mbox[f][u] # Gone
      BY <2>1, <2>2 DEF Takes, Grows
    <3>2. mbox[f][u] \in Touched(l)
      BY <3>1 DEF Touched, Carried, Live
    <3> QED BY <1>4, <3>1, <3>2
  <2>3. Disturbs
    BY <1>1, <1>4, <2>1, <2>2 DEF Disturbs
  <2>4. forgone \subseteq forgone'
    BY <1>4 DEF Effect
  <2>5. ASSUME l.cmd.verb = "EXPUNGE", NEW u \in Expunged(l.cmd, l.open), l.open \in DOMAIN mbox, u \in DOMAIN mbox[l.open],
               mbox[l.open][u] \in Mails, mbox'[l.open][u] # mbox[l.open][u]
        PROVE  mbox[l.open][u] \in forgone' \/ Doomed(l.open, u)
    <3>1. u \in Live(l.open) /\ u \in l.cmd.uids
      BY <2>2, <2>5 DEF Live, Expunged
    <3>2. CASE l.cmd.op \in Purges
      <4>1. l.open = "Trash" /\ l.cmd.op \in {"delete", "empty"}
        BY <1>3, <2>5, <3>2 DEF Purges
      <4> QED BY <1>4, <2>5, <3>1, <4>1 DEF Effect
    <3>3. CASE l.cmd.op \notin Purges
      BY <2>5, <3>1, <3>3 DEF Doomed
    <3> QED BY <3>2, <3>3
  <2>6. \A f, u : Doomed(f, u)' => Doomed(f, u)
    BY <2>3, DisturbsDoomed
  <2>7. \A f, u : Doomed(f, u)' => f \in DOMAIN mbox /\ u \in DOMAIN mbox[f]
    BY <2>6, DoomedThere DEF Safe
  <2>8. Spared /\ Gone \notin Mails
    BY KeptMail DEF Safe
  <2>9. Spared'
    BY <2>1, <2>4, <2>5, <2>6, <2>7, <2>8, SparedAfter
  <2> QED BY <2>3, <2>9, DisturbsKeeps
<1>5. CASE UNCHANGED held
  <2>1. mbox' = mbox /\ forgone' = forgone /\ overtaken' = overtaken
    BY <1>5 DEF held
  <2>2. Disturbs
    BY <1>1, <2>1 DEF Disturbs, Grows
  <2>3. Spared'
    <3>1. \A f, u : Doomed(f, u)' => Doomed(f, u)
      BY <2>2, DisturbsDoomed
    <3> QED BY <2>1, <3>1 DEF Safe, Spared, Here
  <2> QED BY <2>2, <2>3, DisturbsKeeps
<1> QED BY <1>4, <1>5 DEF CarryOut

LEMMA OtherClientKeeps ==
    ASSUME TypeOK, Connected, Aware, Safe, NEW f \in DOMAIN mbox, NEW u \in DOMAIN mbox[f], OtherClient(f, u)
    PROVE  /\ (Connected /\ Aware /\ Safe)' /\ Grows
           /\ DOMAIN mbox' = DOMAIN mbox /\ mbox' = [g \in DOMAIN mbox' |-> mbox'[g]]
           /\ \A g \in DOMAIN mbox' : mbox'[g] \in Seq(Kept)
<1>1. /\ mbox = [g \in DOMAIN mbox |-> mbox[g]] /\ \A g \in DOMAIN mbox : mbox[g] \in Seq(Kept)
  BY DEF TypeOK
<1>2. mbox' = [mbox EXCEPT ![f] = Removed(mbox[f], {u})]
  BY DEF OtherClient
<1>3. /\ DOMAIN mbox' = DOMAIN mbox /\ mbox' = [g \in DOMAIN mbox' |-> mbox'[g]]
      /\ mbox'[f] = Removed(mbox[f], {u}) /\ \A g \in DOMAIN mbox : g # f => mbox'[g] = mbox[g]
  BY <1>1, <1>2
<1>4. /\ mbox'[f] \in Seq(Kept) /\ DOMAIN mbox'[f] = DOMAIN mbox[f]
      /\ \A v \in DOMAIN mbox[f] : mbox'[f][v] = IF v \in {u} THEN Gone ELSE mbox[f][v]
  <2>1. mbox[f] \in Seq(Kept)
    BY <1>1
  <2> QED BY <1>3, <2>1, RemovedFacts
<1>5. Grows
  BY <1>3, <1>4 DEF Grows
<1>6. \A g \in DOMAIN mbox : \A v \in DOMAIN mbox[g] : mbox'[g][v] # mbox[g][v] => g = f /\ v = u
  BY <1>3, <1>4
<1>7. /\ forgone' = forgone \cup {mbox[f][u]} /\ overtaken' = overtaken \cup {mbox[f][u]}
      /\ UNCHANGED <<srv, late, wire, session, call, outcome>>
  BY DEF OtherClient, link
<1>8. Disturbs
  BY <1>5, <1>6, <1>7 DEF Disturbs
<1>9. Spared'
  <2> SUFFICES ASSUME NEW m \in Mails, m \notin forgone'
               PROVE  \E g \in DOMAIN mbox' : \E v \in DOMAIN mbox'[g] : mbox'[g][v] = m /\ ~Doomed(g, v)'
    BY DEF Spared, Here
  <2>1. PICK g \in DOMAIN mbox : \E v \in Here(g, m) : ~Doomed(g, v)
    BY <1>7 DEF Safe, Spared
  <2>2. PICK v \in DOMAIN mbox[g] : mbox[g][v] = m /\ ~Doomed(g, v)
    BY <2>1 DEF Here
  <2>3. mbox'[g][v] = m
    BY <1>6, <1>7, <2>2
  <2>4. ~Doomed(g, v)'
    BY <1>8, <2>2, DisturbsDoomed
  <2>5. g \in DOMAIN mbox' /\ v \in DOMAIN mbox'[g]
    BY <1>5, <2>2 DEF Grows
  <2> QED BY <2>3, <2>4, <2>5
<1>10. (Connected /\ Aware /\ Safe)'
  BY <1>8, <1>9, DisturbsKeeps
<1>11. \A g \in DOMAIN mbox' : mbox'[g] \in Seq(Kept)
  BY <1>1, <1>3, <1>4
<1> QED BY <1>3, <1>5, <1>10, <1>11

-----------------------------------------------------------------------------
(* The network *)

LEMMA EventKeeps ==
    ASSUME TypeOK, Connected, Aware, Safe, Event
    PROVE  (Connected /\ Aware /\ Safe)'
<1> DEFINE r == Row("EXISTS", {})
<1>1. /\ srv.idling # 0 /\ wire = <<>> /\ Phase.do = "wait" /\ wire' = <<r>>
      /\ srv' = srv /\ late' = late /\ session' = session /\ call' = call /\ outcome' = outcome
      /\ mbox' = mbox /\ forgone' = forgone /\ overtaken' = overtaken
  BY DEF Event, link, held
<1>2. r.kind = "row" /\ r.tag = 0 /\ r.of = "EXISTS"
  BY DEF Row
<1> HIDE DEF r
<1>3. DOMAIN wire' = {1} /\ wire'[1] = r
  BY <1>1
<1>4. session.up
  BY <1>1 DEF Connected, Shaped, Listening
<1>5. Phase' = Phase /\ Asking' = Asking /\ Current' = Current /\ Chosen' = Chosen /\ Blank' = Blank /\ Found' = Found
  BY <1>1 DEF Phase, Asking, Current, Chosen, Blank, Found
<1>6. ~Granted' /\ ~Granted
  BY <1>1, <1>2, <1>3 DEF Granted, Own
<1>7. ~Placed' /\ ~Placed
  BY <1>6 DEF Placed
<1>8. Shaped'
  BY <1>1, <1>4, <1>5 DEF Connected, Shaped
<1>9. Tagged'
  <2>1. 0 <= session.tag
    BY DEF TypeOK
  <2> QED BY <1>1, <1>2, <1>3, <1>5, <2>1 DEF Connected, Tagged
<1>10. OneByOne'
  <2>1. \A i \in DOMAIN wire' : wire'[i].kind # "tagged"
    BY <1>2, <1>3
  <2> QED BY <1>1, <1>5, <2>1 DEF Connected, OneByOne, Own
<1>11. Drained'
  BY <1>1, <1>2, <1>3, <1>5 DEF Connected, Drained
<1>12. Truthful'
  <2>1. \A i \in DOMAIN wire' : wire'[i].of = "EXISTS"
    BY <1>2, <1>3
  <2>2. \A q : TruthOf(q)' <=> TruthOf(q)
    BY <1>1, <1>5 DEF TruthOf, StillHit, Hit
  <2>3. \A q : q.of = "EXISTS" => TruthOf(q)
    BY DEF TruthOf
  <2>4. \A i \in DOMAIN call.got : TruthOf(call.got[i])
    BY DEF Aware, Truthful
  <2>5. \A i \in DOMAIN wire' : TruthOf(wire'[i])
    BY <2>1, <2>3
  <2> QED BY <1>1, <1>5, <2>2, <2>4, <2>5 DEF Truthful
<1>13. Selected'
  BY <1>1, <1>5, <1>6 DEF Aware, Selected
<1>14. Aimed'
  BY <1>1, <1>5, <1>7 DEF Aware, Aimed, StillHit, Hit
<1>15. Safe'
  <2>1. PlacedWhenDone'
    BY <1>1, <1>7 DEF Safe, PlacedWhenDone, Settled, Here
  <2>2. LateKept'
    BY <1>1 DEF Safe, LateKept
  <2>3. \A f, u : Doomed(f, u)' <=> Doomed(f, u)
    BY <1>1, <1>5, <1>7 DEF Doomed, Copied
  <2>4. Spared'
    BY <1>1, <2>3 DEF Safe, Spared, Here
  <2>5. Reported'
    BY <1>1 DEF Safe, Reported, DoneIsDone, Here
  <2> QED BY <2>1, <2>2, <2>4, <2>5 DEF Safe
<1> QED BY <1>8, <1>9, <1>10, <1>11, <1>12, <1>13, <1>14, <1>15 DEF Connected, Aware

LEMMA HangUpKeeps ==
    ASSUME TypeOK, Connected, Aware, Safe, HangUp
    PROVE  (Connected /\ Aware /\ Safe)'
<1>1. /\ srv'.open = srv.open /\ srv'.idling = srv.idling /\ srv'.queue = srv.queue
      /\ wire' = wire /\ late' = late /\ session' = session /\ call' = call /\ outcome' = outcome
      /\ mbox' = mbox /\ forgone' = forgone /\ overtaken' = overtaken
  BY DEF HangUp, held, TypeOK
<1>2. session.up
  BY DEF HangUp, Connected, Shaped, Listening
<1>3. Phase' = Phase /\ Asking' = Asking /\ Current' = Current /\ Chosen' = Chosen /\ Blank' = Blank /\ Found' = Found
  BY <1>1 DEF Phase, Asking, Current, Chosen, Blank, Found
<1>4. Granted' = Granted /\ Placed' = Placed /\ Copied' = Copied
  BY <1>1, <1>3 DEF Granted, Own, Placed, Copied
<1>5. Shaped'
  BY <1>1, <1>2, <1>3 DEF Connected, Shaped
<1>6. Tagged' /\ OneByOne' /\ Drained'
  BY <1>1, <1>3 DEF Connected, Tagged, OneByOne, Drained, Own
<1>7. Truthful'
  <2>1. \A q : TruthOf(q)' <=> TruthOf(q)
    BY <1>1, <1>3 DEF TruthOf, StillHit, Hit
  <2> QED BY <1>1, <1>3, <2>1 DEF Aware, Truthful
<1>8. Selected' /\ Aimed'
  BY <1>1, <1>3, <1>4 DEF Aware, Selected, Aimed, StillHit, Hit
<1>9. PlacedWhenDone'
  BY <1>1, <1>4 DEF Safe, PlacedWhenDone, Settled, Here
<1>10. LateKept' /\ Reported'
  BY <1>1 DEF Safe, LateKept, Reported, DoneIsDone, Here
<1>11. Spared'
  <2>1. \A f, u : Doomed(f, u)' <=> Doomed(f, u)
    BY <1>1, <1>4 DEF Doomed
  <2> QED BY <1>1, <2>1 DEF Safe, Spared, Here
<1> QED BY <1>5, <1>6, <1>7, <1>8, <1>9, <1>10, <1>11 DEF Connected, Aware, Safe

-----------------------------------------------------------------------------
(* Types *)

MailTyped    == /\ mbox = [f \in DOMAIN mbox |-> mbox[f]] /\ DOMAIN mbox \subseteq Folders
                /\ \A f \in DOMAIN mbox : mbox[f] \in Seq(Kept)
                /\ offers \subseteq Values
LinkTyped    == /\ srv \in [open : Folders, idling : Nat, queue : Seq(Commands), up : BOOLEAN]
                /\ late \subseteq [open : Folders, cmd : Commands]
WireTyped    == wire \in Seq(Heard) /\ \A i \in DOMAIN wire : Plausible(wire[i])
SessionTyped == session \in [up : BOOLEAN, ready : BOOLEAN, tag : Nat, selected : Places, roles : SUBSET Values,
                             caps : SUBSET Values, refused : BOOLEAN, negotiated : BOOLEAN]
CallTyped    == call \in Calls /\ \A i \in DOMAIN call.got : Plausible(call.got[i])
CodeTyped    == SessionTyped /\ CallTyped /\ LinkTyped

LEMMA TypeParts == TypeOK <=> MailTyped /\ LinkTyped /\ WireTyped /\ SessionTyped /\ CallTyped
  BY DEF TypeOK, MailTyped, LinkTyped, WireTyped, SessionTyped, CallTyped

LEMMA PlaceFacts ==
    /\ INBOX \in Places /\ Nowhere \in Places /\ "Archive" \in Places
    /\ Places \subseteq Folders /\ Folders \subseteq Values /\ NotAsked \subseteq Values /\ NotAsked \in SUBSET Values
<1>1. INBOX \in Places /\ Nowhere \in Places /\ "Archive" \in Places
  BY DEF Places
<1>2. Places \subseteq Folders
  BY DEF Folders
<1>3. Folders \subseteq Values
  BY DEF Values
<1>4. NotAsked \subseteq Values
  BY DEF Values
<1>5. NotAsked \in SUBSET Values
  BY <1>4
<1> QED BY <1>1, <1>2, <1>3, <1>4, <1>5

LEMMA IdleTyped ==
    ASSUME call' = IdleCall
    PROVE  CallTyped'
<1>1. <<>> \in Seq(Phases) /\ <<>> \in Seq(Heard) /\ DOMAIN <<>> = {} /\ 0 \in Nat
  OBVIOUS
<1>2. IdleCall \in Calls /\ IdleCall.got = <<>>
  BY <1>1 DEF IdleCall, Calls
<1> QED BY <1>1, <1>2 DEF CallTyped

LEMMA ContinuesTyped ==
    ASSUME TypeOK, NEW t \in Seq(Phases), Continues(t)
    PROVE  CallTyped'
<1>1. <<>> \in Seq(Heard) /\ DOMAIN <<>> = {} /\ 0 \in Nat
  OBVIOUS
<1>2. call' \in Calls /\ call'.got = <<>>
  BY <1>1 DEF Continues, TypeOK, Calls
<1> QED BY <1>1, <1>2 DEF CallTyped

LEMMA ResolvesTyped ==
    ASSUME TypeOK, Rest \in Seq(Phases), NEW uids \in SUBSET Nat, Resolves(uids)
    PROVE  CallTyped'
<1>1. <<>> \in Seq(Heard) /\ DOMAIN <<>> = {} /\ 0 \in Nat
  OBVIOUS
<1>2. call' \in Calls /\ call'.got = <<>>
  BY <1>1 DEF Resolves, TypeOK, Calls
<1> QED BY <1>1, <1>2 DEF CallTyped

LEMMA NamesTyped ==
    ASSUME TypeOK, Rest \in Seq(Phases), NEW names \in SUBSET Values,
           call' = [call EXCEPT !.todo = Rest, !.tag = 0, !.got = <<>>, !.names = names]
    PROVE  CallTyped'
<1>1. <<>> \in Seq(Heard) /\ DOMAIN <<>> = {} /\ 0 \in Nat
  OBVIOUS
<1>2. call' \in Calls /\ call'.got = <<>>
  BY <1>1 DEF TypeOK, Calls
<1> QED BY <1>1, <1>2 DEF CallTyped

\* The fields of the session a step may change.
LEMMA SelectedTyped ==
    ASSUME TypeOK, NEW f \in Places, session' = [session EXCEPT !.selected = f]
    PROVE  SessionTyped'
  BY DEF TypeOK, SessionTyped

LEMMA RefusedTyped ==
    ASSUME TypeOK, NEW f \in Places, NEW b \in BOOLEAN, session' = [session EXCEPT !.selected = f, !.refused = b]
    PROVE  SessionTyped'
  BY DEF TypeOK, SessionTyped

LEMMA RolesTyped ==
    ASSUME TypeOK, NEW v \in SUBSET Values,
           session' = [session EXCEPT !.roles = v] \/ session' = [session EXCEPT !.roles = v, !.negotiated = TRUE]
    PROVE  SessionTyped'
<1>1. CASE session' = [session EXCEPT !.roles = v]
  BY <1>1 DEF TypeOK, SessionTyped
<1>2. CASE session' = [session EXCEPT !.roles = v, !.negotiated = TRUE]
  BY <1>2 DEF TypeOK, SessionTyped
<1> QED BY <1>1, <1>2

LEMMA CapsTyped ==
    ASSUME TypeOK, NEW v \in SUBSET Values, session' = [session EXCEPT !.caps = v]
    PROVE  SessionTyped'
  BY DEF TypeOK, SessionTyped

LEMMA SelectedPlace == TypeOK => session.selected \in Places
  BY DEF TypeOK

LEMMA LinkKept ==
    ASSUME TypeOK, UNCHANGED link
    PROVE  LinkTyped'
  BY DEF TypeOK, LinkTyped, link

LEMMA SessionKept ==
    ASSUME TypeOK, session' = session
    PROVE  SessionTyped'
  BY DEF TypeOK, SessionTyped

LEMMA DropsTyped ==
    ASSUME TypeOK, Drops
    PROVE  SessionTyped' /\ LinkTyped'
<1>1. Closed \in [up : BOOLEAN, ready : BOOLEAN, tag : Nat, selected : Places, roles : SUBSET Values,
                  caps : SUBSET Values, refused : BOOLEAN, negotiated : BOOLEAN]
  BY PlaceFacts DEF Closed
<1>2. Listening \in [open : Folders, idling : Nat, queue : Seq(Commands), up : BOOLEAN]
  <2>1. <<>> \in Seq(Commands)
    OBVIOUS
  <2> QED BY <2>1, PlaceFacts DEF Listening
<1>3. late' \subseteq [open : Folders, cmd : Commands]
  <2>1. \A cmd \in ToSet(srv.queue) : cmd \in Commands
    <3>1. srv.queue \in Seq(Commands)
      BY DEF TypeOK
    <3> QED BY <3>1 DEF ToSet
  <2>2. srv.open \in Folders /\ late \subseteq [open : Folders, cmd : Commands]
    BY DEF TypeOK
  <2> QED BY <2>1, <2>2 DEF Drops
<1> QED BY <1>1, <1>2, <1>3 DEF Drops, SessionTyped, LinkTyped

\* What the lines of an answer give.
LEMMA AnswersTyped ==
    ASSUME TypeOK
    PROVE  /\ \A verb : Answers(verb) \in SUBSET Values
           /\ Searched \in SUBSET Nat /\ FoundUid \in SUBSET Nat
           /\ ScannedUid # {} => {Min(ScannedUid)} \in SUBSET Nat
<1>1. call.got \in Seq(Heard) /\ DOMAIN call.got \subseteq Nat /\ \A i \in DOMAIN call.got : call.got[i] \in Heard
  BY DEF TypeOK, Calls
<1>2. \A i \in DOMAIN call.got : call.got[i].data \subseteq Values
  BY <1>1 DEF Heard
<1>3. \A verb : Answers(verb) \subseteq Values
  BY <1>2 DEF Answers, Lines
<1>4. ASSUME Searched # {} PROVE \E n \in Nat : Searched \subseteq 1..n
  <2>1. Lines("SEARCH") # {} /\ Searched = call.got[Min(Lines("SEARCH"))].data
    BY <1>4 DEF Searched
  <2>2. Min(Lines("SEARCH")) \in Lines("SEARCH")
    BY <1>1, <2>1, MinIn DEF Lines
  <2>3. PICK i \in DOMAIN call.got : call.got[i].of = "SEARCH" /\ Searched = call.got[i].data
    BY <2>1, <2>2 DEF Lines
  <2> QED BY <2>3 DEF TypeOK, Plausible
<1>5. Searched \subseteq Nat
  BY <1>4
<1>6. FoundUid \subseteq Nat
  <2>1. CASE Searched = {}
    BY <2>1 DEF FoundUid
  <2>2. CASE Searched # {}
    <3>1. PICK n \in Nat : Searched \subseteq 1..n
      BY <1>4, <2>2
    <3>2. Max(Searched) \in Searched
      BY <2>2, <3>1, MaxIn
    <3> QED BY <1>5, <2>2, <3>2 DEF FoundUid
  <2> QED BY <2>1, <2>2
<1>7. ASSUME ScannedUid # {} PROVE {Min(ScannedUid)} \subseteq Nat
  <2>1. ScannedUid \subseteq Nat
    <3> SUFFICES ASSUME NEW u \in ScannedUid PROVE u \in Nat
      OBVIOUS
    <3>1. PICK i \in DOMAIN call.got : \E row \in call.got[i].data : call.got[i].of = "FETCH" /\ row[1] = u
      BY DEF ScannedUid, Answers, Lines
    <3>2. PICK row \in call.got[i].data : call.got[i].of = "FETCH" /\ row[1] = u
      BY <3>1
    <3>3. row \in Nat \X Kept
      BY <3>2 DEF TypeOK, Plausible
    <3> QED BY <3>2, <3>3
  <2>2. Min(ScannedUid) \in ScannedUid
    BY <1>7, <2>1, MinIn
  <2> QED BY <2>1, <2>2
<1> QED BY <1>3, <1>5, <1>6, <1>7

LEMMA RecoveryTyped ==
    ASSUME TypeOK, Connected, Aware, call.todo # <<>>, NEW kind, NEW t \in Recovery(kind)
    PROVE  t \in Seq(Phases)
<1>1. CASE Phase.do \in Placing => ~Placed
  BY <1>1, RecoveryOnward DEF Onward
<1>2. CASE Phase.do \in Placing
  <2>1. /\ Rest \in Seq(Phases) /\ Fits(call.op, Phase) /\ Phase \in Phases /\ call.op # "none"
    BY TodoFacts
  <2>2. call.op \in Movers
    BY <1>2, <2>1 DEF Fits, Placing, Modifying, Purges, Entering, Finding, Ending
  <2>3. Phase.in \in Places
    BY <2>1 DEF Phases
  <2>4. t = Fallback(Phase.in) \o Rest \/ t = <<P("make", Phase.in), P("recopy", Phase.in)>> \o Rest
    BY <1>2, <2>2 DEF Recovery, Placing, Movers, Seekers
  <2>5. Fallback(Phase.in) \in Seq(Phases)
    <3>1. \A do \in Dos, in \in Places : P(do, in) \in Phases
      BY DEF P, Phases
    <3>2. /\ P("caps", Nowhere) \in Phases /\ P("plus", Nowhere) \in Phases /\ P("copy", Phase.in) \in Phases
          /\ P("flag", Nowhere) \in Phases /\ P("expunge", Nowhere) \in Phases
      BY <2>3, <3>1, PlaceFacts DEF Dos
    <3> QED BY <3>2 DEF Fallback
  <2>6. <<P("make", Phase.in), P("recopy", Phase.in)>> \in Seq(Phases)
    BY <2>3 DEF P, Phases, Dos
  <2>7. Rest \in Seq(Phases)
    BY <2>1
  <2>8. Fallback(Phase.in) \o Rest \in Seq(Phases)
    BY <2>5, <2>7, ConcatFacts
  <2>9. <<P("make", Phase.in), P("recopy", Phase.in)>> \o Rest \in Seq(Phases)
    BY <2>6, <2>7, ConcatFacts
  <2> QED BY <2>4, <2>8, <2>9
<1> QED BY <1>1, <1>2

LEMMA FailsTyped ==
    ASSUME TypeOK, Connected, Aware, call.todo # <<>>, NEW failure, Fails(failure)
    PROVE  CodeTyped'
<1> DEFINE kind == IF call.op = "file" /\ Phase.do \in {"search", "scan"} THEN "gone" ELSE failure
<1>1. CASE Recovery(kind) # {}
  <2> DEFINE t == CHOOSE todo \in Recovery(kind) : TRUE
  <2>1. t \in Recovery(kind)
    BY <1>1
  <2>2. /\ Continues(t) /\ UNCHANGED link
        /\ session' = [session EXCEPT !.selected = IF kind = "gone" \/ call.op = "members" THEN Nowhere ELSE @]
    BY <1>1 DEF Fails
  <2> HIDE DEF t, kind
  <2>3. t \in Seq(Phases)
    BY <2>1, RecoveryTyped
  <2>4. CallTyped'
    BY <2>2, <2>3, ContinuesTyped
  <2>5. SessionTyped'
    <3> DEFINE f == IF kind = "gone" \/ call.op = "members" THEN Nowhere ELSE session.selected
    <3>1. f \in Places
      BY SelectedPlace, PlaceFacts
    <3>2. session' = [session EXCEPT !.selected = f]
      BY <2>2
    <3> HIDE DEF f
    <3> QED BY <3>1, <3>2, SelectedTyped
  <2> QED BY <2>2, <2>4, <2>5, LinkKept DEF CodeTyped
<1>2. CASE Recovery(kind) = {} /\ DropsSession(kind)
  <2>1. call' = IdleCall /\ Drops
    BY <1>2 DEF Fails, Reports
  <2> QED BY <2>1, IdleTyped, DropsTyped DEF CodeTyped
<1>3. CASE Recovery(kind) = {} /\ ~DropsSession(kind)
  <2>1. /\ call' = IdleCall /\ UNCHANGED link
        /\ session' = [session EXCEPT !.selected = IF kind = "gone" \/ call.op = "members" THEN Nowhere ELSE @,
                                                !.refused = @ \/ Phase = P("role", "Archive")]
    BY <1>3 DEF Fails, Reports
  <2> HIDE DEF kind
  <2>2. SessionTyped'
    <3> DEFINE f == IF kind = "gone" \/ call.op = "members" THEN Nowhere ELSE session.selected
               b == session.refused \/ Phase = P("role", "Archive")
    <3>1. f \in Places /\ b \in BOOLEAN
      BY SelectedPlace, PlaceFacts
    <3>2. session' = [session EXCEPT !.selected = f, !.refused = b]
      BY <2>1
    <3> HIDE DEF f, b
    <3> QED BY <3>1, <3>2, RefusedTyped
  <2> QED BY <2>1, <2>2, IdleTyped, LinkKept DEF CodeTyped
<1> QED BY <1>1, <1>2, <1>3

LEMMA EnoughTyped ==
    ASSUME TypeOK, NEW result, NEW served, Enough(result, served)
    PROVE  CodeTyped'
<1>1. call' = IdleCall /\ UNCHANGED link
  BY DEF Enough, Reports
<1>2. SessionTyped'
  <2>1. call.names \in SUBSET Values
    BY DEF TypeOK, Calls
  <2>2. CASE session' = session
    BY <2>2, SessionKept
  <2>3. CASE session' = [session EXCEPT !.roles = call.names, !.negotiated = TRUE]
    BY <2>1, <2>3, RolesTyped
  <2> QED BY <2>2, <2>3 DEF Enough
<1> QED BY <1>1, <1>2, IdleTyped, LinkKept DEF CodeTyped

LEMMA SucceedsTyped ==
    ASSUME TypeOK, Connected, Aware, call.todo # <<>>, Succeeds
    PROVE  CodeTyped'
<1>1. Rest \in Seq(Phases) /\ Phase \in Phases /\ Chained(call.op, Rest)
  BY TodoFacts
<1>2. Phase.in \in Places /\ Phase.in \in Values
  BY <1>1, PlaceFacts DEF Phases
<1>3. ASSUME Stays PROVE SessionTyped' /\ LinkTyped'
  BY <1>3, SessionKept, LinkKept DEF Stays
<1>4. ASSUME Continues(Rest) /\ Stays PROVE CodeTyped'
  BY <1>1, <1>3, <1>4, ContinuesTyped DEF CodeTyped
<1>5. CASE Phase.do \in Selecting
  <2> DEFINE f == IF Phase.do = "peek" THEN Nowhere ELSE Phase.in
  <2>1. Continues(Rest) /\ session' = [session EXCEPT !.selected = f] /\ UNCHANGED link
    BY <1>5 DEF Succeeds, Selecting, Remembers
  <2>2. f \in Places
    BY <1>2, PlaceFacts
  <2> HIDE DEF f
  <2>3. SessionTyped'
    BY <2>1, <2>2, SelectedTyped
  <2> QED BY <1>1, <2>1, <2>3, ContinuesTyped, LinkKept DEF CodeTyped
<1>6. CASE Phase.do \in {"list", "role", "caps"}
  <2>1. /\ Continues(Rest) /\ UNCHANGED link
        /\ \/ \E v \in SUBSET Values : session' = [session EXCEPT !.roles = v]
           \/ \E v \in SUBSET Values : session' = [session EXCEPT !.caps = v]
    <3>1. CASE Phase.do = "list"
      BY <3>1, AnswersTyped DEF Succeeds, Remembers
    <3>2. CASE Phase.do = "role"
      <4>1. session' = [session EXCEPT !.roles = session.roles \cup {Phase.in}] /\ Continues(Rest) /\ UNCHANGED link
        BY <3>2 DEF Succeeds, Remembers
      <4>2. session.roles \cup {Phase.in} \in SUBSET Values
        BY <1>2 DEF TypeOK
      <4> QED BY <4>1, <4>2
    <3>3. CASE Phase.do = "caps"
      <4> DEFINE v == IF Lines("CAPABILITY") = {} THEN NotAsked ELSE Answers("CAPABILITY")
      <4>1. session' = [session EXCEPT !.caps = v] /\ Continues(Rest) /\ UNCHANGED link
        BY <3>3 DEF Succeeds, Remembers
      <4>2. v \in SUBSET Values
        BY AnswersTyped, PlaceFacts
      <4> QED BY <4>1, <4>2
    <3> QED BY <1>6, <3>1, <3>2, <3>3
  <2>2. SessionTyped'
    BY <2>1, RolesTyped, CapsTyped
  <2> QED BY <1>1, <2>1, <2>2, ContinuesTyped, LinkKept DEF CodeTyped
<1>7. CASE Phase.do \in {"relist", "create"}
  <2>1. PICK names \in SUBSET Values : call' = [call EXCEPT !.todo = Rest, !.tag = 0, !.got = <<>>, !.names = names] /\ Stays
    <3>1. CASE Phase.do = "relist"
      BY <3>1, AnswersTyped DEF Succeeds
    <3>2. CASE Phase.do = "create"
      <4>1. call' = [call EXCEPT !.todo = Rest, !.tag = 0, !.got = <<>>, !.names = call.names \cup {Phase.in}] /\ Stays
        BY <3>2 DEF Succeeds
      <4>2. call.names \cup {Phase.in} \in SUBSET Values
        BY <1>2 DEF TypeOK, Calls
      <4> QED BY <4>1, <4>2
    <3> QED BY <1>7, <3>1, <3>2
  <2>2. CallTyped'
    BY <1>1, <2>1, NamesTyped
  <2> QED BY <1>3, <2>1, <2>2 DEF CodeTyped
<1>8. CASE Phase.do = "search"
  <2>1. Stays /\ (Resolves(FoundUid) \/ Continues(<<P("scan", Nowhere)>> \o Rest))
    BY <1>8 DEF Succeeds
  <2>2. CASE Resolves(FoundUid)
    <3>1. FoundUid \in SUBSET Nat
      BY AnswersTyped
    <3>2. CallTyped'
      BY <1>1, <2>2, <3>1, ResolvesTyped
    <3> QED BY <1>3, <2>1, <3>2 DEF CodeTyped
  <2>3. CASE Continues(<<P("scan", Nowhere)>> \o Rest)
    <3>1. <<P("scan", Nowhere)>> \in Seq(Phases)
      BY PlaceFacts DEF P, Phases, Dos
    <3>2. <<P("scan", Nowhere)>> \o Rest \in Seq(Phases)
      BY <1>1, <3>1, ConcatFacts
    <3>3. CallTyped'
      BY <2>3, <3>2, ContinuesTyped
    <3> QED BY <1>3, <2>1, <3>3 DEF CodeTyped
  <2> QED BY <2>1, <2>2, <2>3
<1>9. CASE Phase.do = "scan" /\ call.op # "members"
  <2>1. CASE ScannedUid = {}
    BY <1>9, <2>1, FailsTyped DEF Succeeds
  <2>2. CASE ScannedUid # {}
    <3>1. Resolves({Min(ScannedUid)}) /\ Stays
      BY <1>9, <2>2 DEF Succeeds
    <3>2. {Min(ScannedUid)} \in SUBSET Nat
      BY <2>2, AnswersTyped
    <3>3. CallTyped'
      BY <1>1, <3>1, <3>2, ResolvesTyped
    <3> QED BY <1>3, <3>1, <3>3 DEF CodeTyped
  <2> QED BY <2>1, <2>2
<1>10. CASE Phase.do = "all"
  <2>1. \/ call' = IdleCall /\ session' = [session EXCEPT !.selected = Nowhere] /\ UNCHANGED link
        \/ Continues(Tail(Rest)) /\ Stays
        \/ Resolves(Searched) /\ Stays
    BY <1>10 DEF Succeeds, Reports
  <2>2. CASE call' = IdleCall /\ session' = [session EXCEPT !.selected = Nowhere] /\ UNCHANGED link
    <3>1. SessionTyped'
      BY <2>2, SelectedTyped, PlaceFacts
    <3> QED BY <2>2, <3>1, IdleTyped, LinkKept DEF CodeTyped
  <2>3. CASE Continues(Tail(Rest)) /\ Stays
    <3>1. Tail(Rest) \in Seq(Phases)
      BY <1>1, TailRemains DEF Remains
    <3>2. CallTyped'
      BY <2>3, <3>1, ContinuesTyped
    <3> QED BY <1>3, <2>3, <3>2 DEF CodeTyped
  <2>4. CASE Resolves(Searched) /\ Stays
    <3>1. Searched \in SUBSET Nat
      BY AnswersTyped
    <3>2. CallTyped'
      BY <1>1, <2>4, <3>1, ResolvesTyped
    <3> QED BY <1>3, <2>4, <3>2 DEF CodeTyped
  <2> QED BY <2>1, <2>2, <2>3, <2>4
<1>11. CASE Phase.do \in {"hint", "body"}
  <2>1. Enough("ok", FirstBody) \/ Fails("gone") \/ (Continues(Rest) /\ Stays)
    <3>1. CASE Phase.do = "hint"
      BY <3>1 DEF Succeeds
    <3>2. CASE Phase.do = "body"
      BY <3>2 DEF Succeeds
    <3> QED BY <1>11, <3>1, <3>2
  <2>2. CASE Enough("ok", FirstBody)
    BY <2>2, EnoughTyped
  <2>3. CASE Fails("gone")
    BY <2>3, FailsTyped
  <2> QED BY <1>4, <2>1, <2>2, <2>3
<1>12. CASE /\ Phase.do \notin Selecting \cup {"list", "role", "caps", "relist", "create", "search", "all", "hint", "body"}
            /\ ~(Phase.do = "scan" /\ call.op # "members")
  <2>1. Continues(Rest) /\ Stays
    BY <1>12 DEF Succeeds, Selecting
  <2> QED BY <1>4, <2>1
<1> QED BY <1>5, <1>6, <1>7, <1>8, <1>9, <1>10, <1>11, <1>12

LEMMA RepliesTyped ==
    ASSUME TypeOK, Connected, call.todo # <<>>, NEW verb, NEW phase,
           <<verb, phase>> \in {<<"LITERAL", "literal">>, <<"DONE", "done">>, <<"BLANK", "blank">>}, Replies(verb, phase)
    PROVE  CodeTyped'
<1>1. PICK cmd \in Commands : srv' = [srv EXCEPT !.queue = Append(@, cmd)]
  BY RepliesCommand
<1>2. LinkTyped'
  <2>1. Append(srv.queue, cmd) \in Seq(Commands)
    BY AppendFacts DEF TypeOK
  <2> QED BY <1>1, <2>1 DEF Replies, TypeOK, LinkTyped
<1>3. session' = session
  BY DEF Replies
<1>4. CallTyped'
  <2>1. call' = [call EXCEPT !.todo = IF phase = "blank" THEN call.todo ELSE <<P(phase, Phase.in)>> \o Rest]
    BY DEF Replies
  <2>2. Rest \in Seq(Phases) /\ Phase \in Phases /\ call.todo \in Seq(Phases)
    BY TodoFacts
  <2>3. <<P(phase, Phase.in)>> \in Seq(Phases)
    BY <2>2 DEF P, Phases, Dos
  <2>4. <<P(phase, Phase.in)>> \o Rest \in Seq(Phases)
    BY <2>2, <2>3, ConcatFacts
  <2> QED BY <2>1, <2>2, <2>4 DEF TypeOK, Calls, CallTyped
<1> QED BY <1>2, <1>3, <1>4, SessionKept DEF CodeTyped

LEMMA HeldTyped ==
    ASSUME TypeOK, UNCHANGED held
    PROVE  MailTyped'
  BY DEF TypeOK, MailTyped, held

\* What a step of the provider leaves unread.
LEMMA ShorterTyped ==
    ASSUME TypeOK, Shorter
    PROVE  WireTyped'
<1>1. wire \in Seq(Heard) /\ \A i \in DOMAIN wire : Plausible(wire[i])
  BY DEF TypeOK
<1>2. \A i \in DOMAIN wire' : \E j \in DOMAIN wire : wire'[i] = wire[j]
  BY ShorterWire
<1>3. wire' \in Seq(Heard)
  <2>1. wire # <<>> => Tail(wire) \in Seq(Heard)
    BY <1>1, TailFacts
  <2>2. <<>> \in Seq(Heard)
    OBVIOUS
  <2> QED BY <1>1, <2>1, <2>2 DEF Shorter
<1>4. \A i \in DOMAIN wire' : Plausible(wire'[i])
  BY <1>1, <1>2
<1> QED BY <1>3, <1>4 DEF WireTyped

LEMMA PartsTyped ==
    ASSUME MailTyped', CodeTyped', WireTyped'
    PROVE  TypeOK'
<1>1. /\ mbox' = [f \in DOMAIN mbox' |-> mbox'[f]] /\ DOMAIN mbox' \subseteq Folders
      /\ \A f \in DOMAIN mbox' : mbox'[f] \in Seq(Kept)
      /\ offers' \subseteq Values
  BY DEF MailTyped
<1>2. /\ srv' \in [open : Folders, idling : Nat, queue : Seq(Commands), up : BOOLEAN]
      /\ late' \subseteq [open : Folders, cmd : Commands]
  BY DEF CodeTyped, LinkTyped
<1> QED BY <1>1, <1>2 DEF TypeOK, WireTyped, CodeTyped, SessionTyped, CallTyped

LEMMA ReadTyped ==
    ASSUME TypeOK, Connected, Aware, Read
    PROVE  TypeOK'
<1> DEFINE r == Head(wire)
<1>1. /\ call.tag # 0 /\ wire # <<>> /\ Handle(r) /\ wire' = (IF session'.up THEN Tail(wire) ELSE <<>>) /\ UNCHANGED held
  BY DEF Read, Waiting, Unread
<1>2. call.todo # <<>>
  BY <1>1 DEF Connected, Shaped
<1>3. r \in Heard /\ Plausible(r)
  BY <1>1, WireTail DEF TypeOK
<1>4. Rest \in Seq(Phases)
  BY <1>2, TodoFacts
<1>5. WireTyped'
  BY <1>1, ShorterTyped DEF Shorter
<1> HIDE DEF r
<1> SUFFICES CodeTyped'
  BY <1>1, <1>5, HeldTyped, PartsTyped
<1>6. ASSUME Stays PROVE SessionTyped' /\ LinkTyped'
  BY <1>6, SessionKept, LinkKept DEF Stays
<1>7. CASE \E failure : Fails(failure)
  BY <1>2, <1>7, FailsTyped
<1>8. CASE Succeeds
  BY <1>2, <1>8, SucceedsTyped
<1>9. CASE Replies("LITERAL", "literal") \/ Replies("DONE", "done") \/ Replies("BLANK", "blank")
  BY <1>2, <1>9, RepliesTyped
<1>10. CASE Ignores
  <2>1. CallTyped'
    BY <1>10 DEF Ignores, TypeOK, CallTyped
  <2> QED BY <1>6, <1>10, <2>1 DEF Ignores, CodeTyped
<1>11. CASE Keeps(r)
  <2>1. call' = [call EXCEPT !.got = Append(call.got, r)] /\ Stays
    BY <1>11 DEF Keeps
  <2>2. call.got \in Seq(Heard)
    BY DEF TypeOK, Calls
  <2> DEFINE got == Append(call.got, r)
  <2>3. /\ got \in Seq(Heard) /\ DOMAIN got = 1..(Len(call.got) + 1) /\ DOMAIN call.got = 1..Len(call.got)
        /\ \A i \in DOMAIN call.got : got[i] = call.got[i]
        /\ got[Len(call.got) + 1] = r /\ Len(call.got) \in Nat
    BY <1>3, <2>2, AppendFacts
  <2>4. \A i \in 1..(Len(call.got) + 1) : i \in 1..Len(call.got) \/ i = Len(call.got) + 1
    BY <2>3
  <2>5. \A i \in DOMAIN got : Plausible(got[i])
    <3>1. \A i \in DOMAIN call.got : Plausible(call.got[i])
      BY DEF TypeOK
    <3> QED BY <1>3, <2>3, <2>4, <3>1
  <2> HIDE DEF got
  <2>6. call' = [call EXCEPT !.got = got]
    BY <2>1 DEF got
  <2>7. call' \in Calls /\ call'.got = got
    BY <2>3, <2>6 DEF TypeOK, Calls
  <2>8. CallTyped'
    BY <2>5, <2>7 DEF CallTyped
  <2> QED BY <1>6, <2>1, <2>8 DEF CodeTyped
<1>12. CASE call' = [call EXCEPT !.todo = <<P("wait", Nowhere)>> \o Rest] /\ Stays
  <2>1. <<P("wait", Nowhere)>> \in Seq(Phases)
    BY PlaceFacts DEF P, Phases, Dos
  <2>2. <<P("wait", Nowhere)>> \o Rest \in Seq(Phases)
    BY <1>4, <2>1, ConcatFacts
  <2>3. CallTyped'
    BY <1>12, <2>2 DEF TypeOK, Calls, CallTyped
  <2> QED BY <1>6, <1>12, <2>3 DEF CodeTyped
<1>13. \/ \E failure : Fails(failure)
       \/ Succeeds
       \/ Replies("LITERAL", "literal") \/ Replies("DONE", "done") \/ Replies("BLANK", "blank")
       \/ Ignores
       \/ Keeps(r)
       \/ call' = [call EXCEPT !.todo = <<P("wait", Nowhere)>> \o Rest] /\ Stays
  <2>1. Completes(r) => Succeeds \/ \E failure : Fails(failure)
    BY DEF Completes
  <2>2. CASE r.kind = "huge"
    BY <1>1, <2>2 DEF Handle
  <2>3. CASE r.kind # "huge" /\ Phase.do = "append"
    BY <1>1, <2>3 DEF Handle
  <2>4. CASE r.kind # "huge" /\ Phase.do = "idle"
    BY <1>1, <2>4 DEF Handle
  <2>5. CASE r.kind # "huge" /\ Phase.do = "wait"
    BY <1>1, <2>5 DEF Handle
  <2>6. CASE r.kind # "huge" /\ Phase.do \in {"done", "literal"}
    BY <1>1, <2>1, <2>6 DEF Handle
  <2>7. CASE r.kind # "huge" /\ Phase.do \notin {"append", "idle", "wait", "done", "literal"}
    <3>1. Completes(r) \/ Replies("BLANK", "blank") \/ Keeps(r) \/ Ignores
      BY <1>1, <2>7 DEF Handle
    <3> QED BY <2>1, <3>1
  <2> QED BY <2>2, <2>3, <2>4, <2>5, <2>6, <2>7
<1> QED BY <1>7, <1>8, <1>9, <1>10, <1>11, <1>12, <1>13

LEMMA DecideTyped ==
    ASSUME LocalIds = {}, TypeOK, Connected, Aware, Decide
    PROVE  TypeOK'
<1>1. call.todo # <<>> /\ UNCHANGED held /\ wire' = IF session'.up THEN wire ELSE <<>>
  BY DEF Decide, Unread
<1>2. Rest \in Seq(Phases) /\ Chained(call.op, Rest)
  BY <1>1, TodoFacts
<1>3. WireTyped'
  BY <1>1, ShorterTyped DEF Shorter
<1> SUFFICES CodeTyped'
  BY <1>1, <1>3, HeldTyped, PartsTyped
<1>4. CASE Skipped(Phase) /\ call' = [call EXCEPT !.todo = Rest, !.uids = IF Phase.do = "search" THEN {StoredAt[call.mail]} ELSE @]
           /\ session' = [session EXCEPT !.selected = IF Phase.do = "forget" THEN Nowhere ELSE @,
                                         !.ready = @ \/ Phase.do = "ready"]
           /\ UNCHANGED <<link, outcome>>
  <2>1. Phase.do # "search"
    BY <1>4 DEF Skipped
  <2>2. CallTyped'
    BY <1>2, <1>4, <2>1 DEF TypeOK, Calls, CallTyped
  <2>3. SessionTyped'
    <3>1. Nowhere \in Places
      BY PlaceFacts
    <3> QED BY <1>4, <3>1 DEF TypeOK, SessionTyped
  <2> QED BY <1>4, <2>2, <2>3, LinkKept DEF CodeTyped
<1>5. CASE \E failure : Fails(failure)
  BY <1>1, <1>5, FailsTyped
<1>6. CASE (Continues(Tail(Rest)) \/ Continues(NextFolder(Rest)) \/ call' = IdleCall) /\ UNCHANGED <<link, session>>
  <2>1. Tail(Rest) \in Seq(Phases) /\ NextFolder(Rest) \in Seq(Phases)
    BY <1>2, TailRemains, NextFolderRemains DEF Remains
  <2>2. CallTyped'
    BY <1>6, <2>1, ContinuesTyped, IdleTyped
  <2> QED BY <1>6, <2>2, SessionKept, LinkKept DEF CodeTyped
<1>7. CASE call' = IdleCall /\ session' = [session EXCEPT !.selected = Nowhere] /\ UNCHANGED link
  <2>1. SessionTyped'
    BY <1>7, SelectedTyped, PlaceFacts
  <2> QED BY <1>7, <2>1, IdleTyped, LinkKept DEF CodeTyped
<1>8. \/ /\ Skipped(Phase)
         /\ call' = [call EXCEPT !.todo = Rest, !.uids = IF Phase.do = "search" THEN {StoredAt[call.mail]} ELSE @]
         /\ session' = [session EXCEPT !.selected = IF Phase.do = "forget" THEN Nowhere ELSE @,
                                       !.ready = @ \/ Phase.do = "ready"]
         /\ UNCHANGED <<link, outcome>>
      \/ \E failure : Fails(failure)
      \/ (Continues(Tail(Rest)) \/ Continues(NextFolder(Rest)) \/ call' = IdleCall) /\ UNCHANGED <<link, session>>
      \/ call' = IdleCall /\ session' = [session EXCEPT !.selected = Nowhere] /\ UNCHANGED link
  <2>1. CASE Phase.do = "idle"
    BY <2>1 DEF Decide
  <2>2. CASE Phase.do = "look"
    BY <2>2 DEF Decide, Reports
  <2>3. CASE Phase.do = "plus" /\ call.op \in {"delete", "empty"}
    BY <2>3 DEF Decide, Reports
  <2>4. CASE Phase.do \notin {"idle", "look"} /\ ~(Phase.do = "plus" /\ call.op \in {"delete", "empty"})
    BY <2>4 DEF Decide
  <2> QED BY <2>1, <2>2, <2>3, <2>4
<1> QED BY <1>4, <1>5, <1>6, <1>7, <1>8

LEMMA TimeoutTyped ==
    ASSUME TypeOK, Connected, Aware, Timeout
    PROVE  TypeOK'
<1>1. call.tag # 0 /\ wire' = wire /\ Expired /\ UNCHANGED held
  BY DEF Timeout, Waiting
<1>2. call.todo # <<>>
  BY <1>1 DEF Connected, Shaped
<1>3. WireTyped'
  BY <1>1, ShorterTyped DEF Shorter
<1>4. CodeTyped'
  BY <1>1, <1>2, RepliesTyped, FailsTyped DEF Expired
<1> QED BY <1>1, <1>3, <1>4, HeldTyped, PartsTyped

LEMMA ReturnTyped ==
    ASSUME TypeOK, Return
    PROVE  TypeOK'
<1>1. Enough("ok", Outgoing) /\ wire' = wire /\ UNCHANGED held
  BY DEF Return
<1>2. WireTyped'
  BY <1>1, ShorterTyped DEF Shorter
<1> QED BY <1>1, <1>2, EnoughTyped, HeldTyped, PartsTyped

LEMMA ConnectTyped ==
    ASSUME TypeOK, Connected, Connect
    PROVE  TypeOK'
<1>1. wire' = wire /\ UNCHANGED held /\ call.todo # <<>>
  BY DEF Connect
<1>2. WireTyped'
  BY <1>1, ShorterTyped DEF Shorter
<1>3. CASE session' = [Closed EXCEPT !.up = TRUE] /\ srv' = [Listening EXCEPT !.up = TRUE] /\ Continues(Rest) /\ UNCHANGED late
  <2>1. Rest \in Seq(Phases)
    BY <1>1, TodoFacts
  <2>2. SessionTyped'
    BY <1>3, PlaceFacts DEF Closed, SessionTyped
  <2>3. LinkTyped'
    <3>1. <<>> \in Seq(Commands)
      OBVIOUS
    <3> QED BY <1>3, <3>1, PlaceFacts DEF Listening, LinkTyped, TypeOK
  <2> QED BY <1>1, <1>2, <1>3, <2>1, <2>2, <2>3, ContinuesTyped, HeldTyped, PartsTyped DEF CodeTyped
<1>4. CASE call' = IdleCall /\ Drops
  BY <1>1, <1>2, <1>4, IdleTyped, DropsTyped, HeldTyped, PartsTyped DEF CodeTyped
<1> QED BY <1>3, <1>4 DEF Connect, Reports

LEMMA SendTyped ==
    ASSUME TypeOK, Connected, Send
    PROVE  TypeOK'
<1>1. /\ Current' \in Commands /\ srv' = [srv EXCEPT !.queue = Append(@, Current')]
      /\ call' = [call EXCEPT !.tag = session.tag + 1] /\ session' = [session EXCEPT !.tag = session.tag + 1]
      /\ session.tag \in Nat
  BY SendsCommand
<1>2. wire' = wire /\ UNCHANGED held /\ late' = late
  BY DEF Send
<1> DEFINE cmd == Current'
<1>3. Append(srv.queue, cmd) \in Seq(Commands)
  BY <1>1, AppendFacts DEF TypeOK
<1> HIDE DEF cmd
<1>4. srv' = [srv EXCEPT !.queue = Append(srv.queue, cmd)]
  BY <1>1 DEF cmd
<1>5. LinkTyped'
  BY <1>2, <1>3, <1>4 DEF TypeOK, LinkTyped
<1> DEFINE tag == session.tag + 1
<1>9. tag \in Nat
  BY <1>1
<1>10. call' = [call EXCEPT !.tag = tag] /\ session' = [session EXCEPT !.tag = tag]
  BY <1>1
<1> HIDE DEF tag
<1>6. SessionTyped'
  BY <1>9, <1>10 DEF TypeOK, SessionTyped
<1>7. CallTyped'
  BY <1>9, <1>10 DEF TypeOK, Calls, CallTyped
<1>8. WireTyped'
  BY <1>2, ShorterTyped DEF Shorter
<1> QED BY <1>2, <1>5, <1>6, <1>7, <1>8, HeldTyped, PartsTyped DEF CodeTyped

LEMMA BeginTyped ==
    ASSUME TypeOK, Connected, NEW op \in Operations, NEW m \in Mails, NEW hints \in SUBSET Nat, Begin(op, m, hints)
    PROVE  TypeOK'
<1> DEFINE todo == (IF session.ready THEN <<>> ELSE Login) \o Program(op)
           mail == IF op = "append" THEN Outgoing ELSE m
<1>1. todo \in Seq(Phases)
  BY BeginShaped
<1>2. mail \in Mails \cup {Outgoing}
  OBVIOUS
<1> HIDE DEF todo, mail
<1>3. call' = [IdleCall EXCEPT !.op = op, !.mail = mail, !.uids = hints, !.todo = todo]
  BY DEF Begin, todo, mail
<1>4. UNCHANGED <<held, link, wire, session>>
  BY DEF Begin
<1>5. CallTyped'
  <2>1. <<>> \in Seq(Heard) /\ DOMAIN <<>> = {} /\ 0 \in Nat
    OBVIOUS
  <2> QED BY <1>1, <1>2, <1>3, <2>1 DEF IdleCall, Calls, CallTyped
<1>6. WireTyped'
  BY <1>4, ShorterTyped DEF Shorter
<1> QED BY <1>4, <1>5, <1>6, HeldTyped, LinkKept, SessionKept, PartsTyped DEF CodeTyped

LEMMA ServeTyped ==
    ASSUME TypeOK, Aware, Works
    PROVE  TypeOK'
<1>1. /\ First \in Commands /\ First.tag \in Nat /\ srv'.queue \in Seq(Commands)
      /\ late' = late /\ session' = session /\ call' = call
      /\ srv'.idling = 0 \/ (First.verb = "IDLE" /\ srv'.idling = First.tag)
  BY WorksFacts
<1>2. /\ wire' \in Seq(Heard) /\ \A i \in DOMAIN wire : i \in DOMAIN wire' /\ wire'[i] = wire[i]
      /\ \A i \in DOMAIN wire' : i \in DOMAIN wire \/ Line(wire'[i])
  BY WorksWire
<1>3. /\ srv'.open = Nowhere \/ srv'.open \in DOMAIN mbox'
      /\ mbox' = [f \in DOMAIN mbox' |-> mbox'[f]] /\ DOMAIN mbox' \subseteq Folders
      /\ \A f \in DOMAIN mbox' : mbox'[f] \in Seq(Kept)
  BY WorksMailbox
<1>4. offers' = offers
  <2>1. CASE Carries
    BY <2>1, WorksMailbox DEF Effect
  <2>2. CASE ~Carries
    BY <2>2, WorksMailbox
  <2> QED BY <2>1, <2>2
<1>5. MailTyped'
  BY <1>3, <1>4 DEF TypeOK, MailTyped
<1>6. WireTyped'
  <2>1. ASSUME NEW i \in DOMAIN wire' PROVE Plausible(wire'[i])
    <3>1. CASE i \in DOMAIN wire
      BY <1>2, <3>1 DEF TypeOK
    <3>2. CASE Line(wire'[i])
      BY <3>2 DEF Line
    <3> QED BY <1>2, <3>1, <3>2
  <2> QED BY <1>2, <2>1 DEF WireTyped
<1>7. LinkTyped'
  <2>1. srv'.open \in Folders
    BY <1>3, PlaceFacts
  <2>2. srv'.idling \in Nat
    BY <1>1
  <2>3. srv' = [srv EXCEPT !.queue = Tail(@), !.idling = srv'.idling, !.open = srv'.open]
    BY DEF Works, Taken
  <2> DEFINE open == srv'.open idling == srv'.idling queue == Tail(srv.queue)
  <2>4. queue \in Seq(Commands)
    BY <1>1, WorksFacts
  <2>5. srv' = [srv EXCEPT !.queue = queue, !.idling = idling, !.open = open]
    BY <2>3
  <2>6. open \in Folders /\ idling \in Nat
    BY <2>1, <2>2
  <2> HIDE DEF open, idling, queue
  <2> QED BY <1>1, <2>4, <2>5, <2>6 DEF TypeOK, LinkTyped
<1>8. SessionTyped' /\ CallTyped'
  BY <1>1 DEF TypeOK, SessionTyped, CallTyped
<1> QED BY <1>5, <1>6, <1>7, <1>8, PartsTyped DEF CodeTyped

LEMMA EventTyped ==
    ASSUME TypeOK, Event
    PROVE  TypeOK'
<1> DEFINE r == Row("EXISTS", {})
<1>1. wire' = <<r>> /\ UNCHANGED <<held, link, session, call>>
  BY DEF Event
<1>2. r \in Heard /\ Plausible(r)
  BY DEF Row, Heard, Plausible
<1> HIDE DEF r
<1>3. WireTyped'
  BY <1>1, <1>2 DEF WireTyped
<1>4. CallTyped'
  BY <1>1 DEF TypeOK, CallTyped
<1> QED BY <1>1, <1>3, <1>4, HeldTyped, LinkKept, SessionKept, PartsTyped DEF CodeTyped

LEMMA HangUpTyped ==
    ASSUME TypeOK, HangUp
    PROVE  TypeOK'
<1>1. srv' = [srv EXCEPT !.up = FALSE] /\ UNCHANGED <<held, wire, late, session, call>>
  BY DEF HangUp
<1>2. LinkTyped'
  BY <1>1 DEF TypeOK, LinkTyped
<1>3. CallTyped' /\ WireTyped'
  BY <1>1 DEF TypeOK, CallTyped, WireTyped
<1> QED BY <1>1, <1>2, <1>3, HeldTyped, SessionKept, PartsTyped DEF CodeTyped

LEMMA CarryOutTyped ==
    ASSUME TypeOK, Safe, NEW l \in late, CarryOut(l)
    PROVE  TypeOK'
<1>1. late' \subseteq late /\ UNCHANGED <<srv, wire, session, call>>
  BY DEF CarryOut
<1>2. l.cmd \in Commands
  BY DEF TypeOK
<1>3. l.open = Nowhere \/ l.open \in DOMAIN mbox
  BY DEF Safe, LateKept
<1>4. MailTyped'
  <2>1. CASE Accepts(l.cmd, l.open) /\ Effect(l.cmd, l.open)
    <3>1. /\ mbox' = [f \in DOMAIN mbox' |-> mbox'[f]] /\ DOMAIN mbox' \subseteq Folders
          /\ \A f \in DOMAIN mbox' : mbox'[f] \in Seq(Kept)
      BY <1>2, <1>3, <2>1, EffectFacts
    <3>2. offers' = offers
      BY <2>1 DEF Effect
    <3> QED BY <3>1, <3>2 DEF TypeOK, MailTyped
  <2>2. CASE UNCHANGED held
    BY <2>2, HeldTyped
  <2> QED BY <2>1, <2>2 DEF CarryOut
<1>5. LinkTyped' /\ SessionTyped' /\ CallTyped' /\ WireTyped'
  BY <1>1 DEF TypeOK, LinkTyped, SessionTyped, CallTyped, WireTyped
<1> QED BY <1>4, <1>5, PartsTyped DEF CodeTyped

LEMMA OtherClientTyped ==
    ASSUME TypeOK, Connected, Aware, Safe, NEW f \in DOMAIN mbox, NEW u \in DOMAIN mbox[f], OtherClient(f, u)
    PROVE  TypeOK'
<1>1. UNCHANGED <<offers, link, wire, session, call>>
  BY DEF OtherClient
<1>2. MailTyped'
  <2>1. /\ DOMAIN mbox' = DOMAIN mbox /\ mbox' = [g \in DOMAIN mbox' |-> mbox'[g]]
        /\ \A g \in DOMAIN mbox' : mbox'[g] \in Seq(Kept)
    BY OtherClientKeeps
  <2> QED BY <1>1, <2>1 DEF TypeOK, MailTyped
<1>3. SessionTyped' /\ CallTyped' /\ WireTyped'
  BY <1>1 DEF TypeOK, SessionTyped, CallTyped, WireTyped
<1> QED BY <1>1, <1>2, <1>3, LinkKept, PartsTyped DEF CodeTyped

-----------------------------------------------------------------------------
(* The invariant *)

LEMMA InitIInv ==
    ASSUME Init
    PROVE  IInv
<1>1. /\ srv = Listening /\ wire = <<>> /\ late = {} /\ session = Closed /\ call = IdleCall /\ outcome = NoOutcome
  BY DEF Init
<1>2. PICK server \in Servers : mbox = server.box /\ offers = server.offers
  BY DEF Init
<1>3. /\ mbox \in [DOMAIN mbox -> Seq(Mails)] /\ \A m \in Mails : \E f \in DOMAIN mbox : m \in ToSet(mbox[f])
  BY <1>2, ServersAssumption
<1>4. MailTyped
  <2>1. DOMAIN mbox \subseteq Folders
    BY <1>2 DEF Folders
  <2>2. offers \subseteq Values
    BY <1>2 DEF Values
  <2>3. ASSUME NEW f \in DOMAIN mbox PROVE mbox[f] \in Seq(Kept)
    <3>1. mbox[f] \in Seq(Mails) /\ Mails \subseteq Kept
      BY <1>3 DEF Kept
    <3> QED BY <3>1
  <2> QED BY <1>3, <2>1, <2>2, <2>3 DEF MailTyped
<1>5. <<>> \in Seq(Phases) /\ <<>> \in Seq(Heard) /\ <<>> \in Seq(Commands) /\ DOMAIN <<>> = {} /\ 0 \in Nat
  OBVIOUS
<1>6. LinkTyped /\ WireTyped
  BY <1>1, <1>5, PlaceFacts DEF LinkTyped, WireTyped, Listening
<1>7. SessionTyped
  BY <1>1, <1>5, PlaceFacts DEF SessionTyped, Closed
<1>8. CallTyped
  BY <1>1, <1>5 DEF CallTyped, Calls, IdleCall
<1>9. TypeOK
  BY <1>4, <1>6, <1>7, <1>8, TypeParts
<1>10. /\ call = IdleCall /\ call.op = "none" /\ call.tag = 0 /\ call.todo = <<>> /\ call.got = <<>>
       /\ call.op \notin Movers \cup Purges /\ call.op \notin Seekers
  BY <1>1 DEF IdleCall, Movers, Seekers, Purges
<1>11. /\ srv.open = Nowhere /\ srv.idling = 0 /\ srv.queue = <<>> /\ session.up = FALSE /\ session.ready = FALSE
       /\ session.tag = 0 /\ session.selected = Nowhere /\ outcome.result = "none"
  BY <1>1 DEF Listening, Closed, NoOutcome
<1>12. Shaped
  <2>1. Chained(call.op, call.todo) /\ Staged(call.op, call.todo)
    BY <1>10 DEF Chained, Staged
  <2> QED BY <1>1, <1>10, <1>11, <2>1 DEF Shaped
<1>13. ~Asking
  BY <1>10 DEF Asking
<1>14. Tagged /\ OneByOne /\ Drained
  BY <1>1, <1>5, <1>10, <1>11, <1>13 DEF Tagged, OneByOne, Drained
<1>15. Aware
  BY <1>1, <1>5, <1>10, <1>11 DEF Aware, Truthful, Selected, Aimed, Found
<1>16. PlacedWhenDone /\ LateKept /\ Reported
  BY <1>1, <1>10, <1>11 DEF PlacedWhenDone, LateKept, Reported, DoneIsDone
<1>17. \A f, u : ~Doomed(f, u)
  BY <1>1, <1>10 DEF Doomed, Copied
<1>18. Spared
  <2> SUFFICES ASSUME NEW m \in Mails PROVE \E f \in DOMAIN mbox : \E u \in Here(f, m) : ~Doomed(f, u)
    BY DEF Spared
  <2>1. PICK f \in DOMAIN mbox : m \in ToSet(mbox[f])
    BY <1>3
  <2>2. PICK u \in DOMAIN mbox[f] : mbox[f][u] = m
    BY <2>1 DEF ToSet
  <2> QED BY <1>17, <2>2 DEF Here
<1> QED BY <1>9, <1>12, <1>14, <1>15, <1>16, <1>18 DEF IInv, Connected, Safe

LEMMA HintsNumbers == \A hints \in Hints : hints \in SUBSET Nat
<1>1. \A u \in 1..Cardinality(Mails) : u \in Nat
  OBVIOUS
<1> QED BY <1>1 DEF Hints

LEMMA NextIInv ==
    ASSUME LocalIds = {}, IInv, Next
    PROVE  IInv'
<1> USE DEF IInv
<1>1. ASSUME NEW op \in Ops, NEW m \in Subjects, NEW hints \in Hints, Begin(op, m, hints) PROVE IInv'
  <2>1. op \in Operations /\ m \in Mails /\ hints \in SUBSET Nat
    BY HintsNumbers, SessionAssumption
  <2> QED BY <1>1, <2>1, BeginKeeps, BeginTyped
<1>2. CASE Decide
  BY <1>2, DecideProceeds, ProceedsKeeps, DecideTyped
<1>3. CASE Return
  BY <1>3, ReturnEnds, ReturnTyped, ProceedsKeeps DEF Proceeds
<1>4. CASE Connect
  BY <1>4, ConnectKeeps, ConnectTyped
<1>5. CASE Send
  BY <1>5, SendConnected, SendAware, SendSafe, SendTyped
<1>6. CASE Read
  BY <1>6, ReadProceeds, ProceedsKeeps, ReadTyped
<1>7. CASE Timeout
  BY <1>7, TimeoutProceeds, ProceedsKeeps, TimeoutTyped
<1>8. CASE Serve
  BY <1>8, ServeKeeps, ServeTyped
<1>9. CASE Event
  BY <1>9, EventKeeps, EventTyped
<1>10. CASE HangUp
  BY <1>10, HangUpKeeps, HangUpTyped
<1>11. ASSUME NEW l \in late, CarryOut(l) PROVE IInv'
  BY <1>11, CarryOutKeeps, CarryOutTyped
<1>12. ASSUME NEW f \in DOMAIN mbox, NEW u \in DOMAIN mbox[f], OtherClient(f, u) PROVE IInv'
  BY <1>12, OtherClientKeeps, OtherClientTyped
<1> QED BY <1>1, <1>2, <1>3, <1>4, <1>5, <1>6, <1>7, <1>8, <1>9, <1>10, <1>11, <1>12 DEF Next

LEMMA StutterIInv ==
    ASSUME IInv, UNCHANGED vars
    PROVE  IInv'
<1>1. /\ srv' = srv /\ wire' = wire /\ late' = late /\ session' = session /\ call' = call /\ outcome' = outcome
      /\ mbox' = mbox /\ offers' = offers /\ forgone' = forgone /\ overtaken' = overtaken
  BY DEF vars, held, link
<1>2. Disturbs
  BY <1>1 DEF Disturbs, Grows
<1>3. Spared'
  <2>1. \A f, u : Doomed(f, u)' => Doomed(f, u)
    BY <1>2, DisturbsDoomed
  <2> QED BY <1>1, <2>1 DEF IInv, Safe, Spared, Here
<1>4. TypeOK'
  BY <1>1 DEF IInv, TypeOK, Plausible
<1> QED BY <1>2, <1>3, <1>4, DisturbsKeeps DEF IInv

-----------------------------------------------------------------------------
(* What leaves a folder *)

\* A command that takes mail out of a folder names UIDs that held the mail it was sent
\* for, or it empties the Trash.
TakesItsMail(cmd, f) ==
    cmd.verb \in {"MOVE", "EXPUNGE"} =>
        (cmd.op = "empty" /\ f = "Trash") \/ \A u \in cmd.uids : Hit(f, u, cmd.mail)

\* So do the commands of dropped connections, and faults are counted.
LateAimed == faults \in Nat /\ \A l \in late : TakesItsMail(l.cmd, l.open)

\* The server still holds what it held, and what was on its way when a connection is dropped.
LeavesBehind == late' \subseteq late \cup {[open |-> srv.open, cmd |-> cmd] : cmd \in ToSet(srv.queue)}

\* What a step takes out of a folder.
Leaving == \A f \in DOMAIN mbox : \A u \in DOMAIN mbox[f] :
              (mbox[f][u] # Gone /\ mbox'[f][u] = Gone /\ faults' = faults)
                 => mbox[f][u] \in Asked \/ Emptying(f)

LEMMA PendingTakes ==
    ASSUME TypeOK, Connected, Aware, NEW i \in DOMAIN srv.queue
    PROVE  TakesItsMail(srv.queue[i], srv.open)
<1> DEFINE cmd == srv.queue[i]
<1> SUFFICES ASSUME cmd.verb \in {"MOVE", "EXPUNGE"}
             PROVE  (cmd.op = "empty" /\ srv.open = "Trash") \/ \A u \in cmd.uids : Hit(srv.open, u, cmd.mail)
  BY DEF TakesItsMail
<1>1. /\ cmd = Current /\ Phase.do \in Modifying /\ call.todo # <<>> /\ Verb(Phase.do) = cmd.verb
  BY PendingWrite DEF Writes
<1>2. cmd.op = call.op /\ cmd.uids = call.uids /\ cmd.mail = call.mail
  BY <1>1 DEF Current
<1> HIDE DEF cmd
<1>3. call.op \in Movers \cup Purges /\ ~Has(call.todo, Selecting)
  BY <1>1, ModifyingChosen
<1>4. Found => \A u \in cmd.uids : Hit(srv.open, u, cmd.mail)
  BY <1>2 DEF Aware, Aimed
<1>5. CASE call.op \in Movers
  BY <1>1, <1>4, <1>5, ModifyingFound
<1>6. CASE call.op \in Purges
  <2>1. /\ call.todo \in Seq(Phases) /\ Chained(call.op, call.todo) /\ Fits(call.op, Phase)
        /\ \A dos : Has(call.todo, dos) <=> Phase.do \in dos \/ Has(Rest, dos)
    BY <1>1, TodoFacts
  <2>2. Phase.do \in {"flag", "expunge"}
    BY <1>1, <1>6, <2>1 DEF Fits, Modifying, Purges, Entering, Finding, Ending
  <2>3. CASE call.op = "empty"
    <3>1. cmd.verb = "EXPUNGE"
      BY <1>1, <2>2 DEF Verb
    <3>2. srv.open = "Trash"
      BY <1>6, <3>1, PendingExpunge DEF cmd
    <3> QED BY <1>2, <2>3, <3>2
  <2>4. CASE call.op = "delete"
    <3>1. \A k \in DOMAIN Rest : Rest[k].do \in Ending
      BY <1>1, <1>6, <2>1, <2>2, HeadFacts DEF Rest, Phase
    <3>2. ~Has(call.todo, Finding)
      BY <2>1, <2>2, <3>1, EndingHas DEF Finding
    <3>3. Found
      BY <1>3, <2>4, <3>2, HasSplit DEF Found, Seekers
    <3> QED BY <1>4, <3>3
  <2> QED BY <1>6, <2>3, <2>4 DEF Purges
<1> QED BY <1>3, <1>5, <1>6

\* A command that works in a folder takes out of it what it was sent for.
LEMMA TakesLeaves ==
    ASSUME NEW cmd, NEW open, Takes(cmd, open), TakesItsMail(cmd, open),
           cmd \in ToSet(srv.queue) \/ \E l \in late : l.cmd = cmd
    PROVE  Leaving
<1> SUFFICES ASSUME NEW f \in DOMAIN mbox, NEW u \in DOMAIN mbox[f], mbox[f][u] # Gone, mbox'[f][u] = Gone
             PROVE  mbox[f][u] \in Asked \/ Emptying(f)
  BY DEF Leaving
<1>1. cmd.verb \in {"MOVE", "EXPUNGE"} /\ f = open /\ u \in cmd.uids
  BY DEF Takes
<1>2. CASE cmd.op = "empty" /\ f = "Trash"
  BY <1>2 DEF Emptying
<1>3. CASE mbox[f][u] = cmd.mail
  BY <1>1, <1>3 DEF Asked, Writes
<1> QED BY <1>1, <1>2, <1>3 DEF TakesItsMail, Hit

LEMMA QuietLeaves ==
    ASSUME mbox' = mbox
    PROVE  Grows /\ Leaving
  BY DEF Grows, Leaving

LEMMA ProceedsLeaves ==
    ASSUME Proceeds
    PROVE  mbox' = mbox /\ LeavesBehind
<1>1. CASE Cuts
  BY <1>1 DEF Cuts, Drops, held, LeavesBehind
<1>2. CASE UNCHANGED <<held, late>>
  BY <1>2 DEF held, LeavesBehind
<1> QED BY <1>1, <1>2 DEF Proceeds, Ends, Advances, Listens, Turns

LEMMA FaultsCounted ==
    ASSUME faults \in Nat, Next
    PROVE  faults' \in Nat
<1>1. ASSUME Serve PROVE faults' \in {faults, faults + 1}
  BY <1>1 DEF Serve, Said, Fault
<1>2. CASE Connect
  BY <1>2 DEF Connect, Fault
<1>3. CASE HangUp
  BY <1>3 DEF HangUp, Fault
<1>4. CASE \E f \in DOMAIN mbox : \E u \in DOMAIN mbox[f] : OtherClient(f, u)
  BY <1>4 DEF OtherClient, Fault
<1>5. ASSUME Decide \/ Return \/ Send \/ Read \/ Timeout \/ Event PROVE faults' = faults
  BY <1>5 DEF Decide, Return, Send, Read, Timeout, Event
<1>6. ASSUME NEW op \in Ops, NEW m \in Subjects, NEW hints \in Hints, Begin(op, m, hints) PROVE faults' = faults
  BY <1>6 DEF Begin
<1>7. ASSUME NEW l \in late, CarryOut(l) PROVE faults' = faults
  BY <1>7 DEF CarryOut
<1> QED BY <1>1, <1>2, <1>3, <1>4, <1>5, <1>6, <1>7 DEF Next

LEMMA NextLeaves ==
    ASSUME LocalIds = {}, IInv, LateAimed, Next
    PROVE  Grows /\ LeavesBehind /\ Leaving
<1> USE DEF IInv
<1>1. ASSUME NEW op \in Ops, NEW m \in Subjects, NEW hints \in Hints, Begin(op, m, hints)
      PROVE  mbox' = mbox /\ LeavesBehind
  BY <1>1 DEF Begin, held, link, LeavesBehind
<1>2. CASE Decide \/ Return \/ Read \/ Timeout
  <2>1. Proceeds
    BY <1>2, DecideProceeds, ReturnEnds, ReadProceeds, TimeoutProceeds DEF Proceeds
  <2> QED BY <2>1, ProceedsLeaves, QuietLeaves
<1>3. ASSUME Connect PROVE mbox' = mbox /\ LeavesBehind
  BY <1>3 DEF Connect, Drops, held, LeavesBehind
<1>4. ASSUME Send \/ Event \/ HangUp PROVE mbox' = mbox /\ LeavesBehind
  BY <1>4 DEF Send, Event, HangUp, held, link, LeavesBehind
<1>5. CASE Serve
  <2>1. Works
    BY <1>5, ServeKeeps
  <2>2. Grows /\ Takes(First, srv.open) /\ late' = late /\ 1 \in DOMAIN srv.queue /\ First = srv.queue[1]
    BY <2>1, WorksFacts, WorksMailbox
  <2>3. TakesItsMail(First, srv.open) /\ First \in ToSet(srv.queue)
    BY <2>2, PendingTakes DEF ToSet
  <2>4. Leaving
    BY <2>2, <2>3, TakesLeaves
  <2> QED BY <2>2, <2>4 DEF LeavesBehind
<1>6. ASSUME NEW l \in late, CarryOut(l)
      PROVE  Grows /\ LeavesBehind /\ Leaving
  <2>1. LeavesBehind
    BY <1>6 DEF CarryOut, LeavesBehind
  <2>2. CASE UNCHANGED held
    <3>1. mbox' = mbox
      BY <2>2 DEF held
    <3> QED BY <2>1, <3>1, QuietLeaves
  <2>3. CASE Accepts(l.cmd, l.open) /\ Effect(l.cmd, l.open)
    <3>1. l.cmd \in Commands /\ (l.open = Nowhere \/ l.open \in DOMAIN mbox)
      BY DEF TypeOK, Safe, LateKept
    <3>2. Grows /\ Takes(l.cmd, l.open)
      BY <2>3, <3>1, EffectFacts
    <3>3. Leaving
      BY <3>2, TakesLeaves DEF LateAimed
    <3> QED BY <2>1, <3>2, <3>3
  <2> QED BY <1>6, <2>2, <2>3 DEF CarryOut
<1>7. ASSUME NEW f \in DOMAIN mbox, NEW u \in DOMAIN mbox[f], OtherClient(f, u)
      PROVE  Grows /\ LeavesBehind /\ Leaving
  <2>1. late' = late /\ faults' # faults
    BY <1>7 DEF OtherClient, Fault, link, LateAimed
  <2>2. Grows
    BY <1>7, OtherClientKeeps
  <2> QED BY <2>1, <2>2 DEF LeavesBehind, Leaving
<1> QED BY <1>1, <1>2, <1>3, <1>4, <1>5, <1>6, <1>7, QuietLeaves DEF Next

LEMMA LateAimedKept ==
    ASSUME IInv, LateAimed, Grows, LeavesBehind, faults' \in Nat
    PROVE  LateAimed'
<1>1. \A cmd, f : TakesItsMail(cmd, f) => TakesItsMail(cmd, f)'
  BY DEF Grows, TakesItsMail, Hit
<1>2. ASSUME NEW l \in late' PROVE TakesItsMail(l.cmd, l.open)
  <2>1. CASE l \in late
    BY <2>1 DEF LateAimed
  <2>2. CASE l \notin late
    <3>1. PICK cmd \in ToSet(srv.queue) : l = [open |-> srv.open, cmd |-> cmd]
      BY <2>2 DEF LeavesBehind
    <3>2. PICK i \in DOMAIN srv.queue : cmd = srv.queue[i]
      BY <3>1 DEF ToSet
    <3> QED BY <3>1, <3>2, PendingTakes DEF IInv
  <2> QED BY <2>1, <2>2
<1> QED BY <1>1, <1>2 DEF LateAimed

-----------------------------------------------------------------------------
(* What is shown *)

\* A call that reads a mail selects a folder, searches it and only then fetches.
Follows(p, q) ==
    /\ q.do # "scan"
    /\ q.do = "search" => p.do \in {"inbox", "look"} /\ p.in # Nowhere
    /\ q.do = "body" => p.do \in Finding

Reading(op, todo) ==
    /\ op # "raw" => ~Has(todo, {"hint", "body"})
    /\ op = "raw" => /\ ~Has(todo, {"idle", "all"})
                     /\ \A i, j \in DOMAIN todo : j = i + 1 => Follows(todo[i], todo[j])

\* What the lines of an answer say of the mail that is read.
Bears(r) ==
    call.op = "raw" /\ call.tag # 0 =>
        /\ Phase.do = "search" /\ r.of = "SEARCH" => \A u \in r.data : Hit(srv.open, u, call.mail)
        /\ Phase.do = "scan" /\ r.of = "FETCH" => \A row \in r.data : Hit(srv.open, row[1], row[2])
        /\ Phase.do = "body" /\ r.of = "BODY" => r.data \subseteq {call.mail}

Looking == {"search", "scan", "body"}

\* From the search on the folder stays open, no answer to an earlier command is left, and
\* the UIDs are the mail's.
Sought ==
    call.op = "raw" /\ call.todo # <<>> =>
        /\ Phase.do \in Looking => session.selected # Nowhere
        /\ Phase.do \in {"scan", "body"} /\ call.tag = 0 => wire = <<>> /\ Blank
        /\ Phase.do = "body" => \A u \in call.uids : Hit(srv.open, u, call.mail)

Shown ==
    /\ Reading(call.op, call.todo)
    /\ Sought
    /\ \A i \in DOMAIN wire : Bears(wire[i])
    /\ \A i \in DOMAIN call.got : Bears(call.got[i])
    /\ ServesItsMail

LEMMA ReadingRest ==
    ASSUME NEW op, NEW s \in Seq(Phases), s # <<>>, Reading(op, s)
    PROVE  /\ Reading(op, Tail(s))
           /\ op = "raw" => /\ Head(s).do \notin {"idle", "all"}
                            /\ Tail(s) # <<>> => Follows(Head(s), Head(Tail(s)))
           /\ op # "raw" => Head(s).do \notin {"hint", "body"}
<1>1. /\ Tail(s) \in Seq(Phases) /\ Head(s) = s[1] /\ 1 \in DOMAIN s
      /\ \A i \in DOMAIN Tail(s) : i + 1 \in DOMAIN s /\ Tail(s)[i] = s[i + 1]
  BY TailFacts
<1>2. \A i, j \in DOMAIN Tail(s) : j = i + 1 => j + 1 = (i + 1) + 1
  OBVIOUS
<1>3. \A dos : Has(s, dos) <=> Head(s).do \in dos \/ Has(Tail(s), dos)
  BY RestHas
<1>4. Reading(op, Tail(s))
  BY <1>1, <1>2, <1>3 DEF Reading
<1>5. ASSUME op = "raw", Tail(s) # <<>> PROVE Follows(Head(s), Head(Tail(s)))
  <2>1. Head(Tail(s)) = Tail(s)[1] /\ 1 \in DOMAIN Tail(s)
    BY <1>1, <1>5, TailFacts
  <2>2. Head(Tail(s)) = s[2] /\ 2 \in DOMAIN s /\ 2 = 1 + 1
    BY <1>1, <2>1
  <2> QED BY <1>1, <1>5, <2>2 DEF Reading
<1> QED BY <1>3, <1>4, <1>5 DEF Reading

LEMMA ReadingSuffix ==
    ASSUME NEW op, NEW s \in Seq(Phases), Reading(op, s)
    PROVE  /\ NextFolder(s) \in Seq(Phases) /\ Reading(op, NextFolder(s))
           /\ NextFolder(s) # <<>> => Head(NextFolder(s)).do \in {"list", "look"}
<1> DEFINE at == {i \in DOMAIN s : s[i].do \in {"list", "look"}}
<1>1. CASE at = {}
  <2>1. NextFolder(s) = <<>>
    BY <1>1 DEF NextFolder
  <2>2. <<>> \in Seq(Phases) /\ DOMAIN <<>> = {}
    OBVIOUS
  <2> QED BY <2>1, <2>2 DEF Reading, Has
<1>2. CASE at # {}
  <2>1. at \subseteq 1..Len(s) /\ at \subseteq Nat /\ Len(s) \in Nat
    OBVIOUS
  <2>2. \A i \in at : s[i].do \in {"list", "look"}
    OBVIOUS
  <2> DEFINE k == Min(at)
  <2>3. k \in at
    BY <1>2, <2>1, MinIn
  <2>4. NextFolder(s) = SubSeq(s, k, Len(s))
    BY <1>2 DEF NextFolder
  <2>5. k \in 1..Len(s) /\ s[k].do \in {"list", "look"}
    BY <2>1, <2>2, <2>3
  <2> HIDE DEF k, at
  <2> DEFINE t == SubSeq(s, k, Len(s))
  <2>10. /\ t \in Seq(Phases) /\ Len(t) = Len(s) - k + 1
         /\ \A i \in DOMAIN t : i \in Nat /\ i + k - 1 \in DOMAIN s /\ t[i] = s[i + k - 1]
    BY <2>5
  <2> HIDE DEF t
  <2>11. Len(t) >= 1
    BY <2>1, <2>5, <2>10
  <2>12. 1 \in DOMAIN t /\ t # <<>> /\ Head(t) = t[1]
    BY <2>10, <2>11
  <2>13. 1 + k - 1 = k
    BY <2>5
  <2>6. /\ t \in Seq(Phases) /\ t # <<>> /\ Head(t) = s[k]
        /\ \A i \in DOMAIN t : i \in Nat /\ i + k - 1 \in DOMAIN s /\ t[i] = s[i + k - 1]
    BY <2>10, <2>12, <2>13
  <2>7. \A dos : Has(t, dos) => Has(s, dos)
    BY <2>6 DEF Has
  <2>8. \A i, j \in DOMAIN t : j = i + 1 => j + k - 1 = (i + k - 1) + 1
    BY <2>5, <2>6
  <2>9. Reading(op, t)
    BY <2>6, <2>7, <2>8 DEF Reading
  <2> QED BY <2>4, <2>5, <2>6, <2>9 DEF t
<1> QED BY <1>1, <1>2

LEMMA ReadingConcat ==
    ASSUME NEW op, NEW s \in Seq(Phases), NEW t \in Seq(Phases), Reading(op, s), Reading(op, t),
           op = "raw" /\ s # <<>> /\ t # <<>> => Follows(s[Len(s)], Head(t))
    PROVE  s \o t \in Seq(Phases) /\ Reading(op, s \o t)
<1>1. /\ s \o t \in Seq(Phases) /\ Len(s) \in Nat
      /\ \A i \in DOMAIN (s \o t) : i \in Nat /\ IF i <= Len(s) THEN i \in DOMAIN s /\ (s \o t)[i] = s[i]
                                                 ELSE i - Len(s) \in DOMAIN t /\ (s \o t)[i] = t[i - Len(s)]
  BY ConcatFacts
<1>2. \A dos : Has(s \o t, dos) <=> Has(s, dos) \/ Has(t, dos)
  BY ConcatHas
<1>3. ASSUME op = "raw", NEW i \in DOMAIN (s \o t), NEW j \in DOMAIN (s \o t), j = i + 1
      PROVE  Follows((s \o t)[i], (s \o t)[j])
  <2>1. CASE j <= Len(s)
    <3>1. i <= Len(s)
      BY <1>1, <1>3, <2>1
    <3>2. i \in DOMAIN s /\ j \in DOMAIN s /\ (s \o t)[i] = s[i] /\ (s \o t)[j] = s[j]
      BY <1>1, <2>1, <3>1
    <3> QED BY <1>3, <3>2 DEF Reading
  <2>2. CASE i = Len(s)
    <3>1. i <= Len(s) /\ ~(j <= Len(s)) /\ j - Len(s) = 1
      BY <1>1, <1>3, <2>2
    <3>2. i \in DOMAIN s /\ (s \o t)[i] = s[i] /\ 1 \in DOMAIN t /\ (s \o t)[j] = t[1]
      BY <1>1, <3>1
    <3>3. s # <<>> /\ t # <<>> /\ Head(t) = t[1]
      BY <3>2, TailFacts
    <3> QED BY <1>3, <2>2, <3>2, <3>3
  <2>3. CASE ~(i <= Len(s))
    <3>1. ~(j <= Len(s)) /\ j - Len(s) = (i - Len(s)) + 1
      BY <1>1, <1>3, <2>3
    <3>2. /\ i - Len(s) \in DOMAIN t /\ (s \o t)[i] = t[i - Len(s)]
          /\ j - Len(s) \in DOMAIN t /\ (s \o t)[j] = t[j - Len(s)]
      BY <1>1, <2>3, <3>1
    <3> QED BY <1>3, <3>1, <3>2 DEF Reading
  <2> QED BY <1>1, <1>3, <2>1, <2>2, <2>3
<1> QED BY <1>1, <1>2, <1>3 DEF Reading

LEMMA ReadingCons ==
    ASSUME NEW op, NEW p \in Phases, NEW t \in Seq(Phases), Reading(op, t), p.do \notin {"hint", "body", "idle", "all"},
           op = "raw" /\ t # <<>> => Follows(p, Head(t))
    PROVE  /\ <<p>> \o t \in Seq(Phases) /\ Reading(op, <<p>> \o t)
           /\ Head(<<p>> \o t) = p /\ Tail(<<p>> \o t) = t /\ <<p>> \o t # <<>>
<1>1. <<p>> \in Seq(Phases) /\ Len(<<p>>) = 1 /\ <<p>>[1] = p /\ DOMAIN <<p>> = {1}
  OBVIOUS
<1>2. Reading(op, <<p>>)
  BY <1>1 DEF Reading, Has
<1>3. Head(<<p>> \o t) = p /\ Tail(<<p>> \o t) = t /\ <<p>> \o t # <<>>
  OBVIOUS
<1> QED BY <1>1, <1>2, <1>3, ReadingConcat

\* Phases that fetch no mail.
Wordless(s) == s \in Seq(Phases) /\ ~Has(s, {"hint", "body"})

LEMMA WordlessConcat ==
    ASSUME NEW s, NEW t, Wordless(s), Wordless(t)
    PROVE  Wordless(s \o t)
<1>1. s \in Seq(Phases) /\ t \in Seq(Phases)
  BY DEF Wordless
<1> QED BY <1>1, ConcatFacts, ConcatHas DEF Wordless

LEMMA WordlessPrograms ==
    ASSUME NEW op \in Operations \ {"raw"}
    PROVE  Wordless(Program(op))
<1> USE DEF P, Phases, Dos, Places, Nowhere, INBOX, Has
<1>1. Wordless(Forget) /\ \A f \in {"Archive", "Trash", "Sent"} : Wordless(Role(f))
  BY DEF Forget, Role, Wordless
<1>2. /\ \A f \in {INBOX, "Archive", "Trash"} : Wordless(MembersOf(f))
      /\ \A f \in {INBOX, "Archive", "Trash", "Work"} : Wordless(Moves(f))
  BY DEF MembersOf, Moves, Wordless
<1>3. /\ Wordless(<<P("caps", Nowhere), P("relist", Nowhere), P("create", "Archive"), P("select", INBOX)>>)
      /\ Wordless(<<P("caps", Nowhere), P("relist", Nowhere), P("create", "Archive")>>)
      /\ Wordless(<<P("list", Nowhere)>>) /\ Wordless(<<P("relist", Nowhere)>>)
      /\ Wordless(<<P("inbox", INBOX), P("search", Nowhere), P("seen", Nowhere)>>)
  BY DEF Wordless
<1>4. /\ Wordless(<<P("inbox", INBOX)>>) /\ Wordless(<<P("select", "Archive")>>)
      /\ Wordless(<<P("append", "Sent")>>) /\ Wordless(<<P("peek", "Sent"), P("headers", Nowhere)>>)
  BY DEF Wordless
<1>5. Wordless(<<P("select", INBOX), P("caps", Nowhere), P("idle", Nowhere), P("select", INBOX), P("headers", Nowhere)>>)
  BY DEF Wordless
<1>6. Wordless(<<P("select", "Trash"), P("search", Nowhere), P("caps", Nowhere),
                 P("plus", Nowhere), P("flag", Nowhere), P("expunge", Nowhere)>>)
  BY DEF Wordless
<1>7. Wordless(<<P("select", "Trash"), P("caps", Nowhere), P("plus", Nowhere),
                 P("all", Nowhere), P("flag", Nowhere), P("expunge", Nowhere)>>)
  BY DEF Wordless
<1>8. Wordless(<<P("select", "Trash")>>)
  BY DEF Wordless
<1> HIDE DEF P, Phases, Dos, Places, Nowhere, INBOX, Has
<1>9. CASE op \in {"probe", "pull", "seen", "folders"}
  BY <1>3, <1>5, <1>9 DEF Program
<1>10. CASE op \in {"negotiate", "members"}
  BY <1>1, <1>2, <1>3, <1>10, WordlessConcat DEF Program
<1>11. CASE op \in {"archive", "trash", "file"}
  BY <1>1, <1>2, <1>4, <1>11, WordlessConcat DEF Program
<1>12. CASE op \in {"unarchive", "restore"}
  BY <1>1, <1>2, <1>4, <1>8, <1>12, WordlessConcat DEF Program
<1>13. CASE op \in {"delete", "empty"}
  BY <1>1, <1>6, <1>7, <1>13, WordlessConcat DEF Program
<1>14. CASE op \in {"append", "sent"}
  BY <1>1, <1>4, <1>14, WordlessConcat DEF Program
<1> QED BY <1>9, <1>10, <1>11, <1>12, <1>13, <1>14 DEF Operations

LEMMA ReadingProgram ==
    Program("raw") \in Seq(Phases) /\ Reading("raw", Program("raw")) /\ Head(Program("raw")).do = "inbox" /\ Program("raw") # <<>>
<1> DEFINE a == <<P("inbox", INBOX), P("hint", Nowhere), P("inbox", INBOX), P("search", Nowhere), P("body", Nowhere), P("list", Nowhere)>>
           b == ReadsIn("Archive")
           c == ReadsIn("Trash")
<1>1. /\ a \in Seq(Phases) /\ b \in Seq(Phases) /\ c \in Seq(Phases)
      /\ a # <<>> /\ Head(a).do = "inbox" /\ Head(b).do = "look" /\ Head(c).do = "look"
  BY DEF ReadsIn, P, Phases, Dos, Places, Nowhere, INBOX
<1>2. Reading("raw", a)
  BY DEF Reading, Follows, Has, P, Nowhere, INBOX, Finding
<1>3. Reading("raw", b) /\ Reading("raw", c)
  BY DEF Reading, Follows, Has, ReadsIn, P, Nowhere, Finding
<1>4. Program("raw") = (a \o b) \o c
  BY DEF Program
<1> HIDE DEF a, b, c
<1>5. \A p : Follows(p, Head(b)) /\ Follows(p, Head(c))
  BY <1>1 DEF Follows
<1>6. a \o b \in Seq(Phases) /\ Reading("raw", a \o b)
  BY <1>1, <1>2, <1>3, <1>5, ReadingConcat
<1>7. (a \o b) \o c \in Seq(Phases) /\ Reading("raw", (a \o b) \o c)
  BY <1>1, <1>3, <1>5, <1>6, ReadingConcat
<1>8. \A s, t \in Seq(Phases) : s # <<>> => s \o t # <<>> /\ Head(s \o t) = Head(s)
  OBVIOUS
<1>9. a \o b # <<>> /\ Head(a \o b) = Head(a)
  BY <1>1, <1>8
<1>10. (a \o b) \o c # <<>> /\ Head((a \o b) \o c) = Head(a)
  BY <1>1, <1>6, <1>8, <1>9
<1> QED BY <1>1, <1>4, <1>7, <1>10

\* The list a call starts with.
LEMMA BeginReading ==
    ASSUME NEW op \in Operations, NEW s, s = (IF session.ready THEN <<>> ELSE Login) \o Program(op)
    PROVE  Reading(op, s) /\ (op = "raw" => Head(s).do \notin Looking)
<1>1. Login \in Seq(Phases) /\ Login # <<>> /\ Head(Login).do = "connect"
  BY DEF Login, P, Phases, Dos, Places, Nowhere
<1>2. \A i \in DOMAIN Login : Login[i].do \in Entering \cup {"ready"}
  BY DEF Login, P, Entering
<1>3. Reading(op, Login)
  <2>1. ~Has(Login, {"hint", "body"}) /\ ~Has(Login, {"idle", "all"})
    BY <1>2 DEF Has, Entering
  <2>2. \A i, j \in DOMAIN Login : Follows(Login[i], Login[j])
    BY <1>2 DEF Follows, Entering
  <2> QED BY <2>1, <2>2 DEF Reading
<1>4. Program(op) \in Seq(Phases) /\ Reading(op, Program(op)) /\ (op = "raw" => Program(op) # <<>> /\ Head(Program(op)).do = "inbox")
  BY ReadingProgram, WordlessPrograms DEF Wordless, Reading
<1> HIDE DEF Login
<1>5. <<>> \o Program(op) = Program(op)
  BY <1>4
<1>6. Head(Login \o Program(op)) = Head(Login)
  BY <1>1, <1>4
<1>7. op = "raw" => Follows(Login[Len(Login)], Head(Program(op)))
  BY <1>4 DEF Follows
<1>8. Reading(op, Login \o Program(op))
  BY <1>1, <1>3, <1>4, <1>7, ReadingConcat
<1>9. CASE session.ready
  BY <1>4, <1>5, <1>9 DEF Looking
<1>10. CASE ~session.ready
  BY <1>1, <1>6, <1>8, <1>10 DEF Looking
<1> QED BY <1>9, <1>10

\* What a call does about a failure that it answers itself.
LEMMA RecoveryReading ==
    ASSUME TypeOK, Connected, call.todo # <<>>, Reading(call.op, call.todo), NEW kind, NEW t \in Recovery(kind)
    PROVE  Reading(call.op, t) /\ (call.op = "raw" /\ t # <<>> => Head(t).do \notin Looking)
<1>1. /\ Rest \in Seq(Phases) /\ Fits(call.op, Phase) /\ Chained(call.op, Rest)
      /\ call.op # "none" /\ call.todo \in Seq(Phases) /\ Phase \in Phases /\ Phase.in \in Places
  BY TodoFacts DEF Phases
<1>2. /\ Reading(call.op, Rest)
      /\ call.op = "raw" /\ Rest # <<>> => Follows(Phase, Head(Rest))
  BY <1>1, ReadingRest DEF Rest, Phase
<1>3. P("login", Nowhere) \in Phases /\ \A f \in Places : P("make", f) \in Phases /\ P("recopy", f) \in Phases
  BY DEF P, Phases, Dos, Places
<1>4. CASE ~session.ready
  <2>1. Phase.do = "auth" /\ t = <<P("login", Nowhere)>> \o Rest
    BY <1>4 DEF Recovery
  <2>2. P("login", Nowhere).do = "login"
    BY DEF P
  <2>3. call.op = "raw" /\ Rest # <<>> => Follows(P("login", Nowhere), Head(Rest))
    BY <1>2, <2>1 DEF Follows, Finding
  <2> QED BY <1>1, <1>2, <1>3, <2>1, <2>2, <2>3, ReadingCons DEF Looking
<1>5. CASE session.ready /\ call.op = "raw"
  <2>1. Phase.do \notin {"move", "copy"}
    BY <1>1, <1>5 DEF Fits, Movers, Purges, Modifying
  <2>2. Rest # <<>> => Head(Rest).do # "move"
    <3>1. Rest # <<>> => Fits(call.op, Head(Rest))
      BY <1>1, RestChained
    <3> QED BY <1>5, <3>1 DEF Fits, Movers, Purges, Modifying
  <2>3. \/ Phase.do \in {"create", "idle", "wait", "done", "hint"} /\ t = Rest
        \/ t = NextFolder(Rest)
    BY <1>5, <2>1, <2>2 DEF Recovery
  <2>4. CASE Phase.do \in {"create", "idle", "wait", "done", "hint"} /\ t = Rest
    BY <1>2, <2>4 DEF Follows, Finding, Looking
  <2>5. CASE t = NextFolder(Rest)
    BY <1>1, <1>2, <2>5, ReadingSuffix DEF Looking
  <2> QED BY <2>3, <2>4, <2>5
<1>6. CASE session.ready /\ call.op # "raw"
  <2>1. Rest # <<>> => /\ Tail(Rest) \in Seq(Phases) /\ Reading(call.op, Tail(Rest)) /\ Head(Rest).in \in Places
    BY <1>1, <1>2, ReadingRest, RestChained DEF Phases
  <2>2. \A f \in Places : Wordless(Fallback(f)) /\ Wordless(<<P("make", f), P("recopy", f)>>)
    BY DEF Fallback, P, Phases, Dos, Places, Wordless, Has
  <2>3. Wordless(Rest) /\ (Rest # <<>> => Wordless(Tail(Rest)))
    BY <1>1, <1>2, <1>6, <2>1 DEF Reading, Wordless
  <2>4. Wordless(NextFolder(Rest))
    BY <1>1, <1>2, <1>6, ReadingSuffix DEF Reading, Wordless
  <2>5. Wordless(Tail(Tail(Rest)))
    <3>1. Wordless(<<>>) /\ \A s : s = <<>> => Tail(s) = <<>>
      BY DEF Wordless, Has
    <3>2. \A s : Wordless(s) => Wordless(Tail(s))
      <4>1. ASSUME NEW s, Wordless(s), s # <<>> PROVE Wordless(Tail(s))
        BY <4>1, RestHas, TailFacts DEF Wordless
      <4> QED BY <3>1, <4>1
    <3> QED BY <2>3, <3>2
  <2>6. \/ t \in {Rest, Tail(Tail(Rest)), NextFolder(Rest)}
        \/ t = Fallback(Phase.in) \o Rest
        \/ Rest # <<>> /\ t = Fallback(Head(Rest).in) \o Tail(Rest)
        \/ t = <<P("make", Phase.in), P("recopy", Phase.in)>> \o Rest
    BY <1>6 DEF Recovery
  <2>7. Wordless(t)
    BY <1>1, <2>1, <2>2, <2>3, <2>4, <2>5, <2>6, WordlessConcat
  <2> QED BY <1>6, <2>7 DEF Wordless, Reading
<1> QED BY <1>4, <1>5, <1>6

\* A step of the provider ends the call, and shows nothing or the mail, or it goes on.
Heeds ==
    /\ call.tag # 0 /\ wire # <<>> /\ wire' = Tail(wire) /\ (call'.got = call.got \/ call'.got = Append(call.got, Head(wire)))
    /\ call'.todo = call.todo /\ call'.tag = call.tag /\ call'.uids = call.uids
    /\ session' = session /\ srv'.open = srv.open

Searches == Phase'.do = "search" /\ session'.selected # Nowhere

Fetches ==
    /\ Phase'.do \in {"scan", "body"} /\ session'.selected # Nowhere /\ wire' = <<>> /\ Blank' /\ srv'.open = srv.open
    /\ Phase'.do = "body" => \A u \in call'.uids : Hit(srv.open, u, call.mail)

Shows == call' = IdleCall /\ outcome'.served \in {Outgoing, outcome'.mail}

Goes ==
    /\ call'.op = call.op /\ call'.mail = call.mail /\ outcome' = outcome /\ Reading(call.op, call'.todo)
    /\ call.op = "raw" /\ call'.todo # <<>> /\ Phase'.do \in Looking =>
         Heeds \/ (call'.tag = 0 /\ call'.got = <<>> /\ (Searches \/ Fetches))

Reaches == mbox' = mbox /\ (Shows \/ Goes)

LEMMA ReachesKeeps ==
    ASSUME TypeOK, Shown, Reaches, Connected'
    PROVE  Shown'
<1>1. mbox' = mbox /\ \A f, u, m : Hit(f, u, m)' <=> Hit(f, u, m)
  BY DEF Reaches, Hit
<1>2. CASE Shows
  <2>1. call'.op = "none" /\ call'.todo = <<>> /\ call'.tag = 0
    BY <1>2 DEF Shows, IdleCall
  <2>2. ~Has(call'.todo, {"hint", "body"})
    BY <2>1 DEF Has
  <2>3. Reading(call'.op, call'.todo)
    BY <2>1, <2>2 DEF Reading
  <2>4. Sought' /\ \A r : Bears(r)'
    BY <2>1 DEF Sought, Bears
  <2> QED BY <1>2, <2>3, <2>4 DEF Shown, Shows, ServesItsMail
<1>3. CASE Goes /\ ~(call.op = "raw" /\ call'.todo # <<>> /\ Phase'.do \in Looking)
  <2>1. call'.op = call.op /\ outcome' = outcome /\ Reading(call'.op, call'.todo)
    BY <1>3 DEF Goes
  <2>2. call'.tag # 0 => call'.todo # <<>>
    BY DEF Connected, Shaped
  <2>3. Sought'
    BY <1>3, <2>1 DEF Sought, Looking
  <2>4. \A r : Bears(r)'
    BY <1>3, <2>1, <2>2 DEF Bears, Looking
  <2> QED BY <2>1, <2>3, <2>4 DEF Shown, ServesItsMail
<1>4. CASE Goes /\ Heeds
  <2>1. /\ call'.op = call.op /\ call'.mail = call.mail /\ outcome' = outcome /\ Reading(call'.op, call'.todo)
        /\ call'.todo = call.todo /\ call'.tag = call.tag /\ call'.uids = call.uids /\ call.tag # 0
        /\ session' = session /\ srv'.open = srv.open
    BY <1>4 DEF Goes, Heeds
  <2>2. Phase' = Phase
    BY <2>1 DEF Phase
  <2>3. Sought'
    <3>1. ASSUME call.op = "raw", call.todo # <<>>, Phase.do = "body" PROVE \A u \in call.uids : Hit(srv.open, u, call.mail)
      BY <3>1 DEF Shown, Sought
    <3>2. call.op = "raw" /\ call.todo # <<>> /\ Phase.do \in Looking => session.selected # Nowhere
      BY DEF Shown, Sought
    <3> QED BY <1>1, <2>1, <2>2, <3>1, <3>2 DEF Sought, Hit
  <2>4. \A r : Bears(r) => Bears(r)'
    BY <1>1, <2>1, <2>2 DEF Bears, Hit
  <2>5. /\ Head(wire) = wire[1] /\ 1 \in DOMAIN wire /\ Head(wire) \in Heard
        /\ \A i \in DOMAIN wire' : i + 1 \in DOMAIN wire /\ wire'[i] = wire[i + 1]
    BY <1>4, WireTail DEF Heeds
  <2>6. \A i \in DOMAIN call'.got : (i \in DOMAIN call.got /\ call'.got[i] = call.got[i]) \/ call'.got[i] = Head(wire)
    <3>1. call.got \in Seq(Heard)
      BY DEF TypeOK, Calls
    <3>2. CASE call'.got = call.got
      BY <3>2
    <3>3. CASE call'.got = Append(call.got, Head(wire))
      <4>1. Head(wire) \in Heard
        BY <2>5
      <4>2. /\ DOMAIN Append(call.got, Head(wire)) = 1..(Len(call.got) + 1) /\ DOMAIN call.got = 1..Len(call.got)
            /\ \A i \in DOMAIN call.got : Append(call.got, Head(wire))[i] = call.got[i]
            /\ Append(call.got, Head(wire))[Len(call.got) + 1] = Head(wire)
        BY <3>1, <4>1, AppendFacts
      <4>3. \A i \in DOMAIN call'.got : i \in DOMAIN call.got \/ i = Len(call.got) + 1
        BY <3>1, <3>3, <4>2
      <4> QED BY <3>3, <4>2, <4>3
    <3> QED BY <1>4, <3>2, <3>3 DEF Heeds
  <2>7. \A i \in DOMAIN wire' : Bears(wire'[i])
    BY <2>5 DEF Shown
  <2>8. \A i \in DOMAIN call'.got : Bears(call'.got[i])
    BY <2>5, <2>6 DEF Shown
  <2> QED BY <2>1, <2>3, <2>4, <2>7, <2>8 DEF Shown, ServesItsMail
<1>5. CASE Goes /\ call'.tag = 0 /\ call'.got = <<>> /\ (Searches \/ Fetches)
  <2>1. call'.op = call.op /\ call'.mail = call.mail /\ outcome' = outcome /\ Reading(call'.op, call'.todo)
    BY <1>5 DEF Goes
  <2>2. \A r : Bears(r)'
    BY <1>5 DEF Bears
  <2>3. Sought'
    <3>1. CASE Searches
      BY <3>1 DEF Sought, Searches
    <3>2. CASE Fetches
      BY <1>1, <2>1, <3>2 DEF Sought, Fetches, Hit
    <3> QED BY <1>5, <3>1, <3>2
  <2> QED BY <2>1, <2>2, <2>3 DEF Shown, ServesItsMail
<1> QED BY <1>2, <1>3, <1>4, <1>5 DEF Reaches, Goes

\* After a phase that does not search nothing fetches, and what searches has a folder.
LEMMA RestReaches ==
    ASSUME TypeOK, Connected, Shown, call.todo # <<>>, mbox' = mbox, outcome' = outcome,
           call'.op = call.op, call'.mail = call.mail, call'.todo = Rest, Phase.do \notin Finding,
           Phase.do \in {"inbox", "look"} /\ Phase.in # Nowhere => session'.selected # Nowhere /\ call'.tag = 0 /\ call'.got = <<>>
    PROVE  Reaches
<1>1. call.todo \in Seq(Phases) /\ Reading(call.op, call.todo)
  BY DEF TypeOK, Calls, Shown
<1>2. Reading(call.op, Rest) /\ (call.op = "raw" /\ Rest # <<>> => Follows(Phase, Head(Rest)))
  BY <1>1, ReadingRest DEF Rest, Phase
<1>3. Phase' = Head(call'.todo)
  BY DEF Phase
<1>4. ASSUME call.op = "raw", Rest # <<>>, Phase'.do \in Looking PROVE call'.tag = 0 /\ call'.got = <<>> /\ Searches
  <2>1. Follows(Phase, Phase')
    BY <1>2, <1>3, <1>4
  <2>2. Phase'.do = "search" /\ Phase.do \in {"inbox", "look"} /\ Phase.in # Nowhere
    BY <1>4, <2>1 DEF Follows, Looking
  <2> QED BY <2>2 DEF Searches
<1> QED BY <1>2, <1>4 DEF Reaches, Goes

LEMMA FailsReaches ==
    ASSUME TypeOK, Connected, Shown, call.todo # <<>>, NEW failure, Fails(failure), UNCHANGED held
    PROVE  Reaches
<1> DEFINE kind == IF call.op = "file" /\ Phase.do \in {"search", "scan"} THEN "gone" ELSE failure
<1>1. mbox' = mbox
  BY DEF held
<1>2. CASE Recovery(kind) # {}
  <2> DEFINE t == CHOOSE todo \in Recovery(kind) : TRUE
  <2>1. t \in Recovery(kind)
    BY <1>2
  <2>2. Continues(t) /\ outcome' = outcome
    BY <1>2 DEF Fails
  <2> HIDE DEF t, kind
  <2>3. Reading(call.op, t) /\ (call.op = "raw" /\ t # <<>> => Head(t).do \notin Looking)
    BY <2>1, RecoveryReading DEF Shown
  <2>4. call'.op = call.op /\ call'.mail = call.mail /\ call'.todo = t
    BY <2>2, CallFields DEF Continues
  <2>5. Phase' = Head(call'.todo)
    BY DEF Phase
  <2> QED BY <1>1, <2>2, <2>3, <2>4, <2>5 DEF Reaches, Goes
<1>3. CASE Recovery(kind) = {}
  <2>1. Reports(kind, Outgoing)
    BY <1>3 DEF Fails
  <2> HIDE DEF kind
  <2> QED BY <1>1, <2>1 DEF Reports, Reaches, Shows
<1> QED BY <1>2, <1>3

\* What a search or a scan of the folder found is the mail, and a body that was fetched is the mail's.
LEMMA SearchHits ==
    ASSUME TypeOK, Shown, call.op = "raw", call.tag # 0, Phase.do = "search", FoundUid # {}
    PROVE  \A u \in FoundUid : Hit(srv.open, u, call.mail)
<1>1. Searched # {} /\ FoundUid = {Max(Searched)}
  BY DEF FoundUid
<1>2. Lines("SEARCH") # {} /\ Searched = call.got[Min(Lines("SEARCH"))].data
  BY <1>1 DEF Searched
<1>3. call.got \in Seq(Heard) /\ DOMAIN call.got \subseteq Nat
  BY DEF TypeOK, Calls
<1>4. Min(Lines("SEARCH")) \in Lines("SEARCH")
  BY <1>2, <1>3, MinIn DEF Lines
<1>5. PICK i \in DOMAIN call.got : call.got[i].of = "SEARCH" /\ Searched = call.got[i].data
  BY <1>2, <1>4 DEF Lines
<1>6. PICK n \in Nat : Searched \subseteq 1..n
  BY <1>5 DEF TypeOK, Plausible
<1>7. Max(Searched) \in Searched
  BY <1>1, <1>6, MaxIn
<1>8. Bears(call.got[i])
  BY <1>5 DEF Shown
<1> QED BY <1>1, <1>5, <1>7, <1>8 DEF Bears

LEMMA ScanHits ==
    ASSUME TypeOK, Shown, call.op = "raw", call.tag # 0, Phase.do = "scan", ScannedUid # {}
    PROVE  Hit(srv.open, Min(ScannedUid), call.mail)
<1>1. \A u \in ScannedUid : \E i \in DOMAIN call.got : \E row \in call.got[i].data :
          call.got[i].of = "FETCH" /\ row[2] = call.mail /\ row[1] = u
  BY DEF ScannedUid, Answers, Lines
<1>2. ScannedUid \subseteq Nat
  <2> SUFFICES ASSUME NEW u \in ScannedUid PROVE u \in Nat
    OBVIOUS
  <2>1. PICK i \in DOMAIN call.got : \E row \in call.got[i].data : call.got[i].of = "FETCH" /\ row[2] = call.mail /\ row[1] = u
    BY <1>1
  <2>2. PICK row \in call.got[i].data : call.got[i].of = "FETCH" /\ row[2] = call.mail /\ row[1] = u
    BY <2>1
  <2>3. row \in Nat \X Kept
    BY <2>2 DEF TypeOK, Plausible
  <2> QED BY <2>2, <2>3
<1>3. Min(ScannedUid) \in ScannedUid
  BY <1>2, MinIn
<1>4. PICK i \in DOMAIN call.got : \E row \in call.got[i].data :
          call.got[i].of = "FETCH" /\ row[2] = call.mail /\ row[1] = Min(ScannedUid)
  BY <1>1, <1>3
<1>5. PICK row \in call.got[i].data : call.got[i].of = "FETCH" /\ row[2] = call.mail /\ row[1] = Min(ScannedUid)
  BY <1>4
<1>6. Bears(call.got[i])
  BY DEF Shown
<1>7. Hit(srv.open, row[1], row[2])
  BY <1>5, <1>6 DEF Bears
<1> QED BY <1>5, <1>7

LEMMA BodyShown ==
    ASSUME TypeOK, Shown, call.op = "raw", call.tag # 0, Phase.do = "body", FirstBody # Gone
    PROVE  FirstBody = call.mail
<1>1. Bodies # {} /\ FirstBody = CHOOSE m \in call.got[Min(Bodies)].data : TRUE
  BY DEF FirstBody
<1>2. call.got \in Seq(Heard) /\ DOMAIN call.got \subseteq Nat
  BY DEF TypeOK, Calls
<1>3. Min(Bodies) \in Bodies
  BY <1>1, <1>2, MinIn DEF Bodies, Lines
<1>4. PICK i \in DOMAIN call.got : i = Min(Bodies) /\ call.got[i].of = "BODY" /\ call.got[i].data # {}
  BY <1>3 DEF Bodies, Lines
<1>5. Bears(call.got[i])
  BY <1>4 DEF Shown
<1>6. call.got[i].data \subseteq {call.mail}
  BY <1>4, <1>5 DEF Bears
<1>7. FirstBody \in call.got[i].data
  BY <1>1, <1>4
<1> QED BY <1>6, <1>7

\* A granted command of a search has nothing behind it.
LEMMA LastAnswer ==
    ASSUME TypeOK, Connected, Completed, Phase.do \in Finding
    PROVE  Blank /\ Tail(wire) = <<>>
<1>1. Asking
  BY VerbFacts DEF Asking, Completed
<1> QED BY <1>1, OwnLast DEF Connected, Completed

LEMMA ResolvesReaches ==
    ASSUME TypeOK, Connected, Shown, Completed, Phase.do \in Finding, NEW uids, Resolves(uids), Stays, UNCHANGED held,
           wire' \in {Tail(wire), <<>>}, call.todo # <<>>,
           call.op = "raw" => \A u \in uids : Hit(srv.open, u, call.mail)
    PROVE  Reaches
<1>1. /\ call'.op = call.op /\ call'.mail = call.mail /\ call'.todo = Rest /\ call'.tag = 0 /\ call'.got = <<>>
      /\ call'.uids = uids
  BY CallFields DEF Resolves
<1>2. mbox' = mbox /\ srv' = srv /\ session' = session /\ outcome' = outcome
  BY DEF held, Stays, link
<1>3. wire' = <<>> /\ Blank'
  BY <1>2, LastAnswer DEF Blank
<1>4. call.todo \in Seq(Phases) /\ Reading(call.op, call.todo)
  BY DEF TypeOK, Calls, Shown
<1>5. Reading(call.op, Rest) /\ (call.op = "raw" /\ Rest # <<>> => Follows(Phase, Head(Rest)))
  BY <1>4, ReadingRest DEF Rest, Phase
<1>6. Phase' = Head(call'.todo)
  BY DEF Phase
<1>7. ASSUME call.op = "raw", Rest # <<>>, Phase'.do \in Looking PROVE Fetches
  <2>1. Follows(Phase, Phase')
    BY <1>1, <1>5, <1>6, <1>7
  <2>2. Phase'.do = "body"
    BY <1>7, <2>1 DEF Follows, Looking, Finding
  <2>3. session.selected # Nowhere
    BY <1>7 DEF Shown, Sought, Looking, Finding
  <2>4. \A u \in uids : Hit(srv.open, u, call.mail)
    BY <1>7
  <2> QED BY <1>1, <1>2, <1>3, <2>2, <2>3, <2>4 DEF Fetches
<1> QED BY <1>1, <1>2, <1>5, <1>7 DEF Reaches, Goes

LEMMA ScansReaches ==
    ASSUME TypeOK, Connected, Shown, Completed, Phase.do = "search", Continues(<<P("scan", Nowhere)>> \o Rest), Stays, UNCHANGED held,
           wire' \in {Tail(wire), <<>>}, call.todo # <<>>
    PROVE  Reaches
<1> DEFINE t == <<P("scan", Nowhere)>> \o Rest
<1>1. call'.op = call.op /\ call'.mail = call.mail /\ call'.todo = t /\ call'.tag = 0 /\ call'.got = <<>>
  BY CallFields DEF Continues
<1>2. mbox' = mbox /\ srv' = srv /\ session' = session /\ outcome' = outcome
  BY DEF held, Stays, link
<1>3. wire' = <<>> /\ Blank'
  BY <1>2, LastAnswer DEF Blank, Finding
<1>4. call.todo \in Seq(Phases) /\ Reading(call.op, call.todo) /\ Rest \in Seq(Phases)
  BY TodoFacts DEF Shown
<1>5. Reading(call.op, Rest) /\ (call.op = "raw" /\ Rest # <<>> => Follows(Phase, Head(Rest)))
  BY <1>4, ReadingRest DEF Rest, Phase
<1>6. P("scan", Nowhere) \in Phases /\ P("scan", Nowhere).do = "scan"
  BY DEF P, Phases, Dos, Places
<1>7. call.op = "raw" /\ Rest # <<>> => Follows(P("scan", Nowhere), Head(Rest))
  BY <1>5, <1>6 DEF Follows, Finding
<1>8. Reading(call.op, t) /\ Head(t).do = "scan" /\ t # <<>>
  BY <1>4, <1>5, <1>6, <1>7, ReadingCons
<1> HIDE DEF t
<1>9. Phase' = Head(call'.todo)
  BY DEF Phase
<1>10. call.op = "raw" => Fetches
  <2>1. call.op = "raw" => session.selected # Nowhere
    BY DEF Shown, Sought, Looking
  <2> QED BY <1>1, <1>2, <1>3, <1>8, <1>9, <2>1 DEF Fetches
<1> QED BY <1>1, <1>2, <1>8, <1>10 DEF Reaches, Goes

\* A granted command shows nothing but the mail.
LEMMA SucceedsReaches ==
    ASSUME TypeOK, Connected, Shown, Completed, Succeeds, UNCHANGED held, wire' \in {Tail(wire), <<>>}
    PROVE  Reaches
<1>1. call.todo # <<>> /\ call.tag # 0 /\ mbox' = mbox
  BY DEF Completed, Connected, Shaped, held
<1>2. call.todo \in Seq(Phases) /\ Reading(call.op, call.todo) /\ Rest \in Seq(Phases) /\ Chained(call.op, Rest)
  BY <1>1, TodoFacts DEF Shown
<1>3. /\ Reading(call.op, Rest) /\ (call.op = "raw" /\ Rest # <<>> => Follows(Phase, Head(Rest)))
      /\ call.op = "raw" => Phase.do \notin {"idle", "all"}
      /\ call.op # "raw" => Phase.do \notin {"hint", "body"}
  BY <1>1, <1>2, ReadingRest DEF Rest, Phase
<1>4. CASE Phase.do \in Selecting
  <2>1. Continues(Rest) /\ Remembers([session EXCEPT !.selected = IF Phase.do = "peek" THEN Nowhere ELSE Phase.in])
    BY <1>4 DEF Succeeds, Selecting
  <2>2. call'.op = call.op /\ call'.mail = call.mail /\ call'.todo = Rest /\ call'.tag = 0 /\ call'.got = <<>>
    BY <2>1, CallFields DEF Continues
  <2>3. Phase.do # "peek" => session'.selected = Phase.in
    BY <2>1 DEF Remembers, TypeOK
  <2> QED BY <1>1, <1>4, <2>1, <2>2, <2>3, RestReaches DEF Remembers, Selecting, Finding
<1>5. CASE Phase.do \in {"relist", "create"}
  <2>1. PICK names : call' = [call EXCEPT !.todo = Rest, !.tag = 0, !.got = <<>>, !.names = names] /\ Stays
    <3>1. CASE Phase.do = "relist"
      BY <3>1 DEF Succeeds
    <3>2. CASE Phase.do = "create"
      <4>1. call' = [call EXCEPT !.todo = Rest, !.tag = 0, !.got = <<>>, !.names = call.names \cup {Phase.in}] /\ Stays
        BY <3>2 DEF Succeeds
      <4> QED BY <4>1
    <3> QED BY <1>5, <3>1, <3>2
  <2>2. call'.op = call.op /\ call'.mail = call.mail /\ call'.todo = Rest
    BY <2>1, CallFields
  <2> QED BY <1>1, <1>5, <2>1, <2>2, RestReaches DEF Stays, Finding
<1>6. CASE Phase.do = "search"
  <2>1. CASE FoundUid # {}
    <3>1. Resolves(FoundUid) /\ Stays
      BY <1>6, <2>1 DEF Succeeds
    <3>2. call.op = "raw" => \A u \in FoundUid : Hit(srv.open, u, call.mail)
      BY <1>1, <1>6, <2>1, SearchHits
    <3> QED BY <1>1, <1>6, <3>1, <3>2, ResolvesReaches DEF Finding
  <2>2. CASE FoundUid = {}
    <3>1. Continues(<<P("scan", Nowhere)>> \o Rest) /\ Stays
      BY <1>6, <2>2 DEF Succeeds
    <3> QED BY <1>1, <1>6, <3>1, ScansReaches
  <2> QED BY <2>1, <2>2
<1>7. CASE Phase.do = "scan" /\ call.op # "members"
  <2>1. CASE ScannedUid = {}
    <3>1. Fails("gone")
      BY <1>7, <2>1 DEF Succeeds
    <3> QED BY <1>1, <3>1, FailsReaches
  <2>2. CASE ScannedUid # {}
    <3>1. Resolves({Min(ScannedUid)}) /\ Stays
      BY <1>7, <2>2 DEF Succeeds
    <3>2. call.op = "raw" => Hit(srv.open, Min(ScannedUid), call.mail)
      BY <1>1, <1>7, <2>2, ScanHits
    <3>3. call.op = "raw" => \A u \in {Min(ScannedUid)} : Hit(srv.open, u, call.mail)
      BY <3>2
    <3> QED BY <1>1, <1>7, <3>1, <3>3, ResolvesReaches DEF Finding
  <2> QED BY <2>1, <2>2
<1>8. CASE Phase.do = "all"
  <2>1. call.op # "raw"
    BY <1>3, <1>8
  <2>2. CASE Reports("ok", Outgoing)
    BY <1>1, <2>2 DEF Reports, Reaches, Shows
  <2>3. CASE Continues(Tail(Rest)) /\ Stays
    <3>1. call'.op = call.op /\ call'.mail = call.mail /\ call'.todo = Tail(Rest)
      BY <2>3, CallFields DEF Continues
    <3>2. ~Has(Tail(Rest), {"hint", "body"})
      BY <1>2, <1>3, <2>1, TailRemains DEF Remains, Reading
    <3>3. Reading(call.op, Tail(Rest))
      BY <2>1, <3>2 DEF Reading
    <3> QED BY <1>1, <2>1, <2>3, <3>1, <3>3 DEF Reaches, Goes, Stays
  <2>4. CASE Resolves(Searched) /\ Stays
    <3>1. call'.op = call.op /\ call'.mail = call.mail /\ call'.todo = Rest
      BY <2>4, CallFields DEF Resolves
    <3> QED BY <1>1, <1>3, <2>1, <2>4, <3>1 DEF Reaches, Goes, Stays
  <2> QED BY <1>8, <2>2, <2>3, <2>4 DEF Succeeds
<1>9. CASE Phase.do \in {"hint", "body"}
  <2>1. call.op = "raw"
    BY <1>3, <1>9
  <2>2. \/ Enough("ok", FirstBody) /\ FirstBody = call.mail
        \/ Fails("gone")
        \/ Phase.do = "hint" /\ Continues(Rest) /\ Stays
    <3>1. CASE Phase.do = "hint"
      BY <3>1 DEF Succeeds, HintHolds
    <3>2. CASE Phase.do = "body" /\ FirstBody = Gone
      BY <3>2 DEF Succeeds
    <3>3. CASE Phase.do = "body" /\ FirstBody # Gone
      <4>1. FirstBody = call.mail
        BY <1>1, <2>1, <3>3, BodyShown
      <4> QED BY <3>3, <4>1 DEF Succeeds
    <3> QED BY <1>9, <3>1, <3>2, <3>3
  <2>3. CASE Enough("ok", FirstBody) /\ FirstBody = call.mail
    BY <1>1, <2>3 DEF Enough, Reports, Reaches, Shows
  <2>4. CASE Fails("gone")
    BY <1>1, <2>4, FailsReaches
  <2>5. CASE Phase.do = "hint" /\ Continues(Rest) /\ Stays
    <3>1. call'.op = call.op /\ call'.mail = call.mail /\ call'.todo = Rest
      BY <2>5, CallFields DEF Continues
    <3> QED BY <1>1, <2>5, <3>1, RestReaches DEF Stays, Finding
  <2> QED BY <2>2, <2>3, <2>4, <2>5
<1>10. CASE Phase.do = "scan" /\ call.op = "members"
  <2>1. Continues(Rest) /\ Stays
    BY <1>10 DEF Succeeds
  <2>2. call'.op = call.op /\ call'.mail = call.mail /\ call'.todo = Rest /\ call.op # "raw"
    BY <1>10, <2>1, CallFields DEF Continues
  <2> QED BY <1>1, <1>3, <2>1, <2>2 DEF Reaches, Goes, Stays
<1>11. CASE Phase.do \notin Selecting \cup Finding \cup {"relist", "create", "all", "hint", "body"}
  <2>1. Continues(Rest) /\ outcome' = outcome
    <3>1. CASE Phase.do = "list"
      BY <3>1 DEF Succeeds, Remembers
    <3>2. CASE Phase.do = "role"
      BY <3>2 DEF Succeeds, Remembers
    <3>3. CASE Phase.do = "caps"
      BY <3>3 DEF Succeeds, Remembers
    <3>4. CASE Phase.do \notin {"list", "role", "caps"}
      BY <1>11, <3>4 DEF Succeeds, Stays, Selecting, Finding
    <3> QED BY <3>1, <3>2, <3>3, <3>4
  <2>2. call'.op = call.op /\ call'.mail = call.mail /\ call'.todo = Rest
    BY <2>1, CallFields DEF Continues
  <2> QED BY <1>1, <1>11, <2>1, <2>2, RestReaches DEF Selecting
<1> QED BY <1>4, <1>5, <1>6, <1>7, <1>8, <1>9, <1>10, <1>11 DEF Finding

\* What the provider decides by itself.
LEMMA DecideReaches ==
    ASSUME LocalIds = {}, TypeOK, Connected, Shown, Decide
    PROVE  Reaches
<1>1. call.todo # <<>> /\ call.tag = 0 /\ mbox' = mbox /\ UNCHANGED held /\ call.got = <<>>
  BY DEF Decide, held, Connected, Shaped
<1>2. call.todo \in Seq(Phases) /\ Reading(call.op, call.todo) /\ Rest \in Seq(Phases) /\ Chained(call.op, Rest)
  BY <1>1, TodoFacts DEF Shown
<1>3. /\ Reading(call.op, Rest) /\ (call.op = "raw" /\ Rest # <<>> => Follows(Phase, Head(Rest)))
      /\ call.op = "raw" => Phase.do \notin {"idle", "all"}
  BY <1>1, <1>2, ReadingRest DEF Rest, Phase
<1>4. CASE Skipped(Phase) /\ call' = [call EXCEPT !.todo = Rest, !.uids = IF Phase.do = "search" THEN {StoredAt[call.mail]} ELSE @]
           /\ session' = [session EXCEPT !.selected = IF Phase.do = "forget" THEN Nowhere ELSE @,
                                         !.ready = @ \/ Phase.do = "ready"]
           /\ UNCHANGED <<link, outcome>>
  <2>1. Phase.do \notin {"search", "scan", "look"} /\ (Phase.do = "inbox" => session.selected = INBOX)
    BY <1>4 DEF Skipped, InboxOpen
  <2>2. call'.op = call.op /\ call'.mail = call.mail /\ call'.todo = Rest /\ call'.tag = 0 /\ call'.got = <<>>
    BY <1>1, <1>4 DEF TypeOK, Calls
  <2>3. Phase.do = "inbox" => session'.selected # Nowhere
    <3>1. Phase.do = "inbox" => session'.selected = session.selected
      BY <1>4 DEF TypeOK
    <3> QED BY <2>1, <3>1 DEF INBOX, Nowhere
  <2> QED BY <1>1, <1>4, <2>1, <2>2, <2>3, RestReaches DEF Finding
<1>5. CASE ~Skipped(Phase) /\ Without(Phase) /\ Phase.do = "idle"
  <2>1. Continues(Tail(Rest)) /\ UNCHANGED outcome /\ call.op # "raw"
    BY <1>3, <1>5 DEF Decide
  <2>2. call'.op = call.op /\ call'.mail = call.mail /\ call'.todo = Tail(Rest)
    BY <2>1, CallFields DEF Continues
  <2>3. ~Has(Tail(Rest), {"hint", "body"})
    BY <1>2, <1>3, <2>1, TailRemains DEF Remains, Reading
  <2>4. Reading(call.op, Tail(Rest))
    BY <2>1, <2>3 DEF Reading
  <2> QED BY <1>1, <2>1, <2>2, <2>4 DEF Reaches, Goes
<1>6. CASE ~Skipped(Phase) /\ Without(Phase) /\ Phase.do = "look"
  <2>1. CASE NextFolder(Rest) # <<>>
    <3>1. Continues(NextFolder(Rest)) /\ UNCHANGED outcome
      BY <1>6, <2>1 DEF Decide
    <3>2. call'.op = call.op /\ call'.mail = call.mail /\ call'.todo = NextFolder(Rest)
      BY <3>1, CallFields DEF Continues
    <3>3. Reading(call.op, NextFolder(Rest)) /\ Head(NextFolder(Rest)).do \notin Looking
      BY <1>2, <1>3, <2>1, ReadingSuffix DEF Looking
    <3>4. Phase' = Head(call'.todo)
      BY DEF Phase
    <3> QED BY <1>1, <3>1, <3>2, <3>3, <3>4 DEF Reaches, Goes
  <2>2. CASE NextFolder(Rest) = <<>>
    <3>1. Reports(IF call.op = "raw" THEN "gone" ELSE "ok", Outgoing)
      BY <1>6, <2>2 DEF Decide
    <3> QED BY <1>1, <3>1 DEF Reports, Reaches, Shows
  <2> QED BY <2>1, <2>2
<1>7. CASE ~Skipped(Phase) /\ Without(Phase) /\ Phase.do = "plus" /\ call.op \in {"delete", "empty"}
  <2>1. Reports("verdict", Outgoing)
    BY <1>7 DEF Decide
  <2> QED BY <1>1, <2>1 DEF Reports, Reaches, Shows
<1>8. CASE /\ ~Skipped(Phase) /\ Without(Phase) /\ Phase.do \notin {"idle", "look"}
           /\ ~(Phase.do = "plus" /\ call.op \in {"delete", "empty"})
  <2>1. Fails("verdict")
    BY <1>8 DEF Decide
  <2> QED BY <1>1, <2>1, FailsReaches
<1> QED BY <1>4, <1>5, <1>6, <1>7, <1>8 DEF Decide

LEMMA ConnectReaches ==
    ASSUME TypeOK, Connected, Shown, Connect
    PROVE  Reaches
<1>1. call.todo # <<>> /\ mbox' = mbox /\ Phase.do = "connect"
  BY DEF Connect, held
<1>2. CASE Reports("dead", Outgoing)
  BY <1>1, <1>2 DEF Reports, Reaches, Shows
<1>3. CASE Continues(Rest) /\ UNCHANGED outcome
  <2>1. call'.op = call.op /\ call'.mail = call.mail /\ call'.todo = Rest
    BY <1>3, CallFields DEF Continues
  <2> QED BY <1>1, <1>3, <2>1, RestReaches DEF Finding
<1> QED BY <1>2, <1>3 DEF Connect

LEMMA TurnsReaches ==
    ASSUME TypeOK, Connected, Shown, Turns
    PROVE  Reaches
<1>1. call.todo # <<>> /\ mbox' = mbox /\ outcome' = outcome /\ Phase.do \in {"append", "idle", "wait"}
  BY DEF Turns, held
<1>2. call.todo \in Seq(Phases) /\ Reading(call.op, call.todo) /\ Rest \in Seq(Phases)
  BY <1>1, TodoFacts DEF Shown
<1>3. Reading(call.op, Rest) /\ (call.op = "raw" /\ Rest # <<>> => Follows(Phase, Head(Rest)))
  BY <1>1, <1>2, ReadingRest DEF Rest, Phase
<1>4. PICK q \in Phases : q.do \in {"literal", "wait", "done"} /\ call' = [call EXCEPT !.todo = <<q>> \o Rest]
  BY DEF Turns
<1>5. call'.op = call.op /\ call'.mail = call.mail /\ call'.todo = <<q>> \o Rest
  BY <1>4 DEF TypeOK, Calls
<1>6. call.op = "raw" /\ Rest # <<>> => Follows(q, Head(Rest))
  BY <1>1, <1>3 DEF Follows, Finding
<1>7. Reading(call.op, <<q>> \o Rest) /\ Head(<<q>> \o Rest) = q
  BY <1>2, <1>3, <1>4, <1>6, ReadingCons
<1>8. Phase' = q
  BY <1>5, <1>7 DEF Phase
<1> QED BY <1>1, <1>4, <1>5, <1>7, <1>8 DEF Reaches, Goes, Looking

LEMMA ListensReaches ==
    ASSUME TypeOK, Shown, Listens
    PROVE  Reaches
<1>1. srv'.open = srv.open
  BY ListensQueue
<1> QED BY <1>1 DEF Listens, Reaches, Goes, Heeds, Shown, held

LEMMA ReadReaches ==
    ASSUME TypeOK, Connected, Aware, Shown, Read
    PROVE  Reaches
<1>1. call.tag # 0 /\ wire # <<>> /\ wire' \in {Tail(wire), <<>>} /\ UNCHANGED held
  BY DEF Read, Waiting, Unread
<1>2. call.todo # <<>>
  BY <1>1 DEF Connected, Shaped
<1>3. CASE Own(Head(wire)) /\ Completes(Head(wire))
  <2>1. CASE Head(wire).status = "ok"
    <3>1. Succeeds /\ Completed
      BY <1>1, <1>3, <2>1 DEF Completes, Completed
    <3> QED BY <1>1, <3>1, SucceedsReaches
  <2>2. CASE Head(wire).status # "ok"
    <3>1. PICK failure \in {"auth", "verdict"} : Fails(failure)
      BY <1>3, <2>2 DEF Completes
    <3> QED BY <1>1, <1>2, <3>1, FailsReaches
  <2> QED BY <2>1, <2>2
<1>4. CASE Fails("verdict")
  BY <1>1, <1>2, <1>4, FailsReaches
<1> QED BY <1>3, <1>4, ReadCases, ListensReaches, TurnsReaches

LEMMA TimeoutReaches ==
    ASSUME TypeOK, Connected, Shown, Timeout
    PROVE  Reaches
<1>1. call.tag # 0 /\ wire' = wire /\ Expired /\ UNCHANGED held
  BY DEF Timeout, Waiting
<1>2. call.todo # <<>>
  BY <1>1 DEF Connected, Shaped
<1>3. CASE Phase.do = "wait" /\ srv.up
  <2>1. Replies("DONE", "done")
    BY <1>1, <1>3 DEF Expired
  <2>2. Turns
    BY <1>1, <1>3, <2>1, RepliesTurns
  <2> QED BY <2>2, TurnsReaches
<1>4. CASE ~(Phase.do = "wait" /\ srv.up)
  <2>1. Fails("dead")
    BY <1>1, <1>4 DEF Expired
  <2> QED BY <1>1, <1>2, <2>1, FailsReaches
<1> QED BY <1>3, <1>4

\* When a command is sent nothing is left of the commands before it.
LEMMA SendShown ==
    ASSUME TypeOK, Connected, Shown, Send
    PROVE  Shown'
<1>1. /\ call'.op = call.op /\ call'.mail = call.mail /\ call'.todo = call.todo /\ call'.got = call.got /\ call'.uids = call.uids
      /\ Phase' = Phase /\ call'.tag # 0 /\ session'.selected = session.selected
      /\ Current' \in Commands /\ srv' = [srv EXCEPT !.queue = Append(@, Current')]
  <2>1. session.tag \in Nat /\ call'.tag = session.tag + 1
    BY SendsCommand
  <2> QED BY <2>1, SendsCommand
<1>2. srv'.open = srv.open
  BY <1>1, QueueGrows
<1>3. wire' = wire /\ mbox' = mbox /\ outcome' = outcome /\ call.tag = 0 /\ call.todo # <<>> /\ call.got = <<>> /\ ~Asking
  BY DEF Send, held, Connected, Shaped, Asking
<1>4. Reading(call'.op, call'.todo)
  BY <1>1 DEF Shown
<1>5. Sought'
  <2>1. call.op = "raw" /\ Phase.do \in Looking => session.selected # Nowhere
    BY <1>3 DEF Shown, Sought
  <2>2. call.op = "raw" /\ Phase.do = "body" => \A u \in call.uids : Hit(srv.open, u, call.mail)
    BY <1>3 DEF Shown, Sought
  <2> QED BY <1>1, <1>2, <1>3, <2>1, <2>2 DEF Sought, Hit
<1>6. ASSUME NEW i \in DOMAIN wire PROVE Bears(wire[i])'
  <2>1. call.op = "raw" /\ Phase.do = "search" => wire[i].of # "SEARCH"
    <3>1. call.op = "raw" /\ Phase.do = "search" => Chosen
      BY <1>3 DEF Shown, Sought, Looking, Chosen
    <3> QED BY <1>3, <3>1 DEF Connected, Drained
  <2>2. call.op = "raw" => Phase.do \notin {"scan", "body"}
    <3>1. call.op = "raw" /\ Phase.do \in {"scan", "body"} => wire = <<>>
      BY <1>3 DEF Shown, Sought
    <3> QED BY <3>1
  <2> QED BY <1>1, <1>3, <2>1, <2>2 DEF Bears
<1>7. ServesItsMail'
  BY <1>3 DEF Shown, ServesItsMail
<1> QED BY <1>1, <1>3, <1>4, <1>5, <1>6, <1>7 DEF Shown

\* What others do leaves the mail where it was or takes it away.
LEMMA OthersShown ==
    ASSUME Shown, Grows, UNCHANGED <<wire, session, call, outcome>>, srv'.open = srv.open, Blank => Blank'
    PROVE  Shown'
<1>1. /\ wire' = wire /\ session' = session /\ call' = call /\ outcome' = outcome /\ Phase' = Phase
  BY DEF Phase
<1>2. \A f, u, m : Hit(f, u, m) => Hit(f, u, m)'
  BY DEF Grows, Hit
<1>3. Sought'
  <2>1. call.op = "raw" /\ call.todo # <<>> /\ Phase.do = "body" => \A u \in call.uids : Hit(srv.open, u, call.mail)
    BY DEF Shown, Sought
  <2>2. call.op = "raw" /\ call.todo # <<>> =>
          /\ Phase.do \in Looking => session.selected # Nowhere
          /\ Phase.do \in {"scan", "body"} /\ call.tag = 0 => wire = <<>> /\ Blank
    BY DEF Shown, Sought
  <2> QED BY <1>1, <1>2, <2>1, <2>2 DEF Sought, Hit
<1>4. \A r : Bears(r) => Bears(r)'
  BY <1>1, <1>2 DEF Bears, Hit
<1> QED BY <1>1, <1>3, <1>4 DEF Shown, ServesItsMail

\* While the call looks for its mail the server carries out nothing but what it was asked last.
LEMMA WorksShown ==
    ASSUME TypeOK, Connected, Aware, Shown, Works
    PROVE  Shown'
<1>1. /\ call' = call /\ Phase' = Phase /\ session' = session /\ outcome' = outcome /\ First \in Commands /\ Grows
  BY WorksFacts, WorksMailbox
<1>2. \A f, u, m : Hit(f, u, m) => Hit(f, u, m)'
  BY <1>1 DEF Grows, Hit
<1>3. ASSUME call.op = "raw", call.todo # <<>>, Phase.do \in Looking
      PROVE  Chosen /\ srv'.open = srv.open
  <2>1. Chosen
    BY <1>3 DEF Shown, Sought, Chosen
  <2>2. First.verb # "SELECT"
    <3> SUFFICES ASSUME First.verb = "SELECT" PROVE FALSE
      OBVIOUS
    <3>1. Verb(Phase.do) = "SELECT"
      BY <2>1, WorksChosen DEF Quiet, Current
    <3> QED BY <1>3, <3>1 DEF Verb, Looking
  <2> QED BY <2>1, <2>2 DEF Works, Taken, First
<1>4. call.tag # 0 => call.todo # <<>>
  BY DEF Connected, Shaped
<1>5. Sought'
  <2> SUFFICES ASSUME call.op = "raw", call.todo # <<>>, Phase.do \in Looking
               PROVE  /\ session.selected # Nowhere
                      /\ Phase.do \in {"scan", "body"} /\ call.tag = 0 => wire' = <<>> /\ Blank'
                      /\ Phase.do = "body" => \A u \in call.uids : Hit(srv.open, u, call.mail)'
    BY <1>1 DEF Sought, Looking
  <2>1. session.selected # Nowhere
    BY DEF Shown, Sought
  <2>2. ASSUME Phase.do \in {"scan", "body"}, call.tag = 0 PROVE wire' = <<>> /\ Blank'
    <3>1. wire = <<>> /\ Blank
      BY <2>2 DEF Shown, Sought
    <3> QED BY <3>1, WorksBlank
  <2>3. ASSUME Phase.do = "body" PROVE \A u \in call.uids : Hit(srv.open, u, call.mail)'
    <3>1. \A u \in call.uids : Hit(srv.open, u, call.mail)
      BY <2>3 DEF Shown, Sought
    <3>2. srv'.open = srv.open /\ call' = call
      BY <1>1, <1>3
    <3> QED BY <1>2, <3>1, <3>2 DEF Hit
  <2> QED BY <2>1, <2>2, <2>3
<1>6. ASSUME NEW r, Bears(r) PROVE Bears(r)'
  <2> SUFFICES ASSUME call.op = "raw", call.tag # 0, Phase.do \in Looking PROVE Bears(r)'
    BY <1>1 DEF Bears, Looking
  <2>1. srv'.open = srv.open
    BY <1>3, <1>4
  <2> QED BY <1>1, <1>2, <1>6, <2>1 DEF Bears, Hit
<1>7. ASSUME NEW r, Line(r) PROVE Bears(r)
  <2> SUFFICES ASSUME call.op = "raw", call.tag # 0, Phase.do \in Looking, r.of \in {"SEARCH", "FETCH", "BODY"} PROVE Bears(r)
    BY DEF Bears, Looking
  <2>1. Tells(r, First) /\ Chosen
    BY <1>3, <1>4, <1>7 DEF Line
  <2>2. CASE Phase.do = "search" /\ r.of = "SEARCH"
    <3>1. First.verb = "SEARCH" /\ srv.open \in DOMAIN mbox /\ (First.phase # "all" => r.data \subseteq Here(srv.open, First.mail))
      BY <2>1, <2>2 DEF Tells
    <3>2. First = Current
      BY <2>1, <3>1, WorksChosen DEF Quiet
    <3>3. First.phase = "search" /\ First.mail = call.mail
      BY <2>2, <3>2 DEF Current
    <3>4. \A u \in r.data : Hit(srv.open, u, call.mail)
      BY <3>1, <3>3 DEF Here, Hit
    <3> QED BY <2>2, <3>4 DEF Bears
  <2>3. CASE Phase.do = "scan" /\ r.of = "FETCH"
    <3>1. srv.open \in DOMAIN mbox /\ r.data = {<<u, mbox[srv.open][u]>> : u \in Live(srv.open)}
      BY <2>1, <2>3 DEF Tells
    <3>2. ASSUME NEW row \in r.data PROVE Hit(srv.open, row[1], row[2])
      <4>1. PICK u \in Live(srv.open) : row = <<u, mbox[srv.open][u]>>
        BY <3>1, <3>2
      <4>2. row[1] = u /\ row[2] = mbox[srv.open][u] /\ u \in DOMAIN mbox[srv.open]
        BY <4>1 DEF Live
      <4> QED BY <3>1, <4>2 DEF Hit
    <3> QED BY <2>3, <3>2 DEF Bears
  <2>4. CASE Phase.do = "body" /\ r.of = "BODY"
    <3>1. First.verb = "BODY" /\ r.data = {mbox[srv.open][u] : u \in Carried(First, srv.open)}
      BY <2>1, <2>4 DEF Tells
    <3>2. First = Current
      BY <2>1, <3>1, WorksChosen DEF Quiet
    <3>3. First.uids = call.uids
      BY <3>2 DEF Current
    <3>4. \A u \in call.uids : Hit(srv.open, u, call.mail)
      BY <1>4, <2>4 DEF Shown, Sought
    <3>5. \A u \in Carried(First, srv.open) : mbox[srv.open][u] = call.mail
      BY <3>3, <3>4 DEF Carried, Live, Hit
    <3>6. r.data \subseteq {call.mail}
      BY <3>1, <3>5
    <3> QED BY <2>4, <3>6 DEF Bears
  <2>5. CASE ~(\/ Phase.do = "search" /\ r.of = "SEARCH"
               \/ Phase.do = "scan" /\ r.of = "FETCH"
               \/ Phase.do = "body" /\ r.of = "BODY")
    BY <2>5 DEF Bears
  <2> QED BY <2>2, <2>3, <2>4, <2>5
<1>8. \A i \in DOMAIN wire' : Bears(wire'[i])
  <2>1. \A i \in DOMAIN wire' : (i \in DOMAIN wire /\ wire'[i] = wire[i]) \/ Line(wire'[i])
    BY WorksWire
  <2> QED BY <1>7, <2>1 DEF Shown
<1> QED BY <1>1, <1>5, <1>6, <1>8 DEF Shown, ServesItsMail

LEMMA BeginShown ==
    ASSUME NEW op \in Operations, NEW m, NEW hints, Begin(op, m, hints)
    PROVE  Shown'
<1> DEFINE todo == (IF session.ready THEN <<>> ELSE Login) \o Program(op)
<1>1. Reading(op, todo) /\ (op = "raw" => Head(todo).do \notin Looking)
  BY BeginReading
<1>2. call'.op = op /\ call'.todo = todo /\ call'.tag = 0 /\ call'.got = <<>> /\ outcome' = NoOutcome
  BY DEF Begin, IdleCall
<1> HIDE DEF todo
<1>3. Phase' = Head(call'.todo)
  BY DEF Phase
<1>4. Sought'
  BY <1>1, <1>2, <1>3 DEF Sought, Looking
<1>5. \A r : Bears(r)'
  BY <1>2 DEF Bears
<1>6. ServesItsMail'
  BY <1>2 DEF ServesItsMail, NoOutcome
<1> QED BY <1>1, <1>2, <1>4, <1>5, <1>6 DEF Shown

LEMMA EventShown ==
    ASSUME Shown, Event
    PROVE  Shown'
<1>1. /\ Phase.do = "wait" /\ session' = session /\ call' = call /\ outcome' = outcome /\ Phase' = Phase
  BY DEF Event, Phase
<1>2. Sought' /\ \A r : Bears(r)'
  BY <1>1 DEF Sought, Bears, Looking
<1> QED BY <1>1, <1>2 DEF Shown, ServesItsMail

LEMMA NextShown ==
    ASSUME LocalIds = {}, IInv, LateAimed, Shown, Next
    PROVE  Shown'
<1> USE DEF IInv
<1>1. Grows /\ Connected'
  BY NextLeaves, NextIInv
<1>2. ASSUME NEW op \in Ops, NEW m \in Subjects, NEW hints \in Hints, Begin(op, m, hints) PROVE Shown'
  BY <1>2, BeginShown, SessionAssumption
<1>3. CASE Decide
  BY <1>1, <1>3, DecideReaches, ReachesKeeps
<1>4. CASE Return
  <2>1. Reaches
    BY <1>4 DEF Return, Enough, Reports, Reaches, Shows, held
  <2> QED BY <1>1, <2>1, ReachesKeeps
<1>5. CASE Connect
  BY <1>1, <1>5, ConnectReaches, ReachesKeeps
<1>6. CASE Send
  BY <1>6, SendShown
<1>7. CASE Read
  BY <1>1, <1>7, ReadReaches, ReachesKeeps
<1>8. CASE Timeout
  BY <1>1, <1>8, TimeoutReaches, ReachesKeeps
<1>9. CASE Serve
  BY <1>9, ServeKeeps, WorksShown
<1>10. CASE Event
  BY <1>10, EventShown
<1>11. CASE HangUp
  <2>1. srv'.open = srv.open /\ srv'.idling = srv.idling /\ srv'.queue = srv.queue
    BY <1>11 DEF HangUp, TypeOK
  <2> QED BY <1>1, <1>11, <2>1, OthersShown DEF HangUp, Blank
<1>12. ASSUME NEW l \in late, CarryOut(l) PROVE Shown'
  BY <1>1, <1>12, OthersShown DEF CarryOut, Blank
<1>13. ASSUME NEW f \in DOMAIN mbox, NEW u \in DOMAIN mbox[f], OtherClient(f, u) PROVE Shown'
  BY <1>1, <1>13, OthersShown DEF OtherClient, link, Blank
<1> QED BY <1>2, <1>3, <1>4, <1>5, <1>6, <1>7, <1>8, <1>9, <1>10, <1>11, <1>12, <1>13 DEF Next

LEMMA InitShown ==
    ASSUME Init
    PROVE  Shown
<1>1. wire = <<>> /\ call = IdleCall /\ outcome = NoOutcome
  BY DEF Init
<1>2. call.op = "none" /\ call.todo = <<>> /\ call.tag = 0 /\ call.got = <<>> /\ outcome.served = Outgoing
  BY <1>1 DEF IdleCall, NoOutcome
<1>3. ~Has(call.todo, {"hint", "body"})
  BY <1>2 DEF Has
<1> QED BY <1>1, <1>2, <1>3 DEF Shown, Reading, Sought, ServesItsMail

-----------------------------------------------------------------------------
(* The theorems *)

\* When the store knows no UID beforehand every step keeps the invariant.
LEMMA Inductive == ASSUME LocalIds = {} PROVE Spec => []IInv
<1>1. Init => IInv
  BY InitIInv
<1>2. IInv /\ [Next]_vars => IInv'
  BY NextIInv, StutterIInv
<1> QED BY <1>1, <1>2, PTL DEF Spec

\* The variables of session.rs and of the connection keep to the commands, phases and
\* responses the code can put there, however the server interleaves its answers.
THEOREM ImapTyped == ASSUME LocalIds = {} PROVE Spec => []TypeOK
<1>1. Spec => []IInv
  BY Inductive
<1>2. IInv => TypeOK
  BY DEF IInv
<1> QED BY <1>1, <1>2, PTL

\* A move, a trash or a permanent deletion that fails half way, times out or is carried
\* out after the session gave up on it leaves a copy of the mail in some folder, unless
\* the caller asked for its end or another client took the mail away.
THEOREM NoMailIsLost == ASSUME LocalIds = {} PROVE Spec => []NothingIsLost
<1>1. Spec => []IInv
  BY Inductive
<1>2. IInv => NothingIsLost
  BY DEF IInv, Safe, Spared, NothingIsLost
<1> QED BY <1>1, <1>2, PTL

\* A call of the provider that answers that it is done has put the mail where it says:
\* neither a refusal, a late answer nor an answer to an earlier command is taken for its
\* success. Only another client, or a command of a dropped connection the server carries
\* out after all, moves the mail on.
THEOREM DoneHolds == ASSUME LocalIds = {} PROVE Spec => []DoneIsDone
<1>1. Spec => []IInv
  BY Inductive
<1>2. IInv => DoneIsDone
  BY DEF IInv, Safe, Reported
<1> QED BY <1>1, <1>2, PTL

LEMMA Leavings == ASSUME LocalIds = {} PROVE Spec => [](IInv /\ LateAimed) /\ [][Leaving]_mbox
<1>1. Spec => []IInv
  BY Inductive
<1>2. Init => LateAimed
  BY DEF Init, LateAimed
<1>3. IInv /\ LateAimed /\ [Next]_vars => LateAimed' /\ [Leaving]_mbox
  <2>1. ASSUME IInv, LateAimed, Next PROVE LateAimed' /\ Leaving
    BY <2>1, NextLeaves, FaultsCounted, LateAimedKept DEF LateAimed
  <2>2. ASSUME LateAimed, UNCHANGED vars PROVE LateAimed' /\ mbox' = mbox
    <3>1. faults' = faults /\ late' = late /\ mbox' = mbox
      BY <2>2 DEF vars, held, link
    <3> QED BY <2>2, <3>1 DEF LateAimed, TakesItsMail, Hit
  <2> QED BY <2>1, <2>2
<1> QED BY <1>1, <1>2, <1>3, PTL DEF Spec

\* A UID is a position of one folder, and nothing leaves a folder but the mail that a
\* command on the way was sent for, or, when the Trash is emptied, what the Trash held:
\* a search that was given up, a folder selected anew, an answer to an earlier command or
\* a command carried out after its connection was dropped never takes another mail's UID.
THEOREM OnlyItsMailLeaves == ASSUME LocalIds = {} PROVE Spec => ActsOnItsMail
<1>1. Spec => [][Leaving]_mbox
  BY Leavings, PTL
<1> QED BY <1>1 DEF ActsOnItsMail, Leaving

\* The bytes a reader is shown are those of the mail that was asked for (fetch_raw,
\* provider.rs:464): neither a UID remembered from another folder or an earlier mailbox, a
\* row that an abandoned command left on the wire nor a mail moved away under the search
\* puts another mail's body in its place.
THEOREM ShowsItsMail == ASSUME LocalIds = {} PROVE Spec => []ServesItsMail
<1>1. Spec => [](IInv /\ LateAimed)
  BY Leavings, PTL
<1>2. Init => Shown
  BY InitShown
<1>3. ASSUME IInv, LateAimed, Shown, [Next]_vars PROVE Shown'
  <2>1. CASE Next
    BY <1>3, <2>1, NextShown
  <2>2. CASE UNCHANGED vars
    <3>1. /\ wire' = wire /\ session' = session /\ call' = call /\ outcome' = outcome /\ srv' = srv /\ mbox' = mbox
      BY <2>2 DEF vars, held, link
    <3> QED BY <1>3, <3>1, OthersShown DEF Grows, Blank
  <2> QED BY <1>3, <2>1, <2>2
<1>4. Shown => ServesItsMail
  BY DEF Shown
<1>5. IInv /\ LateAimed /\ Shown /\ [Next]_vars => Shown'
  BY <1>3
<1> QED BY <1>1, <1>2, <1>4, <1>5, PTL DEF Spec
=============================================================================
