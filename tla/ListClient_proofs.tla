-------------------------- MODULE ListClient_proofs --------------------------
(***************************************************************************)
(* What the list window shows, proved for any number of mails, writes in   *)
(* flight, lists and queries, and whatever the budgets are.                *)
(*                                                                         *)
(* Three facts carry the proofs.  A write that hid a row stays in flight   *)
(* until it is confirmed or taken back (WritesKept).  A request that is    *)
(* still the last of its source asks what the source asks now, for every   *)
(* change of the view or the query starts a new one (ReadsKept).  And a    *)
(* write that is confirmed in the visit it began in starts a request of    *)
(* every source of that visit (VisitKept).                                 *)
(***************************************************************************)
EXTENDS ListClient, TLAPS

Read == [source : Sources, gen : Nat, asks : Views \cup Terms \cup {Nothing}, answer : Answers]

\* The calls of a write: what only draws a patch or undoes has no token to take
\* back, and a row write that went through went through for its row.
WritesKept ==
    \A w \in Writers :
        /\ write[w].kind # "empty" => write[w].verb \in Hiding \cup Patching
        /\ write[w].kind \in {"undo", "undoBulk"} => write[w].token = 0
        /\ write[w].kind = "row" /\ write[w].verb \notin Hiding => write[w].token = 0
        /\ write[w].kind = "row" /\ write[w].phase = "answered" /\ write[w].ok
             => write[w].good = write[w].ids

\* The last request of a source asks what the source asks now, and a list is the
\* answer to what was asked.
ReadsKept ==
    /\ \A r \in reads :
         /\ r.gen <= gen[r.source]
         /\ r.answer.phase = "ready" => r.answer.asks = r.asks
         /\ Current(r) /\ Enabled(r.source, view, term) => r.asks = Asked(r.source)
    /\ \A s \in Sources :
         Enabled(s, view, term) /\ shown[s].phase = "ready" => shown[s].asks = Asked(s)

\* A write that began in this visit began in this view, and no list on its way
\* that will be shown is older than what was confirmed in this visit.
VisitKept ==
    /\ \A w \in Writers : /\ ~Idle(w) /\ write[w].here => write[w].view = view
                          /\ write[w].at <= now
    /\ owed <= now
    /\ \A r \in reads :
         /\ r.source \in {"messages", "briefing"} /\ Current(r) /\ Enabled(r.source, view, term)
         /\ r.answer.phase = "ready"
         => r.answer.at >= owed

IInv == TypeOK /\ WritesKept /\ HiddenIsAccountedFor /\ ReadsKept /\ VisitKept /\ ListFollowsWrites

-----------------------------------------------------------------------------
(* The operators of the model *)

\* What an enabled source asks is a list in use or a query.
LEMMA QuestionType ==
    ASSUME NEW s \in Sources, NEW v \in Views, NEW q \in Terms \cup {Nothing}, Enabled(s, v, q)
    PROVE  Question(s, v, q) \in Views \cup Terms \cup {Nothing}
BY ListAssumption DEF Question, Enabled, Sources

\* A list made now is an answer.
LEMMA ListType ==
    ASSUME TypeOK, NEW q \in Views \cup Terms \cup {Nothing}
    PROVE  List(q) \in Answers /\ List(q).phase = "ready" /\ List(q).asks = q /\ List(q).at = now
<1>1. Listed(q) \subseteq Mails /\ PinnedIn(Listed(q)) \subseteq Mails
  BY DEF Listed, PinnedIn
<1> QED BY <1>1 DEF List, Answers, TypeOK

LEMMA NoListType ==
    /\ Loading \in Answers /\ Loading.phase = "loading"
    /\ Failed \in Answers /\ Failed.phase = "error"
BY DEF Loading, Failed, Answers

\* Requests that are started have the types of requests.
LEMMA RunType ==
    ASSUME TypeOK, NEW S \in SUBSET Sources, NEW v \in Views, NEW q \in Terms \cup {Nothing}, Run(S, v, q),
           \A s \in S : Question(s, v, q) \in Views \cup Terms \cup {Nothing}
    PROVE  gen' \in [Sources -> Nat] /\ reads' \subseteq Read
<1>1. \A s \in S : [source |-> s, gen |-> gen[s] + 1, asks |-> Question(s, v, q), answer |-> Loading] \in Read
  BY NoListType DEF Read, TypeOK
<1> QED BY <1>1 DEF Run, TypeOK, Read

LEMMA NoWriteType == NoWrite \in Calls /\ NoWrite.phase = "idle" /\ NoWrite.at = 0
BY ListAssumption DEF NoWrite, Calls, Patching

\* A new call is a call, and sent.
LEMMA CallType ==
    ASSUME TypeOK, NEW kind \in {"row", "bulk", "empty", "undo", "undoBulk"},
           NEW verb \in Hiding \cup Patching \cup {"empty"}, NEW ids \in SUBSET Mails
    PROVE  Call(kind, verb, ids) \in Calls
<1>1. token + 1 \in Nat /\ view \in Views
  BY DEF TypeOK
<1>2. NoWrite \in Calls
  BY NoWriteType
<1> QED BY <1>1, <1>2 DEF Call, Calls

\* The rows on the screen are mails.
LEMMA RowsAreMails ==
    ASSUME TypeOK
    PROVE  Rows \subseteq Mails
<1>1. Source \in Sources
  BY DEF Source, Sources
<1> QED BY <1>1 DEF Rows, TypeOK, Answers

LEMMA SpendType ==
    ASSUME TypeOK, NEW events \in SUBSET Events, Spend(events)
    PROVE  spent' \in [Events -> Nat]
BY DEF Spend, TypeOK

\* What a new call says.
LEMMA CallFields ==
    ASSUME NEW kind, NEW verb, NEW ids
    PROVE  LET c == Call(kind, verb, ids)
           IN  /\ c.phase = "sent" /\ c.kind = kind /\ c.verb = verb /\ c.ids = ids
               /\ c.token = token + 1 /\ c.view = view /\ c.at = 0
BY DEF Call, NoWrite

-----------------------------------------------------------------------------
(* Types *)

LEMMA TypeInit ==
    ASSUME Init
    PROVE  TypeOK
<1>1. mail \in [Mails -> [at : Places, pinned : BOOLEAN]] /\ now \in Nat
  BY DEF Init, Places
<1>2. view \in Views /\ term \in Terms \cup {Nothing}
  BY ListAssumption DEF Init
<1>3. List("inbox") \in Answers
  BY <1>1, ListAssumption DEF List, Listed, PinnedIn, Answers, Init
<1>4. shown \in [Sources -> Answers] /\ gen \in [Sources -> Nat]
  BY <1>3, NoListType DEF Init
<1>5. write \in [Writers -> Calls]
  BY NoWriteType DEF Init
<1> QED
  BY <1>1, <1>2, <1>4, <1>5 DEF Init, TypeOK, NoToast, Patching

LEMMA TypeStep ==
    ASSUME TypeOK, WritesKept, [Next]_vars
    PROVE  TypeOK'
<1> USE DEF store, lists, overlay, past
<1>1. CASE UNCHANGED vars
  BY <1>1 DEF vars, TypeOK
<1>2. ASSUME NEW s \in Sources, Poll(s) PROVE TypeOK'
  <2>1. gen' \in [Sources -> Nat] /\ reads' \subseteq Read
    <3>1. Run({s}, view, term) /\ {s} \in SUBSET Sources
      BY <1>2 DEF Poll
    <3>2. Question(s, view, term) \in Views \cup Terms \cup {Nothing}
      BY <1>2, QuestionType DEF Poll, TypeOK
    <3> QED BY <3>1, <3>2, RunType DEF TypeOK
  <2>2. spent' \in [Events -> Nat]
    BY <1>2, SpendType DEF Poll, Events
  <2> QED BY <1>2, <2>1, <2>2 DEF Poll, TypeOK, Read
<1>3. ASSUME NEW r \in reads, Serve(r) PROVE TypeOK'
  <2>1. r \in Read /\ reads \subseteq Read
    BY DEF TypeOK, Read
  <2>2. [r EXCEPT !.answer = List(r.asks)] \in Read /\ [r EXCEPT !.answer = Failed] \in Read
    BY <2>1, ListType, NoListType DEF Read
  <2>3. reads' \subseteq Read
    BY <1>3, <2>1, <2>2 DEF Serve
  <2>4. spent' \in [Events -> Nat]
    BY <1>3, SpendType DEF Serve, Events, TypeOK
  <2> QED BY <1>3, <2>3, <2>4 DEF Serve, TypeOK, Read
<1>4. ASSUME NEW r \in reads, Commit(r) PROVE TypeOK'
  BY <1>4 DEF Commit, TypeOK
<1>5. ASSUME NEW v \in Views, Navigate(v) PROVE TypeOK'
  <2> DEFINE q  == IF {v, view} \subseteq {"briefing", "inbox"} THEN term ELSE Nothing
             on == {s \in Sources : Enabled(s, v, q)}
  <2>1. q \in Terms \cup {Nothing} /\ on \in SUBSET Sources
    BY DEF TypeOK
  <2>2. \A s \in on : Question(s, v, q) \in Views \cup Terms \cup {Nothing}
    BY <2>1, QuestionType
  <2>3. gen' \in [Sources -> Nat] /\ reads' \subseteq Read
    <3>1. Run(on, v, q)
      BY <1>5 DEF Navigate
    <3> QED BY <2>1, <2>2, <3>1, RunType
  <2>4. spent' \in [Events -> Nat]
    BY <1>5, SpendType DEF Navigate, Events
  <2>5. shown' \in [Sources -> Answers]
    BY <1>5, NoListType DEF Navigate, TypeOK
  <2>6. write' \in [Writers -> Calls]
    <3>1. write' = [w \in Writers |-> [write[w] EXCEPT !.here = FALSE]]
      BY <1>5 DEF Navigate
    <3>2. ASSUME NEW c \in Calls PROVE [c EXCEPT !.here = FALSE] \in Calls
      BY <3>2 DEF Calls
    <3> QED BY <3>1, <3>2 DEF TypeOK
  <2> QED BY <1>5, <2>1, <2>3, <2>4, <2>5, <2>6 DEF Navigate, TypeOK, Read
<1>6. ASSUME NEW q \in Terms \cup {Nothing}, Type(q) PROVE TypeOK'
  <2> DEFINE on == IF q = Nothing THEN {} ELSE {"search"}
  <2>1. on \in SUBSET Sources /\ \A s \in on : Question(s, view, q) \in Views \cup Terms \cup {Nothing}
    BY DEF Question, Sources
  <2>2. gen' \in [Sources -> Nat] /\ reads' \subseteq Read
    <3>1. Run(on, view, q)
      BY <1>6 DEF Type
    <3>2. view \in Views
      BY DEF TypeOK
    <3> QED BY <2>1, <3>1, <3>2, RunType
  <2>3. spent' \in [Events -> Nat]
    BY <1>6, SpendType DEF Type, Events
  <2>4. shown' \in [Sources -> Answers]
    BY <1>6, NoListType DEF Type, TypeOK
  <2> QED BY <1>6, <2>2, <2>3, <2>4 DEF Type, TypeOK, Read
<1>7. ASSUME NEW m \in Mails, Mark(m) PROVE TypeOK'
  BY <1>7 DEF Mark, TypeOK
<1>8. ASSUME NEW m \in Mails, OthersMove(m) PROVE TypeOK'
  <2>1. spent' \in [Events -> Nat]
    BY <1>8, SpendType DEF OthersMove, Events
  <2>2. mail' \in [Mails -> [at : Places, pinned : BOOLEAN]]
    BY <1>8 DEF OthersMove, TypeOK, Places
  <2> QED BY <1>8, <2>1, <2>2 DEF OthersMove, TypeOK
<1>9. ASSUME NEW w \in Writers, NEW verb \in Verbs, NEW m \in Mails, RowVerb(w, verb, m) PROVE TypeOK'
  <2> DEFINE c == Call("row", verb, {m})
  <2>1. c \in Calls
    BY CallType, ListAssumption
  <2>2. [c EXCEPT !.before = patched[m], !.drawn = TRUE, !.token = IF verb \in Hiding THEN @ ELSE 0] \in Calls
    BY <2>1 DEF Calls, TypeOK
  <2>3. write' \in [Writers -> Calls]
    BY <1>9, <2>2 DEF RowVerb, TypeOK
  <2>4. token' \in Nat /\ removed' \in [Mails -> Nat] /\ patched' \in [Mails -> Patching \cup {Nothing}]
    <3>1. CASE verb \in Hiding
      BY <1>9, <3>1 DEF RowVerb, Hide, TypeOK
    <3>2. CASE verb \notin Hiding
      BY <1>9, <3>2, ListAssumption DEF RowVerb, Patch, TypeOK
    <3> QED BY <3>1, <3>2
  <2>5. spent' \in [Events -> Nat]
    BY <1>9, SpendType DEF RowVerb, Events
  <2> QED BY <1>9, <2>3, <2>4, <2>5 DEF RowVerb, TypeOK
<1>10. CASE DeleteMarked
  <2>1. write' \in [Writers -> Calls]
    <3>1. ASSUME NEW m \in Mails PROVE [Call("row", "delete", {m}) EXCEPT !.drawn = m \in Rows] \in Calls
      <4>1. Call("row", "delete", {m}) \in Calls
        BY CallType DEF Hiding
      <4>2. (m \in Rows) \in BOOLEAN
        OBVIOUS
      <4> QED BY <4>1, <4>2 DEF Calls
    <3>2. PICK f \in [marked -> {w \in Writers : Idle(w)}] :
            write' = [w \in Writers |->
              IF \E m \in marked : f[m] = w
              THEN LET m == CHOOSE m \in marked : f[m] = w
                   IN  [Call("row", "delete", {m}) EXCEPT !.drawn = m \in Rows]
              ELSE write[w]]
      BY <1>10 DEF DeleteMarked
    <3>3. marked \subseteq Mails
      BY DEF TypeOK
    <3>4. ASSUME NEW w \in Writers, \E m \in marked : f[m] = w PROVE write'[w] \in Calls
      BY <3>1, <3>2, <3>3, <3>4
    <3>5. ASSUME NEW w \in Writers, ~\E m \in marked : f[m] = w PROVE write'[w] \in Calls
      BY <3>2, <3>5 DEF TypeOK
    <3> QED BY <3>2, <3>4, <3>5
  <2>2. spent' \in [Events -> Nat]
    BY <1>10, SpendType DEF DeleteMarked, Events
  <2>3. /\ Hide(marked) /\ busy' = TRUE
        /\ UNCHANGED <<store, view, term, lists, marked, toast, past>>
    BY <1>10 DEF DeleteMarked
  <2> QED BY <2>1, <2>2, <2>3 DEF Hide, TypeOK
<1>11. ASSUME NEW w \in Writers, NEW verb \in Verbs, Bulk(w, verb) PROVE TypeOK'
  <2>1. Call("bulk", verb, marked) \in Calls
    BY CallType, ListAssumption DEF TypeOK
  <2>2. spent' \in [Events -> Nat]
    BY <1>11, SpendType DEF Bulk, Events
  <2> QED BY <1>11, <2>1, <2>2 DEF Bulk, Hide, TypeOK
<1>12. ASSUME NEW w \in Writers, EmptyTrash(w) PROVE TypeOK'
  <2>1. Call("empty", "empty", Rows) \in Calls
    BY CallType, RowsAreMails
  <2>2. spent' \in [Events -> Nat]
    BY <1>12, SpendType DEF EmptyTrash, Events
  <2> QED BY <1>12, <2>1, <2>2 DEF EmptyTrash, Hide, TypeOK
<1>13. ASSUME NEW w \in Writers, UndoLatest(w) PROVE TypeOK'
  <2> DEFINE c == Call(toast.kind, Inverse(toast.verb), toast.ids)
  <2>1. c \in Calls
    <3>1. Inverse(toast.verb) \in Hiding \cup Patching
      BY DEF Inverse, Hiding, Patching
    <3> QED BY <3>1, CallType DEF TypeOK
  <2>2. [c EXCEPT !.kind = IF @ = "row" THEN "undo" ELSE "undoBulk", !.token = 0] \in Calls
    BY <2>1 DEF Calls
  <2>3. spent' \in [Events -> Nat]
    BY <1>13, SpendType DEF UndoLatest, Events
  <2> QED BY <1>13, <2>2, <2>3 DEF UndoLatest, TypeOK
<1>14. ASSUME NEW w \in Writers, Land(w) PROVE TypeOK'
  <2>1. PICK good \in SUBSET Mails, heard \in BOOLEAN, ok \in BOOLEAN, events \in SUBSET Events :
          /\ Spend(events)
          /\ mail' = [m \in Mails |-> IF m \in good THEN Moved(write[w].verb, mail[m]) ELSE mail[m]]
          /\ now' = IF good = {} THEN now ELSE now + 1
          /\ write' = [write EXCEPT ![w] =
               [write[w] EXCEPT !.phase = "answered", !.good = good, !.at = now', !.ok = ok]]
    <3> DEFINE c     == write[w]
               asked == IF c.kind = "empty" THEN {m \in Mails : mail[m].at = "trash"} ELSE c.ids
               able  == {m \in asked : mail[m].at \in From(c.verb)}
    <3>1. PICK good \in SUBSET able, heard \in BOOLEAN :
            /\ Spend((IF good = able THEN {} ELSE {"fail"}) \cup (IF heard THEN {} ELSE {"lost"}))
            /\ mail' = [m \in Mails |-> IF m \in good THEN Moved(c.verb, mail[m]) ELSE mail[m]]
            /\ now' = IF good = {} THEN now ELSE now + 1
            /\ write' = [write EXCEPT ![w] =
                 [c EXCEPT !.phase = "answered", !.good = good, !.at = now',
                           !.ok = heard /\ (c.kind \in {"bulk", "undoBulk"} \/ good = asked)]]
      BY <1>14 DEF Land
    <3>2. able \subseteq Mails
      BY DEF TypeOK, Calls
    <3>3. (heard /\ (c.kind \in {"bulk", "undoBulk"} \/ good = asked)) \in BOOLEAN
      OBVIOUS
    <3>4. ((IF good = able THEN {} ELSE {"fail"}) \cup (IF heard THEN {} ELSE {"lost"})) \in SUBSET Events
      BY DEF Events
    <3> QED BY <3>1, <3>2, <3>3, <3>4
  <2>2. mail' \in [Mails -> [at : Places, pinned : BOOLEAN]]
    <3>1. \A m \in Mails : Moved(write[w].verb, mail[m]) \in [at : Places, pinned : BOOLEAN]
      <4>1. ASSUME NEW r \in [at : Places, pinned : BOOLEAN]
            PROVE  /\ \A p \in Places : [r EXCEPT !.at = p] \in [at : Places, pinned : BOOLEAN]
                   /\ \A b \in BOOLEAN : [r EXCEPT !.pinned = b] \in [at : Places, pinned : BOOLEAN]
        OBVIOUS
      <4>2. {"archived", "trash", "inbox", "gone"} \subseteq Places
        BY DEF Places
      <4>3. ASSUME NEW r \in [at : Places, pinned : BOOLEAN], NEW verb
            PROVE  Moved(verb, r) \in [at : Places, pinned : BOOLEAN]
        BY <4>1, <4>2 DEF Moved
      <4> QED BY <4>3 DEF TypeOK
    <3>2. \A m \in Mails : mail[m] \in [at : Places, pinned : BOOLEAN]
      BY DEF TypeOK
    <3> QED BY <2>1, <3>1, <3>2
  <2>3. now' \in Nat /\ now <= now'
    BY <2>1 DEF TypeOK
  <2>4. write' \in [Writers -> Calls]
    <3>1. ASSUME NEW gs \in SUBSET Mails, NEW fine \in BOOLEAN, NEW c \in Calls
          PROVE  [c EXCEPT !.phase = "answered", !.good = gs, !.at = now', !.ok = fine] \in Calls
      BY <2>3, <3>1 DEF Calls
    <3> QED BY <2>1, <3>1 DEF TypeOK
  <2>5. spent' \in [Events -> Nat]
    BY <2>1, SpendType
  <2> QED BY <1>14, <2>2, <2>3, <2>4, <2>5 DEF Land, TypeOK
<1>15. ASSUME NEW w \in Writers, Refused(w) PROVE TypeOK'
  <2>1. Unhidden(w) \in [Mails -> Nat] /\ Unpatched(w) \in [Mails -> Patching \cup {Nothing}]
    BY DEF Unhidden, Unpatched, TypeOK, Calls
  <2> QED BY <1>15, <2>1, NoWriteType DEF Refused, TypeOK
<1>16. ASSUME NEW w \in Writers, Succeeds(w) PROVE TypeOK'
  <2> DEFINE c == write[w]
  <2>1. c \in Calls
    BY DEF TypeOK
  <2>2. gen' \in [Sources -> Nat] /\ reads' \subseteq Read
    <3>1. Refreshed(w) \in SUBSET Sources
      BY DEF Refreshed, Sources
    <3>2. \A s \in Refreshed(w) : Question(s, view, term) \in Views \cup Terms \cup {Nothing}
      BY <2>1, ListAssumption DEF Refreshed, Question, Enabled, Calls, TypeOK
    <3>3. Run(Refreshed(w), view, term)
      BY <1>16 DEF Succeeds
    <3> QED BY <3>1, <3>2, <3>3, RunType DEF TypeOK
  <2>3. token' \in Nat /\ removed' \in [Mails -> Nat]
    <3>1. CASE c.kind = "bulk"
      BY <1>16, <3>1 DEF Succeeds, HiddenAfter, Unhidden, TypeOK
    <3>2. CASE c.kind # "bulk"
      BY <1>16, <3>2 DEF Succeeds, TypeOK
    <3> QED BY <3>1, <3>2
  <2>4. toast' \in [verb : Hiding \cup Patching, ids : SUBSET Mails, kind : {"row", "bulk"}]
    BY <1>16, <2>1 DEF Succeeds, NoToast, Calls, Patching, WritesKept
  <2>5. owed' \in Nat
    BY <1>16, <2>1 DEF Succeeds, TypeOK, Calls
  <2>6. confirmed' \subseteq Nat \X Mails
    BY <1>16, <2>1 DEF Succeeds, TypeOK, Calls
  <2>7. marked' \subseteq Mails /\ busy' \in BOOLEAN
    BY <1>16 DEF Succeeds, TypeOK
  <2> QED BY <1>16, <2>2, <2>3, <2>4, <2>5, <2>6, <2>7, NoWriteType DEF Succeeds, TypeOK, Read
<1> QED
  BY <1>1, <1>2, <1>3, <1>4, <1>5, <1>6, <1>7, <1>8, <1>9, <1>10, <1>11, <1>12, <1>13, <1>14, <1>15, <1>16 DEF Next

-----------------------------------------------------------------------------
(* How a write changes in a step *)

\* A call that is sent in this step, from the view of this step.
Begun(c) ==
    /\ c.phase = "sent" /\ c.view = view /\ c.at = 0
    /\ c.kind # "empty" => c.verb \in Hiding \cup Patching
    /\ c.kind \in {"undo", "undoBulk"} => c.token = 0
    /\ c.kind = "row" /\ c.verb \notin Hiding => c.token = 0

\* What the backend has answered to a call.
Answered(c, d) ==
    /\ c.phase = "sent" /\ d.phase = "answered"
    /\ d.kind = c.kind /\ d.verb = c.verb /\ d.ids = c.ids /\ d.token = c.token
    /\ d.view = c.view /\ d.here = c.here
    /\ d.at = now'
    /\ d.kind = "row" /\ d.ok => d.good = d.ids

\* A write is left as it is, left behind, begun, answered or over.
WriteStep(w) ==
    \/ write'[w] = write[w] /\ UNCHANGED view
    \/ write'[w] = [write[w] EXCEPT !.here = FALSE]
    \/ Idle(w) /\ Begun(write'[w]) /\ UNCHANGED view
    \/ Answered(write[w], write'[w]) /\ UNCHANGED view
    \/ write'[w] = NoWrite /\ UNCHANGED view

\* Mails are only moved on: the store's clock does not go back.
LEMMA ClockStep ==
    ASSUME TypeOK, [Next]_vars
    PROVE  now <= now'
<1>1. CASE UNCHANGED store
  BY <1>1 DEF TypeOK, store
<1>2. CASE \E m \in Mails : OthersMove(m)
  BY <1>2 DEF OthersMove, TypeOK
<1>3. CASE \E w \in Writers : Land(w)
  BY <1>3 DEF Land, TypeOK
<1>4. CASE \E w \in Writers, verb \in Verbs, m \in Mails : RowVerb(w, verb, m)
  BY <1>1, <1>4 DEF RowVerb
<1> QED
  BY <1>1, <1>2, <1>3, <1>4
     DEF Next, vars, Poll, Serve, Commit, Navigate, Type, Mark, DeleteMarked, Bulk, EmptyTrash,
         UndoLatest, Refused, Succeeds

LEMMA WriteSteps ==
    ASSUME TypeOK, [Next]_vars, NEW u \in Writers
    PROVE  WriteStep(u)
<1> USE DEF store, lists, overlay, past, WriteStep
<1>1. CASE UNCHANGED <<write, view>>
  BY <1>1
<1>2. CASE UNCHANGED vars
  BY <1>1, <1>2 DEF vars
<1>3. ASSUME NEW s \in Sources, Poll(s) PROVE WriteStep(u)
  BY <1>3 DEF Poll
<1>4. ASSUME NEW r \in reads, Serve(r) \/ Commit(r) PROVE WriteStep(u)
  BY <1>4 DEF Serve, Commit
<1>5. ASSUME NEW v \in Views, Navigate(v) PROVE WriteStep(u)
  BY <1>5 DEF Navigate
<1>6. ASSUME NEW q \in Terms \cup {Nothing}, Type(q) PROVE WriteStep(u)
  <2>1. UNCHANGED <<write, view>>
    BY <1>6 DEF Type
  <2> QED BY <2>1
<1>7. ASSUME NEW m \in Mails, Mark(m) \/ OthersMove(m) PROVE WriteStep(u)
  BY <1>7 DEF Mark, OthersMove
<1>8. CASE DeleteMarked
  <2>1. UNCHANGED view
    BY <1>8 DEF DeleteMarked
  <2>2. PICK f \in [marked -> {w \in Writers : Idle(w)}] :
          write' = [w \in Writers |->
            IF \E m \in marked : f[m] = w
            THEN LET m == CHOOSE m \in marked : f[m] = w
                 IN  [Call("row", "delete", {m}) EXCEPT !.drawn = m \in Rows]
            ELSE write[w]]
    BY <1>8 DEF DeleteMarked
  <2>3. CASE \E m \in marked : f[m] = u
    <3>1. PICK m \in Mails : write'[u] = [Call("row", "delete", {m}) EXCEPT !.drawn = m \in Rows]
      BY <2>2, <2>3 DEF TypeOK
    <3>2. Call("row", "delete", {m}) \in Calls
      BY CallType DEF Hiding
    <3>3. Begun(write'[u])
      BY <3>1, <3>2, CallFields DEF Begun, Calls, Hiding
    <3>4. Idle(u)
      BY <2>2, <2>3
    <3> QED BY <2>1, <3>3, <3>4
  <2>4. CASE ~\E m \in marked : f[m] = u
    BY <2>1, <2>2, <2>4
  <2> QED BY <2>3, <2>4
<1>9. ASSUME NEW w \in Writers, NEW verb \in Verbs, NEW m \in Mails, RowVerb(w, verb, m) PROVE WriteStep(u)
  <2> DEFINE c == Call("row", verb, {m})
             d == [c EXCEPT !.before = patched[m], !.drawn = TRUE, !.token = IF verb \in Hiding THEN @ ELSE 0]
  <2>1. c \in Calls
    BY CallType, ListAssumption
  <2>2. Begun(d)
    BY <2>1, CallFields, ListAssumption DEF Begun, Calls
  <2>3. Idle(w) /\ UNCHANGED view /\ write' = [write EXCEPT ![w] = d]
    BY <1>9 DEF RowVerb
  <2> QED BY <2>2, <2>3 DEF TypeOK
<1>10. ASSUME NEW w \in Writers, NEW verb \in Verbs, Bulk(w, verb) PROVE WriteStep(u)
  <2>1. Begun(Call("bulk", verb, marked))
    BY CallFields, ListAssumption DEF Begun
  <2>2. Idle(w) /\ UNCHANGED view /\ write' = [write EXCEPT ![w] = Call("bulk", verb, marked)]
    BY <1>10 DEF Bulk
  <2> QED BY <2>1, <2>2 DEF TypeOK
<1>11. ASSUME NEW w \in Writers, EmptyTrash(w) PROVE WriteStep(u)
  <2>1. Begun(Call("empty", "empty", Rows))
    BY CallFields DEF Begun
  <2>2. Idle(w) /\ UNCHANGED view /\ write' = [write EXCEPT ![w] = Call("empty", "empty", Rows)]
    BY <1>11 DEF EmptyTrash
  <2> QED BY <2>1, <2>2 DEF TypeOK
<1>12. ASSUME NEW w \in Writers, UndoLatest(w) PROVE WriteStep(u)
  <2> DEFINE c == Call(toast.kind, Inverse(toast.verb), toast.ids)
             d == [c EXCEPT !.kind = IF @ = "row" THEN "undo" ELSE "undoBulk", !.token = 0]
  <2>1. Inverse(toast.verb) \in Hiding \cup Patching
    BY DEF Inverse, Hiding, Patching
  <2>2. c \in Calls
    BY <2>1, CallType DEF TypeOK
  <2>3. Begun(d)
    BY <2>1, <2>2, CallFields DEF Begun, Calls
  <2>4. Idle(w) /\ UNCHANGED view /\ write' = [write EXCEPT ![w] = d]
    BY <1>12 DEF UndoLatest
  <2> QED BY <2>3, <2>4 DEF TypeOK
<1>13. ASSUME NEW w \in Writers, Land(w) PROVE WriteStep(u)
  <2> DEFINE c == write[w]
             asked == IF c.kind = "empty" THEN {m \in Mails : mail[m].at = "trash"} ELSE c.ids
  <2>1. c \in Calls /\ c.phase = "sent" /\ UNCHANGED view
    BY <1>13 DEF Land, TypeOK
  <2>2. PICK good, heard :
          write' = [write EXCEPT ![w] =
            [c EXCEPT !.phase = "answered", !.good = good, !.at = now',
                      !.ok = heard /\ (c.kind \in {"bulk", "undoBulk"} \/ good = asked)]]
    BY <1>13 DEF Land
  <2>3. Answered(c, write'[w])
    BY <2>1, <2>2 DEF Answered, Calls, TypeOK
  <2>4. CASE u = w
    BY <2>1, <2>3, <2>4
  <2>5. CASE u # w
    BY <2>1, <2>2, <2>5 DEF TypeOK
  <2> QED BY <2>4, <2>5
<1>14. ASSUME NEW w \in Writers, Refused(w) \/ Succeeds(w) PROVE WriteStep(u)
  <2>1. UNCHANGED view /\ write' = [write EXCEPT ![w] = NoWrite]
    BY <1>14 DEF Refused, Succeeds
  <2> QED BY <2>1 DEF TypeOK
<1> QED
  BY <1>2, <1>3, <1>4, <1>5, <1>6, <1>7, <1>8, <1>9, <1>10, <1>11, <1>12, <1>13, <1>14 DEF Next

LEMMA WritesStep ==
    ASSUME TypeOK, WritesKept, [Next]_vars
    PROVE  WritesKept'
<1> SUFFICES ASSUME NEW w \in Writers
             PROVE  /\ write'[w].kind # "empty" => write'[w].verb \in Hiding \cup Patching
                    /\ write'[w].kind \in {"undo", "undoBulk"} => write'[w].token = 0
                    /\ write'[w].kind = "row" /\ write'[w].verb \notin Hiding => write'[w].token = 0
                    /\ write'[w].kind = "row" /\ write'[w].phase = "answered" /\ write'[w].ok
                         => write'[w].good = write'[w].ids
  BY DEF WritesKept
<1>1. WriteStep(w)
  BY WriteSteps
<1>2. write[w] \in Calls
  BY DEF TypeOK
<1>3. CASE write'[w] = [write[w] EXCEPT !.here = FALSE]
  BY <1>2, <1>3 DEF WritesKept, Calls
<1>4. CASE Begun(write'[w])
  BY <1>4 DEF Begun
<1>5. CASE Answered(write[w], write'[w])
  BY <1>5 DEF Answered, WritesKept
<1>6. CASE write'[w] = NoWrite
  BY <1>6 DEF NoWrite, Patching
<1>7. CASE write'[w] = write[w]
  BY <1>7 DEF WritesKept
<1> QED BY <1>1, <1>3, <1>4, <1>5, <1>6, <1>7 DEF WriteStep

-----------------------------------------------------------------------------
(* Every hidden row is accounted for *)

\* The write that hid a row under its present token.
Holds(w, m) == ~Idle(w) /\ m \in write[w].ids /\ write[w].token = removed[m]

Accounted(m) == removed[m] # 0 => <<removed[m], m>> \in confirmed \/ \E w \in Writers : Holds(w, m)

\* A row keeps its account as long as its token, the confirmed and the write stay.
LEMMA AccountStays ==
    ASSUME TypeOK, HiddenIsAccountedFor, NEW m \in Mails,
           removed'[m] \in {0, removed[m]}, confirmed \subseteq confirmed',
           \A w \in Writers : Holds(w, m) /\ removed'[m] # 0 =>
              \/ <<removed[m], m>> \in confirmed'
              \/ write'[w].phase # "idle" /\ write'[w].ids = write[w].ids /\ write'[w].token = write[w].token
    PROVE  Accounted(m)'
<1> SUFFICES ASSUME removed'[m] # 0
             PROVE  <<removed'[m], m>> \in confirmed' \/ \E w \in Writers : Holds(w, m)'
  BY DEF Accounted
<1>1. removed'[m] = removed[m]
  OBVIOUS
<1>2. <<removed[m], m>> \in confirmed \/ \E w \in Writers : Holds(w, m)
  BY <1>1 DEF HiddenIsAccountedFor, Holds
<1> QED BY <1>1, <1>2 DEF Holds, Idle

LEMMA AccountStep ==
    ASSUME TypeOK, WritesKept, HiddenIsAccountedFor, [Next]_vars, NEW m \in Mails
    PROVE  Accounted(m)'
<1> USE DEF store, lists, overlay, past
<1>1. CASE UNCHANGED <<removed, confirmed, write>>
  BY <1>1, AccountStays DEF Holds, Idle
<1>2. CASE UNCHANGED vars
  BY <1>1, <1>2 DEF vars
<1>3. ASSUME NEW s \in Sources, Poll(s) PROVE Accounted(m)'
  BY <1>1, <1>3 DEF Poll
<1>4. ASSUME NEW r \in reads, Serve(r) \/ Commit(r) PROVE Accounted(m)'
  BY <1>1, <1>4 DEF Serve, Commit
<1>5. ASSUME NEW v \in Views, Navigate(v) PROVE Accounted(m)'
  BY <1>5 DEF Navigate, Accounted
<1>6. ASSUME NEW q \in Terms \cup {Nothing}, Type(q) PROVE Accounted(m)'
  BY <1>1, <1>6 DEF Type
<1>7. ASSUME NEW n \in Mails, Mark(n) \/ OthersMove(n) PROVE Accounted(m)'
  BY <1>1, <1>7 DEF Mark, OthersMove
<1>8. CASE DeleteMarked
  <2>1. UNCHANGED confirmed /\ removed' = [n \in Mails |-> IF n \in marked THEN token + 1 ELSE removed[n]]
    BY <1>8 DEF DeleteMarked, Hide
  <2>2. PICK f \in [marked -> {w \in Writers : Idle(w)}] :
          /\ \A a, b \in marked : f[a] = f[b] => a = b
          /\ write' = [w \in Writers |->
               IF \E a \in marked : f[a] = w
               THEN LET a == CHOOSE a \in marked : f[a] = w
                    IN  [Call("row", "delete", {a}) EXCEPT !.drawn = a \in Rows]
               ELSE write[w]]
    BY <1>8 DEF DeleteMarked
  <2>3. CASE m \in marked
    <3> DEFINE a == CHOOSE a \in marked : f[a] = f[m]
    <3>1. a \in marked /\ f[a] = f[m]
      BY <2>3
    <3>2. a = m
      BY <2>2, <2>3, <3>1
    <3>3. f[m] \in Writers
      BY <2>2, <2>3
    <3>4. write'[f[m]] = [Call("row", "delete", {m}) EXCEPT !.drawn = m \in Rows]
      BY <2>2, <2>3, <3>2, <3>3
    <3>5. Call("row", "delete", {m}) \in Calls
      BY CallType DEF Hiding
    <3>6. /\ write'[f[m]].phase = "sent" /\ write'[f[m]].ids = {m}
          /\ write'[f[m]].token = token + 1
      BY <3>4, <3>5, CallFields DEF Calls
    <3> QED BY <2>1, <2>3, <3>3, <3>6 DEF Accounted, Holds, Idle
  <2>4. CASE m \notin marked
    <3>1. ASSUME NEW w \in Writers, ~Idle(w) PROVE write'[w] = write[w]
      BY <2>2, <3>1
    <3> QED BY <2>1, <2>4, <3>1, AccountStays DEF Holds, Idle
  <2> QED BY <2>3, <2>4
<1>9. ASSUME NEW w \in Writers, NEW c \in Calls, NEW hidden \in SUBSET Mails, Idle(w), c.phase # "idle",
             UNCHANGED confirmed, write' = [write EXCEPT ![w] = c],
             removed' = [n \in Mails |-> IF n \in hidden THEN token + 1 ELSE removed[n]],
             hidden # {} => c.token = token + 1 /\ c.ids = hidden
      PROVE  Accounted(m)'
  <2>1. CASE m \in hidden
    BY <1>9, <2>1 DEF Accounted, Holds, Idle, TypeOK
  <2>2. CASE m \notin hidden
    BY <1>9, <2>2, AccountStays DEF Holds, Idle, TypeOK
  <2> QED BY <2>1, <2>2
<1>10. ASSUME NEW w \in Writers, NEW verb \in Verbs, NEW n \in Mails, RowVerb(w, verb, n) PROVE Accounted(m)'
  <2> DEFINE c == Call("row", verb, {n})
             d == [c EXCEPT !.before = patched[n], !.drawn = TRUE, !.token = IF verb \in Hiding THEN @ ELSE 0]
             hidden == IF verb \in Hiding THEN {n} ELSE {}
  <2>1. c \in Calls
    BY CallType, ListAssumption
  <2>2. /\ d \in Calls /\ d.phase = "sent"
        /\ verb \in Hiding => d.token = token + 1 /\ d.ids = {n}
    <3>1. d \in Calls
      BY <2>1 DEF Calls, TypeOK
    <3>2. c.phase = "sent" /\ c.token = token + 1 /\ c.ids = {n}
      BY CallFields
    <3> HIDE DEF c
    <3> QED BY <2>1, <3>1, <3>2 DEF Calls
  <2>3. /\ Idle(w) /\ UNCHANGED confirmed /\ write' = [write EXCEPT ![w] = d]
        /\ IF verb \in Hiding THEN Hide({n}) ELSE Patch(n, verb)
    BY <1>10 DEF RowVerb
  <2>4. removed' = [k \in Mails |-> IF k \in hidden THEN token + 1 ELSE removed[k]]
    BY <2>3 DEF Hide, Patch, TypeOK
  <2>5. hidden \in SUBSET Mails /\ (hidden # {} => d.token = token + 1 /\ d.ids = hidden)
    BY <2>2
  <2> HIDE DEF d, hidden
  <2> QED BY <1>9, <2>2, <2>3, <2>4, <2>5
<1>11. ASSUME NEW w \in Writers, NEW verb \in Verbs, Bulk(w, verb) PROVE Accounted(m)'
  <2> DEFINE c == Call("bulk", verb, marked)
  <2>1. c \in Calls /\ c.phase = "sent" /\ c.token = token + 1 /\ c.ids = marked
    BY CallType, CallFields, ListAssumption DEF TypeOK
  <2>2. /\ Idle(w) /\ UNCHANGED confirmed /\ write' = [write EXCEPT ![w] = c]
        /\ removed' = [k \in Mails |-> IF k \in marked THEN token + 1 ELSE removed[k]]
    BY <1>11 DEF Bulk, Hide
  <2>3. marked \in SUBSET Mails
    BY DEF TypeOK
  <2> HIDE DEF c
  <2> QED BY <1>9, <2>1, <2>2, <2>3
<1>12. ASSUME NEW w \in Writers, EmptyTrash(w) PROVE Accounted(m)'
  <2> DEFINE c == Call("empty", "empty", Rows)
  <2>1. Rows \in SUBSET Mails
    BY RowsAreMails
  <2>2. c \in Calls /\ c.phase = "sent" /\ c.token = token + 1 /\ c.ids = Rows
    BY <2>1, CallType, CallFields
  <2>3. /\ Idle(w) /\ UNCHANGED confirmed /\ write' = [write EXCEPT ![w] = c]
        /\ removed' = [k \in Mails |-> IF k \in Rows THEN token + 1 ELSE removed[k]]
    BY <1>12 DEF EmptyTrash, Hide
  <2> HIDE DEF c
  <2> QED BY <1>9, <2>1, <2>2, <2>3
<1>13. ASSUME NEW w \in Writers, UndoLatest(w) PROVE Accounted(m)'
  <2>1. Idle(w) /\ UNCHANGED <<confirmed, removed>> /\ \E c : write' = [write EXCEPT ![w] = c]
    BY <1>13 DEF UndoLatest
  <2> QED BY <2>1, AccountStays DEF Holds, Idle, TypeOK
<1>14. ASSUME NEW w \in Writers, Land(w) PROVE Accounted(m)'
  <2>1. UNCHANGED <<confirmed, removed>>
    BY <1>14 DEF Land
  <2>2. /\ write'[w].phase = "answered" /\ write'[w].ids = write[w].ids /\ write'[w].token = write[w].token
        /\ \A u \in Writers \ {w} : write'[u] = write[u]
    BY <1>14 DEF Land, TypeOK, Calls
  <2> QED BY <2>1, <2>2, AccountStays DEF Holds, Idle
<1>15. ASSUME NEW w \in Writers, Refused(w) PROVE Accounted(m)'
  <2>1. UNCHANGED confirmed /\ removed' = Unhidden(w) /\ write' = [write EXCEPT ![w] = NoWrite]
    BY <1>15 DEF Refused
  <2>2. removed'[m] # 0 => ~Holds(w, m)
    BY <2>1 DEF Unhidden, Holds
  <2>3. removed'[m] \in {0, removed[m]}
    BY <2>1 DEF Unhidden
  <2> QED BY <2>1, <2>2, <2>3, AccountStays DEF Holds, Idle, TypeOK
<1>16. ASSUME NEW w \in Writers, Succeeds(w) PROVE Accounted(m)'
  <2> DEFINE c == write[w]
  <2>1. c \in Calls /\ c.phase = "answered" /\ c.ok /\ write' = [write EXCEPT ![w] = NoWrite]
    BY <1>16 DEF Succeeds, TypeOK
  <2>2. \A u \in Writers \ {w} : write'[u] = write[u]
    BY <2>1 DEF TypeOK
  <2>3. CASE c.kind = "bulk"
    <3>1. removed' = HiddenAfter(w) /\ confirmed' = confirmed \cup {<<token + 1, n>> : n \in c.good}
      BY <1>16, <2>3 DEF Succeeds
    <3>2. CASE m \in c.good
      BY <3>1, <3>2 DEF HiddenAfter, Accounted
    <3>3. CASE m \notin c.good
      <4>1. removed'[m] \in {0, removed[m]} /\ (removed'[m] # 0 => ~Holds(w, m))
        BY <3>1, <3>3 DEF HiddenAfter, Unhidden, Holds
      <4> QED BY <2>2, <3>1, <4>1, AccountStays DEF Holds, Idle
    <3> QED BY <3>2, <3>3
  <2>4. CASE c.kind # "bulk"
    <3>1. UNCHANGED removed /\ confirmed \subseteq confirmed'
      BY <1>16, <2>4 DEF Succeeds
    <3>2. Holds(w, m) /\ removed[m] # 0 => <<removed[m], m>> \in confirmed'
      <4> SUFFICES ASSUME Holds(w, m), removed[m] # 0 PROVE <<removed[m], m>> \in confirmed'
        OBVIOUS
      <4>1. CASE c.kind = "row" /\ c.verb \in Hiding
        <5>1. c.good = c.ids
          BY <2>1, <4>1 DEF WritesKept
        <5>2. confirmed' = confirmed \cup {<<c.token, n>> : n \in c.good}
          BY <1>16, <4>1 DEF Succeeds
        <5> QED BY <5>1, <5>2 DEF Holds
      <4>2. CASE c.kind = "empty"
        <5>1. confirmed' = confirmed \cup {<<c.token, n>> : n \in c.ids}
          BY <1>16, <4>2 DEF Succeeds
        <5> QED BY <5>1 DEF Holds
      <4>3. c.token # 0
        BY DEF Holds
      <4> QED BY <2>1, <2>4, <4>1, <4>2, <4>3 DEF WritesKept, Calls
    <3> QED BY <2>2, <3>1, <3>2, AccountStays DEF Holds, Idle
  <2> QED BY <2>3, <2>4
<1> QED
  BY <1>2, <1>3, <1>4, <1>5, <1>6, <1>7, <1>8, <1>10, <1>11, <1>12, <1>13, <1>14, <1>15, <1>16 DEF Next

-----------------------------------------------------------------------------
(* The lists *)

\* What is on the way in the next state: what was, answered or not, and what was
\* asked in this step.
Same(r, q) == q.source = r.source /\ q.gen = r.gen /\ q.asks = r.asks

\* A step that starts no request leaves a request or answers it from the store of
\* this step.
Quiet ==
    /\ UNCHANGED gen
    /\ \A q \in reads' :
         q \in reads \/ \E r \in reads : /\ Same(r, q) /\ r.answer = Loading
                                         /\ q.answer \in {List(r.asks), Failed}

\* A step that starts requests of S asks in the view and with the query it leaves.
Starts(S) ==
    /\ \A s \in Sources : gen'[s] = IF s \in S THEN gen[s] + 1 ELSE gen[s]
    /\ \A q \in reads' : q \in reads \/ /\ q.source \in S /\ q.gen = gen[q.source] + 1
                                        /\ q.asks = Question(q.source, view', term') /\ q.answer = Loading
    /\ \A s \in S : \E q \in reads' : q.source = s /\ q.gen = gen[s] + 1
    /\ reads \subseteq reads'

LEMMA RunStarts ==
    ASSUME TypeOK, NEW S \in SUBSET Sources, Run(S, view', term')
    PROVE  Starts(S)
<1>1. /\ gen' = [s \in Sources |-> IF s \in S THEN gen[s] + 1 ELSE gen[s]]
      /\ reads' = reads \cup {[source |-> s, gen |-> gen[s] + 1, asks |-> Question(s, view', term'),
                               answer |-> Loading] : s \in S}
  BY DEF Run
<1>2. \A s \in S : \E q \in reads' : q.source = s /\ q.gen = gen[s] + 1
  <2> TAKE s \in S
  <2> DEFINE q == [source |-> s, gen |-> gen[s] + 1, asks |-> Question(s, view', term'), answer |-> Loading]
  <2>1. q \in reads' /\ q.source = s /\ q.gen = gen[s] + 1
    BY <1>1
  <2> QED BY <2>1
<1> QED BY <1>1, <1>2 DEF Starts

\* What a list shows after a step: what it showed, and its last request still to
\* come if it was; nothing; or the answer of the last request of its source.
ShownStep(s) ==
    \/ shown'[s] = shown[s] /\ (Pending(s) => Pending(s)')
    \/ shown'[s] = Loading
    \/ \E r \in reads : r.source = s /\ Current(r) /\ shown'[s] = r.answer

\* The sources that are asked in a step: none while the view stays, or those that
\* had to be asked because the view or the query changed.
ListStep ==
    \/ Quiet /\ UNCHANGED <<view, term>> /\ \A s \in Sources : ShownStep(s)
    \/ /\ \E S \in SUBSET Sources :
            /\ Starts(S)
            /\ \/ UNCHANGED <<view, term>>
               \/ /\ \A s \in S : shown'[s] = Loading
                  /\ \A s \in Sources \ S : Enabled(s, view', term') =>
                       /\ Enabled(s, view, term) /\ Question(s, view', term') = Question(s, view, term)
                       /\ shown'[s] = shown[s]
       /\ \A s \in Sources : shown'[s] \in {shown[s], Loading}

LEMMA ListSteps ==
    ASSUME TypeOK, [Next]_vars
    PROVE  ListStep
<1> USE DEF store, lists, overlay, past
<1>1. CASE UNCHANGED <<lists, view, term>>
  BY <1>1 DEF ListStep, Quiet, ShownStep, Pending, Current
<1>2. CASE UNCHANGED vars
  BY <1>1, <1>2 DEF vars
<1>3. ASSUME NEW s \in Sources, Poll(s) PROVE ListStep
  <2>1. Run({s}, view, term) /\ UNCHANGED <<view, term, shown>>
    BY <1>3 DEF Poll
  <2>2. Starts({s})
    BY <2>1, RunStarts
  <2> QED BY <2>1, <2>2 DEF ListStep
<1>4. ASSUME NEW r \in reads, Serve(r) PROVE ListStep
  <2>1. r.answer = Loading /\ UNCHANGED <<gen, view, term, shown>>
    BY <1>4 DEF Serve
  <2>2. \A q \in reads' : q \in reads \/ q = [r EXCEPT !.answer = List(r.asks)] \/ q = [r EXCEPT !.answer = Failed]
    BY <1>4 DEF Serve
  <2>3. ASSUME NEW a PROVE LET q == [r EXCEPT !.answer = a] IN Same(r, q) /\ q.answer = a
    BY DEF Same, TypeOK
  <2>4. ASSUME NEW s \in Sources, Pending(s) PROVE Pending(s)'
    <3>1. PICK p \in reads : p.source = s /\ Current(p)
      BY <2>4 DEF Pending
    <3>2. CASE p # r
      BY <1>4, <2>1, <3>1, <3>2 DEF Serve, Pending, Current
    <3>3. CASE p = r
      <4>1. PICK q \in reads' : Same(r, q)
        BY <1>4, <2>3 DEF Serve
      <4>2. q.source = s /\ q.gen = gen'[s]
        BY <2>1, <3>1, <3>3, <4>1 DEF Current, Same
      <4> QED BY <4>1, <4>2 DEF Pending, Current
    <3> QED BY <3>2, <3>3
  <2>5. Quiet
    <3>1. ASSUME NEW q \in reads', q \notin reads
          PROVE  Same(r, q) /\ q.answer \in {List(r.asks), Failed}
      <4>1. CASE q = [r EXCEPT !.answer = List(r.asks)]
        BY <2>3, <4>1
      <4>2. CASE q = [r EXCEPT !.answer = Failed]
        BY <2>3, <4>2
      <4> QED BY <2>2, <3>1, <4>1, <4>2
    <3> QED BY <2>1, <3>1 DEF Quiet
  <2>6. \A s \in Sources : ShownStep(s)
    BY <2>1, <2>4 DEF ShownStep
  <2> QED BY <2>1, <2>5, <2>6 DEF ListStep
<1>5. ASSUME NEW r \in reads, Commit(r) PROVE ListStep
  <2>1. ASSUME NEW s \in Sources PROVE ShownStep(s)
    <3>1. CASE r.source = s /\ Current(r)
      BY <1>5, <3>1 DEF Commit, ShownStep, TypeOK
    <3>2. CASE ~(r.source = s /\ Current(r))
      <4>1. shown'[s] = shown[s] /\ UNCHANGED gen /\ reads' = reads \ {r}
        BY <1>5, <3>2 DEF Commit, TypeOK
      <4> QED BY <3>2, <4>1 DEF ShownStep, Pending, Current
    <3> QED BY <3>1, <3>2
  <2> QED BY <1>5, <2>1 DEF Commit, ListStep, Quiet
<1>6. ASSUME NEW v \in Views, Navigate(v) PROVE ListStep
  <2> DEFINE q  == IF {v, view} \subseteq {"briefing", "inbox"} THEN term ELSE Nothing
             on == {s \in Sources : Enabled(s, v, q)}
  <2>1. view' = v /\ term' = q /\ Run(on, v, q)
    BY <1>6 DEF Navigate
  <2>2. Starts(on)
    BY <2>1, RunStarts
  <2>3. \A s \in Sources \ on : ~Enabled(s, view', term')
    BY <2>1
  <2>4. shown' = [s \in Sources |-> IF s \in on THEN Loading ELSE shown[s]]
    BY <1>6 DEF Navigate
  <2> HIDE DEF on
  <2>5. on \in SUBSET Sources
    BY DEF on
  <2> QED BY <2>2, <2>3, <2>4, <2>5 DEF ListStep
<1>7. ASSUME NEW q \in Terms \cup {Nothing}, Type(q) PROVE ListStep
  <2> DEFINE on == IF q = Nothing THEN {} ELSE {"search"}
  <2>1. /\ view # "briefing" /\ UNCHANGED view /\ term' = q /\ Run(on, view, q)
        /\ shown' = IF q = Nothing THEN shown ELSE [shown EXCEPT !["search"] = Loading]
    BY <1>7 DEF Type
  <2>2. Starts(on)
    BY <2>1, RunStarts DEF Sources
  <2>3. on \in SUBSET Sources
    BY DEF Sources
  <2>4. \A s \in Sources \ on : Enabled(s, view', term') =>
           /\ Enabled(s, view, term) /\ Question(s, view', term') = Question(s, view, term)
           /\ shown'[s] = shown[s]
    BY <2>1 DEF Enabled, Question, Sources, TypeOK
  <2>5. \A s \in Sources : shown'[s] \in {shown[s], Loading} /\ (s \in on => shown'[s] = Loading)
    BY <2>1 DEF TypeOK, Sources
  <2> QED BY <2>2, <2>3, <2>4, <2>5 DEF ListStep
<1>8. ASSUME NEW w \in Writers, Succeeds(w) PROVE ListStep
  <2>1. Run(Refreshed(w), view, term) /\ UNCHANGED <<view, term, shown>>
    BY <1>8 DEF Succeeds
  <2>2. Refreshed(w) \in SUBSET Sources
    BY DEF Refreshed, Sources
  <2>3. Starts(Refreshed(w))
    BY <2>1, <2>2, RunStarts
  <2> QED BY <2>1, <2>2, <2>3 DEF ListStep
<1>9. ASSUME NEW w \in Writers, NEW verb \in Verbs, NEW m \in Mails, RowVerb(w, verb, m) PROVE ListStep
  BY <1>1, <1>9 DEF RowVerb
<1>10. ASSUME NEW m \in Mails, Mark(m) \/ OthersMove(m) PROVE ListStep
  BY <1>1, <1>10 DEF Mark, OthersMove
<1>11. CASE DeleteMarked
  BY <1>1, <1>11 DEF DeleteMarked
<1>12. ASSUME NEW w \in Writers, NEW verb \in Verbs, Bulk(w, verb) PROVE ListStep
  BY <1>1, <1>12 DEF Bulk
<1>13. ASSUME NEW w \in Writers, EmptyTrash(w) \/ UndoLatest(w) \/ Land(w) \/ Refused(w) PROVE ListStep
  BY <1>1, <1>13 DEF EmptyTrash, UndoLatest, Land, Refused
<1> QED
  BY <1>2, <1>3, <1>4, <1>5, <1>6, <1>7, <1>8, <1>9, <1>10, <1>11, <1>12, <1>13 DEF Next

LEMMA ReadsStep ==
    ASSUME TypeOK, ReadsKept, [Next]_vars
    PROVE  ReadsKept'
<1>1. ListStep
  BY ListSteps
<1>2. \A r \in reads : r \in Read
  BY DEF TypeOK, Read
<1>3. CASE Quiet /\ UNCHANGED <<view, term>> /\ \A s \in Sources : ShownStep(s)
  <2>1. ASSUME NEW q \in reads'
        PROVE  /\ q.gen <= gen'[q.source]
               /\ q.answer.phase = "ready" => q.answer.asks = q.asks
               /\ Current(q)' /\ Enabled(q.source, view', term') => q.asks = Asked(q.source)'
    <3>1. CASE q \in reads
      BY <1>3, <3>1 DEF ReadsKept, Quiet, Current, Asked
    <3>2. ASSUME NEW r \in reads, Same(r, q), q.answer \in {List(r.asks), Failed}
          PROVE  /\ q.gen <= gen'[q.source]
                 /\ q.answer.phase = "ready" => q.answer.asks = q.asks
                 /\ Current(q)' /\ Enabled(q.source, view', term') => q.asks = Asked(q.source)'
      <4>1. q.answer.phase = "ready" => q.answer.asks = q.asks
        BY <1>2, <3>2, ListType, NoListType DEF Same, Read
      <4> QED BY <1>3, <3>2, <4>1 DEF ReadsKept, Quiet, Current, Asked, Same
    <3> QED BY <1>3, <3>1, <3>2 DEF Quiet
  <2>2. ASSUME NEW s \in Sources, Enabled(s, view', term'), shown'[s].phase = "ready"
        PROVE  shown'[s].asks = Asked(s)'
    <3>1. ShownStep(s)
      BY <1>3
    <3>2. Enabled(s, view, term) /\ Asked(s)' = Asked(s)
      BY <1>3, <2>2 DEF Asked
    <3> QED BY <2>2, <3>1, <3>2, NoListType DEF ShownStep, ReadsKept
  <2> QED BY <2>1, <2>2 DEF ReadsKept
<1>4. ASSUME NEW S \in SUBSET Sources, Starts(S),
             \/ UNCHANGED <<view, term>>
             \/ /\ \A s \in S : shown'[s] = Loading
                /\ \A s \in Sources \ S : Enabled(s, view', term') =>
                     /\ Enabled(s, view, term) /\ Question(s, view', term') = Question(s, view, term)
                     /\ shown'[s] = shown[s],
             \A s \in Sources : shown'[s] \in {shown[s], Loading}
      PROVE  ReadsKept'
  <2>1. ASSUME NEW q \in reads'
        PROVE  /\ q.gen <= gen'[q.source]
               /\ q.answer.phase = "ready" => q.answer.asks = q.asks
               /\ Current(q)' /\ Enabled(q.source, view', term') => q.asks = Asked(q.source)'
    <3>1. CASE q \in reads
      <4>1. q.source \in Sources /\ q.gen \in Nat /\ gen[q.source] \in Nat /\ q.gen <= gen[q.source]
        BY <1>2, <3>1 DEF Read, TypeOK, ReadsKept
      <4>2. gen'[q.source] = IF q.source \in S THEN gen[q.source] + 1 ELSE gen[q.source]
        BY <1>4, <4>1 DEF Starts
      <4>3. ASSUME Current(q)', Enabled(q.source, view', term') PROVE q.asks = Asked(q.source)'
        <5>1. q.source \notin S /\ Current(q)
          BY <4>1, <4>2, <4>3 DEF Current
        <5> QED BY <1>4, <3>1, <4>1, <4>3, <5>1 DEF ReadsKept, Asked
      <4> QED BY <3>1, <4>1, <4>2, <4>3 DEF ReadsKept
    <3>2. CASE q \notin reads
      <4>1. /\ q.source \in S /\ q.gen = gen[q.source] + 1
            /\ q.asks = Question(q.source, view', term') /\ q.answer = Loading
        BY <1>4, <3>2 DEF Starts
      <4>2. gen'[q.source] = gen[q.source] + 1 /\ gen[q.source] \in Nat
        BY <1>4, <4>1 DEF Starts, TypeOK
      <4> QED BY <4>1, <4>2, NoListType DEF Asked
    <3> QED BY <3>1, <3>2
  <2>2. ASSUME NEW s \in Sources, Enabled(s, view', term'), shown'[s].phase = "ready"
        PROVE  shown'[s].asks = Asked(s)'
    BY <1>4, <2>2, NoListType DEF ReadsKept, Asked
  <2> QED BY <2>1, <2>2 DEF ReadsKept
<1> QED BY <1>1, <1>3, <1>4 DEF ListStep

-----------------------------------------------------------------------------
(* Lists follow writes *)

\* A source of the visit: its list is not older than what was confirmed, now or
\* when its last request is answered.
Follows(s) ==
    Enabled(s, view, term) =>
        /\ \A r \in reads : r.source = s /\ Current(r) /\ r.answer.phase = "ready" => r.answer.at >= owed
        /\ shown[s].phase = "ready" /\ ~Pending(s) => shown[s].at >= owed

LEMMA FollowsIsKept ==
    /\ VisitKept /\ ListFollowsWrites => owed <= now /\ \A s \in {"messages", "briefing"} : Follows(s)
    /\ owed <= now /\ (\A s \in {"messages", "briefing"} : Follows(s)) =>
         /\ ListFollowsWrites
         /\ \A r \in reads :
              /\ r.source \in {"messages", "briefing"} /\ Current(r) /\ Enabled(r.source, view, term)
              /\ r.answer.phase = "ready"
              => r.answer.at >= owed
BY DEF Follows, VisitKept, ListFollowsWrites

\* What the sources owe: less than before, or the newest write that was confirmed,
\* after which every source of the visit is asked again.
OwedStep ==
    \/ owed' <= owed
    \/ /\ owed' <= now /\ UNCHANGED <<view, term>>
       /\ \E S \in SUBSET Sources :
            Starts(S) /\ \A s \in {"messages", "briefing"} : Enabled(s, view, term) => s \in S

LEMMA OwedSteps ==
    ASSUME TypeOK, VisitKept, [Next]_vars
    PROVE  OwedStep
<1> USE DEF store, lists, overlay, past
<1>1. CASE UNCHANGED owed
  BY <1>1 DEF OwedStep, TypeOK
<1>2. CASE \E v \in Views : Navigate(v)
  BY <1>2 DEF Navigate, OwedStep, TypeOK
<1>3. ASSUME NEW w \in Writers, Succeeds(w) PROVE OwedStep
  <2> DEFINE c == write[w]
  <2>1. /\ owed' = IF c.here /\ c.good # {} /\ c.at > owed THEN c.at ELSE owed
        /\ Run(Refreshed(w), view, term) /\ UNCHANGED <<view, term>>
        /\ ~Idle(w)
    BY <1>3 DEF Succeeds, Idle
  <2>2. CASE owed' = owed
    BY <1>1, <2>2
  <2>3. CASE owed' # owed
    <3>1. c.here /\ owed' = c.at
      BY <2>1, <2>3
    <3>2. c.view = view /\ owed' <= now
      BY <2>1, <3>1 DEF VisitKept
    <3>3. Refreshed(w) \in SUBSET Sources /\ Starts(Refreshed(w))
      BY <2>1, RunStarts DEF Refreshed, Sources
    <3>4. \A s \in {"messages", "briefing"} : Enabled(s, view, term) => s \in Refreshed(w)
      BY <3>2 DEF Refreshed, Enabled
    <3> QED BY <2>1, <3>2, <3>3, <3>4 DEF OwedStep
  <2> QED BY <2>2, <2>3
<1> QED
  BY <1>1, <1>2, <1>3
     DEF Next, vars, Poll, Serve, Commit, Type, Mark, OthersMove, DeleteMarked, RowVerb, Bulk, EmptyTrash,
         UndoLatest, Land, Refused

\* A source that is asked in a step is awaited after it, and nothing else is.
LEMMA AskedFollows ==
    ASSUME TypeOK, ReadsKept, NEW S \in SUBSET Sources, Starts(S), NEW s \in S
    PROVE  /\ Pending(s)'
           /\ \A q \in reads' : q.source = s /\ Current(q)' => q.answer.phase # "ready"
<1>1. gen'[s] = gen[s] + 1 /\ gen[s] \in Nat
  BY DEF Starts, TypeOK
<1>2. Pending(s)'
  BY <1>1 DEF Starts, Pending, Current
<1>3. ASSUME NEW q \in reads', q.source = s, Current(q)' PROVE q.answer.phase # "ready"
  <2>1. q \notin reads
    BY <1>1, <1>3 DEF Current, ReadsKept, TypeOK
  <2> QED BY <2>1, NoListType DEF Starts
<1> QED BY <1>2, <1>3

LEMMA FollowsStep ==
    ASSUME TypeOK, WritesKept, ReadsKept, VisitKept, [Next]_vars,
           NEW s \in {"messages", "briefing"}, Follows(s)
    PROVE  Follows(s)'
<1> SUFFICES ASSUME Enabled(s, view', term')
             PROVE  /\ \A q \in reads' : q.source = s /\ Current(q)' /\ q.answer.phase = "ready"
                         => q.answer.at >= owed'
                    /\ shown'[s].phase = "ready" /\ ~Pending(s)' => shown'[s].at >= owed'
  BY DEF Follows
<1>1. s \in Sources
  BY DEF Sources
<1>2. \A r \in reads : r \in Read
  BY DEF TypeOK, Read
<1>3. ASSUME NEW S \in SUBSET Sources, Starts(S), s \in S
      PROVE  /\ \A q \in reads' : q.source = s /\ Current(q)' /\ q.answer.phase = "ready"
                  => q.answer.at >= owed'
             /\ shown'[s].phase = "ready" /\ ~Pending(s)' => shown'[s].at >= owed'
  BY <1>3, AskedFollows
<1>4. CASE ~(owed' <= owed)
  <2>1. owed' <= now /\ UNCHANGED <<view, term>>
        /\ \E S \in SUBSET Sources :
             Starts(S) /\ \A t \in {"messages", "briefing"} : Enabled(t, view, term) => t \in S
    BY <1>4, OwedSteps DEF OwedStep
  <2> QED BY <1>3, <2>1
<1>5. CASE owed' <= owed
  <2>1. owed' \in Nat /\ owed \in Nat /\ now \in Nat /\ owed <= now
    BY TypeStep DEF TypeOK, VisitKept
  <2>2. CASE Quiet /\ UNCHANGED <<view, term>> /\ \A t \in Sources : ShownStep(t)
    <3>1. ASSUME NEW q \in reads', q.source = s, Current(q)', q.answer.phase = "ready"
          PROVE  q.answer.at >= owed'
      <4>1. CASE q \in reads
        BY <1>2, <1>5, <2>1, <2>2, <3>1, <4>1 DEF Follows, Quiet, Current, Read, Answers
      <4>2. ASSUME NEW r \in reads, q.answer \in {List(r.asks), Failed} PROVE q.answer.at = now
        BY <1>2, <3>1, <4>2, ListType, NoListType DEF Read
      <4> QED BY <1>5, <2>1, <2>2, <3>1, <4>1, <4>2 DEF Quiet
    <3>2. ASSUME shown'[s].phase = "ready", ~Pending(s)' PROVE shown'[s].at >= owed'
      <4>1. ShownStep(s) /\ Enabled(s, view, term)
        BY <1>1, <2>2
      <4>2. CASE shown'[s] = shown[s] /\ ~Pending(s)
        BY <1>1, <1>5, <2>1, <3>2, <4>1, <4>2 DEF Follows, TypeOK, Answers
      <4>3. ASSUME NEW r \in reads, r.source = s, Current(r), shown'[s] = r.answer
            PROVE  shown'[s].at >= owed'
        BY <1>2, <1>5, <2>1, <3>2, <4>1, <4>3 DEF Follows, Read, Answers
      <4> QED BY <3>2, <4>1, <4>2, <4>3, NoListType DEF ShownStep
    <3> QED BY <3>1, <3>2
  <2>3. ASSUME NEW S \in SUBSET Sources, Starts(S), s \notin S, Enabled(s, view, term),
               shown'[s] \in {shown[s], Loading}
        PROVE  /\ \A q \in reads' : q.source = s /\ Current(q)' /\ q.answer.phase = "ready"
                    => q.answer.at >= owed'
               /\ shown'[s].phase = "ready" /\ ~Pending(s)' => shown'[s].at >= owed'
    <3>1. gen'[s] = gen[s]
      BY <1>1, <2>3 DEF Starts
    <3>2. ASSUME NEW q \in reads', q.source = s, Current(q)', q.answer.phase = "ready"
          PROVE  q.answer.at >= owed'
      <4>1. q \in reads
        BY <2>3, <3>2 DEF Starts
      <4> QED BY <1>2, <1>5, <2>1, <2>3, <3>1, <3>2, <4>1 DEF Follows, Current, Read, Answers
    <3>3. Pending(s) => Pending(s)'
      BY <2>3, <3>1 DEF Pending, Current, Starts
    <3>4. ASSUME shown'[s].phase = "ready", ~Pending(s)' PROVE shown'[s].at >= owed'
      BY <1>1, <1>5, <2>1, <2>3, <3>3, <3>4, NoListType DEF Follows, TypeOK, Answers
    <3> QED BY <3>2, <3>4
  <2> QED BY <1>1, <1>3, <2>2, <2>3, ListSteps DEF ListStep
<1> QED BY <1>4, <1>5

LEMMA VisitStep ==
    ASSUME TypeOK, WritesKept, ReadsKept, VisitKept, ListFollowsWrites, [Next]_vars
    PROVE  VisitKept' /\ ListFollowsWrites'
<1>1. TypeOK' /\ now <= now'
  BY TypeStep, ClockStep
<1>2. owed' <= now'
  BY <1>1, OwedSteps DEF OwedStep, VisitKept, TypeOK
<1>3. ASSUME NEW w \in Writers
      PROVE  /\ write'[w].phase # "idle" /\ write'[w].here => write'[w].view = view'
             /\ write'[w].at <= now'
  <2>1. WriteStep(w)
    BY WriteSteps
  <2>2. write[w] \in Calls /\ now \in Nat /\ now' \in Nat
    BY <1>1 DEF TypeOK
  <2>3. CASE write'[w] = write[w] /\ UNCHANGED view
    BY <1>1, <2>2, <2>3 DEF VisitKept, Idle, Calls
  <2>4. CASE write'[w] = [write[w] EXCEPT !.here = FALSE]
    BY <1>1, <2>2, <2>4 DEF VisitKept, Calls
  <2>5. CASE Begun(write'[w]) /\ UNCHANGED view
    BY <2>2, <2>5 DEF Begun
  <2>6. CASE Answered(write[w], write'[w]) /\ UNCHANGED view
    BY <2>2, <2>6 DEF Answered, VisitKept, Idle
  <2>7. CASE write'[w] = NoWrite
    BY <2>2, <2>7, NoWriteType
  <2> QED BY <2>1, <2>3, <2>4, <2>5, <2>6, <2>7 DEF WriteStep
<1>4. \A s \in {"messages", "briefing"} : Follows(s)'
  BY FollowsIsKept, FollowsStep
<1>5. /\ ListFollowsWrites'
      /\ \A r \in reads' :
           /\ r.source \in {"messages", "briefing"} /\ Current(r)' /\ Enabled(r.source, view', term')
           /\ r.answer.phase = "ready"
           => r.answer.at >= owed'
  <2>1. owed' <= now' /\ \A s \in {"messages", "briefing"} : Follows(s)'
    BY <1>2, <1>4
  <2> QED BY <2>1 DEF Follows, ListFollowsWrites
<1> QED BY <1>2, <1>3, <1>5 DEF VisitKept, Idle

-----------------------------------------------------------------------------
(* The theorems *)

LEMMA InvInit ==
    ASSUME Init
    PROVE  IInv
<1>1. TypeOK
  BY TypeInit
<1>2. WritesKept
  BY DEF Init, WritesKept, NoWrite, Patching
<1>3. HiddenIsAccountedFor
  BY DEF Init, HiddenIsAccountedFor
<1>4. ReadsKept
  <2>1. shown["messages"] = List("inbox") /\ shown["briefing"] = Loading /\ shown["search"] = Loading
    BY DEF Init, Sources
  <2> QED
    BY <1>1, <2>1, ListType, NoListType, ListAssumption
       DEF Init, ReadsKept, Asked, Question, Enabled, Sources
<1>5. VisitKept
  BY DEF Init, VisitKept, Idle, NoWrite
<1>6. ListFollowsWrites
  BY <1>1 DEF Init, ListFollowsWrites, TypeOK, Answers, Sources
<1> QED BY <1>1, <1>2, <1>3, <1>4, <1>5, <1>6 DEF IInv

LEMMA InvStep ==
    ASSUME IInv, [Next]_vars
    PROVE  IInv'
<1> USE DEF IInv
<1>1. TypeOK' /\ WritesKept'
  BY TypeStep, WritesStep
<1>2. HiddenIsAccountedFor'
  BY AccountStep DEF Accounted, Holds, HiddenIsAccountedFor
<1>3. ReadsKept'
  BY ReadsStep
<1>4. VisitKept' /\ ListFollowsWrites'
  BY VisitStep
<1> QED BY <1>1, <1>2, <1>3, <1>4

\* The variables of the list window have their types, and IInv holds throughout.
THEOREM ListInvariant == Spec => []IInv
<1>1. IInv /\ UNCHANGED vars => IInv'
  BY InvStep
<1> QED BY InvInit, InvStep, <1>1, PTL DEF Spec

\* A row is hidden only for a write that is on its way or that the backend confirmed
\* for that very row (runBulk, overlay.remove and its roll-back).
THEOREM HiddenRowsAreAccountedFor == Spec => []HiddenIsAccountedFor
BY ListInvariant, PTL DEF IInv

\* The list on the screen is the answer to what the screen asks (useApiOutcome's
\* generation check), however requests, routes and queries overlap.
THEOREM ScreenAnswersItsView == Spec => []AnswersTheView
<1>1. ReadsKept => AnswersTheView
  BY DEF ReadsKept, AnswersTheView, Source, Sources, Enabled
<1> QED BY ListInvariant, <1>1, PTL DEF IInv

\* Once no answer is awaited, a list is no older than the writes confirmed since the
\* user came to it (the refresh after a mutation).
THEOREM ListsFollowWrites == Spec => []ListFollowsWrites
BY ListInvariant, PTL DEF IInv
=============================================================================
