--------------------------- MODULE UndoLog_proofs ---------------------------
(***************************************************************************)
(* Proofs about UndoLog for every set of requests, every choice of verbs   *)
(* and every budget.  SingleClaim is not inductive: it needs that a        *)
(* snapshot that can still be upgraded shows no undo of its action         *)
(* (FreshClaims); UndoneOnce needs that a request which runs or retracts   *)
(* an inverse holds the claim of an action nobody answered for (Holders).  *)
(* What an undo restores needs Steady: what each request in flight knows   *)
(* about the folder, the flags and the audit row (Told).                   *)
(***************************************************************************)
EXTENDS UndoLog, TLAPS

Undoing == {"read", "claim", "undoRemote", "undoLocal", "retract"}
Holding == {"undoRemote", "undoLocal", "retract"}

\* A request that undoes something names a recorded action.
Named == \A h \in Handlers : req[h].phase \in Undoing => req[h].action \in Actions

\* A snapshot nobody has committed past shows no undo of the action it is about.
FreshClaims ==
    \A h \in Handlers : req[h].fresh => req[h].phase = "claim" /\ ~Undone(req[h].action)

\* A request past its claim owns the undo row, and nobody has answered 200.
Holders ==
    \A h \in Handlers :
        req[h].phase \in Holding => /\ [of |-> req[h].action, by |-> h] \in undos
                                    /\ answers[req[h].action] = 0

Claims == FreshClaims /\ SingleClaim /\ Holders /\ UndoneOnce
IInv   == TypeOK /\ Named /\ Claims

-----------------------------------------------------------------------------
(* What a move of one request does to the requests *)

\* What a request becomes; the others stay as they are.
LEMMA BecomesType ==
    ASSUME TypeOK, NEW h \in Handlers, NEW r \in Requests, Becomes(h, r)
    PROVE  /\ req' \in [Handlers -> Requests] /\ req'[h] = r
           /\ \A k \in Handlers \ {h} : req'[k] = req[k]
BY DEF TypeOK, Becomes

\* With a commit the others stay where they are, without a fresh snapshot.
LEMMA CommitsType ==
    ASSUME TypeOK, NEW h \in Handlers, NEW r \in Requests, Commits(h, r)
    PROVE  /\ req' \in [Handlers -> Requests] /\ req'[h] = r
           /\ \A k \in Handlers \ {h} : /\ req'[k].phase = req[k].phase
                                        /\ req'[k].action = req[k].action
                                        /\ ~req'[k].fresh
<1>1. \A k \in Handlers : [req[k] EXCEPT !.fresh = FALSE] \in Requests
  BY DEF TypeOK, Requests
<1>2. \A k \in Handlers \ {h} : /\ req'[k] = [req[k] EXCEPT !.fresh = FALSE]
                                /\ req[k] \in Requests
  BY DEF TypeOK, Commits
<1>3. req' \in [Handlers -> Requests] /\ req'[h] = r
  BY <1>1 DEF Commits
<1> QED BY <1>2, <1>3 DEF Requests

\* One folder alone is a place to be, and no two such places are the same.
LEMMA OnlyType == \A f \in Folders : Only(f) \in Places
BY DEF Only, Places

LEMMA OnlyDiffers == ASSUME NEW f \in Folders, NEW g \in Folders, Only(f) = Only(g) PROVE f = g
<1>1. Only(f)[f] = 1 /\ Only(g)[f] = IF f = g THEN 1 ELSE 0
  BY DEF Only
<1> QED BY <1>1

\* The records of nobody and nothing have their types.
LEMMA IdleType == Idle \in Requests /\ Idle.phase = "idle" /\ ~Idle.fresh
BY OnlyType DEF Idle, Requests, Phases, AllVerbs, NoAction, Folders

\* The count of events stays a natural number each.
LEMMA SpendType ==
    ASSUME TypeOK, NEW events \in SUBSET Events, Spend(events)
    PROVE  spent' \in [Events -> Nat]
BY DEF TypeOK, Spend

\* The events a request counts as are events.
LEMMA BesideType == ASSUME NEW h \in Handlers PROVE Beside(h) \in SUBSET Events
BY DEF Beside, Events

\* Verbs map folders and flags to folders and flags.
LEMMA VerbType ==
    ASSUME NEW verb \in AllVerbs, NEW fs \in SUBSET Flags
    PROVE  /\ Inverse(verb) \in AllVerbs /\ Source(verb) \in Folders /\ Target(verb) \in Folders
           /\ Local(verb, fs) \in SUBSET Flags
BY DEF AllVerbs, Inverse, Source, Target, Local, Folders, Flags, INBOX, ARCHIVE, TRASH

\* A move, whole or half, leaves so many copies in each folder.
LEMMA MoveType ==
    ASSUME TypeOK, NEW verb \in AllVerbs, Found(verb)
    PROVE  Moved(verb) \in Places /\ Copied(verb) \in Places
<1>1. PICK f \in Folders, g \in Folders : f = Source(verb) /\ g = Target(verb) /\ f # g
  BY DEF AllVerbs, Source, Target, Folders, INBOX, ARCHIVE, TRASH
<1>2. /\ copies[f] - 1 \in Nat /\ copies[g] + 1 \in Nat /\ copies \in [Folders -> Nat]
  BY <1>1 DEF Found, TypeOK, Places
<1> QED BY <1>1, <1>2 DEF Moved, Copied, Places

\* The moves under way stay so many.
LEMMA AdriftType ==
    ASSUME TypeOK, NEW verb \in AllVerbs, SentAdrift(verb)
    PROVE  adrift' \in [AllVerbs -> Nat]
BY DEF TypeOK, SentAdrift
-----------------------------------------------------------------------------
(* Type correctness *)

\* The message in the INBOX with an empty log satisfies the invariant.
LEMMA InitType == Init => IInv
<1> SUFFICES ASSUME Init PROVE IInv
  OBVIOUS
<1>1. TypeOK
  <2>1. /\ [verb |-> "archive", expired |-> FALSE, from |-> Only(INBOX), old |-> {}] \in Records
        /\ Only(INBOX) \in Places
    BY OnlyType DEF Records, AllVerbs, Folders
  <2>2. logged \in 0..MaxActions
    BY UndoAssumption DEF Init
  <2> QED
    BY <2>1, <2>2, IdleType, UndoAssumption DEF Init, TypeOK
<1>2. Named
  BY IdleType DEF Init, Named, Undoing
<1>3. Claims
  BY IdleType DEF Init, Claims, FreshClaims, SingleClaim, Holders, UndoneOnce, Holding, Undone
<1> QED BY <1>1, <1>2, <1>3 DEF IInv

\* A request in the middle of something is a record whose parts have their types.
LEMMA RequestParts ==
    ASSUME TypeOK, Named, NEW h \in Handlers
    PROVE  /\ req[h].verb \in AllVerbs /\ req[h].from \in Places /\ req[h].old \in SUBSET Flags
           /\ req[h].fresh \in BOOLEAN /\ req[h].phase \in Phases
           /\ req[h].action \in {NoAction} \cup Actions
           /\ req[h].phase \in Undoing => /\ req[h].action \in Actions
                                         /\ log[req[h].action] \in Records
                                         /\ log[req[h].action].verb \in AllVerbs
BY DEF TypeOK, Named, Requests, Records

\* Every step keeps the types.
LEMMA TypeStep ==
    ASSUME IInv, [Next]_vars
    PROVE  TypeOK'
<1> USE DEF IInv
<1>1. CASE UNCHANGED vars
  BY <1>1 DEF TypeOK, vars
<1>2. ASSUME NEW h \in Handlers, Request(h) PROVE TypeOK'
  <2>1. PICK verb \in Verbs :
          Becomes(h, [Idle EXCEPT !.phase = IF OnServer(verb) THEN "remote" ELSE "local",
                                  !.verb = verb, !.from = copies])
    BY <1>2 DEF Request
  <2>2. [Idle EXCEPT !.phase = IF OnServer(verb) THEN "remote" ELSE "local",
                     !.verb = verb, !.from = copies] \in Requests
    BY UndoAssumption DEF TypeOK, Idle, Requests, Phases, NoAction
  <2>3. spent' \in [Events -> Nat]
    BY <1>2, BesideType, SpendType DEF Request, Events
  <2> QED BY <1>2, <2>1, <2>2, <2>3, BecomesType DEF Request, TypeOK, mail, past
<1>3. ASSUME NEW h \in Handlers, ActRemote(h) PROVE TypeOK'
  <2> DEFINE r == [req[h] EXCEPT !.phase = "local", !.from = copies]
  <2>1. req[h].verb \in AllVerbs
    BY RequestParts
  <2>2. copies' \in Places /\ adrift' \in [AllVerbs -> Nat]
    BY <1>3, <2>1, MoveType, AdriftType DEF ActRemote, TypeOK
  <2>3. r \in Requests
    BY DEF TypeOK, Requests, Phases
  <2>4. Becomes(h, r) \/ Becomes(h, Idle)
    BY <1>3 DEF ActRemote
  <2> HIDE DEF r
  <2>5. req' \in [Handlers -> Requests]
    BY <2>3, <2>4, BecomesType, IdleType
  <2>6. spent' \in [Events -> Nat]
    BY <1>3, SpendType DEF ActRemote, Events, TypeOK
  <2> QED BY <1>3, <2>2, <2>5, <2>6 DEF ActRemote, TypeOK, past
<1>4. ASSUME NEW h \in Handlers, ActLocal(h) PROVE TypeOK'
  <2>1. flags' \in SUBSET Flags
    BY <1>4, RequestParts, VerbType DEF ActLocal, TypeOK
  <2>2. [req[h] EXCEPT !.phase = "audit", !.old = flags] \in Requests
    BY DEF TypeOK, Requests, Phases
  <2> QED BY <1>4, <2>1, <2>2, CommitsType DEF ActLocal, TypeOK, past
<1>5. ASSUME NEW h \in Handlers, ActAudit(h) PROVE TypeOK'
  <2>1. logged' \in 0..MaxActions
    BY <1>5, UndoAssumption DEF ActAudit, TypeOK
  <2>2. [verb |-> req[h].verb, expired |-> FALSE, from |-> req[h].from, old |-> req[h].old] \in Records
    BY RequestParts DEF Records
  <2>3. log' \in [Actions -> Records]
    BY <1>5, <2>2 DEF ActAudit, TypeOK
  <2> QED BY <1>5, <2>1, <2>3, CommitsType, IdleType DEF ActAudit, TypeOK, mail
<1>6. ASSUME NEW h \in Handlers, RequestUndo(h) PROVE TypeOK'
  <2>1. PICK a \in 1..logged : Becomes(h, [Idle EXCEPT !.phase = "read", !.action = a])
    BY <1>6 DEF RequestUndo
  <2>2. a \in Actions
    BY <2>1, UndoAssumption DEF TypeOK, Actions
  <2>3. [Idle EXCEPT !.phase = "read", !.action = a] \in Requests
    BY <2>2, IdleType DEF Idle, Requests, Phases
  <2>4. spent' \in [Events -> Nat]
    BY <1>6, BesideType, SpendType DEF RequestUndo, Events
  <2> QED BY <1>6, <2>1, <2>3, <2>4, BecomesType DEF RequestUndo, TypeOK, mail, past
<1>7. ASSUME NEW h \in Handlers, UndoRead(h) PROVE TypeOK'
  <2>1. [req[h] EXCEPT !.phase = "claim", !.fresh = TRUE] \in Requests
    BY DEF TypeOK, Requests, Phases
  <2>2. CASE Becomes(h, Idle)
    BY <1>7, <2>2, BecomesType, IdleType DEF UndoRead, TypeOK, mail, past
  <2>3. CASE Becomes(h, [req[h] EXCEPT !.phase = "claim", !.fresh = TRUE])
    BY <1>7, <2>1, <2>3, BecomesType DEF UndoRead, TypeOK, mail, past
  <2> QED BY <1>7, <2>2, <2>3 DEF UndoRead
<1>8. ASSUME NEW h \in Handlers, UndoClaim(h) PROVE TypeOK'
  <2> DEFINE verb == Inverse(log[req[h].action].verb)
             r    == [req[h] EXCEPT !.phase = IF OnServer(verb) THEN "undoRemote" ELSE "undoLocal",
                                    !.verb = verb, !.fresh = FALSE]
  <2>1. req[h].action \in Actions /\ verb \in AllVerbs
    BY <1>8, RequestParts, VerbType DEF UndoClaim, Undoing
  <2>2. r \in Requests
    <3>1. req[h] \in Requests
      BY DEF TypeOK
    <3>2. (IF OnServer(verb) THEN "undoRemote" ELSE "undoLocal") \in Phases
      BY DEF Phases
    <3> HIDE DEF verb
    <3> QED BY <2>1, <3>1, <3>2 DEF Requests
  <2>3. CASE undos' = undos \cup {[of |-> req[h].action, by |-> h]} /\ Commits(h, r)
    BY <1>8, <2>1, <2>2, <2>3, CommitsType DEF UndoClaim, TypeOK, mail, past
  <2>4. CASE Becomes(h, Idle) /\ UNCHANGED undos
    BY <1>8, <2>4, BecomesType, IdleType DEF UndoClaim, TypeOK, mail, past
  <2> QED BY <1>8, <2>3, <2>4 DEF UndoClaim
<1>9. ASSUME NEW h \in Handlers, UndoRemote(h) PROVE TypeOK'
  <2>1. copies' \in Places /\ adrift' \in [AllVerbs -> Nat]
    <3>1. req[h].verb \in AllVerbs
      BY RequestParts
    <3> QED BY <1>9, <3>1, MoveType, AdriftType DEF UndoRemote, TypeOK
  <2>2. /\ [req[h] EXCEPT !.phase = "undoLocal"] \in Requests
        /\ [req[h] EXCEPT !.phase = "retract"] \in Requests
    BY DEF TypeOK, Requests, Phases
  <2>3. req' \in [Handlers -> Requests]
    BY <1>9, <2>2, BecomesType DEF UndoRemote
  <2>4. spent' \in [Events -> Nat]
    BY <1>9, SpendType DEF UndoRemote, Events, TypeOK
  <2> QED BY <1>9, <2>1, <2>3, <2>4 DEF UndoRemote, TypeOK, past
<1>10. ASSUME NEW h \in Handlers, UndoLocal(h) PROVE TypeOK'
  <2>1. req[h].action \in Actions
    BY <1>10, RequestParts DEF UndoLocal, Undoing
  <2>2. flags' \in SUBSET Flags
    <3>1. flags \in SUBSET Flags /\ Local(req[h].verb, flags) \in SUBSET Flags
      BY RequestParts, VerbType DEF TypeOK
    <3> QED BY <1>10, <3>1 DEF UndoLocal
  <2>3. answers' \in [Actions -> Nat]
    <3>1. \A a \in Actions : answers[a] \in Nat /\ answers[a] + 1 \in Nat
      BY DEF TypeOK
    <3>2. \/ answers' = [answers EXCEPT ![req[h].action] = answers[req[h].action] + 1]
          \/ answers' = answers
      BY <1>10 DEF UndoLocal
    <3> QED BY <2>1, <3>1, <3>2 DEF TypeOK
  <2>4. inverted' \subseteq Actions
    BY <1>10, <2>1 DEF UndoLocal, TypeOK
  <2>5. [req[h] EXCEPT !.phase = "retract"] \in Requests
    BY DEF TypeOK, Requests, Phases
  <2>6. req' \in [Handlers -> Requests]
    BY <1>10, <2>5, BecomesType, CommitsType, IdleType DEF UndoLocal
  <2>7. spent' \in [Events -> Nat]
    BY <1>10, SpendType DEF UndoLocal, Events, TypeOK
  <2> QED BY <1>10, <2>2, <2>3, <2>4, <2>6, <2>7 DEF UndoLocal, TypeOK, past
<1>11. ASSUME NEW h \in Handlers, Retract(h) PROVE TypeOK'
  <2>1. req' \in [Handlers -> Requests]
    BY <1>11, BecomesType, CommitsType, IdleType DEF Retract
  <2>2. spent' \in [Events -> Nat]
    BY <1>11, SpendType DEF Retract, Events, TypeOK
  <2>3. undos' \subseteq undos
    BY <1>11 DEF Retract
  <2> QED BY <1>11, <2>1, <2>2, <2>3 DEF Retract, TypeOK, mail, past
<1>12. ASSUME NEW h \in Handlers, ActFails(h) \/ Dies(h) PROVE TypeOK'
  <2>1. adrift' \in [AllVerbs -> Nat]
    <3>1. req[h].verb \in AllVerbs
      BY RequestParts
    <3> QED BY <1>12, <3>1, AdriftType DEF ActFails, Dies, mail, TypeOK
  <2>2. req' \in [Handlers -> Requests]
    BY <1>12, BecomesType, IdleType DEF ActFails, Dies
  <2>3. spent' \in [Events -> Nat]
    BY <1>12, SpendType DEF ActFails, Dies, Events
  <2> QED BY <1>12, <2>1, <2>2, <2>3 DEF ActFails, Dies, TypeOK, mail, past
<1>13. ASSUME NEW a \in Actions, Expire(a) PROVE TypeOK'
  <2>1. [log[a] EXCEPT !.expired = TRUE] \in Records
    BY DEF TypeOK, Records
  <2>2. log' \in [Actions -> Records]
    BY <1>13, <2>1 DEF Expire, TypeOK
  <2> QED BY <1>13, <2>2, SpendType DEF Expire, TypeOK, mail, Events
<1>14. CASE OthersCommit
  <2>1. \A k \in Handlers : [req[k] EXCEPT !.fresh = FALSE] \in Requests
    BY DEF TypeOK, Requests
  <2> QED BY <1>14, <2>1 DEF OthersCommit, TypeOK, mail, past
<1>15. ASSUME NEW verb \in AllVerbs, Drifts(verb) PROVE TypeOK'
  <2>1. copies' \in Places
    BY <1>15, MoveType DEF Drifts
  <2>2. adrift' \in [AllVerbs -> Nat]
    BY <1>15 DEF Drifts, TypeOK
  <2> QED BY <1>15, <2>1, <2>2 DEF Drifts, TypeOK, past
<1> QED
  BY <1>1, <1>2, <1>3, <1>4, <1>5, <1>6, <1>7, <1>8, <1>9, <1>10, <1>11, <1>12, <1>13, <1>14, <1>15
     DEF Next

-----------------------------------------------------------------------------
(* Claims *)

\* The other requests keep their phase and their action, and no snapshot of
\* theirs becomes fresh.
LEMMA OthersStay ==
    ASSUME TypeOK, NEW h \in Handlers, NEW r \in Requests, Becomes(h, r) \/ Commits(h, r)
    PROVE  /\ req'[h] = r
           /\ \A k \in Handlers \ {h} : /\ req'[k].phase = req[k].phase
                                        /\ req'[k].action = req[k].action
                                        /\ req'[k].fresh => req[k].fresh
BY BecomesType, CommitsType

\* A request that moves on without a snapshot and without a claim of its own
\* disturbs no claim.
LEMMA QuietClaims ==
    ASSUME IInv, NEW h \in Handlers, NEW r \in Requests, Becomes(h, r) \/ Commits(h, r),
           r.phase \notin Holding, ~r.fresh, UNCHANGED <<undos, answers>>
    PROVE  Claims'
<1>1. FreshClaims'
  BY OthersStay DEF IInv, Claims, FreshClaims, Undone
<1>2. Holders'
  BY OthersStay DEF IInv, Claims, Holders
<1>3. SingleClaim' /\ UndoneOnce'
  BY DEF IInv, Claims, SingleClaim, UndoneOnce, Undone
<1> QED BY <1>1, <1>2, <1>3 DEF Claims

\* A request that holds a claim and goes on holding it disturbs none either.
LEMMA HeldClaims ==
    ASSUME IInv, NEW h \in Handlers, req[h].phase \in Holding, UNCHANGED <<undos, answers>>,
           NEW phase \in Holding, Becomes(h, [req[h] EXCEPT !.phase = phase])
    PROVE  Claims'
<1> DEFINE r == [req[h] EXCEPT !.phase = phase]
<1>1. r \in Requests /\ r.phase = phase /\ r.action = req[h].action /\ r.fresh = req[h].fresh
  BY DEF IInv, TypeOK, Requests, Holding, Phases
<1>2. ~req[h].fresh
  BY DEF IInv, Claims, FreshClaims, Holding
<1> HIDE DEF r
<1>3. Becomes(h, r)
  BY DEF r
<1>4. FreshClaims'
  BY <1>1, <1>2, <1>3, OthersStay DEF IInv, Claims, FreshClaims, Undone
<1>5. Holders'
  BY <1>1, <1>3, OthersStay DEF IInv, Claims, Holders
<1>6. SingleClaim' /\ UndoneOnce'
  BY DEF IInv, Claims, SingleClaim, UndoneOnce, Undone
<1> QED BY <1>4, <1>5, <1>6 DEF Claims

\* The undo row is written only from a snapshot that is still the newest one.
LEMMA GrantedClaims ==
    ASSUME IInv, NEW h \in Handlers, req[h].phase = "claim", req[h].fresh,
           NEW r \in Requests, r.phase \in Holding, r.action = req[h].action, ~r.fresh,
           Commits(h, r), UNCHANGED answers,
           undos' = undos \cup {[of |-> req[h].action, by |-> h]}
    PROVE  Claims'
<1> DEFINE a == req[h].action
<1>1. a \in Actions /\ ~Undone(a)
  BY RequestParts DEF IInv, Undoing, Claims, FreshClaims
<1>2. answers[a] = 0
  BY <1>1 DEF IInv, TypeOK, Claims, UndoneOnce
<1>3. FreshClaims'
  BY CommitsType DEF IInv, FreshClaims
<1>4. SingleClaim'
  BY <1>1 DEF IInv, Claims, SingleClaim, Undone
<1>5. Holders'
  BY <1>2, CommitsType DEF IInv, Claims, Holders
<1>6. UndoneOnce'
  BY DEF IInv, Claims, UndoneOnce, Undone
<1> QED BY <1>3, <1>4, <1>5, <1>6 DEF Claims

\* The answer 200: nobody else holds the claim of the same action.
LEMMA AnsweredClaims ==
    ASSUME IInv, NEW h \in Handlers, req[h].phase \in Holding, Commits(h, Idle), UNCHANGED undos,
           answers' = [answers EXCEPT ![req[h].action] = @ + 1]
    PROVE  Claims'
<1> DEFINE a == req[h].action
<1>1. a \in Actions /\ [of |-> a, by |-> h] \in undos /\ answers[a] = 0
  BY RequestParts DEF IInv, Undoing, Holding, Claims, Holders
<1>2. answers'[a] = 1 /\ \A b \in Actions \ {a} : answers'[b] = answers[b]
  BY <1>1 DEF IInv, TypeOK
<1>3. FreshClaims'
  BY CommitsType, IdleType DEF IInv, FreshClaims
<1>4. SingleClaim'
  BY DEF IInv, Claims, SingleClaim
<1>5. Holders'
  <2> SUFFICES ASSUME NEW k \in Handlers, req'[k].phase \in Holding
               PROVE  /\ [of |-> req'[k].action, by |-> k] \in undos
                      /\ answers'[req'[k].action] = 0
    BY DEF Holders
  <2>1. k # h
    BY CommitsType, IdleType DEF IInv, Holding
  <2>2. req[k].phase \in Holding /\ req'[k].action = req[k].action
    BY <2>1, CommitsType, IdleType DEF IInv
  <2>3. [of |-> req[k].action, by |-> k] \in undos /\ answers[req[k].action] = 0
    BY <2>2 DEF IInv, Claims, Holders
  <2>4. req[k].action # a
    <3> SUFFICES ASSUME req[k].action = a PROVE FALSE
      OBVIOUS
    <3>1. [of |-> a, by |-> k] = [of |-> a, by |-> h]
      BY <1>1, <2>3 DEF IInv, Claims, SingleClaim
    <3> QED BY <2>1, <3>1
  <2>5. req[k].action \in Actions
    BY <2>2, RequestParts DEF IInv, Undoing, Holding
  <2> QED BY <1>2, <2>2, <2>3, <2>4, <2>5
<1>6. UndoneOnce'
  <2> SUFFICES ASSUME NEW b \in Actions
               PROVE  answers'[b] <= 1 /\ (answers'[b] = 1 => Undone(b))
    BY DEF UndoneOnce, Undone
  <2>1. CASE b = a
    BY <1>1, <1>2, <2>1 DEF Undone
  <2>2. CASE b # a
    BY <1>2, <2>2 DEF IInv, Claims, UndoneOnce
  <2> QED BY <2>1, <2>2
<1> QED BY <1>3, <1>4, <1>5, <1>6 DEF Claims

\* A claim is retracted by the request that made it, and nobody answered for it.
LEMMA RetractedClaims ==
    ASSUME IInv, NEW h \in Handlers, req[h].phase = "retract", Commits(h, Idle), UNCHANGED answers,
           undos' = undos \ {[of |-> req[h].action, by |-> h]}
    PROVE  Claims'
<1> DEFINE a == req[h].action
<1>1. a \in Actions /\ [of |-> a, by |-> h] \in undos /\ answers[a] = 0
  BY RequestParts DEF IInv, Undoing, Holding, Claims, Holders
<1>2. FreshClaims'
  BY CommitsType, IdleType DEF IInv, FreshClaims
<1>3. SingleClaim'
  BY DEF IInv, Claims, SingleClaim
<1>4. Holders'
  BY CommitsType, IdleType DEF IInv, Claims, Holders, Holding
<1>5. UndoneOnce'
  <2> SUFFICES ASSUME NEW b \in Actions
               PROVE  answers[b] <= 1 /\ (answers[b] = 1 => \E u \in undos' : u.of = b)
    BY DEF UndoneOnce, Undone
  <2>1. CASE b = a
    BY <1>1, <2>1
  <2>2. CASE b # a
    BY <2>2 DEF IInv, Claims, UndoneOnce, Undone
  <2> QED BY <2>1, <2>2
<1> QED BY <1>2, <1>3, <1>4, <1>5 DEF Claims

-----------------------------------------------------------------------------
(* Every step keeps the invariant *)

\* A request that goes on to an undo names an action.
LEMMA MovedNamed ==
    ASSUME IInv, NEW h \in Handlers, NEW r \in Requests, Becomes(h, r) \/ Commits(h, r),
           r.phase \in Undoing => r.action \in Actions
    PROVE  Named'
BY OthersStay DEF IInv, Named

\* Every step keeps undos on recorded actions.
LEMMA NamedStep ==
    ASSUME IInv, [Next]_vars
    PROVE  Named'
<1> USE DEF IInv
<1> DEFINE At(h, phase) == [req[h] EXCEPT !.phase = phase]
<1>0. \A h \in Handlers, phase \in Phases :
        /\ At(h, phase) \in Requests
        /\ At(h, phase).phase = phase /\ At(h, phase).action = req[h].action
  BY DEF TypeOK, Requests
<1>a. \A h \in Handlers : Becomes(h, Idle) \/ Commits(h, Idle) => Named'
  BY IdleType, MovedNamed DEF Undoing
<1>1. CASE UNCHANGED vars
  BY <1>1 DEF Named, vars
<1>2. ASSUME NEW h \in Handlers, Request(h) PROVE Named'
  <2>1. PICK verb \in Verbs :
          Becomes(h, [Idle EXCEPT !.phase = IF OnServer(verb) THEN "remote" ELSE "local",
                                  !.verb = verb, !.from = copies])
    BY <1>2 DEF Request
  <2> DEFINE r == [Idle EXCEPT !.phase = IF OnServer(verb) THEN "remote" ELSE "local",
                               !.verb = verb, !.from = copies]
  <2>2. r \in Requests /\ r.phase \notin Undoing
    BY UndoAssumption DEF TypeOK, Idle, Requests, Phases, NoAction, Undoing
  <2> HIDE DEF r
  <2>3. Becomes(h, r)
    BY <2>1 DEF r
  <2> QED BY <2>2, <2>3, MovedNamed
<1>3. ASSUME NEW h \in Handlers, ActRemote(h) PROVE Named'
  <2> DEFINE r == [req[h] EXCEPT !.phase = "local", !.from = copies]
  <2>1. r \in Requests /\ r.phase \notin Undoing
    BY DEF TypeOK, Requests, Phases, Undoing
  <2> HIDE DEF r
  <2>2. Becomes(h, r) \/ Becomes(h, Idle)
    BY <1>3 DEF ActRemote, r
  <2> QED BY <1>a, <2>1, <2>2, MovedNamed
<1>4. ASSUME NEW h \in Handlers, ActLocal(h) PROVE Named'
  <2> DEFINE r == [req[h] EXCEPT !.phase = "audit", !.old = flags]
  <2>1. r \in Requests /\ r.phase \notin Undoing
    BY DEF TypeOK, Requests, Phases, Undoing
  <2> HIDE DEF r
  <2>2. Commits(h, r)
    BY <1>4 DEF ActLocal, r
  <2> QED BY <2>1, <2>2, MovedNamed
<1>5. ASSUME NEW h \in Handlers, RequestUndo(h) PROVE Named'
  <2>1. PICK a \in 1..logged : Becomes(h, [Idle EXCEPT !.phase = "read", !.action = a])
    BY <1>5 DEF RequestUndo
  <2> DEFINE r == [Idle EXCEPT !.phase = "read", !.action = a]
  <2>2. a \in Actions
    BY <2>1, UndoAssumption DEF TypeOK, Actions
  <2>3. r \in Requests /\ r.action = a
    BY <2>2, IdleType DEF Idle, Requests, Phases
  <2> HIDE DEF r
  <2>4. Becomes(h, r)
    BY <2>1 DEF r
  <2> QED BY <2>2, <2>3, <2>4, MovedNamed
<1>6. ASSUME NEW h \in Handlers, UndoRead(h) PROVE Named'
  <2> DEFINE r == [req[h] EXCEPT !.phase = "claim", !.fresh = TRUE]
  <2>1. r \in Requests /\ r.action = req[h].action
    BY DEF TypeOK, Requests, Phases
  <2>2. req[h].action \in Actions
    BY <1>6, RequestParts DEF UndoRead, Undoing
  <2> HIDE DEF r
  <2>3. Becomes(h, r) \/ Becomes(h, Idle)
    BY <1>6 DEF UndoRead, r
  <2> QED BY <1>a, <2>1, <2>2, <2>3, MovedNamed
<1>7. ASSUME NEW h \in Handlers, UndoClaim(h) PROVE Named'
  <2> DEFINE verb == Inverse(log[req[h].action].verb)
             r    == [req[h] EXCEPT !.phase = IF OnServer(verb) THEN "undoRemote" ELSE "undoLocal",
                                    !.verb = verb, !.fresh = FALSE]
  <2>1. req[h].action \in Actions /\ verb \in AllVerbs
    BY <1>7, RequestParts, VerbType DEF UndoClaim, Undoing
  <2>2. r \in Requests /\ r.action = req[h].action
    BY <2>1 DEF TypeOK, Requests, Phases
  <2>3. Commits(h, r) \/ Becomes(h, Idle)
    BY <1>7 DEF UndoClaim
  <2> HIDE DEF r
  <2> QED BY <1>a, <2>1, <2>2, <2>3, MovedNamed
<1>8. ASSUME NEW h \in Handlers, UndoRemote(h) PROVE Named'
  <2>1. req[h].action \in Actions
    BY <1>8, RequestParts DEF UndoRemote, Undoing
  <2>2. Becomes(h, At(h, "undoLocal")) \/ Becomes(h, At(h, "retract"))
    BY <1>8 DEF UndoRemote
  <2> HIDE DEF At
  <2> QED BY <1>0, <2>1, <2>2, MovedNamed DEF Phases
<1>9. ASSUME NEW h \in Handlers, UndoLocal(h) PROVE Named'
  <2>1. req[h].action \in Actions
    BY <1>9, RequestParts DEF UndoLocal, Undoing
  <2>2. Commits(h, Idle) \/ Becomes(h, At(h, "retract"))
    BY <1>9 DEF UndoLocal
  <2> HIDE DEF At
  <2> QED BY <1>0, <1>a, <2>1, <2>2, MovedNamed DEF Phases
<1>10. ASSUME NEW h \in Handlers, ActAudit(h) \/ Retract(h) \/ ActFails(h) \/ Dies(h) PROVE Named'
  BY <1>a, <1>10 DEF ActAudit, Retract, ActFails, Dies
<1>11. ASSUME NEW a \in Actions, Expire(a) PROVE Named'
  BY <1>11 DEF Expire, Named
<1>12. CASE OthersCommit
  <2>1. \A k \in Handlers : req'[k].phase = req[k].phase /\ req'[k].action = req[k].action
    BY <1>12 DEF OthersCommit, TypeOK, Requests
  <2> QED BY <2>1 DEF Named
<1>13. ASSUME NEW verb \in AllVerbs, Drifts(verb) PROVE Named'
  BY <1>13 DEF Drifts, Named
<1> QED
  BY <1>1, <1>2, <1>3, <1>4, <1>5, <1>6, <1>7, <1>8, <1>9, <1>10, <1>11, <1>12, <1>13 DEF Next

\* Every step keeps the claims single.
LEMMA ClaimsStep ==
    ASSUME IInv, [Next]_vars
    PROVE  Claims'
<1> DEFINE Resting(h) == /\ Becomes(h, Idle) \/ Commits(h, Idle)
                         /\ UNCHANGED <<undos, answers>>
<1>0. \A h \in Handlers : Resting(h) => Claims'
  BY IdleType, QuietClaims DEF Holding
<1>1. CASE UNCHANGED vars
  BY <1>1 DEF IInv, Claims, FreshClaims, Holders, SingleClaim, UndoneOnce, Undone, vars
<1>2. ASSUME NEW h \in Handlers, Request(h) PROVE Claims'
  <2>1. PICK verb \in Verbs :
          Becomes(h, [Idle EXCEPT !.phase = IF OnServer(verb) THEN "remote" ELSE "local",
                                  !.verb = verb, !.from = copies])
    BY <1>2 DEF Request
  <2> DEFINE r == [Idle EXCEPT !.phase = IF OnServer(verb) THEN "remote" ELSE "local",
                               !.verb = verb, !.from = copies]
  <2>2. r \in Requests /\ r.phase \notin Holding /\ ~r.fresh
    BY UndoAssumption DEF IInv, TypeOK, Idle, Requests, Phases, NoAction, Holding
  <2> HIDE DEF r
  <2>3. Becomes(h, r)
    BY <2>1 DEF r
  <2> QED BY <1>2, <2>2, <2>3, QuietClaims DEF Request
<1>3. ASSUME NEW h \in Handlers, ActRemote(h) PROVE Claims'
  <2> DEFINE r == [req[h] EXCEPT !.phase = "local", !.from = copies]
  <2>1. r \in Requests /\ r.phase \notin Holding /\ ~r.fresh
    BY <1>3 DEF ActRemote, IInv, TypeOK, Requests, Phases, Holding, Claims, FreshClaims
  <2> HIDE DEF r
  <2>2. Becomes(h, r) \/ Becomes(h, Idle)
    BY <1>3 DEF ActRemote, r
  <2> QED BY <1>0, <1>3, <2>1, <2>2, QuietClaims DEF ActRemote
<1>4. ASSUME NEW h \in Handlers, ActLocal(h) PROVE Claims'
  <2> DEFINE r == [req[h] EXCEPT !.phase = "audit", !.old = flags]
  <2>1. r \in Requests /\ r.phase \notin Holding /\ ~r.fresh
    BY <1>4 DEF ActLocal, IInv, TypeOK, Requests, Phases, Holding, Claims, FreshClaims
  <2> HIDE DEF r
  <2>2. Commits(h, r)
    BY <1>4 DEF ActLocal, r
  <2> QED BY <1>4, <2>1, <2>2, QuietClaims DEF ActLocal
<1>5. ASSUME NEW h \in Handlers, RequestUndo(h) PROVE Claims'
  <2>1. PICK a \in 1..logged : Becomes(h, [Idle EXCEPT !.phase = "read", !.action = a])
    BY <1>5 DEF RequestUndo
  <2> DEFINE r == [Idle EXCEPT !.phase = "read", !.action = a]
  <2>2. a \in Actions
    BY <2>1, UndoAssumption DEF IInv, TypeOK, Actions
  <2>3. r \in Requests /\ r.phase \notin Holding /\ ~r.fresh
    BY <2>2, IdleType DEF Idle, Requests, Phases, Holding
  <2> HIDE DEF r
  <2>4. Becomes(h, r)
    BY <2>1 DEF r
  <2> QED BY <1>5, <2>3, <2>4, QuietClaims DEF RequestUndo
<1>6. ASSUME NEW h \in Handlers, UndoRead(h) PROVE Claims'
  <2>1. CASE Becomes(h, Idle)
    BY <1>0, <1>6, <2>1 DEF UndoRead
  <2>2. CASE ~Undone(req[h].action)
             /\ Becomes(h, [req[h] EXCEPT !.phase = "claim", !.fresh = TRUE])
    <3> DEFINE r == [req[h] EXCEPT !.phase = "claim", !.fresh = TRUE]
    <3>1. r \in Requests /\ r.phase = "claim" /\ r.action = req[h].action
      BY DEF IInv, TypeOK, Requests, Phases
    <3> HIDE DEF r
    <3>2. Becomes(h, r) /\ ~Undone(req[h].action) /\ UNCHANGED <<undos, answers>>
      BY <1>6, <2>2 DEF UndoRead, r
    <3>3. FreshClaims'
      BY <3>1, <3>2, OthersStay DEF IInv, Claims, FreshClaims, Undone
    <3>4. Holders'
      BY <3>1, <3>2, OthersStay DEF IInv, Claims, Holders, Holding
    <3>5. SingleClaim' /\ UndoneOnce'
      BY <3>2 DEF IInv, Claims, SingleClaim, UndoneOnce, Undone
    <3> QED BY <3>3, <3>4, <3>5 DEF Claims
  <2> QED BY <1>6, <2>1, <2>2 DEF UndoRead
<1>7. ASSUME NEW h \in Handlers, UndoClaim(h) PROVE Claims'
  <2> DEFINE verb == Inverse(log[req[h].action].verb)
             r    == [req[h] EXCEPT !.phase = IF OnServer(verb) THEN "undoRemote" ELSE "undoLocal",
                                    !.verb = verb, !.fresh = FALSE]
  <2>1. verb \in AllVerbs
    BY <1>7, RequestParts, VerbType DEF UndoClaim, Undoing, IInv
  <2>2. r \in Requests /\ r.phase \in Holding /\ r.action = req[h].action /\ ~r.fresh
    BY <2>1 DEF IInv, TypeOK, Requests, Phases, Holding
  <2>3. \/ /\ req[h].fresh /\ Commits(h, r)
           /\ undos' = undos \cup {[of |-> req[h].action, by |-> h]}
        \/ Becomes(h, Idle) /\ UNCHANGED undos
    BY <1>7 DEF UndoClaim
  <2>4. req[h].phase = "claim" /\ UNCHANGED answers
    BY <1>7 DEF UndoClaim
  <2> HIDE DEF r
  <2>5. CASE Becomes(h, Idle) /\ UNCHANGED undos
    BY <1>0, <2>4, <2>5
  <2>6. CASE /\ req[h].fresh /\ Commits(h, r)
             /\ undos' = undos \cup {[of |-> req[h].action, by |-> h]}
    BY <2>2, <2>4, <2>6, GrantedClaims
  <2> QED BY <2>3, <2>5, <2>6
<1>8. ASSUME NEW h \in Handlers, UndoRemote(h) PROVE Claims'
  <2>1. PICK phase \in Holding : Becomes(h, [req[h] EXCEPT !.phase = phase])
    BY <1>8 DEF UndoRemote, Holding
  <2> QED BY <1>8, <2>1, HeldClaims DEF UndoRemote, Holding
<1>9. ASSUME NEW h \in Handlers, UndoLocal(h) PROVE Claims'
  <2>1. req[h].phase \in Holding /\ UNCHANGED undos
    BY <1>9 DEF UndoLocal, Holding
  <2>2. CASE Commits(h, Idle) /\ answers' = [answers EXCEPT ![req[h].action] = @ + 1]
    BY <2>1, <2>2, AnsweredClaims
  <2>3. CASE Becomes(h, [req[h] EXCEPT !.phase = "retract"]) /\ UNCHANGED answers
    BY <2>1, <2>3, HeldClaims DEF Holding
  <2> QED BY <1>9, <2>2, <2>3 DEF UndoLocal
<1>10. ASSUME NEW h \in Handlers, Retract(h) PROVE Claims'
  <2>1. req[h].phase = "retract" /\ UNCHANGED answers
    BY <1>10 DEF Retract
  <2>2. CASE Commits(h, Idle) /\ undos' = undos \ {[of |-> req[h].action, by |-> h]}
    BY <2>1, <2>2, RetractedClaims
  <2>3. CASE Becomes(h, Idle) /\ UNCHANGED undos
    BY <1>0, <2>1, <2>3
  <2> QED BY <1>10, <2>2, <2>3 DEF Retract
<1>11. ASSUME NEW h \in Handlers, ActAudit(h) \/ ActFails(h) \/ Dies(h) PROVE Claims'
  BY <1>0, <1>11 DEF ActAudit, ActFails, Dies
<1>12. ASSUME NEW a \in Actions, Expire(a) PROVE Claims'
  BY <1>12 DEF Expire, IInv, Claims, FreshClaims, Holders, SingleClaim, UndoneOnce, Undone
<1>13. CASE OthersCommit
  <2>1. \A k \in Handlers : /\ req'[k].phase = req[k].phase /\ req'[k].action = req[k].action
                            /\ ~req'[k].fresh
    BY <1>13 DEF OthersCommit, IInv, TypeOK, Requests
  <2>2. UNCHANGED <<undos, answers>>
    BY <1>13 DEF OthersCommit
  <2>3. FreshClaims' /\ Holders'
    BY <2>1, <2>2 DEF IInv, Claims, FreshClaims, Holders
  <2>4. SingleClaim' /\ UndoneOnce'
    BY <2>2 DEF IInv, Claims, SingleClaim, UndoneOnce, Undone
  <2> QED BY <2>3, <2>4 DEF Claims
<1>14. ASSUME NEW verb \in AllVerbs, Drifts(verb) PROVE Claims'
  BY <1>14 DEF Drifts, IInv, Claims, FreshClaims, Holders, SingleClaim, UndoneOnce, Undone
<1> QED
  BY <1>1, <1>2, <1>3, <1>4, <1>5, <1>6, <1>7, <1>8, <1>9, <1>10, <1>11, <1>12, <1>13, <1>14 DEF Next

-----------------------------------------------------------------------------
(* What a request knows about the message *)

\* The row says of the message what the server does.
Agree(folder, fs) ==
    ("archived" \in fs <=> folder = ARCHIVE) /\ ("deleted" \in fs <=> folder = TRASH)

\* What an action on the row alone finds there.
Ready(verb, fs) == (verb = "pin" => "pinned" \notin fs) /\ (verb = "unpin" => "pinned" \in fs)

\* What an audit row of the verb says it replaced.
Faithful(verb, from, fs) ==
    IF OnServer(verb) THEN from = Only(Source(verb)) /\ Agree(Source(verb), fs) ELSE Ready(verb, fs)

\* A request r in flight, a message in a folder with flags fs, audit rows rows: between
\* the move on the server and the write of the row the two disagree in a known way.
Told(r, folder, fs, rows) ==
    /\ r.phase = "remote" => OnServer(r.verb) /\ folder = Source(r.verb) /\ Agree(folder, fs)
    /\ r.phase = "local" => IF OnServer(r.verb)
                            THEN folder = Target(r.verb) /\ Faithful(r.verb, r.from, fs)
                            ELSE Faithful(r.verb, r.from, fs) /\ Agree(folder, fs)
    /\ r.phase = "audit" => Faithful(r.verb, r.from, r.old) /\ Agree(folder, fs)
    /\ r.phase \in {"read", "claim", "retract"} => Agree(folder, fs)
    /\ r.phase = "undoRemote" => /\ OnServer(r.verb) /\ Agree(folder, fs)
                                 /\ r.verb = Inverse(rows[r.action].verb)
    /\ r.phase = "undoLocal" => /\ r.verb = Inverse(rows[r.action].verb)
                                /\ IF OnServer(r.verb)
                                   THEN folder = Target(r.verb) /\ Agree(Source(r.verb), fs)
                                   ELSE Agree(folder, fs)

Sole(h) == \A k \in Handlers \ {h} : req[k].phase = "idle"

\* The message is in one folder alone, and no move of it is under way by itself.
Lies(folder) == copies = Only(folder) /\ \A verb \in AllVerbs : adrift[verb] = 0

SteadyIn(folder) ==
    /\ Lies(folder)
    /\ \A h \in Handlers : req[h].phase # "idle" => Sole(h) /\ Told(req[h], folder, flags, log)
    /\ Quiet => Agree(folder, flags)
    /\ \A a \in Actions : Faithful(log[a].verb, log[a].from, log[a].old)

Steady == \E folder \in Folders : SteadyIn(folder)

\* The invariant of a life without cut requests, and of one with one request at a time
\* and no move astray.
CalmInv  == Calm => UndoneMeansInverted
AloneInv == Calm /\ OneAtATime /\ Heard => Steady

-----------------------------------------------------------------------------
(* A life without cut requests *)

\* A failed statement, a dropped handler and a move astray are counted, and nothing is
\* uncounted.
LEMMA CutsAreCounted ==
    ASSUME TypeOK
    PROVE  /\ Spend({"disk"}) \/ Spend({"crash"}) => ~Calm'
           /\ Spend({"astray"}) => ~Heard'
BY DEF TypeOK, Spend, Calm, Heard, Events

LEMMA CountsGrow ==
    ASSUME TypeOK, [Next]_vars
    PROVE  \A e \in Events : spent[e] \in Nat /\ (spent'[e] = spent[e] \/ spent'[e] = spent[e] + 1)
<1>1. ASSUME UNCHANGED spent \/ \E events : Spend(events)
      PROVE  \A e \in Events : spent[e] \in Nat /\ (spent'[e] = spent[e] \/ spent'[e] = spent[e] + 1)
  BY <1>1 DEF TypeOK, Spend
<1>2. UNCHANGED spent \/ \E events : Spend(events)
  BY DEF Next, vars, Request, ActRemote, ActLocal, ActAudit, RequestUndo, UndoRead, UndoClaim, UndoRemote,
         UndoLocal, Retract, ActFails, Dies, Expire, Drifts, OthersCommit
<1> QED BY <1>1, <1>2

LEMMA CalmBefore ==
    ASSUME TypeOK, [Next]_vars
    PROVE  (Calm' => Calm) /\ (OneAtATime' => OneAtATime) /\ (Heard' => Heard)
<1>1. \A e \in {"disk", "crash", "beside", "astray"} :
        spent[e] \in Nat /\ (spent'[e] = spent[e] \/ spent'[e] = spent[e] + 1)
  BY CountsGrow DEF Events
<1> QED BY <1>1 DEF Calm, OneAtATime, Heard

\* A request that keeps its claim, has run its inverse or has retracted the claim.
LEMMA ClaimsExplained ==
    ASSUME IInv, UndoneMeansInverted, NEW h \in Handlers, NEW r \in Requests,
           Becomes(h, r) \/ Commits(h, r), undos' \subseteq undos, inverted \subseteq inverted',
           req[h].phase \in Holding =>
               \/ r.phase \in Holding /\ r.action = req[h].action
               \/ req[h].action \in inverted'
               \/ [of |-> req[h].action, by |-> h] \notin undos'
    PROVE  UndoneMeansInverted'
<1> SUFFICES ASSUME NEW u \in undos'
             PROVE  \/ u.of \in inverted'
                    \/ req'[u.by].action = u.of /\ req'[u.by].phase \in Holding
  BY DEF UndoneMeansInverted, Holding
<1>1. /\ u \in undos /\ u.by \in Handlers /\ u = [of |-> u.of, by |-> u.by]
      /\ u.of \in inverted \/ (req[u.by].action = u.of /\ req[u.by].phase \in Holding)
  BY DEF IInv, TypeOK, UndoneMeansInverted, Holding
<1>2. CASE u.by = h
  BY <1>1, <1>2, OthersStay DEF IInv
<1>3. CASE u.by # h
  BY <1>1, <1>3, OthersStay DEF IInv
<1> QED BY <1>2, <1>3

\* A request without a claim explains nothing.
LEMMA ClaimlessExplained ==
    ASSUME IInv, UndoneMeansInverted, NEW h \in Handlers, NEW r \in Requests, req[h].phase \notin Holding,
           Becomes(h, r) \/ Commits(h, r), UNCHANGED <<undos, inverted>>
    PROVE  UndoneMeansInverted'
BY ClaimsExplained

LEMMA CalmStep ==
    ASSUME IInv, CalmInv, [Next]_vars
    PROVE  CalmInv'
<1> SUFFICES ASSUME Calm' PROVE UndoneMeansInverted'
  BY DEF CalmInv
<1> USE DEF IInv
<1>0. UndoneMeansInverted /\ ~Spend({"disk"}) /\ ~Spend({"crash"})
  BY CalmBefore, CutsAreCounted DEF CalmInv
<1> DEFINE At(h, phase) == [req[h] EXCEPT !.phase = phase]
<1>a. \A h \in Handlers, phase \in Phases :
        /\ At(h, phase) \in Requests
        /\ At(h, phase).phase = phase /\ At(h, phase).action = req[h].action
  BY DEF TypeOK, Requests
<1> HIDE DEF At
<1>1. CASE UNCHANGED vars
  BY <1>0, <1>1 DEF UndoneMeansInverted, vars
<1>2. ASSUME NEW h \in Handlers, Request(h) \/ RequestUndo(h) \/ ActRemote(h) \/ ActLocal(h) \/ ActAudit(h)
                                 \/ UndoRead(h)
      PROVE  UndoneMeansInverted'
  <2>1. /\ req[h].phase \notin Holding /\ UNCHANGED <<undos, inverted>>
        /\ \E r : Becomes(h, r) \/ Commits(h, r)
    BY <1>2 DEF Request, RequestUndo, ActRemote, ActLocal, ActAudit, UndoRead, Holding
  <2>2. PICK r : Becomes(h, r) \/ Commits(h, r)
    BY <2>1
  <2>3. r \in Requests
    <3>1. req' \in [Handlers -> Requests]
      BY TypeStep DEF TypeOK
    <3> QED BY <2>2, <3>1 DEF Becomes, Commits, TypeOK
  <2> QED BY <1>0, <2>1, <2>2, <2>3, ClaimlessExplained
<1>3. ASSUME NEW h \in Handlers, UndoClaim(h) PROVE UndoneMeansInverted'
  <2> DEFINE verb == Inverse(log[req[h].action].verb)
             r    == [req[h] EXCEPT !.phase = IF OnServer(verb) THEN "undoRemote" ELSE "undoLocal",
                                    !.verb = verb, !.fresh = FALSE]
  <2>1. verb \in AllVerbs
    BY <1>3, RequestParts, VerbType DEF UndoClaim, Undoing
  <2>2. r \in Requests /\ r.phase \in Holding /\ r.action = req[h].action
    BY <2>1 DEF TypeOK, Requests, Phases, Holding
  <2>3. \/ Commits(h, r) /\ undos' = undos \cup {[of |-> req[h].action, by |-> h]}
        \/ Becomes(h, Idle) /\ UNCHANGED undos
    BY <1>3 DEF UndoClaim
  <2>4. req[h].phase = "claim" /\ UNCHANGED inverted
    BY <1>3 DEF UndoClaim
  <2> HIDE DEF r
  <2>5. CASE Becomes(h, Idle) /\ UNCHANGED undos
    BY <1>0, <2>4, <2>5, IdleType, ClaimlessExplained DEF Holding
  <2>6. CASE Commits(h, r) /\ undos' = undos \cup {[of |-> req[h].action, by |-> h]}
    <3> SUFFICES ASSUME NEW u \in undos'
                 PROVE  \/ u.of \in inverted'
                        \/ req'[u.by].action = u.of /\ req'[u.by].phase \in Holding
      BY DEF UndoneMeansInverted, Holding
    <3>1. CASE u = [of |-> req[h].action, by |-> h]
      BY <2>2, <2>6, <3>1, OthersStay
    <3>2. CASE u \in undos
      <4>1. /\ u.by \in Handlers
            /\ u.of \in inverted \/ (req[u.by].action = u.of /\ req[u.by].phase \in Holding)
        BY <1>0, <3>2 DEF TypeOK, UndoneMeansInverted, Holding
      <4>2. u.of \in inverted \/ u.by # h
        BY <2>4, <4>1 DEF Holding
      <4> QED BY <2>2, <2>4, <2>6, <4>1, <4>2, OthersStay
    <3> QED BY <2>6, <3>1, <3>2
  <2> QED BY <2>3, <2>5, <2>6
<1>4. ASSUME NEW h \in Handlers, UndoRemote(h) PROVE UndoneMeansInverted'
  <2>1. PICK phase \in {"undoLocal", "retract"} : Becomes(h, At(h, phase))
    BY <1>4 DEF UndoRemote, At
  <2>2. UNCHANGED <<undos, inverted>>
    BY <1>4 DEF UndoRemote
  <2> QED BY <1>0, <1>a, <2>1, <2>2, ClaimsExplained DEF Phases, Holding
<1>5. ASSUME NEW h \in Handlers, UndoLocal(h) PROVE UndoneMeansInverted'
  <2>1. /\ UNCHANGED undos /\ inverted' = inverted \cup {req[h].action} /\ Commits(h, Idle)
    BY <1>0, <1>5 DEF UndoLocal
  <2> QED BY <1>0, <2>1, IdleType, ClaimsExplained
<1>6. ASSUME NEW h \in Handlers, Retract(h) PROVE UndoneMeansInverted'
  <2>1. undos' = undos \ {[of |-> req[h].action, by |-> h]} /\ Commits(h, Idle) /\ UNCHANGED inverted
    BY <1>0, <1>6 DEF Retract
  <2> QED BY <1>0, <2>1, IdleType, ClaimsExplained
<1>7. ASSUME NEW h \in Handlers, ActFails(h) \/ Dies(h) PROVE FALSE
  BY <1>0, <1>7 DEF ActFails, Dies
<1>8. ASSUME NEW a \in Actions, Expire(a) PROVE UndoneMeansInverted'
  BY <1>0, <1>8 DEF Expire, UndoneMeansInverted
<1>9. CASE OthersCommit
  <2>1. \A k \in Handlers : req'[k].phase = req[k].phase /\ req'[k].action = req[k].action
    BY <1>9 DEF OthersCommit, TypeOK, Requests
  <2>2. UNCHANGED <<undos, inverted>> /\ \A u \in undos : u.by \in Handlers
    BY <1>9 DEF OthersCommit, TypeOK
  <2> QED BY <1>0, <2>1, <2>2 DEF UndoneMeansInverted
<1>10. ASSUME NEW verb \in AllVerbs, Drifts(verb) PROVE UndoneMeansInverted'
  BY <1>0, <1>10 DEF Drifts, UndoneMeansInverted
<1> QED BY <1>1, <1>2, <1>3, <1>4, <1>5, <1>6, <1>7, <1>8, <1>9, <1>10 DEF Next

-----------------------------------------------------------------------------
(* One request at a time *)

\* What the verbs do to a row that agrees with the server, and what undoes them.
LEMMA VerbFacts ==
    ASSUME NEW verb \in AllVerbs, NEW fs \in SUBSET Flags
    PROVE  /\ Agree(Source(verb), fs) /\ OnServer(verb) => Agree(Target(verb), Local(verb, fs))
           /\ \A folder : Agree(folder, fs) /\ ~OnServer(verb) => Agree(folder, Local(verb, fs))
           /\ OnServer(Inverse(verb)) <=> OnServer(verb)
           /\ OnServer(verb) => Source(Inverse(verb)) = Target(verb) /\ Target(Inverse(verb)) = Source(verb)
BY DEF AllVerbs, Agree, OnServer, Source, Target, Local, Inverse, Flags, INBOX, ARCHIVE, TRASH

\* The offer of the list, on a row that agrees with the server.
LEMMA OfferFacts ==
    ASSUME NEW verb \in AllVerbs, flags \in SUBSET Flags, NEW folder \in Folders, Agree(folder, flags),
           Offered(verb)
    PROVE  (OnServer(verb) => folder = Source(verb)) /\ (~OnServer(verb) => Ready(verb, flags))
BY DEF AllVerbs, Agree, Offered, OnServer, Source, Ready, Flags, Folders, INBOX, ARCHIVE, TRASH

\* A move of a message in one folder alone finds it there, or does not find it.
LEMMA MoveOnly ==
    ASSUME NEW verb \in AllVerbs, NEW folder \in Folders, copies = Only(folder), Found(verb)
    PROVE  folder = Source(verb) /\ Target(verb) \in Folders /\ Moved(verb) = Only(Target(verb))
<1>1. PICK f \in Folders, g \in Folders : f = Source(verb) /\ g = Target(verb) /\ f # g
  BY DEF AllVerbs, Source, Target, Folders, INBOX, ARCHIVE, TRASH
<1>2. copies[f] > 0 /\ copies[f] = IF f = folder THEN 1 ELSE 0
  BY <1>1 DEF Found, Only
<1>3. f = folder
  BY <1>2
<1>4. copies[f] = 1 /\ copies[g] = 0
  BY <1>1, <1>3 DEF Only
<1>5. Moved(verb) = [copies EXCEPT ![f] = copies[f] - 1, ![g] = copies[g] + 1]
  BY <1>1 DEF Moved
<1>6. [copies EXCEPT ![f] = copies[f] - 1, ![g] = copies[g] + 1] = Only(g)
  BY <1>1, <1>3, <1>4 DEF Only
<1> QED BY <1>1, <1>3, <1>5, <1>6

\* The inverse of what an audit row says restores what the row says.
LEMMA InverseRestores ==
    ASSUME NEW verb \in AllVerbs, NEW from \in Places, NEW old \in SUBSET Flags, NEW fs \in SUBSET Flags,
           Faithful(verb, from, old)
    PROVE  /\ Local(Inverse(verb), fs) = (old \cap {FlagOf(verb)}) \cup (fs \ {FlagOf(verb)})
           /\ OnServer(verb) => from = Only(Source(verb))
<1>1. CASE verb \in {"archive", "unarchive"}
  BY <1>1 DEF Faithful, Agree, Ready, OnServer, Source, Local, Inverse, FlagOf, INBOX, ARCHIVE, TRASH
<1>2. CASE verb \in {"trash", "restore"}
  BY <1>2 DEF Faithful, Agree, Ready, OnServer, Source, Local, Inverse, FlagOf, INBOX, ARCHIVE, TRASH
<1>3. CASE verb \in {"pin", "unpin"}
  BY <1>3 DEF Faithful, Agree, Ready, OnServer, Source, Local, Inverse, FlagOf, INBOX, ARCHIVE, TRASH
<1> QED BY <1>1, <1>2, <1>3 DEF AllVerbs

\* The only request moves on: what it is told next decides.
LEMMA SoleMoves ==
    ASSUME TypeOK, NEW h \in Handlers, Sole(h), NEW r \in Requests, Becomes(h, r) \/ Commits(h, r),
           NEW folder \in Folders, Lies(folder)',
           r.phase # "idle" => Told(r, folder, flags', log'),
           r.phase = "idle" => Agree(folder, flags'),
           \A a \in Actions : Faithful(log'[a].verb, log'[a].from, log'[a].old)
    PROVE  Steady'
<1>1. req'[h] = r /\ \A k \in Handlers \ {h} : req'[k].phase = "idle"
  BY OthersStay DEF Sole
<1>2. \A k \in Handlers : req'[k].phase # "idle" => k = h /\ Sole(k)'
  BY <1>1 DEF Sole
<1>3. Quiet' => Agree(folder, flags')
  BY <1>1 DEF Quiet
<1>4. SteadyIn(folder)'
  BY <1>1, <1>2, <1>3 DEF SteadyIn
<1> QED BY <1>4 DEF Steady

\* A request that starts when nothing else is in flight, and one in flight, is the only one.
LEMMA StartsAlone ==
    ASSUME TypeOK, NEW folder \in Folders, SteadyIn(folder), OneAtATime', NEW h \in Handlers,
           req[h].phase = "idle", NEW events \in SUBSET Events, Spend(events \cup Beside(h))
    PROVE  Sole(h) /\ Agree(folder, flags)
<1>1. "beside" \notin events \cup Beside(h)
  BY DEF TypeOK, OneAtATime, Spend, Events
<1>2. Sole(h)
  BY <1>1 DEF Beside, Sole
<1> QED BY <1>2 DEF SteadyIn, Sole, Quiet

LEMMA AloneStep ==
    ASSUME IInv, AloneInv, [Next]_vars
    PROVE  AloneInv'
<1> SUFFICES ASSUME Calm', OneAtATime', Heard' PROVE Steady'
  BY DEF AloneInv
<1> USE DEF IInv
<1>0. Steady /\ ~Spend({"disk"}) /\ ~Spend({"crash"}) /\ ~Spend({"astray"})
  BY CalmBefore, CutsAreCounted DEF AloneInv
<1>z. PICK folder \in Folders : SteadyIn(folder)
  BY <1>0 DEF Steady
<1>a. /\ flags \in SUBSET Flags /\ Lies(folder)
      /\ \A a \in Actions : Faithful(log[a].verb, log[a].from, log[a].old)
      /\ Quiet => Agree(folder, flags)
  BY <1>z DEF TypeOK, SteadyIn
<1>b. \A h \in Handlers : req[h].phase # "idle" => Sole(h) /\ Told(req[h], folder, flags, log)
  BY <1>z DEF SteadyIn
<1>d. UNCHANGED <<copies, adrift>> => Lies(folder)'
  BY <1>a DEF Lies
<1>c. \A h \in Handlers : req[h] \in Requests
  BY DEF TypeOK
<1>1. CASE UNCHANGED vars
  BY <1>z, <1>1 DEF Steady, SteadyIn, Lies, Sole, Quiet, vars, mail, past
<1>2. ASSUME NEW h \in Handlers, Request(h) PROVE Steady'
  <2>1. PICK verb \in Verbs :
          /\ Offered(verb)
          /\ Becomes(h, [Idle EXCEPT !.phase = IF OnServer(verb) THEN "remote" ELSE "local",
                                     !.verb = verb, !.from = copies])
    BY <1>2 DEF Request
  <2> DEFINE r == [Idle EXCEPT !.phase = IF OnServer(verb) THEN "remote" ELSE "local",
                               !.verb = verb, !.from = copies]
  <2>2. /\ r \in Requests /\ r.verb = verb /\ r.from = copies
        /\ r.phase = IF OnServer(verb) THEN "remote" ELSE "local"
    BY UndoAssumption DEF TypeOK, Idle, Requests, Phases, NoAction
  <2> HIDE DEF r
  <2>3. Becomes(h, r) /\ Sole(h) /\ Agree(folder, flags) /\ UNCHANGED <<copies, adrift, flags, log>>
    <3>1. Spend({"act"} \cup Beside(h)) /\ req[h].phase = "idle"
      BY <1>2 DEF Request
    <3>2. {"act"} \in SUBSET Events
      BY DEF Events
    <3> QED BY <1>0, <1>2, <2>1, <1>z, <3>1, <3>2, StartsAlone DEF Request, mail, past, r
  <2>4. (OnServer(verb) => folder = Source(verb)) /\ (~OnServer(verb) => Ready(verb, flags))
    BY <1>a, <2>1, <2>3, OfferFacts, UndoAssumption
  <2>5. Told(r, folder, flags, log) /\ r.phase # "idle"
    BY <2>2, <2>3, <2>4 DEF Told, Faithful
  <2> QED BY <1>a, <1>d, <2>2, <2>3, <2>5, SoleMoves
<1>3. ASSUME NEW h \in Handlers, ActRemote(h) PROVE Steady'
  <2> DEFINE r == [req[h] EXCEPT !.phase = "local", !.from = copies]
             verb == req[h].verb
  <2>1. r \in Requests /\ r.phase = "local" /\ r.verb = verb /\ r.from = copies
    BY <1>c DEF TypeOK, Requests, Phases
  <2>2. Sole(h) /\ OnServer(verb) /\ folder = Source(verb) /\ Agree(folder, flags)
    BY <1>3, <1>b DEF ActRemote, Told
  <2>3. /\ UNCHANGED <<adrift, flags, log>>
        /\ \/ Found(verb) /\ copies' = Moved(verb) /\ Becomes(h, r)
           \/ UNCHANGED copies /\ Becomes(h, Idle)
    BY <1>0, <1>3 DEF ActRemote, past
  <2>4. verb \in AllVerbs
    BY RequestParts
  <2> HIDE DEF r, verb
  <2>5. CASE Found(verb) /\ copies' = Moved(verb) /\ Becomes(h, r)
    <3>1. Target(verb) \in Folders /\ copies' = Only(Target(verb)) /\ r.from = Only(Source(verb))
      BY <1>a, <2>1, <2>2, <2>4, <2>5, MoveOnly DEF Lies
    <3>2. Told(r, Target(verb), flags', log')
      BY <2>1, <2>2, <2>3, <3>1 DEF Told, Faithful
    <3>3. PICK g \in Folders : g = Target(verb)
      BY <3>1
    <3>4. Lies(g)'
      BY <1>a, <2>3, <3>1, <3>3 DEF Lies
    <3> QED BY <1>a, <2>1, <2>2, <2>3, <2>5, <3>2, <3>3, <3>4, SoleMoves
  <2>6. CASE UNCHANGED copies /\ Becomes(h, Idle)
    BY <1>a, <1>d, <2>2, <2>3, <2>6, IdleType, SoleMoves
  <2> QED BY <2>3, <2>5, <2>6
<1>4. ASSUME NEW h \in Handlers, ActLocal(h) PROVE Steady'
  <2> DEFINE r == [req[h] EXCEPT !.phase = "audit", !.old = flags]
             verb == req[h].verb
  <2>1. r \in Requests /\ r.phase = "audit" /\ r.verb = verb /\ r.from = req[h].from /\ r.old = flags
    BY <1>c DEF TypeOK, Requests, Phases
  <2>2. /\ Sole(h) /\ Faithful(verb, req[h].from, flags)
        /\ IF OnServer(verb) THEN folder = Target(verb) ELSE Agree(folder, flags)
    BY <1>4, <1>b DEF ActLocal, Told
  <2>3. Commits(h, r) /\ flags' = Local(verb, flags) /\ UNCHANGED <<copies, adrift, log>>
    BY <1>4 DEF ActLocal, past
  <2>4. verb \in AllVerbs
    BY RequestParts
  <2> HIDE DEF r, verb
  <2>5. Agree(folder, flags')
    <3>1. CASE OnServer(verb)
      BY <1>a, <2>2, <2>3, <2>4, <3>1, VerbFacts DEF Faithful
    <3>2. CASE ~OnServer(verb)
      BY <1>a, <2>2, <2>3, <2>4, <3>2, VerbFacts
    <3> QED BY <3>1, <3>2
  <2>6. Told(r, folder, flags', log')
    BY <2>1, <2>2, <2>5 DEF Told
  <2> QED BY <1>a, <1>d, <2>1, <2>2, <2>3, <2>6, SoleMoves
<1>5. ASSUME NEW h \in Handlers, ActAudit(h) PROVE Steady'
  <2>1. Sole(h) /\ Agree(folder, flags) /\ Faithful(req[h].verb, req[h].from, req[h].old)
    BY <1>5, <1>b DEF ActAudit, Told
  <2> DEFINE row == [verb |-> req[h].verb, expired |-> FALSE, from |-> req[h].from, old |-> req[h].old]
  <2>2. Commits(h, Idle) /\ UNCHANGED <<copies, adrift, flags>> /\ log' = [log EXCEPT ![logged + 1] = row]
    BY <1>5 DEF ActAudit, mail
  <2>3. Faithful(row.verb, row.from, row.old)
    BY <2>1
  <2> HIDE DEF row
  <2>4. \A a \in Actions : log'[a] = row \/ log'[a] = log[a]
    BY <2>2 DEF TypeOK
  <2>5. \A a \in Actions : Faithful(log'[a].verb, log'[a].from, log'[a].old)
    BY <1>a, <2>3, <2>4
  <2> QED BY <1>a, <1>d, <2>1, <2>2, <2>5, IdleType, SoleMoves
<1>6. ASSUME NEW h \in Handlers, RequestUndo(h) PROVE Steady'
  <2>1. PICK a \in 1..logged : Becomes(h, [Idle EXCEPT !.phase = "read", !.action = a])
    BY <1>6 DEF RequestUndo
  <2> DEFINE r == [Idle EXCEPT !.phase = "read", !.action = a]
  <2>2. a \in Actions
    BY <2>1, UndoAssumption DEF TypeOK, Actions
  <2>3. r \in Requests /\ r.phase = "read"
    BY <2>2, IdleType DEF Idle, Requests, Phases
  <2> HIDE DEF r
  <2>4. Becomes(h, r) /\ Sole(h) /\ Agree(folder, flags) /\ UNCHANGED <<copies, adrift, flags, log>>
    <3>1. Spend({"undo"} \cup Beside(h)) /\ req[h].phase = "idle"
      BY <1>6 DEF RequestUndo
    <3>2. {"undo"} \in SUBSET Events
      BY DEF Events
    <3> QED BY <1>0, <1>6, <2>1, <1>z, <3>1, <3>2, StartsAlone DEF RequestUndo, mail, past, r
  <2>5. Told(r, folder, flags, log)
    BY <2>3, <2>4 DEF Told
  <2> QED BY <1>a, <1>d, <2>3, <2>4, <2>5, SoleMoves
<1>7. ASSUME NEW h \in Handlers, UndoRead(h) PROVE Steady'
  <2> DEFINE r == [req[h] EXCEPT !.phase = "claim", !.fresh = TRUE]
  <2>1. r \in Requests /\ r.phase = "claim"
    BY <1>c DEF Requests, Phases
  <2>2. Sole(h) /\ Agree(folder, flags)
    BY <1>7, <1>b DEF UndoRead, Told
  <2>3. (Becomes(h, Idle) \/ Becomes(h, r)) /\ UNCHANGED <<copies, adrift, flags, log>>
    BY <1>7 DEF UndoRead, mail, past
  <2> HIDE DEF r
  <2>4. Told(r, folder, flags, log)
    BY <2>1, <2>2 DEF Told
  <2>5. CASE Becomes(h, Idle)
    BY <1>a, <1>d, <2>2, <2>3, <2>5, IdleType, SoleMoves
  <2>6. CASE Becomes(h, r)
    BY <1>a, <1>d, <2>1, <2>2, <2>3, <2>4, <2>6, SoleMoves
  <2> QED BY <2>3, <2>5, <2>6
<1>8. ASSUME NEW h \in Handlers, UndoClaim(h) PROVE Steady'
  <2> DEFINE verb == Inverse(log[req[h].action].verb)
             r    == [req[h] EXCEPT !.phase = IF OnServer(verb) THEN "undoRemote" ELSE "undoLocal",
                                    !.verb = verb, !.fresh = FALSE]
  <2>1. verb \in AllVerbs
    BY <1>8, RequestParts, VerbType DEF UndoClaim, Undoing
  <2>2. /\ r \in Requests /\ r.action = req[h].action /\ r.verb = verb
        /\ r.phase = IF OnServer(verb) THEN "undoRemote" ELSE "undoLocal"
    BY <1>c, <2>1 DEF Requests, Phases
  <2>3. (Becomes(h, Idle) \/ Commits(h, r)) /\ UNCHANGED <<copies, adrift, flags, log>>
    BY <1>8 DEF UndoClaim, mail, past
  <2>4. Sole(h) /\ Agree(folder, flags)
    BY <1>8, <1>b DEF UndoClaim, Told
  <2>5. Told(r, folder, flags, log) /\ r.phase # "idle"
    <3>1. r.verb = Inverse(log[r.action].verb)
      BY <2>2
    <3> HIDE DEF r, verb
    <3> QED BY <2>2, <2>4, <3>1 DEF Told
  <2> HIDE DEF r
  <2>6. CASE Becomes(h, Idle)
    BY <1>a, <1>d, <2>3, <2>4, <2>6, IdleType, SoleMoves
  <2>7. CASE Commits(h, r)
    BY <1>a, <1>d, <2>2, <2>3, <2>4, <2>5, <2>7, SoleMoves
  <2> QED BY <2>3, <2>6, <2>7
<1>9. ASSUME NEW h \in Handlers, UndoRemote(h) PROVE Steady'
  <2> DEFINE moved == [req[h] EXCEPT !.phase = "undoLocal"]
             gone  == [req[h] EXCEPT !.phase = "retract"]
             verb  == req[h].verb
  <2>1. /\ moved \in Requests /\ moved.phase = "undoLocal" /\ moved.verb = verb
        /\ moved.action = req[h].action /\ gone \in Requests /\ gone.phase = "retract"
    BY <1>c DEF Requests, Phases
  <2>2. /\ Sole(h) /\ Agree(folder, flags) /\ OnServer(verb)
        /\ verb = Inverse(log[req[h].action].verb)
    BY <1>9, <1>b DEF UndoRemote, Told
  <2>3. /\ UNCHANGED <<adrift, flags, log>>
        /\ \/ Found(verb) /\ copies' = Moved(verb) /\ Becomes(h, moved)
           \/ UNCHANGED copies /\ Becomes(h, gone)
    BY <1>0, <1>9 DEF UndoRemote, past
  <2>4. verb \in AllVerbs
    BY RequestParts
  <2> HIDE DEF moved, gone, verb
  <2>5. CASE Found(verb) /\ copies' = Moved(verb) /\ Becomes(h, moved)
    <3>1. folder = Source(verb) /\ Target(verb) \in Folders /\ copies' = Only(Target(verb))
      BY <1>a, <2>4, <2>5, MoveOnly DEF Lies
    <3>2. Told(moved, Target(verb), flags', log')
      BY <2>1, <2>2, <2>3, <3>1 DEF Told
    <3>3. PICK g \in Folders : g = Target(verb)
      BY <3>1
    <3>4. Lies(g)'
      BY <1>a, <2>3, <3>1, <3>3 DEF Lies
    <3> QED BY <1>a, <2>1, <2>2, <2>3, <2>5, <3>2, <3>3, <3>4, SoleMoves
  <2>6. CASE UNCHANGED copies /\ Becomes(h, gone)
    <3>1. Told(gone, folder, flags', log')
      BY <2>1, <2>2, <2>3 DEF Told
    <3> QED BY <1>a, <1>d, <2>1, <2>2, <2>3, <2>6, <3>1, SoleMoves
  <2> QED BY <2>3, <2>5, <2>6
<1>10. ASSUME NEW h \in Handlers, UndoLocal(h) PROVE Steady'
  <2> DEFINE verb == req[h].verb
  <2>1. /\ Sole(h)
        /\ IF OnServer(verb) THEN folder = Target(verb) /\ Agree(Source(verb), flags) ELSE Agree(folder, flags)
    BY <1>10, <1>b DEF UndoLocal, Told
  <2>2. flags' = Local(verb, flags) /\ Commits(h, Idle) /\ UNCHANGED <<copies, adrift, log>>
    BY <1>0, <1>10 DEF UndoLocal, past
  <2>3. verb \in AllVerbs
    BY RequestParts
  <2> HIDE DEF verb
  <2>4. Agree(folder, flags')
    BY <1>a, <2>1, <2>2, <2>3, VerbFacts
  <2> QED BY <1>a, <1>d, <2>1, <2>2, <2>4, IdleType, SoleMoves
<1>11. ASSUME NEW h \in Handlers, Retract(h) PROVE Steady'
  <2>1. Sole(h) /\ Agree(folder, flags)
    BY <1>11, <1>b DEF Retract, Told
  <2>2. Commits(h, Idle) /\ UNCHANGED <<copies, adrift, flags, log>>
    BY <1>0, <1>11 DEF Retract, mail, past
  <2> QED BY <1>a, <1>d, <2>1, <2>2, IdleType, SoleMoves
<1>12. ASSUME NEW h \in Handlers, ActFails(h) \/ Dies(h) PROVE FALSE
  BY <1>0, <1>12 DEF ActFails, Dies
<1>13. ASSUME NEW a \in Actions, Expire(a) PROVE Steady'
  <2>1. \A b \in Actions : /\ log'[b].verb = log[b].verb /\ log'[b].from = log[b].from
                           /\ log'[b].old = log[b].old
    BY <1>13 DEF Expire, TypeOK, Records
  <2>2. UNCHANGED <<copies, adrift, flags, req>>
    BY <1>13 DEF Expire, mail
  <2>3. \A h \in Handlers : req[h].phase # "idle" => Told(req[h], folder, flags, log')
    <3> SUFFICES ASSUME NEW h \in Handlers, req[h].phase # "idle" PROVE Told(req[h], folder, flags, log')
      OBVIOUS
    <3>1. req[h].phase \in Undoing => log'[req[h].action].verb = log[req[h].action].verb
      BY <2>1 DEF Named
    <3>2. Told(req[h], folder, flags, log)
      BY <1>b
    <3> QED BY <3>1, <3>2 DEF Told, Undoing
  <2> QED BY <1>a, <1>b, <1>d, <2>1, <2>2, <2>3 DEF Steady, SteadyIn, Sole, Quiet
<1>14. CASE OthersCommit
  <2>1. \A k \in Handlers : /\ req'[k].phase = req[k].phase /\ req'[k].action = req[k].action
                            /\ req'[k].verb = req[k].verb /\ req'[k].from = req[k].from
                            /\ req'[k].old = req[k].old
    BY <1>c, <1>14 DEF OthersCommit, Requests
  <2>2. UNCHANGED <<copies, adrift, flags, log>>
    BY <1>14 DEF OthersCommit, mail, past
  <2>3. \A h \in Handlers : req[h].phase # "idle" => Told(req'[h], folder, flags, log)
    BY <1>b, <2>1 DEF Told
  <2> QED BY <1>a, <1>b, <1>d, <2>1, <2>2, <2>3 DEF Steady, SteadyIn, Sole, Quiet
<1>15. ASSUME NEW verb \in AllVerbs, Drifts(verb) PROVE FALSE
  BY <1>a, <1>15 DEF Drifts, Lies
<1> QED
  BY <1>1, <1>2, <1>3, <1>4, <1>5, <1>6, <1>7, <1>8, <1>9, <1>10, <1>11, <1>12, <1>13, <1>14, <1>15 DEF Next

-----------------------------------------------------------------------------
(* The theorems *)

\* IInv is an invariant: it holds at the start and every step keeps it.
LEMMA Invariance == Spec => []IInv
<1>1. IInv /\ [Next]_vars => IInv'
  BY TypeStep, NamedStep, ClaimsStep DEF IInv
<1> QED BY <1>1, InitType, PTL DEF Spec

\* The message, its audit rows and the requests stay within their types, however
\* many requests there are and whatever fails.
THEOREM UndoTypeCorrect == Spec => []TypeOK
<1>1. IInv => TypeOK
  BY DEF IInv
<1> QED BY <1>1, Invariance, PTL

\* However many undos of one action race, one undo row names it at most
\* (undo_one: the check and record_undo are one transaction).
THEOREM OneClaimPerAction == Spec => []SingleClaim
<1>1. IInv => SingleClaim
  BY DEF IInv, Claims
<1> QED BY <1>1, Invariance, PTL

\* The inverse of one action is answered with 200 once at most, and while that
\* answer stands the action has its undo row.
THEOREM UndoneAtMostOnce == Spec => []UndoneOnce
<1>1. IInv => UndoneOnce
  BY DEF IInv, Claims
<1> QED BY <1>1, Invariance, PTL

\* The invariants of the two kinds of life go on top of it.
LEMMA LivesInvariance == Spec => [](CalmInv /\ AloneInv)
<1>1. Init => CalmInv /\ AloneInv
  <2> SUFFICES ASSUME Init PROVE CalmInv /\ AloneInv
    OBVIOUS
  <2>1. UndoneMeansInverted
    BY DEF Init, UndoneMeansInverted
  <2>2. Agree(INBOX, flags) /\ \A a \in Actions : Faithful(log[a].verb, log[a].from, log[a].old)
    BY DEF Init, Agree, Faithful, OnServer, Source, INBOX, ARCHIVE, TRASH
  <2>3. \A h \in Handlers : req[h].phase = "idle"
    BY IdleType DEF Init
  <2>4. Lies(INBOX) /\ INBOX \in Folders
    BY DEF Init, Lies, Folders
  <2> QED BY <2>1, <2>2, <2>3, <2>4 DEF CalmInv, AloneInv, Steady, SteadyIn
<1>2. IInv /\ CalmInv /\ AloneInv /\ [Next]_vars => CalmInv' /\ AloneInv'
  BY CalmStep, AloneStep
<1> QED BY <1>1, <1>2, Invariance, PTL DEF Spec

\* Unless a statement failed or a handler was dropped, an action that reads as undone was
\* inverted or is being inverted by the request that wrote its undo row.
THEOREM UndoneWasInverted == Spec => []UndoneUnlessCut
<1>1. CalmInv => UndoneUnlessCut
  BY DEF CalmInv, UndoneUnlessCut
<1> QED BY <1>1, LivesInvariance, PTL

\* With requests one at a time, none cut off and no move astray, a row is at rest in the
\* inbox exactly when its message is in the INBOX and nowhere else: no local success hides a
\* failed remote write, and no move leaves a row behind.
THEOREM ShownRowsAreInTheInbox == Spec => []ShownIffInInbox
<1>1. IInv /\ AloneInv => ShownIffInInbox
  <2> SUFFICES ASSUME IInv, Steady, Quiet PROVE Shown <=> copies = Only(INBOX)
    BY DEF AloneInv, ShownIffInInbox
  <2>1. PICK folder \in Folders : copies = Only(folder) /\ Agree(folder, flags)
    BY DEF Steady, SteadyIn, Lies
  <2>2. copies = Only(INBOX) <=> folder = INBOX
    BY <2>1, OnlyDiffers DEF Folders
  <2>3. folder = INBOX <=> folder # ARCHIVE /\ folder # TRASH
    BY DEF Folders, INBOX, ARCHIVE, TRASH
  <2> QED BY <2>1, <2>2, <2>3 DEF Agree, Shown
<1> QED BY <1>1, Invariance, LivesInvariance, PTL

\* The undo of an action puts the message back where the action found it, on the server
\* and in the row, and touches no other flag.
THEOREM UndoRestoresTheMessage == Spec => UndoRestores
<1> DEFINE Restores ==
      \A h \in Handlers :
         LET a == req[h].action
             own == {FlagOf(log[a].verb)}
         IN  Calm /\ OneAtATime /\ Heard /\ UndoLocal(h) /\ a \in inverted' \ inverted
               => /\ flags' = (log[a].old \cap own) \cup (flags \ own)
                  /\ OnServer(log[a].verb) => copies = log[a].from
<1>1. IInv /\ AloneInv => Restores
  <2> SUFFICES ASSUME IInv, Steady, NEW h \in Handlers, UndoLocal(h),
                      req[h].action \in inverted' \ inverted
               PROVE  LET a == req[h].action
                          own == {FlagOf(log[a].verb)}
                      IN  /\ flags' = (log[a].old \cap own) \cup (flags \ own)
                          /\ OnServer(log[a].verb) => copies = log[a].from
    BY DEF AloneInv
  <2> DEFINE a == req[h].action
             verb == log[a].verb
  <2>1. /\ a \in Actions /\ verb \in AllVerbs /\ log[a].from \in Places /\ log[a].old \in SUBSET Flags
        /\ flags \in SUBSET Flags
    <3>1. a \in Actions /\ log[a] \in Records
      BY RequestParts DEF IInv, UndoLocal, Undoing
    <3> QED BY <3>1 DEF IInv, TypeOK, Records
  <2>2. Faithful(verb, log[a].from, log[a].old)
    BY <2>1 DEF Steady, SteadyIn
  <2>3. /\ req[h].verb = Inverse(verb)
        /\ OnServer(Inverse(verb)) => copies = Only(Target(Inverse(verb)))
    BY DEF Steady, SteadyIn, Lies, Told, UndoLocal
  <2>4. flags' = Local(Inverse(verb), flags)
    BY <2>3 DEF UndoLocal
  <2> HIDE DEF a, verb
  <2>5. flags' = (log[a].old \cap {FlagOf(verb)}) \cup (flags \ {FlagOf(verb)})
    BY <2>1, <2>2, <2>4, InverseRestores
  <2>6. OnServer(verb) => copies = log[a].from
    BY <2>1, <2>2, <2>3, InverseRestores, VerbFacts
  <2> QED BY <2>5, <2>6 DEF a, verb
<1> QED BY <1>1, Invariance, LivesInvariance, PTL DEF UndoRestores
=============================================================================
