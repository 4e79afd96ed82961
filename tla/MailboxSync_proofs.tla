------------------------- MODULE MailboxSync_proofs -------------------------
(***************************************************************************)
(* The types of MailboxSync and that its moves lose no mail, for every     *)
(* value of the constants, and two more of its promises under the premises *)
(* they need: no mail is skipped, and the rows a round deletes stand for   *)
(* mail that is gone.                                                      *)
(*                                                                         *)
(* No mail is skipped (NoMailIsSkipped): until the server rebuilds its     *)
(* INBOX, its UIDs are not handed out twice.  What is known of a UID stays *)
(* known: it is in the INBOX or it never will be again.  So a round that   *)
(* did not see an identity in the INBOX may drop its row, unless the mail  *)
(* came back, and then its UID is above the cursor of the round (Round).   *)
(***************************************************************************)
EXTENDS MailboxSync, FiniteSetTheorems, TLAPS

-----------------------------------------------------------------------------
(* The invariants *)

\* A folder hands its UIDs out in order, no two alike, and only to mail that came.
Numbered ==
    \A f \in Folders :
        /\ \A m \in Messages : uid[f][m] < uidNext[f]
        /\ \A m, n \in In(f) : uid[f][m] = uid[f][n] => m = n
        /\ In(f) \subseteq arrived

\* With UID MOVE a message is in one folder at most.
InOneFolder ==
    \A m \in Messages, f, g \in Folders : uid[f][m] > 0 /\ uid[g][m] > 0 => f = g

\* No mail of the INBOX has the identity.
Absent(id) == \A m \in In(INBOX) : RemoteId(INBOX, m) # id

\* Mail that was there before UID next does not have it: what has it came back later.
AbsentBelow(id, next) ==
    \A m \in In(INBOX) : RemoteId(INBOX, m) = id => m \notin Bare /\ uid[INBOX][m] >= next

\* A UID that was used as an identity was handed out by the INBOX.
Issued(id) == id[1] = "uid" => id[2] < uidNext[INBOX]

\* A row in the trash that is known by its UID stands for no mail of the INBOX.
RowKept(id) == /\ Issued(id)
               /\ id[1] = "uid" /\ "deleted" \in rows[id].flags => Absent(id)
RowsKept == \A id \in RemoteIds : rows[id].stored => RowKept(id)

\* A purge under way is of a row of the trash, and a purge the server carried out
\* left the message nowhere.
ActKept(a) ==
    a.phase # "idle" =>
        /\ a.phase # "copied" /\ a.verb # "emptyTrash"
        /\ a.id \in RemoteIds /\ Issued(a.id)
        /\ a.id[1] = "uid" /\ (a.verb = "purge" \/ (a.verb = "trash" /\ a.phase = "local"))
             => Absent(a.id)
        /\ a.id[1] = "mid" /\ a.verb = "purge" /\ a.phase = "local"
             => a.id[2] \in arrived /\ \A f \in Folders : uid[f][a.id[2]] = 0
ActsKept == \A h \in Handlers : ActKept(act[h])

\* The committed cursor is none yet, or a UIDNEXT the INBOX had.
CursorKept == cursor = NoCursor \/ (cursor.validity = 1 /\ cursor.next \in 1..uidNext[INBOX])

\* What a round that is under way has read and has still to do. Once the headers are
\* fetched, mail below the round's own cursor has a row or is about to get one; and an
\* identity the walk of the INBOX did not report is not there, or came back since.
Landed(r) == \A m \in In(INBOX) :
    uid[INBOX][m] < r.cur.next => \/ rows[RemoteId(INBOX, m)].stored
                                  \/ <<RemoteId(INBOX, m), m>> \in r.ups
Seen(r, id) == rows[id].stored \/ \E m \in Messages : <<id, m>> \in r.ups

RoundKept(r) ==
    /\ r.phase # "idle" => r.after = cursor
    /\ r.phase \notin {"idle", "select"} =>
         /\ r.cur.validity = 1 /\ r.cur.next \in 1..uidNext[INBOX] /\ cursor.next <= r.cur.next
         /\ ~r.reset
    /\ r.phase = "fetch" /\ r.exists = 0 => \A m \in In(INBOX) : uid[INBOX][m] >= r.cur.next
    /\ r.phase \notin {"idle", "select", "fetch"} => Landed(r)
    /\ r.phase \in {"idle", "select", "fetch", "walkInbox"} => ~r.walk[INBOX].known
    /\ r.phase = "place" => r.ups = {}
    /\ \A u \in r.ups : Issued(u[1])
    /\ r.walk[INBOX].known =>
         \A id \in RemoteIds \ r.walk[INBOX].ids : Seen(r, id) => AbsentBelow(id, r.cur.next)
    /\ r.phase = "place" => \A id \in r.todo : Issued(id) /\ AbsentBelow(id, r.cur.next)
RoundsKept == \A p \in Rounds : RoundKept(round[p])

Calm == validity = 1 => RowsKept /\ ActsKept /\ CursorKept /\ NoSkippedMail /\ RoundsKept

-----------------------------------------------------------------------------
(* What a step does to the server *)

\* Mail is taken out of folders, or nothing happens.
Drops == /\ uid' \in [Folders -> [Messages -> 0..MaxUid]]
         /\ \A f \in Folders, m \in Messages : uid'[f][m] = 0 \/ uid'[f][m] = uid[f][m]
         /\ UNCHANGED <<uidNext, validity, arrived>>

\* A message gets the next UID of a folder, and may lose others: it was just
\* delivered, or copied or moved from another folder.
Puts(m, g) ==
    /\ uidNext[g] <= MaxUid /\ uidNext' = [uidNext EXCEPT ![g] = @ + 1]
    /\ uid' \in [Folders -> [Messages -> 0..MaxUid]]
    /\ uid'[g][m] = uidNext[g]
    /\ \A f \in Folders, n \in Messages :
         (f = g /\ n = m) \/ uid'[f][n] = 0 \/ uid'[f][n] = uid[f][n]
    /\ validity' = validity
    /\ \/ m \notin arrived /\ arrived' = arrived \cup {m}
       \/ /\ arrived' = arrived
          /\ \E f \in Folders \ {g} : uid[f][m] > 0 /\ (HasMove => uid'[f][m] = 0)

LEMMA FolderNames == INBOX \in Folders /\ ARCHIVE \in Folders /\ TRASH \in Folders
BY DEF Folders

LEMMA Routes == \A verb : Source(verb) \in Folders /\ Target(verb) \in Folders /\
    (verb \in {"archive", "unarchive", "trash", "restore"} => Source(verb) # Target(verb))
BY DEF Source, Target, Folders, INBOX, ARCHIVE, TRASH

LEMMA NothingDrops == ASSUME TypeOK, UNCHANGED server PROVE Drops
BY DEF TypeOK, Drops, server

LEMMA UidType ==
    ASSUME NEW u \in [Folders -> [Messages -> 0..MaxUid]], NEW f \in Folders,
           NEW m \in Messages, NEW n \in 0..MaxUid
    PROVE  /\ [u EXCEPT ![f][m] = n] \in [Folders -> [Messages -> 0..MaxUid]]
           /\ \A k \in Folders, x \in Messages :
                [u EXCEPT ![f][m] = n][k][x] = IF k = f /\ x = m THEN n ELSE u[k][x]
OBVIOUS

LEMMA MovePuts ==
    ASSUME TypeOK, NEW m \in Messages, NEW f \in Folders, NEW g \in Folders, f # g,
           uid[f][m] > 0, Place(m, g), uid' = Moved(m, f, g), UNCHANGED <<validity, arrived>>
    PROVE  Puts(m, g)
<1>1. uidNext[g] \in 0..MaxUid
  BY MailboxAssumption DEF TypeOK, Place
<1> DEFINE u == [uid EXCEPT ![f][m] = 0]
<1>4. 0 \in 0..MaxUid
  BY MailboxAssumption
<1>5. u \in [Folders -> [Messages -> 0..MaxUid]]
  BY <1>4, UidType DEF TypeOK
<1>6. uid' = [u EXCEPT ![g][m] = uidNext[g]]
  BY DEF Moved, TypeOK
<1>2. uid' \in [Folders -> [Messages -> 0..MaxUid]]
  <2> HIDE DEF u
  <2> QED BY <1>1, <1>5, <1>6, UidType
<1>3. \A k \in Folders, n \in Messages :
        uid'[k][n] = IF k = g /\ n = m THEN uidNext[g] ELSE IF k = f /\ n = m THEN 0 ELSE uid[k][n]
  BY DEF TypeOK, Moved
<1> QED BY <1>2, <1>3 DEF Puts, Place

LEMMA CopyPuts ==
    ASSUME TypeOK, NEW m \in Messages, NEW f \in Folders, NEW g \in Folders, f # g,
           uid[f][m] > 0, ~HasMove, Place(m, g), uid' = [uid EXCEPT ![g][m] = uidNext[g]],
           UNCHANGED <<validity, arrived>>
    PROVE  Puts(m, g)
<1>1. uidNext[g] \in 0..MaxUid
  BY MailboxAssumption DEF TypeOK, Place
<1>2. uid' \in [Folders -> [Messages -> 0..MaxUid]]
  BY <1>1, MailboxAssumption DEF TypeOK
<1>3. \A k \in Folders, n \in Messages :
        uid'[k][n] = IF k = g /\ n = m THEN uidNext[g] ELSE uid[k][n]
  BY DEF TypeOK
<1> QED BY <1>2, <1>3 DEF Puts, Place

\* Every step takes mail out of folders, puts one message in one, or rebuilds the INBOX.
LEMMA ServerSteps ==
    ASSUME TypeOK, Next
    PROVE  Drops \/ (\E m \in Messages, g \in Folders : Puts(m, g)) \/ Renumber
<1>1. ASSUME NEW p \in Rounds, RoundStep(p) \/ RoundFails(p) PROVE Drops
  <2>1. UNCHANGED server
    BY <1>1 DEF RoundStep, RoundFails, StartRound, SelectInbox, FetchHeaders, WalkFolder,
                BeginApply, LandHeader, ReadLiveRows, PlaceRow, CommitCursor
  <2> QED BY <2>1, NothingDrops
<1>2. ASSUME NEW h \in Handlers, RequestVerb(h) \/ LocalWrite(h) \/ HandlerDies(h) \/ CommandLost(h) PROVE Drops
  <2>1. UNCHANGED server
    BY <1>2 DEF RequestVerb, LocalWrite, HandlerDies, CommandLost, Working
  <2> QED BY <2>1, NothingDrops
<1>3. ASSUME NEW h \in Handlers, RemoteMove(h)
      PROVE  Drops \/ \E m \in Messages, g \in Folders : Puts(m, g)
  <2> DEFINE a == act[h]
             f == Source(a.verb)
             g == Target(a.verb)
             found == Resolve(f, a.id)
  <2>1. f \in Folders /\ g \in Folders /\ f # g
    BY <1>3, Routes DEF RemoteMove
  <2>2. \A m \in found : m \in Messages /\ uid[f][m] > 0
    BY DEF Resolve, In
  <2>3. UNCHANGED <<validity, arrived>>
    BY <1>3 DEF RemoteMove
  <2>4. CASE UNCHANGED <<uid, uidNext>>
    BY <2>3, <2>4 DEF Drops, TypeOK
  <2>5. CASE \E m \in found : Place(m, g) /\ uid' = Moved(m, f, g)
    BY <2>1, <2>2, <2>3, <2>5, MovePuts
  <2>6. CASE ~HasMove /\ \E m \in found : Place(m, g) /\ uid' = [uid EXCEPT ![g][m] = uidNext[g]]
    BY <2>1, <2>2, <2>3, <2>6, CopyPuts
  <2> QED BY <1>3, <2>4, <2>5, <2>6 DEF RemoteMove
<1>4. ASSUME NEW h \in Handlers, RemoteExpungeSource(h) \/ RemotePurge(h) \/ RemoteEmptyTrash(h)
      PROVE  Drops
  <2>1. CASE RemoteExpungeSource(h)
    BY <2>1, Routes, MailboxAssumption DEF RemoteExpungeSource, Drops, TypeOK
  <2>2. CASE RemotePurge(h)
    BY <2>2, FolderNames, MailboxAssumption DEF RemotePurge, Drops, TypeOK
  <2>3. CASE RemoteEmptyTrash(h)
    BY <2>3, FolderNames, MailboxAssumption DEF RemoteEmptyTrash, Drops, TypeOK
  <2> QED BY <1>4, <2>1, <2>2, <2>3
<1>5. ASSUME NEW m \in Messages, Deliver(m) PROVE Puts(m, INBOX)
  <2>1. uidNext[INBOX] \in 0..MaxUid
    BY <1>5, FolderNames, MailboxAssumption DEF TypeOK, Place, Deliver
  <2>2. uid' \in [Folders -> [Messages -> 0..MaxUid]]
    BY <1>5, <2>1, MailboxAssumption DEF TypeOK, Deliver
  <2>3. \A k \in Folders, n \in Messages :
          uid'[k][n] = IF k = INBOX /\ n = m THEN uidNext[INBOX] ELSE uid[k][n]
    BY <1>5 DEF TypeOK, Deliver
  <2> QED BY <1>5, <2>2, <2>3, FolderNames DEF Puts, Place, Deliver
<1>6. ASSUME NEW m \in Messages, OtherClientMoves(m)
      PROVE  Drops \/ \E g \in Folders : Puts(m, g)
  <2>1. PICK fg \in OtherMoves :
          /\ uid[fg[1]][m] > 0
          /\ IF fg[2] = GONE
               THEN uid' = [uid EXCEPT ![fg[1]][m] = 0] /\ UNCHANGED uidNext
               ELSE uid[fg[2]][m] = 0 /\ Place(m, fg[2]) /\ uid' = Moved(m, fg[1], fg[2])
    BY <1>6 DEF OtherClientMoves
  <2>2. fg[1] \in Folders /\ fg[2] \in Folders \cup {GONE} /\ GONE \notin Folders
    BY MailboxAssumption DEF Folders, GONE, INBOX, ARCHIVE, TRASH
  <2>3. UNCHANGED <<validity, arrived>>
    BY <1>6 DEF OtherClientMoves
  <2>4. CASE fg[2] = GONE
    <3>1. 0 \in 0..MaxUid
      BY MailboxAssumption
    <3>2. uid' = [uid EXCEPT ![fg[1]][m] = 0] /\ UNCHANGED uidNext
      BY <2>1, <2>4
    <3>3. uid' \in [Folders -> [Messages -> 0..MaxUid]]
      BY <2>2, <3>1, <3>2, UidType DEF TypeOK
    <3>4. \A f \in Folders, n \in Messages : uid'[f][n] = 0 \/ uid'[f][n] = uid[f][n]
      BY <2>2, <3>1, <3>2, UidType DEF TypeOK
    <3> QED BY <2>3, <3>2, <3>3, <3>4 DEF Drops
  <2>5. CASE fg[2] # GONE
    BY <2>1, <2>2, <2>3, <2>5, MovePuts
  <2> QED BY <2>4, <2>5
<1>7. ASSUME Crash PROVE Drops
  BY <1>7, NothingDrops DEF Crash
<1> QED BY <1>1, <1>2, <1>3, <1>4, <1>5, <1>6, <1>7, FolderNames DEF Next, HandlerStep

-----------------------------------------------------------------------------
(* UIDs and types *)

LEMMA NumberedInit == ASSUME Init PROVE Numbered /\ InOneFolder
BY DEF Init, Numbered, InOneFolder, In

LEMMA InFinite == ASSUME NEW f PROVE IsFiniteSet(In(f)) /\ Cardinality(In(f)) \in Nat
                                     /\ Cardinality(In(f)) <= Cardinality(Messages)
<1>1. In(f) \in SUBSET Messages
  BY DEF In
<1> QED BY <1>1, MailboxAssumption, FS_Subset, FS_CardinalityType

\* A folder has no more messages than UIDs it handed out.
LEMMA FewerThanUids ==
    ASSUME TypeOK, Numbered, NEW f \in Folders
    PROVE  Cardinality(In(f)) <= MaxUid
<1> DEFINE u == [m \in In(f) |-> uid[f][m]]
<1>1. u \in Injection(In(f), 1..MaxUid)
  <2>1. u \in [In(f) -> 1..MaxUid]
    BY MailboxAssumption DEF TypeOK, In
  <2>2. \A a, b \in In(f) : u[a] = u[b] => a = b
    BY DEF Numbered
  <2> HIDE DEF u
  <2> QED BY <2>1, <2>2 DEF Injection, IsInjective
<1>2. IsFiniteSet(1..MaxUid) /\ Cardinality(1..MaxUid) = MaxUid
  BY FS_Interval, MailboxAssumption
<1> HIDE DEF u
<1> QED BY <1>1, <1>2, FS_Injection

\* Sequence numbers count the mail of a folder in the order of its UIDs.
LEMMA SeqNos ==
    ASSUME TypeOK, Numbered, NEW f \in Folders, NEW m \in In(f)
    PROVE  /\ SeqNo(f, m) \in 1..Cardinality(In(f))
           /\ \A n \in In(f) : SeqNo(f, m) = SeqNo(f, n) => m = n
<1> DEFINE upto(n) == {x \in In(f) : uid[f][x] <= uid[f][n]}
<1>1. \A n \in In(f) : /\ upto(n) \in SUBSET In(f) /\ n \in upto(n)
                       /\ n \in Messages /\ uid[f][n] \in Nat
  BY MailboxAssumption DEF In, TypeOK
<1>2. \A n \in In(f) : /\ IsFiniteSet(upto(n)) /\ Cardinality(upto(n)) \in Nat
                       /\ Cardinality(upto(n)) <= Cardinality(In(f))
                       /\ Cardinality(upto(n)) # 0
  BY <1>1, InFinite, FS_Subset, FS_CardinalityType, FS_EmptySet
<1>3. \A n \in In(f) : SeqNo(f, n) = Cardinality(upto(n))
  BY DEF SeqNo
<1>4. ASSUME NEW a \in In(f), NEW b \in In(f), uid[f][a] <= uid[f][b],
             Cardinality(upto(a)) = Cardinality(upto(b))
      PROVE  a = b
  <2>1. upto(a) \in SUBSET upto(b)
    BY <1>1, <1>4
  <2>2. upto(a) = upto(b)
    BY <1>2, <1>4, <2>1, FS_Subset
  <2>3. uid[f][b] <= uid[f][a]
    BY <1>1, <2>2
  <2> QED BY <1>1, <1>4, <2>3 DEF Numbered
<1>5. \A n \in In(f) : uid[f][m] <= uid[f][n] \/ uid[f][n] <= uid[f][m]
  BY <1>1
<1> HIDE DEF upto
<1>6. SeqNo(f, m) \in 1..Cardinality(In(f))
  BY <1>2, <1>3, InFinite
<1> QED BY <1>3, <1>4, <1>5, <1>6

\* A rebuilt INBOX holds the same mail under new UIDs.
LEMMA Rebuilt ==
    ASSUME TypeOK, Numbered, Renumber
    PROVE  /\ uid' \in [Folders -> [Messages -> 0..MaxUid]]
           /\ uidNext' \in [Folders -> 1..(MaxUid + 1)]
           /\ \A f \in Folders : In(f)' = In(f)
           /\ Numbered'
<1> DEFINE new == [m \in Messages |-> IF m \in In(INBOX) THEN SeqNo(INBOX, m) ELSE 0]
<1>1. /\ uid' = [uid EXCEPT ![INBOX] = new] /\ arrived' = arrived
      /\ uidNext' = [uidNext EXCEPT ![INBOX] = Cardinality(In(INBOX)) + 1]
  BY DEF Renumber
<1>2. /\ Cardinality(In(INBOX)) \in Nat /\ Cardinality(In(INBOX)) <= MaxUid
  BY InFinite, FewerThanUids, FolderNames
<1>3. \A m \in In(INBOX) : /\ SeqNo(INBOX, m) \in 1..Cardinality(In(INBOX))
                           /\ \A n \in In(INBOX) : SeqNo(INBOX, m) = SeqNo(INBOX, n) => m = n
  BY SeqNos, FolderNames
<1>4. \A m \in Messages : new[m] = IF m \in In(INBOX) THEN SeqNo(INBOX, m) ELSE 0
  OBVIOUS
<1>5. new \in [Messages -> 0..MaxUid]
  BY <1>2, <1>3, MailboxAssumption
<1> HIDE DEF new
<1>6. uid' \in [Folders -> [Messages -> 0..MaxUid]]
  BY <1>1, <1>5 DEF TypeOK
<1>7. /\ uid'[INBOX] = new /\ uidNext'[INBOX] = Cardinality(In(INBOX)) + 1
      /\ \A f \in Folders \ {INBOX} : uid'[f] = uid[f] /\ uidNext'[f] = uidNext[f]
  BY <1>1, FolderNames DEF TypeOK
<1>8. uidNext' \in [Folders -> 1..(MaxUid + 1)]
  <2>1. Cardinality(In(INBOX)) + 1 \in 1..(MaxUid + 1)
    BY <1>2, MailboxAssumption
  <2> QED BY <1>1, <2>1 DEF TypeOK
<1>9. In(INBOX)' = In(INBOX)
  <2>1. \A m \in Messages : new[m] > 0 <=> m \in In(INBOX)
    BY <1>2, <1>3, <1>4
  <2> QED BY <1>7, <2>1 DEF In
<1>10. \A f \in Folders : In(f)' = In(f)
  BY <1>7, <1>9 DEF In
<1>11. Numbered'
  <2>1. \A m \in Messages : uid'[INBOX][m] < uidNext'[INBOX]
    BY <1>2, <1>3, <1>4, <1>7
  <2>2. \A m, n \in In(INBOX) : uid'[INBOX][m] = uid'[INBOX][n] => m = n
    BY <1>3, <1>4, <1>7 DEF In
  <2> QED BY <1>1, <1>7, <1>10, <2>1, <2>2 DEF Numbered
<1> QED BY <1>6, <1>8, <1>10, <1>11

LEMMA PutNumbered ==
    ASSUME TypeOK, Numbered, NEW m \in Messages, NEW g \in Folders, Puts(m, g)
    PROVE  /\ uidNext' \in [Folders -> 1..(MaxUid + 1)] /\ Numbered'
           /\ arrived' \subseteq Messages
<1>1. /\ \A f \in Folders : uidNext[f] \in 1..(MaxUid + 1)
      /\ \A f \in Folders : uidNext'[f] = IF f = g THEN uidNext[f] + 1 ELSE uidNext[f]
  BY DEF TypeOK, Puts
<1>2. uidNext' \in [Folders -> 1..(MaxUid + 1)]
  BY <1>1, MailboxAssumption DEF TypeOK, Puts
<1>3. \A f \in Folders, n \in Messages :
        /\ uid[f][n] \in Nat /\ uid[f][n] < uidNext[f] /\ uid'[f][n] \in Nat
        /\ uid'[f][n] = 0 \/ uid'[f][n] = uid[f][n] \/ (f = g /\ n = m /\ uid'[f][n] = uidNext[g])
  BY MailboxAssumption DEF TypeOK, Numbered, Puts
<1>4. arrived' = arrived \cup {m}
  BY DEF Puts, Numbered, In
<1>5. ASSUME NEW f \in Folders
      PROVE  /\ \A n \in Messages : uid'[f][n] < uidNext'[f]
             /\ \A a, b \in In(f)' : uid'[f][a] = uid'[f][b] => a = b
             /\ In(f)' \subseteq arrived'
  <2>1. \A n \in Messages : uid'[f][n] < uidNext'[f]
    BY <1>1, <1>3
  <2>2. \A a, b \in In(f)' : uid'[f][a] = uid'[f][b] => a = b
    <3>1. SUFFICES ASSUME NEW a \in Messages, NEW b \in Messages, uid'[f][a] > 0, uid'[f][b] > 0,
                          uid'[f][a] = uid'[f][b]
                   PROVE  a = b
      BY DEF In
    <3>2. CASE uid'[f][a] = uid[f][a] /\ uid'[f][b] = uid[f][b]
      BY <3>1, <3>2 DEF Numbered, In
    <3>3. CASE uid'[f][a] # uid[f][a] \/ uid'[f][b] # uid[f][b]
      BY <1>1, <1>3, <3>1, <3>3
    <3> QED BY <3>2, <3>3
  <2>3. In(f)' \subseteq arrived'
    BY <1>3, <1>4 DEF In, Numbered
  <2> QED BY <2>1, <2>2, <2>3
<1>6. Numbered'
  BY <1>5 DEF Numbered
<1> QED BY <1>2, <1>4, <1>6 DEF TypeOK

LEMMA ServerType ==
    ASSUME TypeOK, Numbered, Next
    PROVE  /\ uid' \in [Folders -> [Messages -> 0..MaxUid]]
           /\ uidNext' \in [Folders -> 1..(MaxUid + 1)]
           /\ validity' \in 1..MaxValidity /\ arrived' \subseteq Messages
           /\ Numbered'
<1>1. CASE Drops
  <2>1. Numbered'
    <3>1. \A f \in Folders : uidNext'[f] = uidNext[f] /\ uidNext[f] \in Nat \ {0} /\ arrived' = arrived
      BY <1>1, MailboxAssumption DEF Drops, TypeOK
    <3>2. \A f \in Folders, m \in Messages :
            uid[f][m] \in Nat /\ (uid'[f][m] = 0 \/ uid'[f][m] = uid[f][m])
      BY <1>1, MailboxAssumption DEF Drops, TypeOK
    <3> QED BY <3>1, <3>2 DEF Numbered, In
  <2> QED BY <1>1, <2>1 DEF Drops, TypeOK
<1>2. CASE \E m \in Messages, g \in Folders : Puts(m, g)
  <2>1. PICK m \in Messages, g \in Folders : Puts(m, g)
    BY <1>2
  <2>2. uidNext' \in [Folders -> 1..(MaxUid + 1)] /\ Numbered' /\ arrived' \subseteq Messages
    BY <2>1, PutNumbered
  <2>3. uid' \in [Folders -> [Messages -> 0..MaxUid]] /\ validity' = validity
    BY <2>1 DEF Puts
  <2> QED BY <2>2, <2>3 DEF TypeOK
<1>3. CASE Renumber
  BY <1>3, Rebuilt, MailboxAssumption DEF Renumber, TypeOK
<1> QED BY <1>1, <1>2, <1>3, ServerSteps

\* Delivered mail was nowhere, and moved mail leaves where it was.
LEMMA InOneFolderNext ==
    ASSUME TypeOK, Numbered, HasMove, InOneFolder, Next
    PROVE  InOneFolder'
<1>1. CASE Drops
  BY <1>1, MailboxAssumption DEF Drops, InOneFolder, TypeOK
<1>2. ASSUME NEW m \in Messages, NEW g \in Folders, Puts(m, g) PROVE InOneFolder'
  <2>3. \A n \in Messages, f \in Folders : uid[f][n] \in Nat /\ uid'[f][n] \in Nat
    BY <1>2, MailboxAssumption DEF Puts, TypeOK
  <2>1. \A f \in Folders \ {g} : uid'[f][m] = 0
    <3>1. CASE m \notin arrived
      <4>1. \A f \in Folders : uid[f][m] = 0
        BY <3>1, MailboxAssumption DEF Numbered, In, TypeOK
      <4> QED BY <1>2, <4>1 DEF Puts
    <3>2. CASE m \in arrived
      <4>1. PICK f \in Folders \ {g} : uid[f][m] > 0 /\ uid'[f][m] = 0
        BY <1>2, <3>2 DEF Puts
      <4>2. \A k \in Folders \ {f} : uid[k][m] = 0
        BY <4>1, MailboxAssumption DEF InOneFolder, TypeOK
      <4> QED BY <1>2, <4>1, <4>2 DEF Puts
    <3> QED BY <3>1, <3>2
  <2>2. \A n \in Messages \ {m}, f \in Folders : uid'[f][n] = 0 \/ uid'[f][n] = uid[f][n]
    BY <1>2 DEF Puts
  <2>4. \A n \in Messages, f, k \in Folders : uid'[f][n] > 0 /\ uid'[k][n] > 0 => f = k
    <3>1. ASSUME NEW n \in Messages \ {m}, NEW f \in Folders, NEW k \in Folders,
                 uid'[f][n] > 0, uid'[k][n] > 0
          PROVE  f = k
      BY <2>2, <2>3, <3>1 DEF InOneFolder
    <3>2. ASSUME NEW f \in Folders, NEW k \in Folders, uid'[f][m] > 0, uid'[k][m] > 0
          PROVE  f = k
      BY <2>1, <3>2
    <3> QED BY <3>1, <3>2
  <2> QED BY <2>4 DEF InOneFolder
<1>3. CASE Renumber
  BY <1>3, Rebuilt, MailboxAssumption DEF InOneFolder, In, TypeOK
<1> QED BY <1>1, <1>2, <1>3, ServerSteps

LEMMA RowType ==
    ASSUME NEW r \in RowStates
    PROVE  /\ r.stored \in BOOLEAN
           /\ r.stored => /\ r.msg \in Messages /\ r.flags \in SUBSET Flags
                          /\ r = Row(r.msg, r.flags)
           /\ ~r.stored => r = NoRow
<1>1. CASE r = NoRow
  BY <1>1 DEF NoRow
<1>2. CASE \E m \in Messages, fs \in SUBSET Flags : r = Row(m, fs)
  BY <1>2 DEF Row
<1> QED BY <1>1, <1>2 DEF RowStates

LEMMA FlagType ==
    ASSUME TypeOK, NEW id \in RemoteIds, NEW flag \in Flags
    PROVE  /\ Flagged(id, flag) \in RowStates /\ Unflagged(id, flag) \in RowStates
           /\ Flagged(id, flag).stored = rows[id].stored
           /\ Unflagged(id, flag).stored = rows[id].stored
           /\ rows[id].stored => /\ Flagged(id, flag).flags = rows[id].flags \cup {flag}
                                 /\ Unflagged(id, flag).flags = rows[id].flags \ {flag}
<1>1. rows[id] \in RowStates
  BY DEF TypeOK
<1>2. CASE rows[id].stored
  <2>1. PICK m \in Messages, fs \in SUBSET Flags : rows[id] = Row(m, fs)
    BY <1>1, <1>2, RowType
  <2>2. Flagged(id, flag) = Row(m, fs \cup {flag}) /\ Unflagged(id, flag) = Row(m, fs \ {flag})
    <3>1. Row(m, fs).flags = fs /\ Row(m, fs).msg = m
      BY DEF Row
    <3> QED BY <1>2, <2>1, <3>1 DEF Flagged, Unflagged
  <2>3. /\ fs \cup {flag} \in SUBSET Flags /\ fs \ {flag} \in SUBSET Flags
    OBVIOUS
  <2>4. \A gs \in SUBSET Flags : Row(m, gs) \in RowStates
    BY DEF RowStates
  <2>5. \A gs : Row(m, gs).stored = TRUE /\ Row(m, gs).flags = gs
    BY DEF Row
  <2> QED BY <2>1, <2>2, <2>3, <2>4, <2>5
<1>3. CASE ~rows[id].stored
  <2>1. Flagged(id, flag) = NoRow /\ Unflagged(id, flag) = NoRow /\ rows[id] = NoRow
    BY <1>1, <1>3, RowType DEF Flagged, Unflagged
  <2> QED BY <1>1, <1>3, <2>1
<1> QED BY <1>1, <1>2, <1>3, RowType

LEMMA UpsertType ==
    ASSUME TypeOK, NEW id \in RemoteIds, NEW m \in Messages
    PROVE  /\ Upserted(id, m) \in RowStates /\ Upserted(id, m).stored
           /\ Upserted(id, m).flags = IF rows[id].stored THEN rows[id].flags ELSE {}
<1>1. (IF rows[id].stored THEN rows[id].flags ELSE {}) \in SUBSET Flags
  BY RowType DEF TypeOK
<1>2. Upserted(id, m) = Row(m, IF rows[id].stored THEN rows[id].flags ELSE {})
  BY DEF Upserted
<1>3. \A fs \in SUBSET Flags : Row(m, fs) \in RowStates
  BY DEF RowStates
<1>4. \A fs : Row(m, fs).stored = TRUE /\ Row(m, fs).flags = fs
  BY DEF Row
<1> QED BY <1>1, <1>2, <1>3, <1>4

LEMMA NoRowType == NoRow \in RowStates /\ ~NoRow.stored
BY DEF RowStates, NoRow

LEMMA IdTypes ==
    ASSUME TypeOK
    PROVE  /\ \A f \in Folders : \A m \in In(f) : RemoteId(f, m) \in RemoteIds
           /\ \A f \in Folders : IdsIn(f) \subseteq RemoteIds
<1>1. \A f \in Folders : \A m \in In(f) : RemoteId(f, m) \in RemoteIds
  BY MailboxAssumption DEF TypeOK, In, RemoteId, RemoteIds
<1> QED BY <1>1 DEF IdsIn

\* Which part of the state each kind of step leaves alone.
LEMMA Frames ==
    ASSUME [Next]_vars
    PROVE  /\ \/ rows' = rows
              \/ \E p \in Rounds : BeginApply(p) \/ LandHeader(p) \/ PlaceRow(p)
              \/ \E h \in Handlers : LocalWrite(h)
           /\ \/ act' = act
              \/ \E h \in Handlers : RequestVerb(h) \/ HandlerStep(h) \/ HandlerDies(h)
              \/ Crash
           /\ cursor' = cursor \/ \E p \in Rounds : CommitCursor(p)
           /\ round' = round \/ (\E p \in Rounds : RoundStep(p) \/ RoundFails(p)) \/ Crash
           /\ UNCHANGED vars \/ Next
<1>1. ASSUME NEW p \in Rounds, RoundStep(p) \/ RoundFails(p)
      PROVE  /\ act' = act
             /\ rows' = rows \/ BeginApply(p) \/ LandHeader(p) \/ PlaceRow(p)
             /\ cursor' = cursor \/ CommitCursor(p)
  BY <1>1 DEF RoundStep, RoundFails, StartRound, SelectInbox, FetchHeaders, WalkFolder,
                BeginApply, LandHeader, ReadLiveRows, PlaceRow, CommitCursor
<1>2. ASSUME NEW h \in Handlers, RequestVerb(h) \/ HandlerStep(h) \/ HandlerDies(h)
      PROVE  round' = round /\ cursor' = cursor /\ (rows' = rows \/ LocalWrite(h))
  BY <1>2 DEF RequestVerb, HandlerStep, HandlerDies, CommandLost, RemoteMove, RemoteExpungeSource,
              RemotePurge, RemoteEmptyTrash, LocalWrite
<1>3. ASSUME NEW m \in Messages, Deliver(m) \/ OtherClientMoves(m)
      PROVE  UNCHANGED <<rows, cursor, round, act>>
  BY <1>3 DEF Deliver, OtherClientMoves
<1>4. CASE Renumber
  BY <1>4 DEF Renumber
<1>5. CASE Crash
  BY <1>5 DEF Crash
<1>6. CASE UNCHANGED vars
  BY <1>6 DEF vars
<1> QED BY <1>1, <1>2, <1>3, <1>4, <1>5, <1>6 DEF Next

LEMMA RowsType ==
    ASSUME TypeOK, [Next]_vars
    PROVE  rows' \in [RemoteIds -> RowStates]
<1>1. ASSUME NEW p \in Rounds, BeginApply(p) PROVE rows' \in [RemoteIds -> RowStates]
  BY <1>1, NoRowType DEF BeginApply, TypeOK
<1>2. ASSUME NEW p \in Rounds, LandHeader(p) PROVE rows' \in [RemoteIds -> RowStates]
  <2>1. PICK u \in round[p].ups : rows' = [rows EXCEPT ![u[1]] = Upserted(u[1], u[2])]
    BY <1>2 DEF LandHeader
  <2>2. u[1] \in RemoteIds /\ u[2] \in Messages
    BY DEF TypeOK, RoundStates
  <2> QED BY <2>1, <2>2, UpsertType DEF TypeOK
<1>3. ASSUME NEW p \in Rounds, PlaceRow(p) PROVE rows' \in [RemoteIds -> RowStates]
  <2>1. PICK id \in round[p].todo :
           rows' = [rows EXCEPT ![id] = IF id \in round[p].walk[ARCHIVE].ids THEN Flagged(id, "archived")
                       ELSE IF id \in round[p].walk[TRASH].ids THEN Flagged(id, "deleted")
                       ELSE IF id \in round[p].removed THEN NoRow
                       ELSE rows[id]]
    BY <1>3 DEF PlaceRow
  <2>2. id \in RemoteIds
    BY DEF TypeOK, RoundStates
  <2>3. Flagged(id, "archived") \in RowStates /\ Flagged(id, "deleted") \in RowStates
        /\ rows[id] \in RowStates
    BY <2>2, FlagType DEF Flags, TypeOK
  <2> QED BY <2>1, <2>2, <2>3, NoRowType DEF TypeOK
<1>4. ASSUME NEW h \in Handlers, LocalWrite(h) PROVE rows' \in [RemoteIds -> RowStates]
  <2> DEFINE a == act[h]
  <2>1. CASE a.verb = "emptyTrash"
    <3>1. rows' = [id \in RemoteIds |-> IF HasFlag(id, "deleted") THEN NoRow ELSE rows[id]]
      BY <1>4, <2>1 DEF LocalWrite
    <3> QED BY <3>1, NoRowType DEF TypeOK
  <2>2. CASE a.verb # "emptyTrash"
    <3>1. PICK r : rows' = [rows EXCEPT ![a.id] = r] /\
             r \in {Flagged(a.id, "archived"), Flagged(a.id, "deleted"), Unflagged(a.id, "archived"),
                    Unflagged(a.id, "deleted"), NoRow}
      BY <1>4, <2>2 DEF LocalWrite, TypeOK, ActStates, AllVerbs
    <3>2. CASE a.id \in RemoteIds
      <4>1. r \in RowStates
        BY <3>1, <3>2, FlagType, NoRowType DEF Flags
      <4> QED BY <3>1, <4>1 DEF TypeOK
    <3>3. CASE a.id \notin RemoteIds
      <4>1. rows' = rows
        BY <3>1, <3>3 DEF TypeOK
      <4> QED BY <4>1 DEF TypeOK
    <3> QED BY <3>2, <3>3
  <2> QED BY <2>1, <2>2
<1> QED BY <1>1, <1>2, <1>3, <1>4, Frames DEF TypeOK

\* What a step of a request leaves behind.
LEMMA ToldIs ==
    ASSUME NEW a \in ActStates
    PROVE  /\ Told(a) \in ActStates /\ IdleAct \in ActStates /\ IdleAct.phase = "idle"
           /\ \/ Told(a) = IdleAct
              \/ Told(a).phase = "local" /\ Told(a).verb = a.verb /\ Told(a).id = a.id
BY DEF Told, IdleAct, ActStates, AllVerbs, Workers

LEMMA CopiedIs ==
    ASSUME NEW a \in ActStates, NEW uids \in SUBSET (1..MaxUid)
    PROVE  /\ Copied(a, uids) \in ActStates
           /\ \/ Copied(a, uids) = IdleAct
              \/ /\ Copied(a, uids).phase = "copied" /\ Copied(a, uids).verb = a.verb
                 /\ Copied(a, uids).id = a.id /\ Copied(a, uids).uids = uids
BY DEF Copied, IdleAct, ActStates, AllVerbs, Workers

LEMMA HandedOn ==
    ASSUME NEW a \in ActStates, NEW by \in Workers
    PROVE  /\ [a EXCEPT !.by = by] \in ActStates
           /\ [a EXCEPT !.by = by].phase = a.phase /\ [a EXCEPT !.by = by].verb = a.verb
           /\ [a EXCEPT !.by = by].id = a.id /\ [a EXCEPT !.by = by].uids = a.uids
BY DEF ActStates

\* The UIDs of the mail an identity stands for.
LEMMA FoundUids ==
    ASSUME TypeOK, NEW f \in Folders, NEW id
    PROVE  {uid[f][m] : m \in Resolve(f, id)} \in SUBSET (1..MaxUid)
BY MailboxAssumption DEF TypeOK, Resolve, In

\* What is left of a request that dies or crashes, or whose last command is lost.
Left(a) == {IdleAct} \cup {[a EXCEPT !.by = by] : by \in Workers}

LEMMA DeathLeaves ==
    ASSUME TypeOK, NEW h \in Handlers, HandlerDies(h) \/ CommandLost(h)
    PROVE  act'[h] \in Left(act[h])
BY DEF TypeOK, HandlerDies, CommandLost, Left, Workers

LEMMA CrashLeaves ==
    ASSUME Crash
    PROVE  \A h \in Handlers : act'[h] \in Left(act[h])
BY DEF Crash, Left, Workers

LEMMA LeftIs ==
    ASSUME NEW a \in ActStates, NEW b \in Left(a)
    PROVE  /\ b \in ActStates
           /\ \/ b.phase = "idle"
              \/ b.phase = a.phase /\ b.verb = a.verb /\ b.id = a.id /\ b.uids = a.uids
<1>1. CASE b = IdleAct
  BY <1>1 DEF IdleAct, ActStates, AllVerbs, Workers
<1>2. CASE b # IdleAct
  <2>1. PICK by \in Workers : b = [a EXCEPT !.by = by]
    BY <1>2 DEF Left
  <2> QED BY <2>1, HandedOn
<1> QED BY <1>1, <1>2

\* A request changes alone, except in a crash.
LEMMA OthersStay ==
    ASSUME TypeOK, NEW h \in Handlers, RequestVerb(h) \/ HandlerStep(h) \/ HandlerDies(h)
    PROVE  \A k \in Handlers \ {h} : act'[k] = act[k]
BY DEF TypeOK, RequestVerb, HandlerStep, HandlerDies, CommandLost, RemoteMove, RemoteExpungeSource,
       RemotePurge, RemoteEmptyTrash, LocalWrite

LEMMA ActType ==
    ASSUME TypeOK, [Next]_vars
    PROVE  act' \in [Handlers -> ActStates]
<1>1. act \in [Handlers -> ActStates] /\ IdleAct \in ActStates
  BY DEF TypeOK, IdleAct, ActStates, AllVerbs, Workers
<1>2. ASSUME NEW h \in Handlers, RequestVerb(h) PROVE act' \in [Handlers -> ActStates]
  <2>1. PICK verb \in AllVerbs, id \in RemoteIds \cup {NoId} :
           \/ act' = [act EXCEPT ![h] = [IdleAct EXCEPT !.phase = "remote", !.verb = verb, !.id = id]]
           \/ act' = [act EXCEPT ![h] = [IdleAct EXCEPT !.phase = "remote", !.verb = verb]]
    BY <1>2, MailboxAssumption DEF RequestVerb
  <2>2. /\ [IdleAct EXCEPT !.phase = "remote", !.verb = verb, !.id = id] \in ActStates
        /\ [IdleAct EXCEPT !.phase = "remote", !.verb = verb] \in ActStates
    BY DEF ActStates, IdleAct, Workers
  <2> QED BY <1>1, <2>1, <2>2
<1>3. ASSUME NEW h \in Handlers, RemoteMove(h) PROVE act' \in [Handlers -> ActStates]
  <2> DEFINE a == act[h]
             uids == {uid[Source(a.verb)][m] : m \in Resolve(Source(a.verb), a.id)}
  <2>1. a \in ActStates /\ uids \in SUBSET (1..MaxUid)
    BY <1>1, Routes, FoundUids
  <2>2. \/ act' = [act EXCEPT ![h] = IdleAct]
        \/ act' = [act EXCEPT ![h] = Told(a)]
        \/ act' = [act EXCEPT ![h] = Copied(a, uids)]
    BY <1>3 DEF RemoteMove
  <2> HIDE DEF a, uids
  <2>3. Told(a) \in ActStates /\ Copied(a, uids) \in ActStates
    BY <2>1, ToldIs, CopiedIs
  <2> QED BY <1>1, <2>2, <2>3
<1>4. ASSUME NEW h \in Handlers,
             RemoteExpungeSource(h) \/ RemotePurge(h) \/ RemoteEmptyTrash(h) \/ LocalWrite(h)
      PROVE  act' \in [Handlers -> ActStates]
  <2>1. PICK a \in ActStates : a = act[h]
    BY <1>1
  <2>2. Told(a) \in ActStates
    BY <1>1 DEF Told, ActStates
  <2>3. act' = [act EXCEPT ![h] = IdleAct] \/ act' = [act EXCEPT ![h] = Told(a)]
    BY <1>4, <2>1 DEF RemoteExpungeSource, RemotePurge, RemoteEmptyTrash, LocalWrite
  <2> QED BY <1>1, <2>2, <2>3
<1>5. ASSUME NEW h \in Handlers, HandlerDies(h) \/ CommandLost(h)
      PROVE  act' \in [Handlers -> ActStates]
  <2>1. PICK b : act' = [act EXCEPT ![h] = b] /\ b = act'[h]
    BY <1>1, <1>5 DEF HandlerDies, CommandLost
  <2>2. b \in ActStates
    BY <1>1, <1>5, <2>1, DeathLeaves, LeftIs
  <2> QED BY <1>1, <2>1, <2>2
<1>6. CASE Crash
  <2>1. \A h \in Handlers : act'[h] \in ActStates
    BY <1>1, <1>6, CrashLeaves, LeftIs
  <2>2. act' = [h \in Handlers |-> act'[h]]
    BY <1>6 DEF Crash
  <2> QED BY <2>1, <2>2
<1> QED BY <1>1, <1>2, <1>3, <1>4, <1>5, <1>6, Frames DEF HandlerStep

LEMMA LeftType ==
    ASSUME TypeOK, [Next]_vars
    PROVE  left' \in [Events -> Nat]
<1>1. ASSUME NEW e \in Events, Spend(e) PROVE left' \in [Events -> Nat]
  BY <1>1 DEF Spend, TypeOK
<1>2. /\ "other" \in Events /\ "renumber" \in Events /\ "verb" \in Events
      /\ "fail" \in Events /\ "crash" \in Events
  BY DEF Events
<1>3. ASSUME NEW p \in Rounds, RoundStep(p) \/ RoundFails(p)
      PROVE  left' = left \/ Spend("fail")
  BY <1>3 DEF RoundStep, RoundFails, StartRound, SelectInbox, FetchHeaders, WalkFolder,
                BeginApply, LandHeader, ReadLiveRows, PlaceRow, CommitCursor
<1>4. ASSUME NEW h \in Handlers, RequestVerb(h) \/ HandlerStep(h) \/ HandlerDies(h)
      PROVE  left' = left \/ Spend("verb") \/ Spend("fail")
  BY <1>4 DEF RequestVerb, HandlerStep, HandlerDies, CommandLost, RemoteMove, RemoteExpungeSource,
              RemotePurge, RemoteEmptyTrash, LocalWrite
<1>5. ASSUME NEW m \in Messages, Deliver(m) \/ OtherClientMoves(m)
      PROVE  left' = left \/ Spend("other")
  BY <1>5 DEF Deliver, OtherClientMoves
<1>6. CASE Renumber \/ Crash
  BY <1>1, <1>2, <1>6 DEF Renumber, Crash
<1>7. CASE UNCHANGED vars
  BY <1>7 DEF vars, TypeOK
<1> QED BY <1>1, <1>2, <1>3, <1>4, <1>5, <1>6, <1>7 DEF Next, TypeOK

-----------------------------------------------------------------------------
(* What a step does to a round *)

LEMMA IdleRoundType == /\ IdleRound \in RoundStates /\ NoCursor \in Cursors
                       /\ IdleRound.phase = "idle" /\ ~IdleRound.walk[INBOX].known
                       /\ IdleRound.ups = {} /\ IdleRound.todo = {}
<1>1. NoCursor \in Cursors
  BY MailboxAssumption DEF NoCursor, Cursors
<1>2. Unknown \in Walks /\ ~Unknown.known
  BY DEF Unknown, Walks
<1>3. [f \in Folders |-> Unknown] \in [Folders -> Walks] /\ [f \in Folders |-> Unknown][INBOX] = Unknown
  BY <1>2, FolderNames
<1>4. 0 \in 0..Cardinality(Messages)
  BY MailboxAssumption, FS_CardinalityType
<1> DEFINE w == [f \in Folders |-> Unknown]
<1> HIDE DEF w
<1> QED BY <1>1, <1>2, <1>3, <1>4 DEF IdleRound, RoundStates, RoundPhases, w

LEMMA StartEffect ==
    ASSUME TypeOK, NEW p \in Rounds, StartRound(p)
    PROVE  LET r == round[p]
               s == round'[p]
           IN  /\ round' \in [Rounds -> RoundStates]
               /\ r.phase = "idle" /\ s.phase = "select" /\ s.after = cursor
               /\ ~s.walk[INBOX].known /\ s.ups = {} /\ s.todo = {}
<1> DEFINE s == [IdleRound EXCEPT !.phase = "select", !.after = cursor]
<1>1. cursor \in Cursors
  BY DEF TypeOK
<1>2. s \in RoundStates /\ s.phase = "select" /\ s.after = cursor /\ s.walk = IdleRound.walk
      /\ s.ups = IdleRound.ups /\ s.todo = IdleRound.todo
  BY <1>1, IdleRoundType DEF RoundStates, RoundPhases
<1> HIDE DEF s
<1>3. round[p].phase = "idle" /\ round' = [round EXCEPT ![p] = s]
  BY DEF StartRound, s
<1> QED BY <1>2, <1>3, IdleRoundType DEF TypeOK

LEMMA SelectEffect ==
    ASSUME TypeOK, NEW p \in Rounds, SelectInbox(p)
    PROVE  LET r == round[p]
               s == round'[p]
           IN  /\ round' \in [Rounds -> RoundStates]
               /\ r.phase = "select" /\ s.after = r.after
               /\ s.cur.validity = validity /\ s.cur.next = uidNext[INBOX]
               /\ s.reset <=> r.after.validity # 0 /\ r.after.validity # validity
               /\ s.exists = Cardinality(In(INBOX))
               /\ s.phase = IF s.reset THEN "pulled" ELSE "fetch"
               /\ s.ups = r.ups /\ s.walk = r.walk /\ s.todo = r.todo
<1> DEFINE r == round[p]
           cur == [validity |-> validity, next |-> uidNext[INBOX]]
           rebuilt == r.after.validity # 0 /\ r.after.validity # validity
           ex == Cardinality(In(INBOX))
           s == [r EXCEPT !.cur = cur, !.reset = rebuilt, !.exists = ex,
                          !.phase = IF rebuilt THEN "pulled" ELSE "fetch"]
<1>1. r \in RoundStates /\ rebuilt \in BOOLEAN
  BY DEF TypeOK
<1>2. cur \in Cursors /\ cur.validity = validity /\ cur.next = uidNext[INBOX]
  BY FolderNames, MailboxAssumption DEF TypeOK, Cursors
<1>3. ex \in 0..Cardinality(Messages)
  BY InFinite, MailboxAssumption, FS_CardinalityType
<1>4. r.phase = "select" /\ round' = [round EXCEPT ![p] = s]
  BY DEF SelectInbox
<1> HIDE DEF cur, rebuilt, ex, r
<1>5. /\ s \in RoundStates
      /\ s.after = r.after /\ s.cur = cur /\ s.reset = rebuilt /\ s.exists = ex
      /\ s.phase = IF rebuilt THEN "pulled" ELSE "fetch"
      /\ s.ups = r.ups /\ s.walk = r.walk /\ s.todo = r.todo
  BY <1>1, <1>2, <1>3 DEF RoundStates, RoundPhases
<1> HIDE DEF s
<1>6. round' \in [Rounds -> RoundStates] /\ round'[p] = s
  BY <1>4, <1>5 DEF TypeOK
<1> QED BY <1>2, <1>4, <1>5, <1>6 DEF rebuilt, r, ex

LEMMA FetchEffect ==
    ASSUME TypeOK, NEW p \in Rounds, FetchHeaders(p)
    PROVE  LET r == round[p]
               s == round'[p]
           IN  /\ round' \in [Rounds -> RoundStates]
               /\ r.phase = "fetch" /\ s.phase = "walkInbox"
               /\ s.ups = {<<RemoteId(INBOX, m), m>> : m \in Fetched(p)}
               /\ Fetched(p) \subseteq In(INBOX)
               /\ s.after = r.after /\ s.cur = r.cur /\ s.reset = r.reset
               /\ s.walk = r.walk /\ s.todo = r.todo
<1> DEFINE r == round[p]
           ups == {<<RemoteId(INBOX, m), m>> : m \in Fetched(p)}
           s == [r EXCEPT !.ups = ups, !.phase = "walkInbox"]
<1>1. r \in RoundStates
  BY DEF TypeOK
<1>2. Fetched(p) \subseteq In(INBOX) /\ In(INBOX) \subseteq Messages
  BY DEF Fetched, Newest, In
<1>3. ups \in SUBSET (RemoteIds \X Messages)
  BY <1>2, IdTypes, FolderNames
<1>4. r.phase = "fetch" /\ round' = [round EXCEPT ![p] = s]
  BY DEF FetchHeaders, TypeOK
<1> HIDE DEF ups, r
<1>5. /\ s \in RoundStates /\ s.ups = ups /\ s.phase = "walkInbox"
      /\ s.after = r.after /\ s.cur = r.cur /\ s.reset = r.reset
      /\ s.walk = r.walk /\ s.todo = r.todo
  BY <1>1, <1>3 DEF RoundStates, RoundPhases
<1> HIDE DEF s
<1>6. round' \in [Rounds -> RoundStates] /\ round'[p] = s
  BY <1>4, <1>5 DEF TypeOK
<1> QED BY <1>2, <1>4, <1>5, <1>6 DEF ups, r

LEMMA WalkEffect ==
    ASSUME TypeOK, NEW p \in Rounds, WalkFolder(p)
    PROVE  LET r == round[p]
               s == round'[p]
           IN  /\ round' \in [Rounds -> RoundStates]
               /\ r.phase \in {"walkInbox", "walkArchive", "walkTrash"}
               /\ s.phase \in {"walkArchive", "walkTrash", "pulled"}
               /\ r.phase # "walkInbox" => s.walk[INBOX] = r.walk[INBOX]
               /\ r.phase = "walkInbox" => \/ ~s.walk[INBOX].known
                                           \/ s.walk[INBOX].ids = IdsIn(INBOX)
               /\ s.after = r.after /\ s.cur = r.cur /\ s.reset = r.reset
               /\ s.ups = r.ups /\ s.todo = r.todo
<1> DEFINE r == round[p]
           f == WalkOrder[r.phase][1]
           then == WalkOrder[r.phase][2]
<1>1. /\ r \in RoundStates
      /\ r.phase \in {"walkInbox", "walkArchive", "walkTrash"}
  BY DEF TypeOK, WalkFolder, WalkOrder
<1>2. /\ f \in Folders /\ then \in {"walkArchive", "walkTrash", "pulled"}
      /\ r.phase = "walkInbox" <=> f = INBOX
  BY <1>1 DEF WalkOrder, Folders, INBOX, ARCHIVE, TRASH
<1>3. PICK w \in {Walked(f), Unknown} :
         round' = [round EXCEPT ![p] = [r EXCEPT !.walk = [r.walk EXCEPT ![f] = w], !.phase = then]]
  BY DEF WalkFolder, TypeOK
<1>4. w \in Walks /\ (w.known => w.ids = IdsIn(f))
  <2>1. IdsIn(f) \in SUBSET RemoteIds
    BY <1>2, IdTypes
  <2>2. Walked(f) \in Walks /\ Walked(f).ids = IdsIn(f)
    BY <2>1 DEF Walks, Walked
  <2>3. Unknown \in Walks /\ ~Unknown.known
    BY DEF Walks, Unknown
  <2> QED BY <1>3, <2>2, <2>3
<1> HIDE DEF f, then, r
<1> DEFINE walk == [r.walk EXCEPT ![f] = w]
           s == [r EXCEPT !.walk = walk, !.phase = then]
<1>5. walk \in [Folders -> Walks] /\ walk[f] = w /\ (f # INBOX => walk[INBOX] = r.walk[INBOX])
  BY <1>1, <1>2, <1>4, FolderNames DEF RoundStates
<1> HIDE DEF walk
<1>6. /\ s \in RoundStates /\ s.phase = then /\ s.walk = walk
      /\ s.after = r.after /\ s.cur = r.cur /\ s.reset = r.reset /\ s.ups = r.ups /\ s.todo = r.todo
  BY <1>1, <1>2, <1>5 DEF RoundStates, RoundPhases
<1>7. round' = [round EXCEPT ![p] = s]
  BY <1>3 DEF walk
<1> HIDE DEF s
<1>8. round' \in [Rounds -> RoundStates] /\ round'[p] = s
  BY <1>6, <1>7 DEF TypeOK
<1>9. /\ r.phase # "walkInbox" => s.walk[INBOX] = r.walk[INBOX]
      /\ r.phase = "walkInbox" => ~s.walk[INBOX].known \/ s.walk[INBOX].ids = IdsIn(INBOX)
  BY <1>2, <1>4, <1>5, <1>6
<1> QED BY <1>1, <1>2, <1>6, <1>8, <1>9 DEF r

\* The steps of an apply: the rest of the round stays.
Applies(p) ==
    LET r == round[p]
        s == round'[p]
    IN  /\ round' \in [Rounds -> RoundStates]
        /\ s.after = r.after /\ s.cur = r.cur /\ s.reset = r.reset /\ s.walk = r.walk

LEMMA ApplyEffect ==
    ASSUME TypeOK, NEW p \in Rounds
    PROVE  LET r == round[p]
               s == round'[p]
           IN  /\ BeginApply(p) => /\ Applies(p) /\ r.phase = "pulled" /\ s.phase = "land"
                                   /\ s.ups = r.ups /\ s.todo = r.todo
               /\ \A u \in r.ups : r.phase = "land" /\ round' = [round EXCEPT ![p].ups = @ \ {u}] =>
                    Applies(p) /\ s.phase = "land" /\ s.ups = r.ups \ {u} /\ s.todo = r.todo
               /\ ReadLiveRows(p) => /\ Applies(p) /\ r.phase = "land" /\ s.phase = "place"
                                     /\ r.ups = {} /\ s.ups = {}
                                     /\ s.todo = IF r.walk[INBOX].known
                                                   THEN LiveIds \ r.walk[INBOX].ids ELSE {}
               /\ \A id \in r.todo : r.phase = "place" /\ round' = [round EXCEPT ![p].todo = @ \ {id}] =>
                    Applies(p) /\ s.phase = "place" /\ s.ups = r.ups /\ s.todo = r.todo \ {id}
<1>1. round[p] \in RoundStates /\ LiveIds \subseteq RemoteIds
  BY DEF TypeOK, LiveIds
<1>2. ASSUME BeginApply(p)
      PROVE  /\ Applies(p) /\ round[p].phase = "pulled" /\ round'[p].phase = "land"
             /\ round'[p].ups = round[p].ups /\ round'[p].todo = round[p].todo
  <2> DEFINE s == [round[p] EXCEPT !.phase = "land"]
  <2>1. /\ s \in RoundStates /\ s.phase = "land" /\ s.ups = round[p].ups /\ s.todo = round[p].todo
        /\ s.after = round[p].after /\ s.cur = round[p].cur /\ s.reset = round[p].reset
        /\ s.walk = round[p].walk
    BY <1>1 DEF RoundStates, RoundPhases
  <2>2. round[p].phase = "pulled" /\ round' = [round EXCEPT ![p] = s]
    BY <1>2 DEF BeginApply, TypeOK
  <2> HIDE DEF s
  <2> QED BY <2>1, <2>2 DEF TypeOK, Applies
<1>3. ASSUME NEW u \in round[p].ups, round[p].phase = "land",
             round' = [round EXCEPT ![p].ups = @ \ {u}]
      PROVE  /\ Applies(p) /\ round'[p].phase = "land"
             /\ round'[p].ups = round[p].ups \ {u} /\ round'[p].todo = round[p].todo
  <2> DEFINE s == [round[p] EXCEPT !.ups = round[p].ups \ {u}]
  <2>1. /\ s \in RoundStates /\ s.phase = "land" /\ s.ups = round[p].ups \ {u}
        /\ s.todo = round[p].todo
        /\ s.after = round[p].after /\ s.cur = round[p].cur /\ s.reset = round[p].reset
        /\ s.walk = round[p].walk
    BY <1>1, <1>3 DEF RoundStates, RoundPhases
  <2>2. round' = [round EXCEPT ![p] = s]
    BY <1>3 DEF TypeOK
  <2> HIDE DEF s
  <2> QED BY <2>1, <2>2 DEF TypeOK, Applies
<1>4. ASSUME ReadLiveRows(p)
      PROVE  /\ Applies(p) /\ round[p].phase = "land" /\ round'[p].phase = "place"
             /\ round[p].ups = {} /\ round'[p].ups = {}
             /\ round'[p].todo = IF round[p].walk[INBOX].known
                                   THEN LiveIds \ round[p].walk[INBOX].ids ELSE {}
  <2> DEFINE w == round[p].walk
             allKnown == \A f \in Folders : w[f].known
             away == IF w[INBOX].known THEN LiveIds \ w[INBOX].ids ELSE {}
             gone == IF allKnown THEN away \ (w[ARCHIVE].ids \cup w[TRASH].ids) ELSE {}
             s == [round[p] EXCEPT !.todo = away, !.removed = gone, !.phase = "place"]
  <2>1. round[p].phase = "land" /\ round[p].ups = {} /\ round' = [round EXCEPT ![p] = s]
    BY <1>4 DEF ReadLiveRows, TypeOK
  <2>2. away \in SUBSET RemoteIds /\ gone \in SUBSET RemoteIds
    BY <1>1
  <2>3. away = IF round[p].walk[INBOX].known THEN LiveIds \ round[p].walk[INBOX].ids ELSE {}
    OBVIOUS
  <2> HIDE DEF allKnown, away, gone
  <2>4. /\ s \in RoundStates /\ s.phase = "place" /\ s.ups = round[p].ups /\ s.todo = away
        /\ s.after = round[p].after /\ s.cur = round[p].cur /\ s.reset = round[p].reset
        /\ s.walk = round[p].walk
    BY <1>1, <2>2 DEF RoundStates, RoundPhases
  <2> HIDE DEF s
  <2> QED BY <2>1, <2>3, <2>4 DEF TypeOK, Applies
<1>5. ASSUME NEW id \in round[p].todo, round[p].phase = "place",
             round' = [round EXCEPT ![p].todo = @ \ {id}]
      PROVE  /\ Applies(p) /\ round'[p].phase = "place"
             /\ round'[p].ups = round[p].ups /\ round'[p].todo = round[p].todo \ {id}
  <2> DEFINE s == [round[p] EXCEPT !.todo = round[p].todo \ {id}]
  <2>1. /\ s \in RoundStates /\ s.phase = "place" /\ s.ups = round[p].ups
        /\ s.todo = round[p].todo \ {id}
        /\ s.after = round[p].after /\ s.cur = round[p].cur /\ s.reset = round[p].reset
        /\ s.walk = round[p].walk
    BY <1>1, <1>5 DEF RoundStates, RoundPhases
  <2>2. round' = [round EXCEPT ![p] = s]
    BY <1>5 DEF TypeOK
  <2> HIDE DEF s
  <2> QED BY <2>1, <2>2 DEF TypeOK, Applies
<1> QED BY <1>2, <1>3, <1>4, <1>5

LEMMA RoundType ==
    ASSUME TypeOK, [Next]_vars
    PROVE  round' \in [Rounds -> RoundStates]
<1>1. ASSUME NEW p \in Rounds, RoundStep(p) \/ RoundFails(p) PROVE round' \in [Rounds -> RoundStates]
  <2>1. CASE StartRound(p) \/ SelectInbox(p) \/ FetchHeaders(p) \/ WalkFolder(p)
    BY <2>1, StartEffect, SelectEffect, FetchEffect, WalkEffect
  <2>2. CASE BeginApply(p) \/ LandHeader(p) \/ ReadLiveRows(p) \/ PlaceRow(p)
    BY <2>2, ApplyEffect DEF LandHeader, PlaceRow, Applies
  <2>3. CASE CommitCursor(p) \/ RoundFails(p)
    BY <2>3, IdleRoundType DEF CommitCursor, RoundFails, TypeOK
  <2> QED BY <1>1, <2>1, <2>2, <2>3 DEF RoundStep
<1>2. CASE Crash
  BY <1>2, IdleRoundType DEF Crash
<1> QED BY <1>1, <1>2, Frames DEF TypeOK

LEMMA CursorType ==
    ASSUME TypeOK, [Next]_vars
    PROVE  cursor' \in Cursors
<1>1. ASSUME NEW p \in Rounds, CommitCursor(p) PROVE cursor' \in Cursors
  BY <1>1 DEF CommitCursor, TypeOK, RoundStates
<1> QED BY <1>1, Frames DEF TypeOK

\* Only mail that was deleted for good is counted as such.
LEMMA DiscardedType ==
    ASSUME TypeOK, [Next]_vars
    PROVE  discarded' \subseteq Messages
<1>1. discarded \subseteq Messages
  BY DEF TypeOK
<1>2. ASSUME NEW p \in Rounds, RoundStep(p) \/ RoundFails(p) PROVE discarded' = discarded
  BY <1>2 DEF RoundStep, RoundFails, StartRound, SelectInbox, FetchHeaders, WalkFolder,
              BeginApply, LandHeader, ReadLiveRows, PlaceRow, CommitCursor, server
<1>3. ASSUME NEW h \in Handlers, RequestVerb(h) \/ HandlerStep(h) \/ HandlerDies(h)
      PROVE  discarded' \subseteq discarded \cup Messages
  BY <1>1, <1>3 DEF RequestVerb, HandlerStep, HandlerDies, CommandLost, RemoteMove,
              RemoteExpungeSource, RemotePurge, RemoteEmptyTrash, LocalWrite, Resolve, In, server
<1>4. ASSUME NEW m \in Messages, Deliver(m) \/ OtherClientMoves(m)
      PROVE  discarded' \subseteq discarded \cup Messages
  BY <1>4 DEF Deliver, OtherClientMoves
<1>5. CASE Renumber
  BY <1>1, <1>5 DEF Renumber
<1>6. CASE Crash
  BY <1>1, <1>6 DEF Crash, server
<1>7. CASE UNCHANGED vars
  BY <1>1, <1>7 DEF vars
<1>8. discarded' \subseteq discarded \cup Messages
  BY <1>2, <1>3, <1>4, <1>5, <1>6, <1>7 DEF Next
<1> QED BY <1>1, <1>8

LEMMA TypeInit == Init => TypeOK
<1> SUFFICES ASSUME Init PROVE TypeOK
  OBVIOUS
<1>1. uid \in [Folders -> [Messages -> 0..MaxUid]] /\ uidNext \in [Folders -> 1..(MaxUid + 1)]
  BY MailboxAssumption DEF Init
<1>2. rows \in [RemoteIds -> RowStates] /\ round \in [Rounds -> RoundStates] /\ cursor \in Cursors
  BY NoRowType, IdleRoundType DEF Init
<1>3. act \in [Handlers -> ActStates]
  BY DEF Init, IdleAct, ActStates, AllVerbs, Workers
<1>4. /\ validity \in 1..MaxValidity /\ arrived \subseteq Messages /\ discarded \subseteq Messages
      /\ left \in [Events -> Nat]
  BY MailboxAssumption DEF Init
<1> QED BY <1>1, <1>2, <1>3, <1>4 DEF TypeOK

LEMMA TypeNext == TypeOK /\ Numbered /\ [Next]_vars => TypeOK' /\ Numbered'
<1> SUFFICES ASSUME TypeOK, Numbered, [Next]_vars PROVE TypeOK' /\ Numbered'
  OBVIOUS
<1>1. CASE Next
  BY <1>1, ServerType, DiscardedType, RowsType, ActType, LeftType, RoundType, CursorType DEF TypeOK
<1>2. CASE UNCHANGED vars
  BY <1>2 DEF vars, TypeOK, Numbered, In
<1> QED BY <1>1, <1>2

\* Every reachable state of the mailbox, its rows, the rounds and the requests is well
\* typed; above all the UIDs stay within what the folder handed out, also when the
\* server renumbers its INBOX by the order of the mail.
THEOREM MailboxTyped == Spec => []TypeOK
<1>1. Init => TypeOK /\ Numbered
  BY TypeInit, NumberedInit
<1> QED BY <1>1, TypeNext, PTL DEF Spec

-----------------------------------------------------------------------------
(* What stays known of the INBOX until it is rebuilt *)

\* Mail that is in the INBOX keeps its UID, mail that comes gets the next one, and
\* mail that is nowhere does not come back.
Keeps ==
    /\ uidNext[INBOX] \in Nat \ {0} /\ uidNext'[INBOX] \in Nat /\ uidNext[INBOX] <= uidNext'[INBOX]
    /\ \A m \in Messages : uid[INBOX][m] \in Nat /\ uid'[INBOX][m] \in Nat
    /\ \A m \in Messages : \/ uid'[INBOX][m] = 0 \/ uid'[INBOX][m] = uid[INBOX][m]
                           \/ uid'[INBOX][m] = uidNext[INBOX]
    /\ \A m \in arrived : (\A f \in Folders : uid[f][m] = 0) => \A f \in Folders : uid'[f][m] = 0
    /\ arrived \subseteq arrived' /\ arrived \subseteq Messages

LEMMA StepKeeps ==
    ASSUME TypeOK, [Next]_vars, validity' = 1
    PROVE  Keeps /\ validity = 1
<1>1. /\ uidNext[INBOX] \in Nat \ {0} /\ arrived \subseteq Messages /\ validity \in Nat \ {0}
      /\ \A m \in Messages, f \in Folders : uid[f][m] \in Nat
  BY FolderNames, MailboxAssumption DEF TypeOK
<1>2. CASE Drops
  <2>1. \A m \in Messages : uid'[INBOX][m] \in Nat
    BY <1>2, FolderNames, MailboxAssumption DEF Drops
  <2> QED BY <1>1, <1>2, <2>1, FolderNames DEF Drops, Keeps
<1>3. ASSUME NEW m \in Messages, NEW g \in Folders, Puts(m, g) PROVE Keeps /\ validity = 1
  <2>1. \A n \in Messages : uid'[INBOX][n] \in Nat
    BY <1>3, FolderNames, MailboxAssumption DEF Puts
  <2>2. uidNext'[INBOX] \in Nat /\ uidNext[INBOX] <= uidNext'[INBOX]
    BY <1>1, <1>3, FolderNames DEF Puts, TypeOK
  <2>3. \A n \in Messages : \/ uid'[INBOX][n] = 0 \/ uid'[INBOX][n] = uid[INBOX][n]
                            \/ uid'[INBOX][n] = uidNext[INBOX]
    BY <1>3, FolderNames DEF Puts
  <2>4. \A n \in arrived : (\A f \in Folders : uid[f][n] = 0) => \A f \in Folders : uid'[f][n] = 0
    <3>1. SUFFICES ASSUME NEW n \in arrived, \A f \in Folders : uid[f][n] = 0
                   PROVE  \A f \in Folders : uid'[f][n] = 0
      OBVIOUS
    <3>2. n # m
      BY <1>3, <3>1 DEF Puts
    <3> QED BY <1>1, <1>3, <3>1, <3>2 DEF Puts
  <2>5. arrived \subseteq arrived' /\ validity' = validity
    BY <1>3 DEF Puts
  <2>6. \A n \in Messages : uid[INBOX][n] \in Nat
    BY <1>1, FolderNames
  <2>7. validity = 1
    BY <2>5
  <2> QED BY <1>1, <2>1, <2>2, <2>3, <2>4, <2>5, <2>6, <2>7 DEF Keeps
<1>4. CASE Renumber
  BY <1>1, <1>4 DEF Renumber
<1>5. CASE UNCHANGED vars
  <2>1. Drops
    BY <1>5, NothingDrops DEF vars, server
  <2> QED BY <1>2, <2>1
<1>6. CASE Next
  BY <1>2, <1>3, <1>4, <1>6, ServerSteps
<1> QED BY <1>5, <1>6

LEMMA IssuedKept ==
    ASSUME Keeps, NEW id \in RemoteIds, Issued(id)
    PROVE  Issued(id)'
<1>1. id[1] = "uid" => id[2] \in Nat
  BY MailboxAssumption DEF RemoteIds
<1> QED BY <1>1 DEF Keeps, Issued

LEMMA AbsentKept ==
    ASSUME Keeps, NEW id \in RemoteIds, Issued(id), id[1] = "uid", Absent(id)
    PROVE  Absent(id)'
<1>1. SUFFICES ASSUME NEW m \in Messages, uid'[INBOX][m] > 0, RemoteId(INBOX, m)' = id
               PROVE  FALSE
  BY DEF Absent, In
<1>2. m \in Bare /\ id = <<"uid", uid'[INBOX][m]>>
  BY <1>1 DEF RemoteId
<1>3. uid'[INBOX][m] # uidNext[INBOX]
  BY <1>2 DEF Issued, Keeps
<1>4. uid'[INBOX][m] = uid[INBOX][m]
  BY <1>1, <1>3 DEF Keeps
<1> QED BY <1>1, <1>2, <1>4 DEF Absent, In, RemoteId

LEMMA AbsentBelowKept ==
    ASSUME Keeps, NEW id \in RemoteIds, Issued(id), NEW next \in 1..uidNext[INBOX],
           AbsentBelow(id, next)
    PROVE  AbsentBelow(id, next)'
<1>1. SUFFICES ASSUME NEW m \in Messages, uid'[INBOX][m] > 0, RemoteId(INBOX, m)' = id
               PROVE  m \notin Bare /\ uid'[INBOX][m] >= next
  BY DEF AbsentBelow, In
<1>2. CASE uid'[INBOX][m] = uid[INBOX][m]
  BY <1>1, <1>2 DEF AbsentBelow, In, RemoteId
<1>3. CASE uid'[INBOX][m] = uidNext[INBOX]
  BY <1>1, <1>3 DEF RemoteId, Issued, Keeps
<1> QED BY <1>1, <1>2, <1>3 DEF Keeps

LEMMA NotBareNotUid ==
    ASSUME NEW id, NEW next, id[1] = "uid", AbsentBelow(id, next)
    PROVE  Absent(id)
BY DEF AbsentBelow, Absent, RemoteId

LEMMA RowKeptKept ==
    ASSUME Keeps, NEW id \in RemoteIds, Issued(id),
           id[1] = "uid" /\ "deleted" \in rows'[id].flags => Absent(id)
    PROVE  RowKept(id)'
<1>1. Issued(id)'
  BY IssuedKept
<1>2. id[1] = "uid" /\ "deleted" \in rows'[id].flags => Absent(id)'
  BY AbsentKept
<1> QED BY <1>1, <1>2 DEF RowKept

LEMMA ActKeptKept ==
    ASSUME Keeps, NEW a, ActKept(a)
    PROVE  ActKept(a)'
<1>1. CASE a.phase = "idle"
  BY <1>1 DEF ActKept
<1>2. CASE a.phase # "idle"
  <2>1. a.id \in RemoteIds /\ Issued(a.id)
    BY <1>2 DEF ActKept
  <2>2. Issued(a.id)'
    BY <2>1, IssuedKept
  <2>3. a.id[1] = "uid" /\ (a.verb = "purge" \/ (a.verb = "trash" /\ a.phase = "local")) => Absent(a.id)'
    BY <1>2, <2>1, AbsentKept DEF ActKept
  <2>4. a.id[1] = "mid" /\ a.verb = "purge" /\ a.phase = "local"
          => a.id[2] \in arrived' /\ \A f \in Folders : uid'[f][a.id[2]] = 0
    BY <1>2 DEF ActKept, Keeps
  <2> QED BY <1>2, <2>1, <2>2, <2>3, <2>4 DEF ActKept
<1> QED BY <1>1, <1>2

-----------------------------------------------------------------------------
(* The rows *)

LEMMA RowsNext ==
    ASSUME TypeOK, Keeps, RowsKept, ActsKept, RoundsKept, [Next]_vars
    PROVE  RowsKept'
<1>1. \A id \in RemoteIds : rows'[id].stored =>
        Issued(id) /\ (id[1] = "uid" /\ "deleted" \in rows'[id].flags => Absent(id))
  <2>1. CASE rows' = rows
    BY <2>1 DEF RowsKept, RowKept
  <2>2. ASSUME NEW p \in Rounds, BeginApply(p) PROVE rows' = rows
    BY <2>2 DEF BeginApply, RoundsKept, RoundKept
  <2>3. ASSUME NEW p \in Rounds, LandHeader(p), NEW id \in RemoteIds, rows'[id].stored
        PROVE  Issued(id) /\ (id[1] = "uid" /\ "deleted" \in rows'[id].flags => Absent(id))
    <3>1. PICK u \in round[p].ups : rows' = [rows EXCEPT ![u[1]] = Upserted(u[1], u[2])]
      BY <2>3 DEF LandHeader
    <3>2. u[1] \in RemoteIds /\ u[2] \in Messages /\ Issued(u[1])
      BY DEF TypeOK, RoundStates, RoundsKept, RoundKept
    <3>3. CASE id = u[1]
      <4>1. rows'[id] = Upserted(u[1], u[2])
        BY <3>1, <3>2, <3>3 DEF TypeOK
      <4> QED BY <3>2, <3>3, <4>1, UpsertType DEF RowsKept, RowKept
    <3>4. CASE id # u[1]
      BY <2>3, <3>1, <3>4 DEF TypeOK, RowsKept, RowKept
    <3> QED BY <3>3, <3>4
  <2>4. ASSUME NEW p \in Rounds, PlaceRow(p), NEW id \in RemoteIds, rows'[id].stored
        PROVE  Issued(id) /\ (id[1] = "uid" /\ "deleted" \in rows'[id].flags => Absent(id))
    <3>1. PICK x \in round[p].todo : \E row \in {Flagged(x, "archived"), Flagged(x, "deleted"), NoRow, rows[x]} :
             rows' = [rows EXCEPT ![x] = row]
      BY <2>4 DEF PlaceRow
    <3>2. PICK row \in {Flagged(x, "archived"), Flagged(x, "deleted"), NoRow, rows[x]} :
             rows' = [rows EXCEPT ![x] = row]
      BY <3>1
    <3>3. x \in RemoteIds /\ AbsentBelow(x, round[p].cur.next)
      BY <2>4 DEF TypeOK, RoundStates, RoundsKept, RoundKept, PlaceRow
    <3>4. CASE id = x
      <4>1. rows'[id] = row
        BY <3>2, <3>3, <3>4 DEF TypeOK
      <4>2. rows[id].stored
        BY <2>4, <3>2, <3>3, <3>4, <4>1, FlagType, NoRowType DEF Flags
      <4> QED BY <3>3, <3>4, <4>2, NotBareNotUid DEF RowsKept, RowKept
    <3>5. CASE id # x
      BY <2>4, <3>2, <3>5 DEF TypeOK, RowsKept, RowKept
    <3> QED BY <3>4, <3>5
  <2>5. ASSUME NEW h \in Handlers, LocalWrite(h), NEW id \in RemoteIds, rows'[id].stored
        PROVE  Issued(id) /\ (id[1] = "uid" /\ "deleted" \in rows'[id].flags => Absent(id))
    <3> DEFINE a == act[h]
    <3>1. a.phase = "local" /\ ActKept(a) /\ a.verb # "emptyTrash" /\ a.id \in RemoteIds
      BY <2>5 DEF LocalWrite, ActsKept, ActKept
    <3>2. PICK row : /\ rows' = [rows EXCEPT ![a.id] = row]
                     /\ \/ row \in {Flagged(a.id, "archived"), Unflagged(a.id, "archived"),
                                    Unflagged(a.id, "deleted"), NoRow}
                        \/ row = Flagged(a.id, "deleted") /\ a.verb = "trash"
      BY <2>5, <3>1 DEF LocalWrite, TypeOK, ActStates, AllVerbs
    <3>3. CASE id = a.id
      <4>1. rows'[id] = row
        BY <3>1, <3>2, <3>3 DEF TypeOK
      <4>2. rows[id].stored
        BY <2>5, <3>1, <3>2, <3>3, <4>1, FlagType, NoRowType DEF Flags
      <4>3. CASE a.verb = "trash"
        BY <3>1, <3>3, <4>2, <4>3 DEF RowsKept, RowKept, ActKept
      <4>4. CASE a.verb # "trash"
        <5>1. "deleted" \in rows'[id].flags => "deleted" \in rows[id].flags
          BY <2>5, <3>1, <3>2, <3>3, <4>1, <4>2, <4>4, FlagType, NoRowType DEF Flags
        <5> QED BY <4>2, <5>1 DEF RowsKept, RowKept
      <4> QED BY <4>3, <4>4
    <3>4. CASE id # a.id
      BY <2>5, <3>2, <3>4 DEF TypeOK, RowsKept, RowKept
    <3> QED BY <3>3, <3>4
  <2> QED BY <2>1, <2>2, <2>3, <2>4, <2>5, Frames
<1>2. ASSUME NEW id \in RemoteIds, rows'[id].stored PROVE RowKept(id)'
  BY <1>1, <1>2, RowKeptKept
<1> QED BY <1>2 DEF RowsKept

\* A row is deleted only when no mail of the INBOX has its identity, except by a round
\* beside which the mail came back.
LEMMA RowsStay ==
    ASSUME TypeOK, Numbered, ActsKept, RoundsKept, [Next]_vars,
           NEW m \in In(INBOX), rows[RemoteId(INBOX, m)].stored
    PROVE  \/ rows'[RemoteId(INBOX, m)].stored
           \/ \E p \in Rounds : PlaceRow(p) /\ uid[INBOX][m] >= round[p].cur.next
<1> DEFINE id == RemoteId(INBOX, m)
<1>1. id \in RemoteIds
  BY IdTypes, FolderNames
<1>2. CASE rows' = rows
  BY <1>2
<1>3. ASSUME NEW p \in Rounds, BeginApply(p) PROVE rows' = rows
  BY <1>3 DEF BeginApply, RoundsKept, RoundKept
<1>4. ASSUME NEW p \in Rounds, LandHeader(p) PROVE rows'[id].stored
  <2>1. PICK u \in round[p].ups : rows' = [rows EXCEPT ![u[1]] = Upserted(u[1], u[2])]
    BY <1>4 DEF LandHeader
  <2>2. u[1] \in RemoteIds /\ u[2] \in Messages
    BY DEF TypeOK, RoundStates
  <2>3. rows'[id] = IF id = u[1] THEN Upserted(u[1], u[2]) ELSE rows[id]
    BY <1>1, <2>1, <2>2 DEF TypeOK
  <2> QED BY <2>2, <2>3, UpsertType
<1>5. ASSUME NEW p \in Rounds, PlaceRow(p), ~rows'[id].stored
      PROVE  uid[INBOX][m] >= round[p].cur.next
  <2>1. PICK x \in round[p].todo : \E row : rows' = [rows EXCEPT ![x] = row]
    BY <1>5 DEF PlaceRow
  <2>2. AbsentBelow(x, round[p].cur.next)
    BY <1>5 DEF PlaceRow, RoundsKept, RoundKept
  <2>3. id = x
    BY <1>1, <1>5, <2>1 DEF TypeOK
  <2> QED BY <2>2, <2>3 DEF AbsentBelow
<1>6. ASSUME NEW h \in Handlers, LocalWrite(h) PROVE rows'[id].stored
  <2> DEFINE a == act[h]
  <2>1. a.phase = "local" /\ ActKept(a) /\ a.verb # "emptyTrash" /\ a.id \in RemoteIds
    BY <1>6 DEF LocalWrite, ActsKept, ActKept
  <2>2. PICK row : /\ rows' = [rows EXCEPT ![a.id] = row]
                   /\ \/ row \in {Flagged(a.id, "archived"), Unflagged(a.id, "archived"),
                                  Flagged(a.id, "deleted"), Unflagged(a.id, "deleted")}
                      \/ row = NoRow /\ a.verb = "purge"
    BY <1>6, <2>1 DEF LocalWrite, TypeOK, ActStates, AllVerbs
  <2>3. CASE id = a.id
    <3>1. rows'[id] = row
      BY <2>1, <2>2, <2>3 DEF TypeOK
    <3>2. a.verb # "purge"
      <4>1. ASSUME a.verb = "purge" PROVE FALSE
        <5>1. CASE m \in Bare
          <6>1. a.id[1] = "uid"
            BY <2>3, <5>1 DEF RemoteId
          <6>2. Absent(a.id)
            BY <2>1, <4>1, <6>1 DEF ActKept
          <6> QED BY <2>3, <6>2 DEF Absent
        <5>2. CASE m \notin Bare
          <6>1. a.id[1] = "mid" /\ a.id[2] = m
            BY <2>3, <5>2 DEF RemoteId
          <6>2. uid[INBOX][m] = 0
            BY <2>1, <4>1, <6>1, FolderNames DEF ActKept
          <6> QED BY <6>2 DEF In
        <5> QED BY <5>1, <5>2
      <4> QED BY <4>1
    <3> QED BY <2>1, <2>2, <2>3, <3>1, <3>2, FlagType DEF Flags
  <2>4. CASE id # a.id
    BY <2>2, <2>4, <1>1 DEF TypeOK
  <2> QED BY <2>3, <2>4
<1> QED BY <1>2, <1>3, <1>4, <1>5, <1>6, Frames

-----------------------------------------------------------------------------
(* The requests *)

OneRound == \A p, q \in Rounds : p = q
Premises == /\ HasMove /\ OneRound /\ "emptyTrash" \notin Verbs
            /\ Cardinality(Messages) <= Backfill

\* A request after which the server did not move anything of it.
LEMMA ActBecomes ==
    ASSUME Keeps, NEW h \in Handlers, NEW a, act'[h] = a, ActKept(a)
    PROVE  ActKept(act[h])'
<1>1. ActKept(a)'
  BY ActKeptKept
<1> QED BY <1>1 DEF ActKept

LEMMA RequestKept ==
    ASSUME Premises, TypeOK, Keeps, RowsKept, NEW h \in Handlers, RequestVerb(h)
    PROVE  ActKept(act[h])'
<1>1. PICK verb \in Verbs \ {"emptyTrash"}, id \in RemoteIds :
         /\ Offered(verb, id)
         /\ act' = [act EXCEPT ![h] = [IdleAct EXCEPT !.phase = "remote", !.verb = verb, !.id = id]]
  BY DEF RequestVerb, Premises
<1> DEFINE a == [IdleAct EXCEPT !.phase = "remote", !.verb = verb, !.id = id]
<1>2. act'[h] = a
  BY <1>1 DEF TypeOK
<1>3. rows[id].stored /\ (verb = "purge" => "deleted" \in rows[id].flags)
  BY <1>1 DEF Offered, Live, HasFlag
<1>4. RowKept(id)
  BY <1>3 DEF RowsKept
<1>5. a.phase = "remote" /\ a.verb = verb /\ a.id = id
  BY DEF IdleAct
<1> HIDE DEF a
<1>6. ActKept(a)
  BY <1>1, <1>3, <1>4, <1>5 DEF ActKept, RowKept
<1> QED BY <1>2, <1>6, ActBecomes

LEMMA MoveKept ==
    ASSUME Premises, TypeOK, Numbered, Keeps, ActsKept, NEW h \in Handlers, RemoteMove(h)
    PROVE  ActKept(act[h])'
<1> DEFINE f == Source(act[h].verb)
           g == Target(act[h].verb)
           found == Resolve(f, act[h].id)
<1>1. PICK id \in RemoteIds, verb \in {"archive", "unarchive", "trash", "restore"} :
         act[h].id = id /\ act[h].verb = verb
  BY DEF RemoteMove, ActsKept, ActKept
<1>2. act[h].phase = "remote" /\ Issued(id)
  BY <1>1 DEF RemoteMove, ActsKept, ActKept
<1>3. CASE act'[h].phase = "idle"
  BY <1>3 DEF ActKept
<1>4. CASE act'[h].phase # "idle"
  <2>1. /\ act'[h].phase = "local" /\ act'[h].id = id /\ act'[h].verb = verb
        /\ \/ found = {} /\ uid' = uid
           \/ \E m \in found : uid' = Moved(m, f, g)
    <3>1. PICK a \in ActStates : a = act[h]
      BY DEF TypeOK
    <3>2. /\ act' = [act EXCEPT ![h] = Told(a)] \/ act' = [act EXCEPT ![h] = IdleAct]
          /\ \/ found = {} /\ uid' = uid
             \/ \E m \in found : uid' = Moved(m, f, g)
      BY <3>1 DEF Premises, RemoteMove
    <3>3. act'[h] = Told(a) \/ act'[h] = IdleAct
      BY <3>2 DEF TypeOK
    <3> HIDE DEF found, f, g
    <3>4. act'[h] = Told(a) /\ act'[h].phase = "local" /\ act'[h].verb = a.verb /\ act'[h].id = a.id
      BY <1>4, <3>1, <3>3, ToldIs
    <3> QED BY <1>1, <3>1, <3>2, <3>4
  <2>2. ASSUME id[1] = "uid", verb = "trash" PROVE Absent(id)'
    <3>1. f = INBOX /\ g = TRASH /\ found = {n \in In(INBOX) : uid[INBOX][n] = id[2]}
      BY <1>1, <2>2 DEF Source, Target, Resolve
    <3>2. SUFFICES ASSUME NEW n \in Messages, uid'[INBOX][n] > 0, RemoteId(INBOX, n)' = id
                   PROVE  FALSE
      BY DEF Absent, In
    <3>3. uid'[INBOX][n] = id[2]
      BY <2>2, <3>2 DEF RemoteId
    <3>4. CASE found = {} /\ uid' = uid
      BY <3>1, <3>2, <3>3, <3>4 DEF In
    <3>5. ASSUME NEW m \in found, uid' = Moved(m, f, g) PROVE FALSE
      <4>1. /\ INBOX # TRASH /\ INBOX \in Folders /\ TRASH \in Folders
            /\ m \in Messages /\ m \in In(INBOX) /\ uid[INBOX][m] = id[2]
        BY <3>1, <3>5 DEF Folders, INBOX, TRASH, In
      <4>2. uid'[INBOX][n] = IF n = m THEN 0 ELSE uid[INBOX][n]
        BY <3>1, <3>5, <4>1 DEF Moved, TypeOK
      <4>3. n # m /\ n \in In(INBOX)
        BY <3>2, <4>2 DEF In
      <4> QED BY <3>3, <4>1, <4>2, <4>3 DEF Numbered
    <3> QED BY <2>1, <3>4, <3>5
  <2>3. Issued(id)'
    BY <1>2, IssuedKept
  <2> QED BY <1>1, <2>1, <2>2, <2>3 DEF ActKept
<1> QED BY <1>3, <1>4

LEMMA PurgeKept ==
    ASSUME Premises, TypeOK, Numbered, InOneFolder, Keeps, ActsKept, NEW h \in Handlers, RemotePurge(h)
    PROVE  ActKept(act[h])'
<1> DEFINE found == Resolve(TRASH, act[h].id)
<1>1. PICK id \in RemoteIds : act[h].id = id
  BY DEF RemotePurge, ActsKept, ActKept
<1>2. /\ act[h].phase = "remote" /\ act[h].verb = "purge" /\ Issued(id)
      /\ id[1] = "uid" => Absent(id)
  BY <1>1 DEF RemotePurge, ActsKept, ActKept
<1>3. CASE act'[h].phase = "idle"
  BY <1>3 DEF ActKept
<1>4. CASE act'[h].phase # "idle"
  <2>1. /\ act'[h].phase = "local" /\ act'[h].id = id /\ act'[h].verb = "purge"
        /\ id[1] = "mid" => found # {}
        /\ uid' = [uid EXCEPT ![TRASH] = [m \in Messages |-> IF m \in found THEN 0 ELSE uid[TRASH][m]]]
        /\ arrived' = arrived
    <3>1. PICK a \in ActStates : a = act[h]
      BY DEF TypeOK
    <3>2. /\ act' = [act EXCEPT ![h] = IF found = {} /\ a.id[1] = "mid" THEN IdleAct ELSE Told(a)]
          /\ uid' = [uid EXCEPT ![TRASH] = [m \in Messages |-> IF m \in found THEN 0 ELSE uid[TRASH][m]]]
          /\ arrived' = arrived
      BY <3>1 DEF RemotePurge
    <3>3. act'[h] = IF found = {} /\ a.id[1] = "mid" THEN IdleAct ELSE Told(a)
      BY <3>2 DEF TypeOK
    <3> HIDE DEF found
    <3>4. act'[h] # IdleAct
      BY <1>4 DEF IdleAct
    <3>5. act'[h].phase = "local" /\ act'[h].verb = a.verb /\ act'[h].id = a.id
      BY <1>4, <3>3, <3>4, ToldIs
    <3> QED BY <1>1, <1>2, <3>1, <3>2, <3>3, <3>4, <3>5
  <2>2. ASSUME id[1] = "mid" PROVE id[2] \in arrived' /\ \A f \in Folders : uid'[f][id[2]] = 0
    <3>1. PICK m \in Messages : m \in found /\ id[2] = m /\ uid[TRASH][m] > 0
      BY <1>1, <2>1, <2>2 DEF Resolve, In
    <3>2. m \in arrived
      BY <3>1, FolderNames DEF Numbered, In
    <3>3. \A f \in Folders \ {TRASH} : uid[f][m] = 0
      BY <3>1, FolderNames, MailboxAssumption DEF InOneFolder, TypeOK
    <3>4. \A f \in Folders : uid'[f][m] = 0
      BY <2>1, <3>1, <3>3, FolderNames DEF TypeOK
    <3> HIDE DEF found
    <3> QED BY <2>1, <3>1, <3>2, <3>4
  <2>3. Issued(id)' /\ (id[1] = "uid" => Absent(id)')
    BY <1>2, IssuedKept, AbsentKept
  <2> QED BY <1>1, <2>1, <2>2, <2>3 DEF ActKept
<1> QED BY <1>3, <1>4

LEMMA ActsNext ==
    ASSUME Premises, TypeOK, Numbered, InOneFolder, Keeps, RowsKept, ActsKept, [Next]_vars
    PROVE  ActsKept'
<1>1. ASSUME NEW h \in Handlers, act'[h] = act[h] PROVE ActKept(act[h])'
  <2>1. PICK a \in ActStates : a = act[h]
    BY DEF TypeOK
  <2>2. ActKept(a)
    BY <2>1 DEF ActsKept
  <2> QED BY <1>1, <2>1, <2>2, ActBecomes
<1>2. ASSUME NEW h \in Handlers, act'[h].phase = "idle" PROVE ActKept(act[h])'
  BY <1>2 DEF ActKept
<1>3. CASE act' = act
  BY <1>1, <1>3 DEF ActsKept
<1>6. ASSUME NEW h \in Handlers, act'[h] \in Left(act[h]) PROVE ActKept(act[h])'
  <2>1. PICK a \in ActStates, b \in ActStates : a = act[h] /\ b = act'[h]
    BY <1>6, LeftIs DEF TypeOK
  <2>2. b.phase = "idle" \/ (b.phase = a.phase /\ b.verb = a.verb /\ b.id = a.id)
    BY <1>6, <2>1, LeftIs
  <2>3. ActKept(a)
    BY <2>1 DEF ActsKept
  <2>4. ActKept(b)
    BY <2>2, <2>3 DEF ActKept
  <2> QED BY <2>1, <2>4, ActBecomes
<1>4. ASSUME NEW h \in Handlers, RequestVerb(h) \/ HandlerStep(h) \/ HandlerDies(h)
      PROVE  ActsKept'
  <2>1. \A k \in Handlers \ {h} : act'[k] = act[k]
    BY <1>4, OthersStay
  <2>2. ActKept(act[h])'
    <3>1. CASE RequestVerb(h) \/ RemoteMove(h) \/ RemotePurge(h)
      BY <3>1, RequestKept, MoveKept, PurgeKept
    <3>2. CASE RemoteExpungeSource(h) \/ RemoteEmptyTrash(h)
      BY <3>2 DEF RemoteExpungeSource, RemoteEmptyTrash, ActsKept, ActKept
    <3>3. CASE LocalWrite(h)
      BY <3>3, <1>2 DEF LocalWrite, TypeOK, IdleAct
    <3>4. CASE HandlerDies(h) \/ CommandLost(h)
      BY <3>4, <1>6, DeathLeaves
    <3> QED BY <1>4, <3>1, <3>2, <3>3, <3>4 DEF HandlerStep
  <2> QED BY <1>1, <2>1, <2>2 DEF ActsKept
<1>5. CASE Crash
  BY <1>5, <1>6, CrashLeaves DEF ActsKept
<1> QED BY <1>3, <1>4, <1>5, Frames

-----------------------------------------------------------------------------
(* The cursor *)

LEMMA CursorNext ==
    ASSUME TypeOK, Keeps, CursorKept, RoundsKept, [Next]_vars
    PROVE  CursorKept'
<1>1. CASE cursor' = cursor
  <2>1. cursor.next \in 1..uidNext[INBOX] => cursor.next \in 1..uidNext'[INBOX]
    BY DEF Keeps
  <2> QED BY <1>1, <2>1 DEF CursorKept
<1>2. ASSUME NEW p \in Rounds, CommitCursor(p) PROVE CursorKept'
  <2>1. cursor' = round[p].cur /\ round[p].phase = "place" /\ uidNext' = uidNext
    BY <1>2 DEF CommitCursor, server
  <2>2. round[p].cur.validity = 1 /\ round[p].cur.next \in 1..uidNext[INBOX]
    BY <2>1 DEF RoundsKept, RoundKept
  <2> QED BY <2>1, <2>2 DEF CursorKept
<1> QED BY <1>1, <1>2, Frames

LEMMA CursorRange ==
    ASSUME TypeOK, CursorKept
    PROVE  /\ cursor.next \in Nat /\ cursor.validity \in {0, 1}
           /\ Keeps => cursor.next <= uidNext[INBOX]
           /\ cursor.next > 0 => cursor.validity = 1
BY MailboxAssumption DEF CursorKept, NoCursor, TypeOK, Cursors, Keeps

\* What a round will commit covers what is committed.
LEMMA SkipNext ==
    ASSUME Premises, TypeOK, Numbered, Keeps, ActsKept, CursorKept, RoundsKept, NoSkippedMail,
           validity = 1, [Next]_vars
    PROVE  NoSkippedMail'
<1>1. SUFFICES ASSUME cursor'.validity = 1, NEW m \in Messages, uid'[INBOX][m] > 0,
                      uid'[INBOX][m] < cursor'.next
               PROVE  rows'[RemoteId(INBOX, m)'].stored
  BY DEF NoSkippedMail, PassedOver, In
<1>2. CASE cursor' = cursor
  <2>1. uid'[INBOX][m] = uid[INBOX][m]
    BY <1>1, <1>2, CursorRange DEF Keeps
  <2>2. m \in In(INBOX) /\ RemoteId(INBOX, m)' = RemoteId(INBOX, m)
    BY <1>1, <2>1 DEF In, RemoteId
  <2>3. rows[RemoteId(INBOX, m)].stored
    BY <1>1, <1>2, <2>1, <2>2 DEF NoSkippedMail, PassedOver
  <2>4. ASSUME NEW p \in Rounds, PlaceRow(p), uid[INBOX][m] >= round[p].cur.next PROVE FALSE
    <3>1. cursor.next <= round[p].cur.next /\ round[p].cur.next \in Nat
      BY <2>4 DEF PlaceRow, RoundsKept, RoundKept, Keeps
    <3>2. uid[INBOX][m] \in Nat /\ cursor.next \in Nat /\ uid[INBOX][m] < cursor.next
      BY <1>1, <1>2, <2>1, CursorRange DEF Keeps
    <3> QED BY <2>4, <3>1, <3>2
  <2> QED BY <2>2, <2>3, <2>4, RowsStay
<1>3. ASSUME NEW p \in Rounds, CommitCursor(p) PROVE rows'[RemoteId(INBOX, m)'].stored
  <2>1. /\ cursor' = round[p].cur /\ round[p].phase = "place" /\ uid' = uid /\ rows' = rows
    BY <1>3 DEF CommitCursor, server
  <2>2. Landed(round[p]) /\ round[p].ups = {}
    BY <2>1 DEF RoundsKept, RoundKept
  <2>3. RemoteId(INBOX, m)' = RemoteId(INBOX, m) /\ m \in In(INBOX)
    BY <1>1, <2>1 DEF RemoteId, In
  <2> QED BY <1>1, <2>1, <2>2, <2>3 DEF Landed
<1> QED BY <1>2, <1>3, Frames

-----------------------------------------------------------------------------
(* The round *)

LEMMA SameServer ==
    ASSUME UNCHANGED server
    PROVE  /\ In(INBOX)' = In(INBOX) /\ IdsIn(INBOX)' = IdsIn(INBOX)
           /\ \A m \in Messages : RemoteId(INBOX, m)' = RemoteId(INBOX, m)
           /\ \A id : Issued(id)' <=> Issued(id)
           /\ \A id, next : AbsentBelow(id, next)' <=> AbsentBelow(id, next)
BY DEF server, In, IdsIn, RemoteId, Issued, AbsentBelow

\* A round that does not move while others do.
LEMMA RoundKeptKept ==
    ASSUME TypeOK, Keeps, RowsKept, cursor' = cursor, NEW r \in RoundStates, RoundKept(r),
           \A m \in In(INBOX) : /\ uid[INBOX][m] < r.cur.next
                                /\ rows[RemoteId(INBOX, m)].stored
                                => rows'[RemoteId(INBOX, m)].stored,
           \A id \in RemoteIds : rows'[id].stored => rows[id].stored
    PROVE  RoundKept(r)'
<1>1. r.ups \subseteq RemoteIds \X Messages /\ r.todo \subseteq RemoteIds /\ r.cur.next \in Nat
  BY MailboxAssumption DEF RoundStates, Cursors
<1>2. r.phase \notin {"idle", "select"} =>
        /\ r.cur.validity = 1 /\ r.cur.next \in 1..uidNext'[INBOX] /\ cursor'.next <= r.cur.next
        /\ ~r.reset
  BY <1>1 DEF RoundKept, Keeps
<1>3. ASSUME r.phase \notin {"idle", "select"}, NEW m \in Messages, uid'[INBOX][m] > 0,
             uid'[INBOX][m] < r.cur.next
      PROVE  /\ uid'[INBOX][m] = uid[INBOX][m] /\ m \in In(INBOX)
             /\ RemoteId(INBOX, m)' = RemoteId(INBOX, m)
  <2>1. uid'[INBOX][m] = uid[INBOX][m]
    BY <1>3 DEF RoundKept, Keeps
  <2> QED BY <1>3, <2>1 DEF In, RemoteId
<1>4. r.phase = "fetch" /\ r.exists = 0 => \A m \in In(INBOX)' : uid'[INBOX][m] >= r.cur.next
  <2>1. SUFFICES ASSUME r.phase = "fetch", r.exists = 0, NEW m \in Messages, uid'[INBOX][m] > 0,
                        ~(uid'[INBOX][m] >= r.cur.next)
                 PROVE  FALSE
    BY DEF In
  <2>2. uid'[INBOX][m] < r.cur.next
    BY <1>1, <2>1 DEF Keeps
  <2> QED BY <1>3, <2>1, <2>2 DEF RoundKept
<1>5. r.phase \notin {"idle", "select", "fetch"} => Landed(r)'
  <2>1. SUFFICES ASSUME r.phase \notin {"idle", "select", "fetch"}, NEW m \in Messages,
                        uid'[INBOX][m] > 0, uid'[INBOX][m] < r.cur.next
                 PROVE  rows'[RemoteId(INBOX, m)'].stored \/ <<RemoteId(INBOX, m)', m>> \in r.ups
    BY DEF Landed, In
  <2>2. /\ uid[INBOX][m] < r.cur.next /\ m \in In(INBOX)
        /\ RemoteId(INBOX, m)' = RemoteId(INBOX, m)
    BY <1>3, <2>1
  <2>3. rows[RemoteId(INBOX, m)].stored \/ <<RemoteId(INBOX, m), m>> \in r.ups
    BY <2>1, <2>2 DEF RoundKept, Landed
  <2> QED BY <2>2, <2>3
<1>6. \A u \in r.ups : Issued(u[1])'
  <2>1. SUFFICES ASSUME NEW id \in RemoteIds, NEW m \in Messages, <<id, m>> \in r.ups
                 PROVE  Issued(id)'
    BY <1>1
  <2>2. Issued(id)
    BY <2>1 DEF RoundKept
  <2> QED BY <2>2, IssuedKept
<1>7. r.walk[INBOX].known =>
        \A id \in RemoteIds \ r.walk[INBOX].ids : Seen(r, id)' => AbsentBelow(id, r.cur.next)'
  <2>1. SUFFICES ASSUME r.walk[INBOX].known, NEW id \in RemoteIds \ r.walk[INBOX].ids, Seen(r, id)'
                 PROVE  AbsentBelow(id, r.cur.next)'
    OBVIOUS
  <2>2. Seen(r, id)
    BY <2>1 DEF Seen
  <2>3. AbsentBelow(id, r.cur.next) /\ r.cur.next \in 1..uidNext[INBOX]
    <3>1. r.phase \notin {"idle", "select"}
      BY <2>1 DEF RoundKept
    <3> QED BY <2>1, <2>2, <3>1 DEF RoundKept
  <2>4. Issued(id)
    BY <2>2 DEF Seen, RoundKept, RowsKept, RowKept
  <2> QED BY <2>3, <2>4, AbsentBelowKept
<1>8. r.phase = "place" => \A id \in r.todo : Issued(id)' /\ AbsentBelow(id, r.cur.next)'
  <2>1. SUFFICES ASSUME r.phase = "place", NEW id \in r.todo
                 PROVE  Issued(id)' /\ AbsentBelow(id, r.cur.next)'
    OBVIOUS
  <2>2. /\ id \in RemoteIds /\ Issued(id) /\ AbsentBelow(id, r.cur.next)
        /\ r.cur.next \in 1..uidNext[INBOX]
    BY <1>1, <2>1 DEF RoundKept
  <2> QED BY <2>2, IssuedKept, AbsentBelowKept
<1>9. r.phase # "idle" => r.after = cursor'
  BY DEF RoundKept
<1>10. /\ r.phase \in {"idle", "select", "fetch", "walkInbox"} => ~r.walk[INBOX].known
       /\ r.phase = "place" => r.ups = {}
  BY DEF RoundKept
<1> QED BY <1>2, <1>4, <1>5, <1>6, <1>7, <1>8, <1>9, <1>10 DEF RoundKept

\* What a round has to be after its own step, in the words of the state before it.
Becomes(s) ==
    /\ s.phase # "idle" => s.after = cursor
    /\ s.phase \notin {"idle", "select"} =>
         /\ s.cur.validity = 1 /\ s.cur.next \in 1..uidNext[INBOX] /\ cursor.next <= s.cur.next
         /\ ~s.reset
    /\ s.phase = "fetch" /\ s.exists = 0 => \A m \in In(INBOX) : uid[INBOX][m] >= s.cur.next
    /\ s.phase \notin {"idle", "select", "fetch"} =>
         \A m \in In(INBOX) : uid[INBOX][m] < s.cur.next =>
             rows'[RemoteId(INBOX, m)].stored \/ <<RemoteId(INBOX, m), m>> \in s.ups
    /\ s.phase \in {"idle", "select", "fetch", "walkInbox"} => ~s.walk[INBOX].known
    /\ s.phase = "place" => s.ups = {}
    /\ \A u \in s.ups : Issued(u[1])
    /\ s.walk[INBOX].known =>
         \A id \in RemoteIds \ s.walk[INBOX].ids :
             rows'[id].stored \/ (\E m \in Messages : <<id, m>> \in s.ups)
               => AbsentBelow(id, s.cur.next)
    /\ s.phase = "place" => \A id \in s.todo : Issued(id) /\ AbsentBelow(id, s.cur.next)

LEMMA RoundRule ==
    ASSUME UNCHANGED server, cursor' = cursor, NEW p \in Rounds, NEW s, round'[p] = s, Becomes(s)
    PROVE  RoundKept(round[p])'
<1>1. /\ uid' = uid /\ uidNext' = uidNext
      /\ In(INBOX)' = In(INBOX) /\ In(INBOX) \subseteq Messages
      /\ \A m \in Messages : RemoteId(INBOX, m)' = RemoteId(INBOX, m)
      /\ \A id : Issued(id)' <=> Issued(id)
      /\ \A id, next : AbsentBelow(id, next)' <=> AbsentBelow(id, next)
  BY SameServer DEF server, In
<1>2. s.phase \notin {"idle", "select", "fetch"} => Landed(s)'
  BY <1>1 DEF Becomes, Landed
<1>3. s.walk[INBOX].known =>
        \A id \in RemoteIds \ s.walk[INBOX].ids : Seen(s, id)' => AbsentBelow(id, s.cur.next)'
  BY <1>1 DEF Becomes, Seen
<1>4. RoundKept(s)'
  BY <1>1, <1>2, <1>3 DEF Becomes, RoundKept
<1> QED BY <1>4 DEF RoundKept, Landed, Seen

LEMMA IdleRoundKept == ASSUME NEW p \in Rounds, round'[p] = IdleRound PROVE RoundKept(round[p])'
BY IdleRoundType DEF RoundKept

LEMMA SelectKept ==
    ASSUME TypeOK, Keeps, CursorKept, RoundsKept, validity = 1, NEW p \in Rounds, SelectInbox(p)
    PROVE  RoundKept(round[p])'
<1> DEFINE r == round[p]
           s == round'[p]
<1>1. /\ r.phase = "select" /\ s.after = r.after
      /\ s.cur.validity = validity /\ s.cur.next = uidNext[INBOX]
      /\ s.reset <=> r.after.validity # 0 /\ r.after.validity # validity
      /\ s.exists = Cardinality(In(INBOX))
      /\ s.phase = IF s.reset THEN "pulled" ELSE "fetch"
      /\ s.ups = r.ups /\ s.walk = r.walk /\ s.todo = r.todo
  BY SelectEffect
<1>2. RoundKept(r)
  BY DEF RoundsKept
<1>3. s.after = cursor /\ ~s.reset /\ s.phase = "fetch"
  BY <1>1, <1>2, CursorRange DEF RoundKept
<1>4. cursor.next <= uidNext[INBOX] /\ uidNext[INBOX] \in 1..uidNext[INBOX]
  BY CursorRange DEF Keeps
<1>5. s.exists = 0 => In(INBOX) = {}
  BY <1>1, InFinite, FS_EmptySet
<1>6. UNCHANGED server /\ cursor' = cursor
  BY DEF SelectInbox
<1>7. ~s.walk[INBOX].known /\ \A u \in s.ups : Issued(u[1])
  BY <1>1, <1>2 DEF RoundKept
<1>8. PICK t : t = s
  OBVIOUS
<1>9. Becomes(t)
  BY <1>1, <1>3, <1>4, <1>5, <1>7, <1>8 DEF Becomes
<1> QED BY <1>6, <1>8, <1>9, RoundRule

LEMMA FetchKept ==
    ASSUME Premises, TypeOK, Numbered, Keeps, CursorKept, RoundsKept, NoSkippedMail, validity = 1,
           NEW p \in Rounds, FetchHeaders(p)
    PROVE  RoundKept(round[p])'
<1> DEFINE r == round[p]
           s == round'[p]
<1>1. /\ r.phase = "fetch" /\ s.phase = "walkInbox"
      /\ s.ups = {<<RemoteId(INBOX, m), m>> : m \in Fetched(p)}
      /\ Fetched(p) \subseteq In(INBOX)
      /\ s.after = r.after /\ s.cur = r.cur /\ s.reset = r.reset
      /\ s.walk = r.walk /\ s.todo = r.todo
  BY FetchEffect
<1>2. RoundKept(r) /\ r \in RoundStates
  BY DEF RoundsKept, TypeOK
<1>3. /\ UNCHANGED server /\ cursor' = cursor /\ rows' = rows
  BY DEF FetchHeaders
<1>4. /\ r.after = cursor /\ r.cur.validity = 1 /\ r.cur.next \in 1..uidNext[INBOX]
      /\ cursor.next <= r.cur.next /\ ~r.reset /\ ~r.walk[INBOX].known
  BY <1>1, <1>2 DEF RoundKept
<1>5. ASSUME NEW m \in In(INBOX), uid[INBOX][m] < r.cur.next
      PROVE  rows[RemoteId(INBOX, m)].stored \/ m \in Fetched(p)
  <2>1. m \in Messages /\ uid[INBOX][m] \in Nat /\ cursor.next \in Nat
    BY CursorRange DEF In, Keeps
  <2>2. CASE cursor.next > 0 /\ uid[INBOX][m] >= cursor.next
    BY <1>4, <2>2 DEF Fetched
  <2>3. CASE cursor.next > 0 /\ uid[INBOX][m] < cursor.next
    BY <2>3, CursorRange DEF NoSkippedMail, PassedOver
  <2>4. CASE cursor.next = 0
    <3>1. r.exists \in Nat /\ r.exists <= Cardinality(Messages)
      BY <1>2, MailboxAssumption, FS_CardinalityType DEF RoundStates
    <3>2. r.exists > 0
      BY <1>1, <1>2, <1>4, <1>5, <2>1, <3>1 DEF RoundKept, Keeps
    <3>3. SeqNo(INBOX, m) \in Nat /\ SeqNo(INBOX, m) >= 1
      BY SeqNos, FolderNames, InFinite
    <3>4. SeqNo(INBOX, m) > r.exists - Backfill
      BY <3>1, <3>3, MailboxAssumption, FS_CardinalityType DEF Premises
    <3> QED BY <1>4, <2>4, <3>2, <3>4 DEF Fetched
  <2> QED BY <2>1, <2>2, <2>3, <2>4
<1>6. \A u \in s.ups : Issued(u[1])
  <2>1. \A m \in Fetched(p) : Issued(RemoteId(INBOX, m))
    BY <1>1, FolderNames DEF Issued, RemoteId, Numbered, In
  <2> QED BY <1>1, <2>1
<1>7. PICK t : t = s
  OBVIOUS
<1>8. \A m \in In(INBOX) : uid[INBOX][m] < t.cur.next =>
         rows'[RemoteId(INBOX, m)].stored \/ <<RemoteId(INBOX, m), m>> \in t.ups
  BY <1>1, <1>3, <1>5, <1>7
<1>9. Becomes(t)
  BY <1>1, <1>4, <1>6, <1>7, <1>8 DEF Becomes
<1> QED BY <1>3, <1>7, <1>9, RoundRule

LEMMA WalkKept ==
    ASSUME TypeOK, RoundsKept, NEW p \in Rounds, WalkFolder(p)
    PROVE  RoundKept(round[p])'
<1> DEFINE r == round[p]
           s == round'[p]
<1>1. /\ r.phase \in {"walkInbox", "walkArchive", "walkTrash"}
      /\ s.phase \in {"walkArchive", "walkTrash", "pulled"}
      /\ r.phase # "walkInbox" => s.walk[INBOX] = r.walk[INBOX]
      /\ r.phase = "walkInbox" => \/ ~s.walk[INBOX].known
                                  \/ s.walk[INBOX].ids = IdsIn(INBOX)
      /\ s.after = r.after /\ s.cur = r.cur /\ s.reset = r.reset
      /\ s.ups = r.ups /\ s.todo = r.todo
  BY WalkEffect
<1>2. RoundKept(r)
  BY DEF RoundsKept
<1>3. /\ UNCHANGED server /\ cursor' = cursor /\ rows' = rows
  BY DEF WalkFolder
<1>4. /\ r.after = cursor /\ r.cur.validity = 1 /\ r.cur.next \in 1..uidNext[INBOX]
      /\ cursor.next <= r.cur.next /\ ~r.reset /\ Landed(r) /\ \A u \in r.ups : Issued(u[1])
  BY <1>1, <1>2 DEF RoundKept
<1>5. \A next : \A id \in RemoteIds \ IdsIn(INBOX) : AbsentBelow(id, next)
  BY DEF AbsentBelow, IdsIn
<1>6. PICK t : t = s
  OBVIOUS
<1>7. t.walk[INBOX].known =>
        \A id \in RemoteIds \ t.walk[INBOX].ids :
            rows'[id].stored \/ (\E m \in Messages : <<id, m>> \in t.ups)
              => AbsentBelow(id, t.cur.next)
  <2>1. CASE r.phase = "walkInbox"
    BY <1>1, <1>5, <1>6, <2>1
  <2>2. CASE r.phase # "walkInbox"
    BY <1>1, <1>2, <1>3, <1>6, <2>2 DEF RoundKept, Seen
  <2> QED BY <2>1, <2>2
<1>8. \A m \in In(INBOX) : uid[INBOX][m] < t.cur.next =>
         rows'[RemoteId(INBOX, m)].stored \/ <<RemoteId(INBOX, m), m>> \in t.ups
  BY <1>1, <1>3, <1>4, <1>6 DEF Landed
<1>9. Becomes(t)
  BY <1>1, <1>4, <1>6, <1>7, <1>8 DEF Becomes
<1> QED BY <1>3, <1>6, <1>9, RoundRule

LEMMA LandKept ==
    ASSUME TypeOK, RoundsKept, NEW p \in Rounds, BeginApply(p) \/ LandHeader(p)
    PROVE  RoundKept(round[p])'
<1> DEFINE r == round[p]
           s == round'[p]
<1>1. RoundKept(r) /\ r.ups \subseteq RemoteIds \X Messages
  BY DEF RoundsKept, TypeOK, RoundStates
<1>2. /\ UNCHANGED server /\ cursor' = cursor
      /\ s.phase = "land" /\ r.phase \in {"pulled", "land"} /\ Applies(p)
      /\ \/ rows' = rows /\ s.ups = r.ups
         \/ \E u \in r.ups : /\ rows' = [rows EXCEPT ![u[1]] = Upserted(u[1], u[2])]
                             /\ s.ups = r.ups \ {u}
  <2>1. CASE BeginApply(p)
    <3>1. Applies(p) /\ r.phase = "pulled" /\ s.phase = "land" /\ s.ups = r.ups
      BY <2>1, ApplyEffect
    <3> QED BY <1>1, <2>1, <3>1 DEF BeginApply, RoundKept
  <2>2. CASE LandHeader(p)
    <3>1. PICK u \in r.ups : /\ rows' = [rows EXCEPT ![u[1]] = Upserted(u[1], u[2])]
                             /\ round' = [round EXCEPT ![p].ups = @ \ {u}]
      BY <2>2 DEF LandHeader
    <3>2. r.phase = "land"
      BY <2>2 DEF LandHeader
    <3>3. Applies(p) /\ s.phase = "land" /\ s.ups = r.ups \ {u}
      BY <3>1, <3>2, ApplyEffect
    <3> QED BY <2>2, <3>1, <3>2, <3>3 DEF LandHeader
  <2> QED BY <2>1, <2>2
<1>3. /\ r.after = cursor /\ r.cur.validity = 1 /\ r.cur.next \in 1..uidNext[INBOX]
      /\ cursor.next <= r.cur.next /\ ~r.reset /\ Landed(r) /\ \A u \in r.ups : Issued(u[1])
  BY <1>1, <1>2 DEF RoundKept
<1>4. \A id \in RemoteIds, m \in Messages :
        /\ rows[id].stored => rows'[id].stored
        /\ <<id, m>> \in r.ups => rows'[id].stored \/ <<id, m>> \in s.ups
  <2>1. CASE rows' = rows /\ s.ups = r.ups
    BY <2>1
  <2>2. ASSUME NEW u \in r.ups, rows' = [rows EXCEPT ![u[1]] = Upserted(u[1], u[2])],
               s.ups = r.ups \ {u}, NEW id \in RemoteIds, NEW m \in Messages
        PROVE  /\ rows[id].stored => rows'[id].stored
               /\ <<id, m>> \in r.ups => rows'[id].stored \/ <<id, m>> \in s.ups
    <3>1. u[1] \in RemoteIds /\ u[2] \in Messages /\ u = <<u[1], u[2]>>
      BY <1>1
    <3>2. rows'[id] = IF id = u[1] THEN Upserted(u[1], u[2]) ELSE rows[id]
      BY <2>2, <3>1 DEF TypeOK
    <3>3. Upserted(u[1], u[2]).stored
      BY <3>1, UpsertType
    <3> QED BY <2>2, <3>1, <3>2, <3>3
  <2> QED BY <1>2, <2>1, <2>2
<1>10. \A id \in RemoteIds : rows'[id].stored => Seen(r, id)
  <2>1. CASE rows' = rows
    BY <2>1 DEF Seen
  <2>2. ASSUME NEW u \in r.ups, rows' = [rows EXCEPT ![u[1]] = Upserted(u[1], u[2])],
               NEW id \in RemoteIds, rows'[id].stored
        PROVE  Seen(r, id)
    <3>1. u[1] \in RemoteIds /\ u[2] \in Messages /\ u = <<u[1], u[2]>>
      BY <1>1
    <3>2. id # u[1] => rows'[id] = rows[id]
      BY <2>2, <3>1 DEF TypeOK
    <3> QED BY <2>2, <3>1, <3>2 DEF Seen
  <2> QED BY <1>2, <2>1, <2>2
<1>5. s.after = r.after /\ s.cur = r.cur /\ s.reset = r.reset /\ s.walk = r.walk /\ s.ups \subseteq r.ups
  BY <1>2 DEF Applies
<1>6. PICK t : t = s
  OBVIOUS
<1>7. t.walk[INBOX].known =>
        \A id \in RemoteIds \ t.walk[INBOX].ids :
            rows'[id].stored \/ (\E m \in Messages : <<id, m>> \in t.ups)
              => AbsentBelow(id, t.cur.next)
  <2>1. SUFFICES ASSUME r.walk[INBOX].known, NEW id \in RemoteIds \ r.walk[INBOX].ids,
                        rows'[id].stored \/ \E m \in Messages : <<id, m>> \in s.ups
                 PROVE  AbsentBelow(id, r.cur.next)
    BY <1>5, <1>6
  <2>2. Seen(r, id)
    BY <1>5, <1>10, <2>1 DEF Seen
  <2> QED BY <1>1, <2>1, <2>2 DEF RoundKept
<1>8. \A m \in In(INBOX) : uid[INBOX][m] < t.cur.next =>
         rows'[RemoteId(INBOX, m)].stored \/ <<RemoteId(INBOX, m), m>> \in t.ups
  <2>1. SUFFICES ASSUME NEW m \in In(INBOX), uid[INBOX][m] < r.cur.next
                 PROVE  rows'[RemoteId(INBOX, m)].stored \/ <<RemoteId(INBOX, m), m>> \in s.ups
    BY <1>5, <1>6
  <2>2. RemoteId(INBOX, m) \in RemoteIds /\ m \in Messages
    BY IdTypes, FolderNames DEF In
  <2> QED BY <1>3, <1>4, <2>1, <2>2 DEF Landed
<1>9. Becomes(t)
  BY <1>2, <1>3, <1>5, <1>6, <1>7, <1>8 DEF Becomes
<1> QED BY <1>2, <1>6, <1>9, RoundRule

LEMMA PlaceKept ==
    ASSUME TypeOK, Keeps, RowsKept, RoundsKept, NEW p \in Rounds, ReadLiveRows(p) \/ PlaceRow(p)
    PROVE  RoundKept(round[p])'
<1> DEFINE r == round[p]
           s == round'[p]
<1>1. RoundKept(r) /\ r.todo \subseteq RemoteIds
  BY DEF RoundsKept, TypeOK, RoundStates
<1>2. /\ UNCHANGED server /\ cursor' = cursor
      /\ s.phase = "place" /\ r.phase \in {"land", "place"} /\ Applies(p) /\ s.ups = {} /\ r.ups = {}
      /\ \/ /\ rows' = rows
            /\ s.todo = IF r.walk[INBOX].known THEN LiveIds \ r.walk[INBOX].ids ELSE {}
         \/ /\ r.phase = "place"
            /\ \E id \in r.todo : (\E row : rows' = [rows EXCEPT ![id] = row]) /\ s.todo = r.todo \ {id}
  <2>1. CASE ReadLiveRows(p)
    <3>1. /\ Applies(p) /\ r.phase = "land" /\ s.phase = "place" /\ r.ups = {} /\ s.ups = {}
          /\ s.todo = IF r.walk[INBOX].known THEN LiveIds \ r.walk[INBOX].ids ELSE {}
      BY <2>1, ApplyEffect
    <3> QED BY <2>1, <3>1 DEF ReadLiveRows
  <2>2. CASE PlaceRow(p)
    <3>1. PICK id \in r.todo : /\ \E row : rows' = [rows EXCEPT ![id] = row]
                               /\ round' = [round EXCEPT ![p].todo = @ \ {id}]
      BY <2>2 DEF PlaceRow
    <3>2. r.phase = "place" /\ UNCHANGED <<server, cursor>>
      BY <2>2 DEF PlaceRow
    <3>3. Applies(p) /\ s.phase = "place" /\ s.ups = r.ups /\ s.todo = r.todo \ {id}
      BY <3>1, <3>2, ApplyEffect
    <3>4. r.ups = {}
      BY <1>1, <3>2 DEF RoundKept
    <3> QED BY <3>1, <3>2, <3>3, <3>4
  <2> QED BY <2>1, <2>2
<1>3. /\ r.after = cursor /\ r.cur.validity = 1 /\ r.cur.next \in 1..uidNext[INBOX]
      /\ cursor.next <= r.cur.next /\ ~r.reset /\ Landed(r)
      /\ r.walk[INBOX].known =>
           \A id \in RemoteIds \ r.walk[INBOX].ids : rows[id].stored => AbsentBelow(id, r.cur.next)
      /\ r.phase = "place" => \A id \in r.todo : Issued(id) /\ AbsentBelow(id, r.cur.next)
  BY <1>1, <1>2 DEF RoundKept, Seen
<1>4. s.after = r.after /\ s.cur = r.cur /\ s.reset = r.reset /\ s.walk = r.walk
  BY <1>2 DEF Applies
<1>5. \A id \in RemoteIds : rows'[id] = rows[id] \/ (r.phase = "place" /\ id \in r.todo)
  BY <1>1, <1>2 DEF TypeOK
<1>6. PICK t : t = s
  OBVIOUS
<1>7. \A id \in t.todo : Issued(id) /\ AbsentBelow(id, t.cur.next)
  <2>1. CASE r.phase = "place" /\ s.todo \subseteq r.todo
    BY <1>3, <1>4, <1>6, <2>1
  <2>2. CASE s.todo = IF r.walk[INBOX].known THEN LiveIds \ r.walk[INBOX].ids ELSE {}
    <3>1. \A id \in LiveIds : id \in RemoteIds /\ rows[id].stored /\ Issued(id)
      BY DEF LiveIds, Live, RowsKept, RowKept
    <3> QED BY <1>3, <1>4, <1>6, <2>2, <3>1
  <2> QED BY <1>2, <2>1, <2>2
<1>8. t.walk[INBOX].known =>
        \A id \in RemoteIds \ t.walk[INBOX].ids :
            rows'[id].stored \/ (\E m \in Messages : <<id, m>> \in t.ups)
              => AbsentBelow(id, t.cur.next)
  BY <1>2, <1>3, <1>4, <1>5, <1>6
<1>9. \A m \in In(INBOX) : uid[INBOX][m] < t.cur.next => rows'[RemoteId(INBOX, m)].stored
  <2>1. SUFFICES ASSUME NEW m \in In(INBOX), uid[INBOX][m] < r.cur.next
                 PROVE  rows'[RemoteId(INBOX, m)].stored
    BY <1>4, <1>6
  <2>2. RemoteId(INBOX, m) \in RemoteIds /\ m \in Messages
    BY IdTypes, FolderNames DEF In
  <2>3. rows[RemoteId(INBOX, m)].stored
    BY <1>2, <1>3, <2>1 DEF Landed
  <2>4. ~(r.phase = "place" /\ RemoteId(INBOX, m) \in r.todo)
    <3>1. uid[INBOX][m] \in Nat /\ r.cur.next \in Nat
      BY <1>3, <2>2 DEF Keeps
    <3> QED BY <1>3, <2>1, <3>1 DEF AbsentBelow
  <2> QED BY <1>5, <2>2, <2>3, <2>4
<1>10. Becomes(t)
  BY <1>2, <1>3, <1>4, <1>6, <1>7, <1>8, <1>9 DEF Becomes
<1> QED BY <1>2, <1>6, <1>10, RoundRule

LEMMA RoundsNext ==
    ASSUME Premises, TypeOK, Numbered, Keeps, RowsKept, ActsKept, CursorKept, RoundsKept,
           NoSkippedMail, validity = 1, [Next]_vars
    PROVE  RoundsKept'
<1> SUFFICES ASSUME NEW p \in Rounds PROVE RoundKept(round[p])'
  BY DEF RoundsKept
<1>1. CASE round' = round
  <2>1. PICK r \in RoundStates : r = round[p] /\ RoundKept(r)
    BY DEF TypeOK, RoundsKept
  <2>2. cursor' = cursor
    <3>1. ASSUME NEW q \in Rounds, CommitCursor(q) PROVE FALSE
      BY <1>1, <3>1, IdleRoundType DEF CommitCursor, TypeOK
    <3> QED BY <3>1, Frames
  <2>3. \A m \in In(INBOX) : /\ uid[INBOX][m] < r.cur.next
                             /\ rows[RemoteId(INBOX, m)].stored
                             => rows'[RemoteId(INBOX, m)].stored
    <3>1. r.cur.next \in Nat /\ \A m \in In(INBOX) : uid[INBOX][m] \in Nat
      BY MailboxAssumption DEF RoundStates, Cursors, In, Keeps
    <3> QED BY <2>1, <3>1, RowsStay DEF Premises, OneRound
  <2>4. \A id \in RemoteIds : rows'[id].stored => rows[id].stored
    <3>1. ASSUME NEW q \in Rounds, BeginApply(q) \/ LandHeader(q) \/ PlaceRow(q) PROVE FALSE
      <4>1. CASE BeginApply(q)
        BY <1>1, <4>1, ApplyEffect
      <4>2. CASE LandHeader(q)
        BY <1>1, <4>2, ApplyEffect DEF LandHeader
      <4>3. CASE PlaceRow(q)
        <5>1. \E id \in round[q].todo : /\ round[q].phase = "place"
                                         /\ round' = [round EXCEPT ![q].todo = @ \ {id}]
          BY <4>3 DEF PlaceRow
        <5> QED BY <1>1, <5>1, ApplyEffect
      <4> QED BY <3>1, <4>1, <4>2, <4>3
    <3>2. ASSUME NEW h \in Handlers, LocalWrite(h), NEW id \in RemoteIds, rows'[id].stored
          PROVE  rows[id].stored
      <4> DEFINE a == act[h]
      <4>1. a.phase = "local" /\ a.verb # "emptyTrash" /\ a.id \in RemoteIds
        BY <3>2 DEF LocalWrite, ActsKept, ActKept
      <4>2. PICK row : /\ rows' = [rows EXCEPT ![a.id] = row]
                       /\ row \in {Flagged(a.id, "archived"), Unflagged(a.id, "archived"),
                                   Flagged(a.id, "deleted"), Unflagged(a.id, "deleted"), NoRow}
        BY <3>2, <4>1 DEF LocalWrite, TypeOK, ActStates, AllVerbs
      <4>3. row.stored => rows[a.id].stored
        BY <4>1, <4>2, FlagType, NoRowType DEF Flags
      <4>4. rows'[id] = IF id = a.id THEN row ELSE rows[id]
        BY <4>1, <4>2 DEF TypeOK
      <4> QED BY <3>2, <4>3, <4>4
    <3> QED BY <3>1, <3>2, Frames
  <2>5. RoundKept(r)'
    BY <2>1, <2>2, <2>3, <2>4, RoundKeptKept
  <2> QED BY <1>1, <2>1, <2>5 DEF RoundKept, Landed, Seen
<1>2. ASSUME NEW q \in Rounds, RoundStep(q) \/ RoundFails(q) PROVE RoundKept(round[p])'
  <2>1. q = p
    BY DEF Premises, OneRound
  <2>2. CASE StartRound(p)
    <3>1. /\ round'[p].phase = "select" /\ round'[p].after = cursor
          /\ ~round'[p].walk[INBOX].known /\ round'[p].ups = {}
      BY <2>2, StartEffect
    <3>2. PICK t : t = round'[p]
      OBVIOUS
    <3>3. Becomes(t)
      BY <3>1, <3>2 DEF Becomes
    <3> QED BY <2>2, <3>2, <3>3, RoundRule DEF StartRound
  <2>3. CASE CommitCursor(p) \/ RoundFails(p)
    <3>1. round'[p] = IdleRound
      BY <2>3 DEF CommitCursor, RoundFails, TypeOK
    <3> QED BY <3>1, IdleRoundKept
  <2> QED BY <1>2, <2>1, <2>2, <2>3, SelectKept, FetchKept, WalkKept, LandKept, PlaceKept DEF RoundStep
<1>3. CASE Crash
  <2>1. round'[p] = IdleRound
    BY <1>3 DEF Crash
  <2> QED BY <2>1, IdleRoundKept
<1> QED BY <1>1, <1>2, <1>3, Frames

-----------------------------------------------------------------------------
(* The theorems *)

IInv == TypeOK /\ Numbered /\ InOneFolder /\ Calm

LEMMA IInvInit == Init => IInv
<1> SUFFICES ASSUME Init PROVE IInv
  OBVIOUS
<1>1. RowsKept
  BY NoRowType DEF Init, RowsKept
<1>2. ActsKept
  BY DEF Init, IdleAct, ActsKept, ActKept
<1>3. CursorKept /\ NoSkippedMail
  BY DEF Init, CursorKept, NoSkippedMail, NoCursor
<1>4. RoundsKept
  BY IdleRoundType DEF Init, RoundsKept, RoundKept
<1> QED BY <1>1, <1>2, <1>3, <1>4, TypeInit, NumberedInit DEF IInv, Calm

LEMMA IInvNext == Premises /\ IInv /\ [Next]_vars => IInv'
<1> SUFFICES ASSUME Premises, IInv, [Next]_vars PROVE IInv'
  OBVIOUS
<1>1. TypeOK /\ Numbered /\ InOneFolder
  BY DEF IInv
<1>2. TypeOK' /\ Numbered'
  BY <1>1, TypeNext
<1>3. InOneFolder'
  <2>1. CASE Next
    BY <1>1, <2>1, InOneFolderNext DEF Premises
  <2>2. CASE UNCHANGED vars
    BY <1>1, <2>2 DEF vars, InOneFolder
  <2> QED BY <2>1, <2>2
<1>4. ASSUME validity' = 1
      PROVE  RowsKept' /\ ActsKept' /\ CursorKept' /\ NoSkippedMail' /\ RoundsKept'
  <2>1. Keeps /\ validity = 1
    BY <1>1, <1>4, StepKeeps
  <2>2. RowsKept /\ ActsKept /\ CursorKept /\ NoSkippedMail /\ RoundsKept
    BY <2>1 DEF IInv, Calm
  <2> QED BY <1>1, <2>1, <2>2, RowsNext, ActsNext, CursorNext, SkipNext, RoundsNext
<1> QED BY <1>2, <1>3, <1>4 DEF IInv, Calm

\* The cursor never passes mail that has no row until the server rebuilds its INBOX:
\* for one round at a time beside any number of requests and any other client, whatever
\* fails or crashes half way, with UID MOVE, a first pull wide enough for the mailbox,
\* and nobody emptying the trash (what happens without each of these is a scenario).
THEOREM NoMailIsSkipped == ASSUME Premises PROVE Spec => []NoSkippedMail
<1>1. Init => IInv
  BY IInvInit
<1>2. IInv /\ [Next]_vars => IInv'
  BY IInvNext
<1>3. IInv => NoSkippedMail
  BY DEF IInv, Calm, NoSkippedMail
<1> QED BY <1>1, <1>2, <1>3, PTL DEF Spec
-----------------------------------------------------------------------------
(* What the requests carry *)

\* A request under way is of a verb in use, and one that copied mail is a move the
\* server has no command for.
ActsAsked ==
    \A h \in Handlers :
        /\ act[h].phase # "idle" => act[h].verb \in Verbs
        /\ act[h].phase = "copied" =>
             ~HasMove /\ act[h].verb \in {"archive", "unarchive", "trash", "restore"}

\* What the step of a request makes of it: it dies, it starts, or it goes on.
LEMMA ActSteps ==
    ASSUME TypeOK, [Next]_vars, NEW h \in Handlers
    PROVE  \/ act'[h] = act[h]
           \/ act'[h].phase = "idle"
           \/ /\ act'[h].phase = act[h].phase /\ act'[h].verb = act[h].verb
              /\ act'[h].uids = act[h].uids
           \/ /\ RequestVerb(h) /\ act[h].phase = "idle" /\ act'[h].phase = "remote"
              /\ act'[h].verb \in Verbs
           \/ /\ act[h].phase # "idle" /\ act'[h].phase = "local" /\ act'[h].verb = act[h].verb
           \/ /\ RemoteMove(h) /\ ~HasMove /\ act'[h].phase = "copied" /\ act'[h].verb = act[h].verb
              /\ act'[h].uids = {uid[Source(act[h].verb)][m] : m \in Resolve(Source(act[h].verb), act[h].id)}
<1>1. ASSUME NEW k \in Handlers, k # h, RequestVerb(k) \/ HandlerStep(k) \/ HandlerDies(k)
      PROVE  act'[h] = act[h]
  BY <1>1, OthersStay
<1>2. ASSUME RequestVerb(h)
      PROVE  act[h].phase = "idle" /\ act'[h].phase = "remote" /\ act'[h].verb \in Verbs
  BY <1>2 DEF RequestVerb, TypeOK, IdleAct
<1>3. CASE LocalWrite(h)
  BY <1>3 DEF LocalWrite, TypeOK, IdleAct
<1>4. CASE act'[h] \in Left(act[h])
  <2>1. act[h] \in ActStates
    BY DEF TypeOK
  <2> QED BY <1>4, <2>1, LeftIs
<1> DEFINE uids == {uid[Source(act[h].verb)][m] : m \in Resolve(Source(act[h].verb), act[h].id)}
<1>5. CASE RemoteMove(h) \/ RemoteExpungeSource(h) \/ RemotePurge(h) \/ RemoteEmptyTrash(h)
  <2>1. PICK a \in ActStates, us \in SUBSET (1..MaxUid) : a = act[h] /\ us = uids
    BY Routes, FoundUids DEF TypeOK
  <2>2. /\ a.phase # "idle"
        /\ \/ act'[h] = IdleAct \/ act'[h] = Told(a)
           \/ RemoteMove(h) /\ ~HasMove /\ act'[h] = Copied(a, us)
    BY <1>5, <2>1 DEF RemoteMove, RemoteExpungeSource, RemotePurge, RemoteEmptyTrash, TypeOK
  <2>3. us = {uid[Source(act[h].verb)][m] : m \in Resolve(Source(act[h].verb), act[h].id)}
    BY <2>1
  <2>4. Told(a).phase = "idle" \/ (Told(a).phase = "local" /\ Told(a).verb = a.verb)
    BY <2>1, ToldIs
  <2>5. IdleAct.phase = "idle"
    BY DEF IdleAct
  <2>6. \/ Copied(a, us).phase = "idle"
        \/ Copied(a, us).phase = "copied" /\ Copied(a, us).verb = a.verb /\ Copied(a, us).uids = us
    BY <2>1, <2>5, CopiedIs
  <2> QED BY <2>1, <2>2, <2>3, <2>4, <2>5, <2>6
<1>6. HandlerDies(h) \/ CommandLost(h) \/ Crash => act'[h] \in Left(act[h])
  BY DeathLeaves, CrashLeaves
<1> QED BY <1>1, <1>2, <1>3, <1>4, <1>5, <1>6, Frames DEF HandlerStep

LEMMA ActsAskedNext ==
    ASSUME TypeOK, ActsAsked, [Next]_vars
    PROVE  ActsAsked'
<1> SUFFICES ASSUME NEW h \in Handlers, act'[h].phase # "idle"
             PROVE  /\ act'[h].verb \in Verbs
                    /\ act'[h].phase = "copied" =>
                         ~HasMove /\ act'[h].verb \in {"archive", "unarchive", "trash", "restore"}
  BY DEF ActsAsked
<1>1. RemoteMove(h) => act[h].phase # "idle" /\ act[h].verb \in {"archive", "unarchive", "trash", "restore"}
  BY DEF RemoteMove
<1> QED BY <1>1, ActSteps DEF ActsAsked

-----------------------------------------------------------------------------
(* Mail that a move has copied and not yet expunged *)

\* The copy of m in folder f is about to be expunged.
Doomed(f, m) ==
    \E h \in Handlers : /\ act[h].phase = "copied" /\ Source(act[h].verb) = f
                        /\ uid[f][m] \in act[h].uids

\* What a request expunges has a UID of the folder it copied from.
DoomsIssued ==
    \A h \in Handlers : act[h].phase = "copied" =>
        \A u \in act[h].uids : u < uidNext[Source(act[h].verb)]

\* Mail that came and was not deleted for good has a copy that stays.
Spared ==
    \A m \in arrived \ discarded : \E f \in Folders : uid[f][m] > 0 /\ ~Doomed(f, m)

\* No request comes to the point where it has copied and not expunged.
NoMoreDooms ==
    \A h \in Handlers : act'[h].phase = "copied" =>
        act[h].phase = "copied" /\ act'[h].verb = act[h].verb /\ act'[h].uids = act[h].uids

LEMMA CopyStays ==
    ASSUME NoMoreDooms, NEW f, NEW m, uid'[f][m] = uid[f][m], ~Doomed(f, m)
    PROVE  ~Doomed(f, m)'
BY DEF NoMoreDooms, Doomed

\* Only a move without UID MOVE comes to that point.
LEMMA FewDooms ==
    ASSUME TypeOK, [Next]_vars, HasMove \/ \A h \in Handlers : ~RemoteMove(h)
    PROVE  NoMoreDooms
BY ActSteps DEF NoMoreDooms

\* Mail that keeps its copies is spared, whatever becomes of mail deleted for good.
LEMMA SparedStays ==
    ASSUME NoMoreDooms, Spared, arrived' = arrived,
           \A m \in arrived \ discarded' : /\ m \notin discarded
                                           /\ \A f \in Folders : uid'[f][m] = uid[f][m]
    PROVE  Spared'
<1> SUFFICES ASSUME NEW m \in arrived \ discarded'
             PROVE  \E f \in Folders : uid'[f][m] > 0 /\ ~Doomed(f, m)'
  BY DEF Spared
<1>1. PICK f \in Folders : uid[f][m] > 0 /\ ~Doomed(f, m)
  BY DEF Spared
<1>2. uid'[f][m] = uid[f][m]
  OBVIOUS
<1> QED BY <1>1, <1>2, CopyStays

\* A copy that gets the next UID of its folder is none of those about to go.
LEMMA FreshStays ==
    ASSUME TypeOK, DoomsIssued, NEW m \in Messages, NEW g \in Folders, uid'[g][m] = uidNext[g],
           \A h \in Handlers : act'[h].phase = "copied" =>
              \/ act[h].phase = "copied" /\ act'[h].verb = act[h].verb /\ act'[h].uids = act[h].uids
              \/ Source(act'[h].verb) # g
    PROVE  uid'[g][m] > 0 /\ ~Doomed(g, m)'
<1>1. uidNext[g] \in Nat \ {0}
  BY MailboxAssumption DEF TypeOK
<1>2. SUFFICES ASSUME NEW h \in Handlers, act'[h].phase = "copied", Source(act'[h].verb) = g,
                      uidNext[g] \in act'[h].uids
               PROVE  FALSE
  BY <1>1 DEF Doomed
<1>3. /\ act[h].phase = "copied" /\ act'[h].verb = act[h].verb /\ act'[h].uids = act[h].uids
  BY <1>2
<1>4. uidNext[g] < uidNext[g]
  BY <1>2, <1>3 DEF DoomsIssued
<1> QED BY <1>1, <1>4

\* When one message gets a copy in g, and the others keep theirs, all are spared.
LEMMA SparedPut ==
    ASSUME TypeOK, DoomsIssued, Spared, NoMoreDooms, NEW n \in Messages, NEW g \in Folders,
           uid'[g][n] = uidNext[g],
           \A m \in (arrived' \ discarded') \ {n} :
              m \in arrived \ discarded /\ \A f \in Folders : uid'[f][m] = uid[f][m]
    PROVE  Spared'
<1> SUFFICES ASSUME NEW m \in arrived' \ discarded'
             PROVE  \E f \in Folders : uid'[f][m] > 0 /\ ~Doomed(f, m)'
  BY DEF Spared
<1>1. CASE m = n
  BY <1>1, FreshStays DEF NoMoreDooms
<1>2. CASE m # n
  <2>1. PICK f \in Folders : uid[f][m] > 0 /\ ~Doomed(f, m)
    BY <1>2 DEF Spared
  <2>2. uid'[f][m] = uid[f][m]
    BY <1>2
  <2> QED BY <2>1, <2>2, CopyStays
<1> QED BY <1>1, <1>2

LEMMA MoveSpares ==
    ASSUME TypeOK, Numbered, DoomsIssued, Spared, [Next]_vars, NEW h \in Handlers, RemoteMove(h)
    PROVE  Spared'
<1> DEFINE a == act[h]
           f == Source(a.verb)
           g == Target(a.verb)
           found == Resolve(f, a.id)
           uids == {uid[f][m] : m \in found}
<1>1. /\ f \in Folders /\ g \in Folders /\ f # g /\ arrived' = arrived /\ arrived \subseteq Messages
      /\ \A k \in Handlers : k # h => act'[k] = act[k]
  BY Routes DEF RemoteMove, TypeOK
<1>2. CASE UNCHANGED <<uid, uidNext, discarded>> /\ act' = [act EXCEPT ![h] = IF a.id[1] = "uid" THEN Told(a)
                                                                              ELSE IdleAct]
  <2>1. act'[h].phase # "copied"
    BY <1>2 DEF TypeOK, ActStates, Told, IdleAct
  <2>2. NoMoreDooms
    BY <1>1, <2>1 DEF NoMoreDooms
  <2> QED BY <1>1, <1>2, <2>2, SparedStays
<1>3. ASSUME HasMove, NEW n \in found, uid' = Moved(n, f, g), discarded' = discarded \ {n}
      PROVE  Spared'
  <2>1. n \in Messages
    BY DEF Resolve, In
  <2>2. uid' = [uid EXCEPT ![f][n] = 0, ![g][n] = uidNext[g]]
    BY <1>3 DEF Moved
  <2>3. NoMoreDooms
    BY <1>3, FewDooms
  <2> HIDE DEF f, g
  <2>4. /\ uid'[g][n] = uidNext[g]
        /\ \A k \in Folders, m \in Messages : m # n => uid'[k][m] = uid[k][m]
    BY <1>1, <2>1, <2>2 DEF TypeOK
  <2> QED BY <1>1, <1>3, <2>1, <2>3, <2>4, SparedPut
<1>4. ASSUME NEW n \in found, uid' = [uid EXCEPT ![g][n] = uidNext[g]], discarded' = discarded \ {n},
             act' = [act EXCEPT ![h] = Copied(a, uids)]
      PROVE  Spared'
  <2>1. n \in Messages /\ uid[f][n] > 0
    BY DEF Resolve, In
  <2>2. \A x \in found : x = n
    <3>1. \A x \in found : /\ x \in Messages /\ uid[f][x] > 0
                           /\ IF a.id[1] = "uid" THEN uid[f][x] = a.id[2] ELSE x = a.id[2]
      BY DEF Resolve, In
    <3> QED BY <1>1, <3>1 DEF Numbered, In
  <2>3. \/ act'[h].phase = "idle"
        \/ /\ act'[h].phase = "copied" /\ act'[h].verb = a.verb /\ act'[h].uids = uids
           /\ uids = {uid[f][n]}
    <3>1. a \in ActStates /\ uids \in SUBSET (1..MaxUid) /\ act'[h] = Copied(a, uids)
      BY <1>1, <1>4, FoundUids DEF TypeOK
    <3>2. uids = {uid[f][n]}
      BY <2>2
    <3> HIDE DEF uids, a
    <3>3. \/ Copied(a, uids).phase = "idle"
          \/ /\ Copied(a, uids).phase = "copied" /\ Copied(a, uids).verb = a.verb
             /\ Copied(a, uids).uids = uids
      BY <3>1, CopiedIs, ToldIs
    <3> QED BY <3>1, <3>2, <3>3
  <2> HIDE DEF uids, found
  <2>4. \A k \in Folders, m \in Messages : k # g \/ m # n => uid'[k][m] = uid[k][m]
    BY <1>1, <1>4, <2>1 DEF TypeOK
  <2>5. uid'[g][n] = uidNext[g]
    BY <1>1, <1>4, <2>1 DEF TypeOK
  <2> SUFFICES ASSUME NEW m \in arrived' \ discarded'
               PROVE  \E k \in Folders : uid'[k][m] > 0 /\ ~Doomed(k, m)'
    BY DEF Spared
  <2>6. CASE m = n
    <3>1. act'[h].phase = "copied" => Source(act'[h].verb) # g
      BY <1>1, <2>3
    <3> QED BY <1>1, <2>1, <2>5, <2>6, <3>1, FreshStays
  <2>7. CASE m # n
    <3>1. m \in Messages /\ m \in arrived \ discarded
      BY <1>1, <1>4, <2>7
    <3>2. PICK k \in Folders : uid[k][m] > 0 /\ ~Doomed(k, m)
      BY <3>1 DEF Spared
    <3>3. uid'[k][m] = uid[k][m]
      BY <2>4, <2>7, <3>1
    <3>4. k = f => uid[k][m] # uid[f][n]
      BY <1>1, <2>1, <2>7, <3>1, <3>2 DEF Numbered, In
    <3>5. ~Doomed(k, m)'
      BY <1>1, <2>3, <3>2, <3>3, <3>4 DEF Doomed
    <3> QED BY <3>2, <3>3, <3>5
  <2> QED BY <2>6, <2>7
<1> QED BY <1>2, <1>3, <1>4 DEF RemoteMove

LEMMA ExpungeSpares ==
    ASSUME TypeOK, Spared, [Next]_vars, NEW h \in Handlers, RemoteExpungeSource(h)
    PROVE  Spared'
<1> DEFINE g == Source(act[h].verb)
<1>1. /\ g \in Folders /\ act[h].phase = "copied" /\ arrived' = arrived /\ discarded' = discarded
      /\ uid' = [uid EXCEPT ![g] = [m \in Messages |-> IF uid[g][m] \in act[h].uids THEN 0 ELSE uid[g][m]]]
      /\ arrived \subseteq Messages
  BY Routes DEF RemoteExpungeSource, TypeOK
<1>2. NoMoreDooms
  BY FewDooms DEF RemoteMove, RemoteExpungeSource, NoMoreDooms
<1>3. \A f \in Folders, m \in Messages :
        uid'[f][m] = IF f = g /\ uid[f][m] \in act[h].uids THEN 0 ELSE uid[f][m]
  BY <1>1 DEF TypeOK
<1> SUFFICES ASSUME NEW m \in arrived \ discarded
             PROVE  \E f \in Folders : uid'[f][m] > 0 /\ ~Doomed(f, m)'
  BY <1>1 DEF Spared
<1>4. PICK f \in Folders : uid[f][m] > 0 /\ ~Doomed(f, m)
  BY DEF Spared
<1>5. uid'[f][m] = uid[f][m]
  BY <1>1, <1>3, <1>4 DEF Doomed
<1> QED BY <1>2, <1>4, <1>5, CopyStays

\* The INBOX is rebuilt while nothing is about to be expunged there.
LEMMA RenumberSpares ==
    ASSUME TypeOK, Numbered, Spared, DoomsIssued, Renumber
    PROVE  Spared' /\ DoomsIssued'
<1>1. /\ act' = act /\ \A f \in Folders \ {INBOX} : uid'[f] = uid[f] /\ uidNext'[f] = uidNext[f]
      /\ \A h \in Handlers : act[h].phase = "copied" => Source(act[h].verb) # INBOX
      /\ arrived' = arrived /\ discarded' = discarded /\ arrived \subseteq Messages
  BY DEF Renumber, TypeOK
<1>2. \A f \in Folders, m \in Messages : uid'[f][m] > 0 <=> uid[f][m] > 0
  BY Rebuilt DEF In
<1>3. \A f \in Folders, m \in Messages : ~Doomed(f, m) => ~Doomed(f, m)'
  BY <1>1 DEF Doomed
<1>4. DoomsIssued'
  BY <1>1, Routes DEF DoomsIssued
<1>5. Spared'
  BY <1>1, <1>2, <1>3 DEF Spared
<1> QED BY <1>4, <1>5

\* What is deleted for good is counted as such, and no other mail loses a copy.
LEMMA DeleteSpares ==
    ASSUME TypeOK, Spared, [Next]_vars, NEW h \in Handlers, RemotePurge(h) \/ RemoteEmptyTrash(h)
    PROVE  Spared'
<1>1. PICK gone \in SUBSET Messages :
         /\ uid' = [uid EXCEPT ![TRASH] = [m \in Messages |-> IF m \in gone THEN 0 ELSE uid[TRASH][m]]]
         /\ discarded' = discarded \cup gone /\ arrived' = arrived
  <2>1. CASE RemotePurge(h)
    <3>1. Resolve(TRASH, act[h].id) \in SUBSET Messages
      BY DEF Resolve, In
    <3> QED BY <2>1, <3>1 DEF RemotePurge
  <2>2. CASE RemoteEmptyTrash(h)
    <3>1. In(TRASH) \in SUBSET Messages /\ \A m \in Messages : uid[TRASH][m] \in Nat
      BY FolderNames, MailboxAssumption DEF In, TypeOK
    <3>2. \A m \in Messages : (IF m \in In(TRASH) THEN 0 ELSE uid[TRASH][m]) = 0
      BY <3>1 DEF In
    <3>3. [m \in Messages |-> 0] = [m \in Messages |-> IF m \in In(TRASH) THEN 0 ELSE uid[TRASH][m]]
      BY <3>2
    <3> QED BY <2>2, <3>1, <3>3 DEF RemoteEmptyTrash
  <2> QED BY <2>1, <2>2
<1>2. \A m \in Messages \ gone, f \in Folders : uid'[f][m] = uid[f][m]
  BY <1>1, FolderNames DEF TypeOK
<1>3. NoMoreDooms
  <2>1. act'[h].phase # "copied" /\ \A k \in Handlers \ {h} : act'[k] = act[k]
    BY OthersStay DEF HandlerStep, RemotePurge, RemoteEmptyTrash, TypeOK, ActStates, Told, IdleAct
  <2> QED BY <2>1 DEF NoMoreDooms
<1>4. arrived \subseteq Messages
  BY DEF TypeOK
<1> QED BY <1>1, <1>2, <1>3, <1>4, SparedStays

LEMMA SparedNext ==
    ASSUME TypeOK, Numbered, DoomsIssued, Spared, [Next]_vars
    PROVE  Spared'
<1>1. ASSUME UNCHANGED server, \A h \in Handlers : ~RemoteMove(h) PROVE Spared'
  BY <1>1, FewDooms, SparedStays DEF server
<1>2. ASSUME NEW m \in Messages, Deliver(m) PROVE Spared'
  <2>1. NoMoreDooms
    BY <1>2 DEF Deliver, NoMoreDooms
  <2>2. /\ uid'[INBOX][m] = uidNext[INBOX] /\ arrived' = arrived \cup {m} /\ discarded' = discarded
        /\ \A f \in Folders, n \in Messages : n # m => uid'[f][n] = uid[f][n]
    BY <1>2, FolderNames DEF Deliver, TypeOK
  <2>3. arrived \subseteq Messages
    BY DEF TypeOK
  <2> QED BY <2>1, <2>2, <2>3, FolderNames, SparedPut
<1>3. ASSUME NEW m \in Messages, OtherClientMoves(m) PROVE Spared'
  <2>1. PICK fg \in OtherMoves :
           IF fg[2] = GONE THEN uid' = [uid EXCEPT ![fg[1]][m] = 0] /\ discarded' = discarded \cup {m}
                           ELSE uid' = Moved(m, fg[1], fg[2]) /\ discarded' = discarded
    BY <1>3 DEF OtherClientMoves
  <2>2. fg[1] \in Folders /\ (fg[2] # GONE => fg[2] \in Folders) /\ arrived \subseteq Messages
    BY MailboxAssumption DEF TypeOK
  <2>3. NoMoreDooms /\ arrived' = arrived
    BY <1>3 DEF OtherClientMoves, NoMoreDooms
  <2>4. CASE fg[2] = GONE
    <3>1. uid' = [uid EXCEPT ![fg[1]][m] = 0] /\ discarded' = discarded \cup {m}
      BY <2>1, <2>4
    <3>2. \A f \in Folders, n \in Messages : n # m => uid'[f][n] = uid[f][n]
      BY <2>2, <3>1 DEF TypeOK
    <3> QED BY <2>2, <2>3, <3>1, <3>2, SparedStays
  <2>5. CASE fg[2] # GONE
    <3>1. uid' = Moved(m, fg[1], fg[2]) /\ discarded' = discarded /\ fg[2] \in Folders
      BY <2>1, <2>2, <2>5
    <3>2. /\ uid'[fg[2]][m] = uidNext[fg[2]]
          /\ \A f \in Folders, n \in Messages : n # m => uid'[f][n] = uid[f][n]
      BY <2>2, <3>1 DEF Moved, TypeOK
    <3> QED BY <2>2, <2>3, <3>1, <3>2, SparedPut
  <2> QED BY <2>4, <2>5
<1>4. ASSUME NEW p \in Rounds, RoundStep(p) \/ RoundFails(p) PROVE Spared'
  <2>1. UNCHANGED server /\ act' = act
    BY <1>4 DEF RoundStep, RoundFails, StartRound, SelectInbox, FetchHeaders, WalkFolder,
                BeginApply, LandHeader, ReadLiveRows, PlaceRow, CommitCursor
  <2>2. NoMoreDooms
    BY <2>1 DEF NoMoreDooms
  <2> QED BY <2>1, <2>2, SparedStays DEF server
<1>5. ASSUME NEW h \in Handlers, RequestVerb(h) \/ LocalWrite(h) \/ HandlerDies(h) \/ CommandLost(h)
      PROVE  Spared'
  <2>1. UNCHANGED server
    BY <1>5 DEF RequestVerb, LocalWrite, HandlerDies, CommandLost
  <2>2. CASE \A k \in Handlers : ~RemoteMove(k)
    BY <1>1, <2>1, <2>2
  <2> QED BY <2>2, MoveSpares
<1>6. CASE Crash \/ UNCHANGED vars
  <2>1. UNCHANGED server
    BY <1>6 DEF Crash, vars, server
  <2>2. CASE \A k \in Handlers : ~RemoteMove(k)
    BY <1>1, <2>1, <2>2
  <2> QED BY <2>2, MoveSpares
<1> QED BY <1>2, <1>3, <1>4, <1>5, <1>6, MoveSpares, ExpungeSpares, DeleteSpares, RenumberSpares
        DEF Next, HandlerStep

LEMMA DoomsIssuedNext ==
    ASSUME TypeOK, Numbered, DoomsIssued, Spared, [Next]_vars
    PROVE  DoomsIssued'
<1>1. CASE Renumber
  BY <1>1, RenumberSpares
<1>2. CASE ~Renumber
  <2>1. \A f \in Folders : uidNext[f] \in Nat /\ uidNext'[f] \in Nat /\ uidNext[f] <= uidNext'[f]
    <3>1. \A f \in Folders : uidNext[f] \in Nat
      BY MailboxAssumption DEF TypeOK
    <3>2. CASE UNCHANGED uidNext
      BY <3>1, <3>2
    <3>3. CASE Drops
      BY <3>2, <3>3 DEF Drops
    <3>4. ASSUME NEW m \in Messages, NEW g \in Folders, Puts(m, g)
          PROVE  \A f \in Folders : uidNext'[f] \in Nat /\ uidNext[f] <= uidNext'[f]
      BY <3>1, <3>4 DEF Puts, TypeOK
    <3> QED BY <1>2, <3>1, <3>2, <3>3, <3>4, ServerSteps DEF vars
  <2>2. ASSUME NEW h \in Handlers, act'[h].phase = "copied", NEW u \in act'[h].uids
        PROVE  u < uidNext'[Source(act'[h].verb)]
    <3>1. Source(act'[h].verb) \in Folders
      BY Routes
    <3>2. CASE act[h].phase = "copied" /\ act'[h].verb = act[h].verb /\ act'[h].uids = act[h].uids
      <4>1. u < uidNext[Source(act'[h].verb)] /\ u \in Nat
        BY <2>2, <3>2 DEF DoomsIssued, TypeOK, ActStates
      <4> QED BY <2>1, <3>1, <4>1
    <3>3. CASE /\ act'[h].verb = act[h].verb
               /\ act'[h].uids = {uid[Source(act[h].verb)][m] : m \in Resolve(Source(act[h].verb), act[h].id)}
      <4> DEFINE f == Source(act[h].verb)
      <4>1. PICK m \in Messages : u = uid[f][m]
        BY <2>2, <3>3 DEF Resolve, In
      <4>2. u \in Nat /\ u < uidNext[f]
        BY <3>1, <3>3, <4>1, MailboxAssumption DEF Numbered, TypeOK
      <4> QED BY <2>1, <3>1, <3>3, <4>2
    <3> QED BY <2>2, <3>2, <3>3, ActSteps
  <2> QED BY <2>2 DEF DoomsIssued
<1> QED BY <1>1, <1>2

\* A move never loses mail, on a server with UID MOVE or without, whatever fails between
\* the copy and the expunge and whatever runs beside it, the tasks of dropped handlers and
\* the commands of lost connections included: mail that came is in some folder unless a
\* copy was deleted for good since a move copied it last. What a move still has to expunge
\* is a UID older than the copy it made, so the newest copy is never the one that goes.
THEOREM MovesLoseNoMail == Spec => []OnlyDeletingLosesMail
<1> DEFINE Inv == TypeOK /\ Numbered /\ DoomsIssued /\ Spared
<1>1. Init => Inv
  BY TypeInit, NumberedInit DEF Init, IdleAct, DoomsIssued, Spared
<1>2. Inv /\ [Next]_vars => Inv'
  BY TypeNext, DoomsIssuedNext, SparedNext
<1>3. Inv => OnlyDeletingLosesMail
  BY DEF Spared, OnlyDeletingLosesMail
<1> QED BY <1>1, <1>2, <1>3, PTL DEF Spec

-----------------------------------------------------------------------------
(* The rows a round deletes *)

\* Mail moves on as the walk does: from the INBOX to the archive, to the trash, away.
MailMovesOn ==
    /\ Bare = {} /\ OneRound
    /\ Verbs \cap {"unarchive", "restore"} = {}
    /\ OtherMoves \subseteq {<<INBOX, ARCHIVE>>, <<INBOX, TRASH>>, <<ARCHIVE, TRASH>>}
                              \cup (Folders \X {GONE})

Mid(m)     == <<"mid", m>>
Nowhere(m) == m \in arrived /\ \A f \in Folders : uid[f][m] = 0

\* A row is of mail that came, under its Message-ID.
RowsTold ==
    \A id \in RemoteIds : rows[id].stored => rows[id].msg \in arrived /\ id = Mid(rows[id].msg)

\* A round that has walked the folders fs found no mail of a row in any of them.
Missed(r, m, fs) ==
    Seen(r, Mid(m)) /\ \A f \in fs : r.walk[f].known /\ Mid(m) \notin r.walk[f].ids

\* What a round missed in the folders walked so far has left them, and what it is about
\* to delete is nowhere.
RoundTold(r) ==
    /\ \A u \in r.ups : u[2] \in arrived /\ u[1] = Mid(u[2])
    /\ r.phase \in {"idle", "select", "fetch", "walkInbox"} => ~r.walk[INBOX].known
    /\ r.phase \in {"idle", "select", "fetch", "walkInbox", "walkArchive"} => ~r.walk[ARCHIVE].known
    /\ r.phase \in {"idle", "select", "fetch", "walkInbox", "walkArchive", "walkTrash"}
         => ~r.walk[TRASH].known
    /\ \A m \in Messages : /\ Missed(r, m, {INBOX}) => uid[INBOX][m] = 0
                           /\ Missed(r, m, {INBOX, ARCHIVE}) => uid[INBOX][m] = 0 /\ uid[ARCHIVE][m] = 0
                           /\ Missed(r, m, Folders) => Nowhere(m)
    /\ r.phase = "place" => \A id \in r.removed : \E m \in Messages : id = Mid(m) /\ Nowhere(m)
RoundsTold == \A p \in Rounds : RoundTold(round[p])

\* Mail that came goes forward only.
OnlyForward ==
    /\ arrived \subseteq arrived'
    /\ \A m \in arrived, f \in Folders :
         uid'[f][m] # 0 => \/ uid[f][m] # 0
                           \/ f # INBOX /\ uid[INBOX][m] # 0
                           \/ f = TRASH /\ uid[ARCHIVE][m] # 0

LEMMA MovesForward ==
    ASSUME MailMovesOn, TypeOK, Numbered, ActsAsked, [Next]_vars
    PROVE  OnlyForward
<1>1. /\ arrived \subseteq Messages
      /\ INBOX \in Folders /\ ARCHIVE \in Folders /\ TRASH \in Folders /\ GONE \notin Folders
      /\ INBOX # ARCHIVE /\ INBOX # TRASH /\ ARCHIVE # TRASH
  BY DEF TypeOK, Folders, INBOX, ARCHIVE, TRASH, GONE
<1>2. CASE Drops
  BY <1>1, <1>2 DEF Drops, OnlyForward
<1>3. ASSUME NEW p \in Rounds, RoundStep(p) \/ RoundFails(p) PROVE UNCHANGED server
  BY <1>3 DEF RoundStep, RoundFails, StartRound, SelectInbox, FetchHeaders, WalkFolder,
              BeginApply, LandHeader, ReadLiveRows, PlaceRow, CommitCursor
<1>4. ASSUME NEW h \in Handlers, RequestVerb(h) \/ LocalWrite(h) \/ HandlerDies(h) \/ CommandLost(h)
      PROVE  UNCHANGED server
  BY <1>4 DEF RequestVerb, LocalWrite, HandlerDies, CommandLost, Working
<1>5. ASSUME NEW h \in Handlers, RemoteMove(h) PROVE OnlyForward
  <2> DEFINE g == Target(act[h].verb)
  <2>1. act[h].verb \in {"archive", "trash"}
    BY <1>5 DEF RemoteMove, ActsAsked, MailMovesOn
  <2>2. Source(act[h].verb) = INBOX /\ g \in Folders /\ g # INBOX
    BY <1>1, <2>1 DEF Source, Target
  <2>3. UNCHANGED arrived /\
        \/ uid' = uid
        \/ \E n \in In(INBOX) : \/ uid' = [uid EXCEPT ![INBOX][n] = 0, ![g][n] = uidNext[g]]
                                \/ uid' = [uid EXCEPT ![g][n] = uidNext[g]]
    BY <1>5, <2>2 DEF RemoteMove, Resolve, Moved
  <2>4. CASE uid' = uid
    BY <2>3, <2>4 DEF OnlyForward
  <2>5. ASSUME NEW n \in In(INBOX), \/ uid' = [uid EXCEPT ![INBOX][n] = 0, ![g][n] = uidNext[g]]
                                    \/ uid' = [uid EXCEPT ![g][n] = uidNext[g]]
        PROVE  OnlyForward
    <3>1. n \in Messages /\ uid[INBOX][n] # 0
      BY MailboxAssumption, <1>1 DEF In, TypeOK
    <3> HIDE DEF g
    <3>2. \A f \in Folders, m \in Messages :
            uid'[f][m] = uid[f][m] \/ uid'[f][m] = 0 \/ (f = g /\ m = n)
      BY <1>1, <2>2, <2>5, <3>1 DEF TypeOK
    <3> QED BY <1>1, <2>2, <2>3, <3>1, <3>2 DEF OnlyForward
  <2> QED BY <2>3, <2>4, <2>5
<1>6. ASSUME NEW h \in Handlers, RemoteExpungeSource(h) \/ RemotePurge(h) \/ RemoteEmptyTrash(h)
      PROVE  Drops
  <2>1. CASE RemoteExpungeSource(h)
    BY <2>1, Routes, MailboxAssumption DEF RemoteExpungeSource, Drops, TypeOK
  <2>2. CASE RemotePurge(h)
    BY <2>2, FolderNames, MailboxAssumption DEF RemotePurge, Drops, TypeOK
  <2>3. CASE RemoteEmptyTrash(h)
    BY <2>3, FolderNames, MailboxAssumption DEF RemoteEmptyTrash, Drops, TypeOK
  <2> QED BY <1>6, <2>1, <2>2, <2>3
<1>7. ASSUME NEW m \in Messages, Deliver(m) PROVE OnlyForward
  <2>1. m \notin arrived /\ arrived' = arrived \cup {m}
    BY <1>7 DEF Deliver
  <2>2. \A f \in Folders, n \in arrived : uid'[f][n] = uid[f][n]
    BY <1>1, <1>7, <2>1 DEF Deliver, TypeOK
  <2> QED BY <2>1, <2>2 DEF OnlyForward
<1>8. ASSUME NEW m \in Messages, OtherClientMoves(m) PROVE OnlyForward
  <2>1. PICK fg \in OtherMoves :
          /\ uid[fg[1]][m] > 0
          /\ IF fg[2] = GONE THEN uid' = [uid EXCEPT ![fg[1]][m] = 0]
                             ELSE uid' = Moved(m, fg[1], fg[2])
    BY <1>8 DEF OtherClientMoves
  <2>2. /\ fg[1] \in Folders /\ uid[fg[1]][m] # 0 /\ arrived' = arrived
        /\ \/ fg[2] = GONE
           \/ /\ fg[2] \in Folders \ {INBOX}
              /\ fg[1] = INBOX \/ (fg[1] = ARCHIVE /\ fg[2] = TRASH)
    BY <1>1, <1>8, <2>1, MailboxAssumption DEF MailMovesOn, OtherClientMoves, TypeOK
  <2>3. CASE fg[2] = GONE
    <3>1. uid' = [uid EXCEPT ![fg[1]][m] = 0]
      BY <2>1, <2>3
    <3>2. \A f \in Folders, n \in Messages : uid'[f][n] = uid[f][n] \/ uid'[f][n] = 0
      BY <2>2, <3>1 DEF TypeOK
    <3> QED BY <1>1, <2>2, <3>2 DEF OnlyForward
  <2>4. CASE fg[2] # GONE
    <3>1. uid' = Moved(m, fg[1], fg[2])
      BY <2>1, <2>4
    <3>2. \A f \in Folders, n \in Messages :
            uid'[f][n] = uid[f][n] \/ uid'[f][n] = 0 \/ (f = fg[2] /\ n = m)
      BY <2>2, <2>4, <3>1 DEF TypeOK, Moved
    <3> QED BY <1>1, <2>2, <2>4, <3>2 DEF OnlyForward
  <2> QED BY <2>3, <2>4
<1>9. CASE Renumber
  <2>1. \A f \in Folders : In(f)' = In(f)
    BY <1>9, Rebuilt
  <2>2. \A f \in Folders, m \in Messages : uid[f][m] \in Nat /\ uid'[f][m] \in Nat
    BY <1>9, Rebuilt, MailboxAssumption DEF TypeOK
  <2>3. arrived' = arrived
    BY <1>9 DEF Renumber
  <2> QED BY <1>1, <2>1, <2>2, <2>3 DEF OnlyForward, In
<1>10. CASE Crash \/ UNCHANGED vars
  <2>1. UNCHANGED server
    BY <1>10 DEF Crash, vars, server
  <2> QED BY <1>2, <2>1, NothingDrops
<1> QED BY <1>2, <1>3, <1>4, <1>5, <1>6, <1>7, <1>8, <1>9, <1>10, NothingDrops DEF Next, HandlerStep

LEMMA NowhereStays ==
    ASSUME OnlyForward, NEW m, Nowhere(m)
    PROVE  Nowhere(m)'
BY FolderNames DEF OnlyForward, Nowhere

LEMMA RowMessages ==
    ASSUME TypeOK, NEW id \in RemoteIds
    PROVE  /\ rows[id].stored => \A flag : /\ Flagged(id, flag).msg = rows[id].msg
                                           /\ Unflagged(id, flag).msg = rows[id].msg
           /\ \A m : Upserted(id, m).msg = m
BY DEF Flagged, Unflagged, Upserted, Row

\* A row comes from a header a round landed; every other step keeps or drops it.
LEMMA RowsCome ==
    ASSUME TypeOK, [Next]_vars, NEW id \in RemoteIds, rows'[id].stored
    PROVE  \/ rows[id].stored /\ rows'[id].msg = rows[id].msg
           \/ \E p \in Rounds : \E u \in round[p].ups : u[1] = id /\ u[2] = rows'[id].msg
<1>1. CASE rows' = rows
  BY <1>1
<1>2. ASSUME NEW p \in Rounds, BeginApply(p)
      PROVE  rows[id].stored /\ rows'[id].msg = rows[id].msg
  BY <1>2, NoRowType DEF BeginApply
<1>3. ASSUME NEW p \in Rounds, LandHeader(p)
      PROVE  \/ rows[id].stored /\ rows'[id].msg = rows[id].msg
             \/ \E u \in round[p].ups : u[1] = id /\ u[2] = rows'[id].msg
  <2>1. PICK u \in round[p].ups : rows' = [rows EXCEPT ![u[1]] = Upserted(u[1], u[2])]
    BY <1>3 DEF LandHeader
  <2>2. u[1] \in RemoteIds /\ u[2] \in Messages
    BY DEF TypeOK, RoundStates
  <2>3. rows'[id] = IF id = u[1] THEN Upserted(u[1], u[2]) ELSE rows[id]
    BY <2>1, <2>2 DEF TypeOK
  <2> QED BY <2>2, <2>3, RowMessages
<1>4. ASSUME NEW p \in Rounds, PlaceRow(p)
      PROVE  rows[id].stored /\ rows'[id].msg = rows[id].msg
  <2>1. PICK x \in round[p].todo : \E row \in {Flagged(x, "archived"), Flagged(x, "deleted"), NoRow, rows[x]} :
           rows' = [rows EXCEPT ![x] = row]
    BY <1>4 DEF PlaceRow
  <2>2. PICK row \in {Flagged(x, "archived"), Flagged(x, "deleted"), NoRow, rows[x]} :
           rows' = [rows EXCEPT ![x] = row]
    BY <2>1
  <2>3. x \in RemoteIds
    BY DEF TypeOK, RoundStates
  <2>4. rows'[id] = IF id = x THEN row ELSE rows[id]
    BY <2>2, <2>3 DEF TypeOK
  <2>5. row.stored => rows[x].stored /\ row.msg = rows[x].msg
    BY <2>2, <2>3, FlagType, RowMessages, NoRowType DEF Flags
  <2> QED BY <2>4, <2>5
<1>5. ASSUME NEW h \in Handlers, LocalWrite(h)
      PROVE  rows[id].stored /\ rows'[id].msg = rows[id].msg
  <2> DEFINE a == act[h]
  <2>1. CASE a.verb = "emptyTrash"
    <3>1. rows' = [x \in RemoteIds |-> IF HasFlag(x, "deleted") THEN NoRow ELSE rows[x]]
      BY <1>5, <2>1 DEF LocalWrite
    <3> QED BY <3>1, NoRowType
  <2>2. CASE a.verb # "emptyTrash"
    <3>1. PICK row : rows' = [rows EXCEPT ![a.id] = row] /\
             row \in {Flagged(a.id, "archived"), Flagged(a.id, "deleted"), Unflagged(a.id, "archived"),
                      Unflagged(a.id, "deleted"), NoRow}
      BY <1>5, <2>2 DEF LocalWrite, TypeOK, ActStates, AllVerbs
    <3>2. CASE id = a.id
      <4>1. rows'[id] = row
        BY <3>1, <3>2 DEF TypeOK
      <4>2. row.stored => rows[id].stored /\ row.msg = rows[id].msg
        BY <3>1, <3>2, FlagType, RowMessages, NoRowType DEF Flags
      <4> QED BY <4>1, <4>2
    <3>3. CASE id # a.id
      BY <3>1, <3>3 DEF TypeOK
    <3> QED BY <3>2, <3>3
  <2> QED BY <2>1, <2>2
<1> QED BY <1>1, <1>2, <1>3, <1>4, <1>5, Frames

LEMMA RowsToldNext ==
    ASSUME OnlyForward, TypeOK, RowsTold, RoundsTold, [Next]_vars
    PROVE  RowsTold'
<1> SUFFICES ASSUME NEW id \in RemoteIds, rows'[id].stored
             PROVE  rows'[id].msg \in arrived' /\ id = Mid(rows'[id].msg)
  BY DEF RowsTold, Mid
<1>1. CASE rows[id].stored /\ rows'[id].msg = rows[id].msg
  BY <1>1 DEF RowsTold, OnlyForward
<1>2. ASSUME NEW p \in Rounds, NEW u \in round[p].ups, u[1] = id, u[2] = rows'[id].msg
      PROVE  rows'[id].msg \in arrived' /\ id = Mid(rows'[id].msg)
  BY <1>2 DEF RoundsTold, RoundTold, OnlyForward
<1> QED BY <1>1, <1>2, RowsCome

LEMMA MidId == ASSUME Bare = {}, NEW m \in Messages PROVE Mid(m) \in RemoteIds
BY DEF Mid, RemoteIds

\* A round that goes on with the walks it has.
LEMMA RoundGoesOn ==
    ASSUME MailMovesOn, OnlyForward, TypeOK, RowsTold, [Next]_vars, NEW p \in Rounds,
           RoundTold(round[p]), NEW t, t = round'[p],
           t.ups \subseteq round[p].ups, t.walk = round[p].walk,
           t.phase \in {"idle", "select", "fetch", "walkInbox"} => ~t.walk[INBOX].known,
           t.phase \in {"idle", "select", "fetch", "walkInbox", "walkArchive"} => ~t.walk[ARCHIVE].known,
           t.phase \in {"idle", "select", "fetch", "walkInbox", "walkArchive", "walkTrash"}
             => ~t.walk[TRASH].known,
           t.phase = "place" => \A id \in t.removed : \E m \in Messages : id = Mid(m) /\ Nowhere(m)
    PROVE  RoundTold(round[p])'
<1> DEFINE r == round[p]
<1>1. ASSUME NEW m \in Messages, Seen(t, Mid(m))'
      PROVE  Seen(r, Mid(m)) /\ m \in arrived
  <2>1. Mid(m) \in RemoteIds
    BY MidId DEF MailMovesOn
  <2>2. CASE rows'[Mid(m)].stored
    <3>1. \A q \in Rounds : q = p
      BY DEF MailMovesOn, OneRound
    <3>2. rows[Mid(m)].stored \/ \E u \in r.ups : u[1] = Mid(m)
      BY <2>1, <2>2, <3>1, RowsCome
    <3>3. ASSUME NEW u \in r.ups, u[1] = Mid(m) PROVE Seen(r, Mid(m)) /\ m \in arrived
      <4>1. u \in RemoteIds \X Messages
        BY DEF TypeOK, RoundStates
      <4>2. u = <<Mid(m), u[2]>> /\ u[2] \in Messages
        BY <3>3, <4>1
      <4> QED BY <3>3, <4>2 DEF RoundTold, Seen, Mid
    <3>4. rows[Mid(m)].stored => Seen(r, Mid(m)) /\ m \in arrived
      BY <2>1 DEF RowsTold, Seen, Mid
    <3> QED BY <3>2, <3>3, <3>4
  <2>3. CASE \E n \in Messages : <<Mid(m), n>> \in t.ups
    <3>1. PICK n \in Messages : <<Mid(m), n>> \in r.ups
      BY <2>3
    <3>2. Mid(m) = Mid(n) /\ n \in arrived
      BY <3>1 DEF RoundTold
    <3> QED BY <3>1, <3>2 DEF Seen, Mid
  <2> QED BY <1>1, <2>2, <2>3 DEF Seen
<1>2. ASSUME NEW m \in Messages, NEW fs, Missed(t, m, fs)'
      PROVE  Missed(r, m, fs) /\ m \in arrived
  BY <1>1, <1>2 DEF Missed, Mid
<1>3. \A m \in Messages :
        /\ Missed(t, m, {INBOX})' => uid'[INBOX][m] = 0
        /\ Missed(t, m, {INBOX, ARCHIVE})' => uid'[INBOX][m] = 0 /\ uid'[ARCHIVE][m] = 0
        /\ Missed(t, m, Folders)' => Nowhere(m)'
  <2> SUFFICES ASSUME NEW m \in Messages
               PROVE  /\ Missed(t, m, {INBOX})' => uid'[INBOX][m] = 0
                      /\ Missed(t, m, {INBOX, ARCHIVE})' => uid'[INBOX][m] = 0 /\ uid'[ARCHIVE][m] = 0
                      /\ Missed(t, m, Folders)' => Nowhere(m)'
    OBVIOUS
  <2>1. INBOX # ARCHIVE /\ INBOX # TRASH /\ ARCHIVE # TRASH
    BY DEF INBOX, ARCHIVE, TRASH
  <2>2. Missed(t, m, {INBOX})' => uid'[INBOX][m] = 0
    BY <1>2, <2>1, FolderNames DEF RoundTold, OnlyForward
  <2>3. Missed(t, m, {INBOX, ARCHIVE})' => uid'[INBOX][m] = 0 /\ uid'[ARCHIVE][m] = 0
    BY <1>2, <2>1, FolderNames DEF RoundTold, OnlyForward
  <2>4. Missed(t, m, Folders)' => Nowhere(m)'
    BY <1>2, NowhereStays DEF RoundTold
  <2> QED BY <2>2, <2>3, <2>4
<1>4. t.phase = "place" => \A id \in t.removed : \E m \in Messages : id = Mid(m) /\ Nowhere(m)'
  BY NowhereStays
<1>5. \A u \in t.ups : u[2] \in arrived' /\ u[1] = Mid(u[2])
  BY DEF RoundTold, OnlyForward
<1>6. RoundTold(t)'
  BY <1>3, <1>4, <1>5 DEF RoundTold, Mid
<1> QED BY <1>6 DEF RoundTold, Missed, Seen

\* A round that knows nothing yet.
LEMMA RoundFresh ==
    ASSUME NEW p \in Rounds, NEW t, t = round'[p], t.phase # "place",
           \A f \in Folders : ~t.walk[f].known,
           \A u \in t.ups : u[2] \in arrived' /\ u[1] = Mid(u[2])
    PROVE  RoundTold(round[p])'
<1>1. RoundTold(t)'
  BY FolderNames DEF RoundTold, Missed, Mid
<1> QED BY <1>1 DEF RoundTold, Missed, Seen

LEMMA IdleWalks == \A f \in Folders : ~IdleRound.walk[f].known
BY DEF IdleRound, Unknown

LEMMA WalkOn ==
    ASSUME TypeOK, NEW p \in Rounds, WalkFolder(p)
    PROVE  LET r == round[p]
               s == round'[p]
           IN  /\ s.ups = r.ups
               /\ \E f \in Folders, w \in Walks :
                    /\ s.walk = [r.walk EXCEPT ![f] = w] /\ r.walk \in [Folders -> Walks]
                    /\ w.known => w.ids = IdsIn(f)
                    /\ \/ f = INBOX /\ r.phase = "walkInbox" /\ s.phase = "walkArchive"
                       \/ f = ARCHIVE /\ r.phase = "walkArchive" /\ s.phase = "walkTrash"
                       \/ f = TRASH /\ r.phase = "walkTrash" /\ s.phase = "pulled"
<1> DEFINE r == round[p]
           f == WalkOrder[r.phase][1]
           then == WalkOrder[r.phase][2]
<1>1. r \in RoundStates /\ r.walk \in [Folders -> Walks]
  BY DEF TypeOK, RoundStates
<1>2. /\ f \in Folders
      /\ \/ f = INBOX /\ r.phase = "walkInbox" /\ then = "walkArchive"
         \/ f = ARCHIVE /\ r.phase = "walkArchive" /\ then = "walkTrash"
         \/ f = TRASH /\ r.phase = "walkTrash" /\ then = "pulled"
  <2>1. r.phase \in {"walkInbox", "walkArchive", "walkTrash"}
    BY DEF WalkFolder, WalkOrder
  <2>2. /\ WalkOrder["walkInbox"] = <<INBOX, "walkArchive">> /\ WalkOrder["walkArchive"] = <<ARCHIVE, "walkTrash">>
        /\ WalkOrder["walkTrash"] = <<TRASH, "pulled">>
    BY DEF WalkOrder
  <2> QED BY <2>1, <2>2 DEF Folders
<1>3. PICK w \in {Walked(f), Unknown} :
         round' = [round EXCEPT ![p] = [r EXCEPT !.walk = [r.walk EXCEPT ![f] = w], !.phase = then]]
  BY DEF WalkFolder, TypeOK
<1>4. w \in Walks /\ (w.known => w.ids = IdsIn(f))
  <2>1. IdsIn(f) \in SUBSET RemoteIds
    BY <1>2, IdTypes
  <2>2. Walked(f) \in Walks /\ Walked(f).ids = IdsIn(f)
    BY <2>1 DEF Walks, Walked
  <2>3. Unknown \in Walks /\ ~Unknown.known
    BY DEF Walks, Unknown
  <2> QED BY <1>3, <2>2, <2>3
<1> HIDE DEF f, then, r
<1> DEFINE walk == [r.walk EXCEPT ![f] = w]
           s == [r EXCEPT !.walk = walk, !.phase = then]
<1> HIDE DEF walk
<1>5. s.walk = walk /\ s.phase = then /\ s.ups = r.ups
  BY <1>1 DEF RoundStates
<1>6. round'[p] = s
  BY <1>3 DEF walk, TypeOK
<1> HIDE DEF s
<1> QED BY <1>1, <1>2, <1>4, <1>5, <1>6 DEF walk, r

LEMMA RemovedEffect ==
    ASSUME TypeOK, NEW p \in Rounds
    PROVE  LET r == round[p]
               s == round'[p]
           IN  /\ PlaceRow(p) => s.removed = r.removed
               /\ ReadLiveRows(p) => \A id \in s.removed :
                    id \in LiveIds /\ \A f \in Folders : r.walk[f].known /\ id \notin r.walk[f].ids
<1> DEFINE r == round[p]
           s == round'[p]
<1>1. r \in RoundStates
  BY DEF TypeOK
<1>2. ASSUME PlaceRow(p) PROVE s.removed = r.removed
  <2>1. PICK id \in r.todo : round' = [round EXCEPT ![p] = [r EXCEPT !.todo = r.todo \ {id}]]
    BY <1>2 DEF PlaceRow, TypeOK
  <2>2. s = [r EXCEPT !.todo = r.todo \ {id}]
    BY <2>1 DEF TypeOK
  <2> HIDE DEF r, s
  <2> QED BY <1>1, <2>2 DEF RoundStates
<1>3. ASSUME ReadLiveRows(p)
      PROVE  \A id \in s.removed :
               id \in LiveIds /\ \A f \in Folders : r.walk[f].known /\ id \notin r.walk[f].ids
  <2> DEFINE w == r.walk
             allKnown == \A f \in Folders : w[f].known
             away == IF w[INBOX].known THEN LiveIds \ w[INBOX].ids ELSE {}
             gone == IF allKnown THEN away \ (w[ARCHIVE].ids \cup w[TRASH].ids) ELSE {}
  <2>1. s = [r EXCEPT !.todo = away, !.removed = gone, !.phase = "place"]
    BY <1>3 DEF ReadLiveRows, TypeOK
  <2>2. \A id \in gone : id \in LiveIds /\ \A f \in Folders : w[f].known /\ id \notin w[f].ids
    BY DEF Folders
  <2>3. s.removed = gone
    <3> HIDE DEF gone, away, r, s
    <3> QED BY <1>1, <2>1 DEF RoundStates
  <2> QED BY <2>2, <2>3
<1> QED BY <1>2, <1>3

LEMMA WalkTold ==
    ASSUME MailMovesOn, TypeOK, RowsTold, NEW p \in Rounds, RoundTold(round[p]), WalkFolder(p)
    PROVE  RoundTold(round[p])'
<1> DEFINE r == round[p]
           t == round'[p]
<1>1. /\ t.ups = r.ups /\ rows' = rows /\ uid' = uid /\ arrived' = arrived
      /\ INBOX # ARCHIVE /\ INBOX # TRASH /\ ARCHIVE # TRASH
  BY WalkOn DEF WalkFolder, INBOX, ARCHIVE, TRASH, server
<1>2. PICK f \in Folders, w \in Walks :
        /\ t.walk = [r.walk EXCEPT ![f] = w] /\ r.walk \in [Folders -> Walks]
        /\ w.known => w.ids = IdsIn(f)
        /\ \/ f = INBOX /\ r.phase = "walkInbox" /\ t.phase = "walkArchive"
           \/ f = ARCHIVE /\ r.phase = "walkArchive" /\ t.phase = "walkTrash"
           \/ f = TRASH /\ r.phase = "walkTrash" /\ t.phase = "pulled"
  BY WalkOn
<1>3. t.walk[f] = w /\ \A k \in Folders : k # f => t.walk[k] = r.walk[k]
  BY <1>2
<1>4. ASSUME NEW m \in Messages, w.known, Mid(m) \notin w.ids
      PROVE  uid[f][m] = 0
  <2>1. Mid(m) = RemoteId(f, m)
    BY DEF Mid, RemoteId, MailMovesOn
  <2>2. uid[f][m] \in Nat
    BY MailboxAssumption DEF TypeOK
  <2> QED BY <1>2, <1>4, <2>1, <2>2 DEF IdsIn, In
<1>5. ASSUME NEW m \in Messages, Seen(r, Mid(m)) PROVE m \in arrived
  <2>1. Mid(m) \in RemoteIds
    BY MidId DEF MailMovesOn
  <2> QED BY <1>5, <2>1 DEF Seen, RowsTold, RoundTold, Mid
<1>6. \A m \in Messages, fs \in SUBSET Folders :
        Missed(t, m, fs) => /\ Missed(r, m, fs \ {f}) /\ m \in arrived
                            /\ f \in fs => w.known /\ Mid(m) \notin w.ids
  BY <1>1, <1>3, <1>5 DEF Missed, Seen
<1>7. PICK x : x = t
  OBVIOUS
<1>8. ASSUME NEW m \in Messages
      PROVE  /\ Missed(x, m, {INBOX}) => uid[INBOX][m] = 0
             /\ Missed(x, m, {INBOX, ARCHIVE}) => uid[INBOX][m] = 0 /\ uid[ARCHIVE][m] = 0
             /\ Missed(x, m, Folders) => Nowhere(m)
  <2>1. /\ {INBOX} \in SUBSET Folders /\ {INBOX, ARCHIVE} \in SUBSET Folders
        /\ Folders = {INBOX, ARCHIVE, TRASH}
    BY DEF Folders
  <2>2. CASE f = INBOX
    <3>1. ~r.walk[ARCHIVE].known /\ ~r.walk[TRASH].known
      BY <1>1, <1>2, <2>2 DEF RoundTold
    <3>2. ~Missed(x, m, {INBOX, ARCHIVE}) /\ ~Missed(x, m, Folders)
      BY <1>1, <1>3, <1>7, <2>1, <2>2, <3>1 DEF Missed
    <3>3. Missed(x, m, {INBOX}) => uid[INBOX][m] = 0
      BY <1>4, <1>6, <1>7, <2>1, <2>2
    <3> QED BY <3>2, <3>3
  <2>3. CASE f = ARCHIVE
    <3>1. ~r.walk[TRASH].known
      BY <1>1, <1>2, <2>3 DEF RoundTold
    <3>2. ~Missed(x, m, Folders)
      BY <1>1, <1>3, <1>7, <2>1, <2>3, <3>1 DEF Missed
    <3>3. {INBOX} \ {f} = {INBOX} /\ {INBOX, ARCHIVE} \ {f} = {INBOX}
      BY <1>1, <2>3
    <3>4. Missed(x, m, {INBOX}) => uid[INBOX][m] = 0
      BY <1>6, <1>7, <2>1, <3>3 DEF RoundTold
    <3>5. Missed(x, m, {INBOX, ARCHIVE}) => uid[INBOX][m] = 0 /\ uid[ARCHIVE][m] = 0
      <4> SUFFICES ASSUME Missed(x, m, {INBOX, ARCHIVE}) PROVE uid[INBOX][m] = 0 /\ uid[ARCHIVE][m] = 0
        OBVIOUS
      <4>1. Missed(r, m, {INBOX})
        BY <1>6, <1>7, <2>1, <3>3
      <4>2. w.known /\ Mid(m) \notin w.ids
        BY <1>6, <1>7, <2>1, <2>3
      <4> QED BY <1>4, <2>3, <4>1, <4>2 DEF RoundTold
    <3> QED BY <3>2, <3>4, <3>5
  <2>4. CASE f = TRASH
    <3>1. {INBOX} \ {f} = {INBOX} /\ {INBOX, ARCHIVE} \ {f} = {INBOX, ARCHIVE}
          /\ Folders \ {f} = {INBOX, ARCHIVE}
      BY <1>1, <2>1, <2>4
    <3>2. Missed(x, m, {INBOX}) => uid[INBOX][m] = 0
      BY <1>6, <1>7, <2>1, <3>1 DEF RoundTold
    <3>3. Missed(x, m, {INBOX, ARCHIVE}) => uid[INBOX][m] = 0 /\ uid[ARCHIVE][m] = 0
      BY <1>6, <1>7, <2>1, <3>1 DEF RoundTold
    <3>4. ASSUME Missed(x, m, Folders) PROVE Nowhere(m)
      <4>1. Missed(r, m, {INBOX, ARCHIVE}) /\ m \in arrived
        BY <1>6, <1>7, <3>1, <3>4
      <4>2. w.known /\ Mid(m) \notin w.ids
        BY <1>6, <1>7, <3>4
      <4>3. uid[TRASH][m] = 0
        BY <1>4, <2>4, <4>2
      <4>4. uid[INBOX][m] = 0 /\ uid[ARCHIVE][m] = 0
        BY <4>1 DEF RoundTold
      <4> QED BY <2>1, <4>1, <4>3, <4>4 DEF Nowhere
    <3> QED BY <3>2, <3>3, <3>4
  <2> QED BY <2>1, <2>2, <2>3, <2>4
<1>9. /\ x.phase \in {"walkArchive", "walkTrash", "pulled"}
      /\ x.phase = "walkArchive" => ~x.walk[ARCHIVE].known
      /\ x.phase \in {"walkArchive", "walkTrash"} => ~x.walk[TRASH].known
  <2>1. x.phase \in {"walkArchive", "walkTrash", "pulled"}
    BY <1>2, <1>7
  <2>2. x.phase = "walkArchive" => ~r.walk[ARCHIVE].known /\ f = INBOX
    BY <1>2, <1>7 DEF RoundTold
  <2>3. x.phase \in {"walkArchive", "walkTrash"} => ~r.walk[TRASH].known /\ f # TRASH
    BY <1>1, <1>2, <1>7 DEF RoundTold
  <2> QED BY <1>1, <1>3, <1>7, <2>1, <2>2, <2>3, FolderNames
<1>10. RoundTold(x)
  BY <1>1, <1>7, <1>8, <1>9 DEF RoundTold
<1>11. \A m, fs : Missed(x, m, fs)' <=> Missed(x, m, fs)
  BY <1>1 DEF Missed, Seen
<1>12. \A m : Nowhere(m)' <=> Nowhere(m)
  BY <1>1 DEF Nowhere
<1>13. RoundTold(x)'
  BY <1>1, <1>10, <1>11, <1>12 DEF RoundTold
<1> QED BY <1>7, <1>13

LEMMA RoundsToldNext ==
    ASSUME MailMovesOn, OnlyForward, TypeOK, Numbered, RowsTold, RoundsTold, [Next]_vars
    PROVE  RoundsTold'
<1> SUFFICES ASSUME NEW p \in Rounds PROVE RoundTold(round[p])'
  BY DEF RoundsTold
<1> DEFINE r == round[p]
           t == round'[p]
<1>1. RoundTold(r)
  BY DEF RoundsTold
<1>2. CASE round' = round
  <2>1. PICK x : x = t
    OBVIOUS
  <2>2. x = r
    BY <1>2, <2>1
  <2>3. /\ x.phase \in {"idle", "select", "fetch", "walkInbox"} => ~x.walk[INBOX].known
        /\ x.phase \in {"idle", "select", "fetch", "walkInbox", "walkArchive"} => ~x.walk[ARCHIVE].known
        /\ x.phase \in {"idle", "select", "fetch", "walkInbox", "walkArchive", "walkTrash"}
             => ~x.walk[TRASH].known
        /\ x.phase = "place" => \A id \in x.removed : \E m \in Messages : id = Mid(m) /\ Nowhere(m)
    BY <1>1, <2>2 DEF RoundTold
  <2> QED BY <1>1, <2>1, <2>2, <2>3, RoundGoesOn
<1>3. CASE StartRound(p) \/ CommitCursor(p) \/ RoundFails(p) \/ Crash
  <2>1. PICK x : x = t
    OBVIOUS
  <2>2. x = IdleRound \/ x = [IdleRound EXCEPT !.phase = "select", !.after = cursor]
    BY <1>3, <2>1 DEF StartRound, CommitCursor, RoundFails, Crash, TypeOK
  <2>3. x.phase # "place" /\ x.walk = IdleRound.walk /\ x.ups = {}
    <3>1. IdleRound \in RoundStates /\ IdleRound.phase = "idle" /\ IdleRound.ups = {}
      BY IdleRoundType
    <3> QED BY <2>2, <3>1 DEF RoundStates
  <2> QED BY <2>1, <2>3, IdleWalks, RoundFresh
<1>4. CASE SelectInbox(p)
  <2>1. PICK x : x = t
    OBVIOUS
  <2>2. r.phase = "select" /\ x.phase # "place" /\ x.ups = r.ups /\ x.walk = r.walk
    BY <1>4, <2>1, SelectEffect
  <2>3. \A f \in Folders : ~x.walk[f].known
    BY <1>1, <2>2 DEF RoundTold, Folders
  <2>4. \A u \in x.ups : u[2] \in arrived' /\ u[1] = Mid(u[2])
    BY <1>1, <2>2 DEF RoundTold, OnlyForward
  <2> QED BY <2>1, <2>2, <2>3, <2>4, RoundFresh
<1>5. CASE FetchHeaders(p)
  <2>1. PICK x : x = t
    OBVIOUS
  <2>2. /\ r.phase = "fetch" /\ x.phase # "place" /\ x.walk = r.walk
        /\ x.ups = {<<RemoteId(INBOX, m), m>> : m \in Fetched(p)} /\ Fetched(p) \subseteq In(INBOX)
    BY <1>5, <2>1, FetchEffect
  <2>3. \A f \in Folders : ~x.walk[f].known
    BY <1>1, <2>2 DEF RoundTold, Folders
  <2>4. \A u \in x.ups : u[2] \in arrived' /\ u[1] = Mid(u[2])
    BY <2>2, FolderNames DEF RemoteId, Mid, Numbered, OnlyForward, MailMovesOn
  <2> QED BY <2>1, <2>2, <2>3, <2>4, RoundFresh
<1>6. CASE BeginApply(p) \/ LandHeader(p)
  <2>1. PICK x : x = t
    OBVIOUS
  <2>2. x.phase = "land" /\ x.ups \subseteq r.ups /\ x.walk = r.walk
    <3>1. CASE BeginApply(p)
      BY <2>1, <3>1, ApplyEffect DEF Applies
    <3>2. CASE LandHeader(p)
      BY <2>1, <3>2, ApplyEffect DEF Applies, LandHeader
    <3> QED BY <1>6, <3>1, <3>2
  <2> QED BY <1>1, <2>1, <2>2, RoundGoesOn
<1>7. CASE ReadLiveRows(p)
  <2>1. PICK x : x = t
    OBVIOUS
  <2>2. x.phase = "place" /\ x.ups \subseteq r.ups /\ x.walk = r.walk
    BY <1>7, <2>1, ApplyEffect DEF Applies
  <2>3. \A id \in x.removed : \E m \in Messages : id = Mid(m) /\ Nowhere(m)
    <3> SUFFICES ASSUME NEW id \in x.removed PROVE \E m \in Messages : id = Mid(m) /\ Nowhere(m)
      OBVIOUS
    <3>1. id \in RemoteIds /\ rows[id].stored /\ \A f \in Folders : r.walk[f].known /\ id \notin r.walk[f].ids
      BY <1>7, <2>1, RemovedEffect DEF LiveIds, Live
    <3>2. rows[id].msg \in Messages /\ id = Mid(rows[id].msg)
      BY <3>1, RowType DEF RowsTold, TypeOK
    <3>3. Missed(r, rows[id].msg, Folders)
      BY <3>1, <3>2 DEF Missed, Seen
    <3> QED BY <1>1, <3>2, <3>3 DEF RoundTold
  <2> QED BY <1>1, <2>1, <2>2, <2>3, RoundGoesOn
<1>8. CASE PlaceRow(p)
  <2>1. PICK x : x = t
    OBVIOUS
  <2>2. r.phase = "place" /\ x.phase = "place" /\ x.ups \subseteq r.ups /\ x.walk = r.walk
        /\ x.removed = r.removed
    BY <1>8, <2>1, ApplyEffect, RemovedEffect DEF Applies, PlaceRow
  <2>3. \A id \in x.removed : \E m \in Messages : id = Mid(m) /\ Nowhere(m)
    BY <1>1, <2>2 DEF RoundTold
  <2> QED BY <1>1, <2>1, <2>2, <2>3, RoundGoesOn
<1>9. \A q \in Rounds : q = p
  BY DEF MailMovesOn, OneRound
<1> QED BY <1>1, <1>2, <1>3, <1>4, <1>5, <1>6, <1>7, <1>8, <1>9, WalkTold, Frames DEF RoundStep

\* A round deletes the row of a message only when the message is nowhere on the server:
\* for one round at a time beside any number of requests, whatever fails, while mail
\* moves in the order of the walk only. What a move against it, a second round or mail
\* without a Message-ID does is a scenario each.
THEOREM DeletedRowsAreGone == ASSUME MailMovesOn PROVE Spec => DeletesOnlyGoneMail
<1> DEFINE Inv == TypeOK /\ Numbered /\ ActsAsked /\ RowsTold /\ RoundsTold
           Drop(p) == PlaceRow(p) =>
                        \A id \in RemoteIds : rows[id].stored /\ ~rows'[id].stored =>
                          \A f \in Folders : uid[f][rows[id].msg] = 0
           Step == \A p \in Rounds : Drop(p)
<1>1. Init => Inv
  <2> SUFFICES ASSUME Init PROVE RowsTold /\ RoundsTold /\ ActsAsked
    BY TypeInit, NumberedInit
  <2>1. RowsTold /\ ActsAsked
    BY NoRowType DEF Init, IdleAct, RowsTold, ActsAsked
  <2>2. RoundTold(IdleRound)
    BY IdleRoundType, IdleWalks, FolderNames DEF RoundTold, Missed
  <2> QED BY <2>1, <2>2 DEF Init, RoundsTold
<1>2. Inv /\ [Next]_vars => Inv'
  BY TypeNext, ActsAskedNext, MovesForward, RowsToldNext, RoundsToldNext
<1>3. Inv /\ [Next]_vars => Step
  <2> SUFFICES ASSUME Inv, NEW p \in Rounds, PlaceRow(p), NEW id \in RemoteIds,
                      rows[id].stored, ~rows'[id].stored, NEW f \in Folders
               PROVE  uid[f][rows[id].msg] = 0
    OBVIOUS
  <2>1. PICK x \in round[p].todo :
           rows' = [rows EXCEPT ![x] = IF x \in round[p].walk[ARCHIVE].ids THEN Flagged(x, "archived")
                       ELSE IF x \in round[p].walk[TRASH].ids THEN Flagged(x, "deleted")
                       ELSE IF x \in round[p].removed THEN NoRow
                       ELSE rows[x]]
    BY DEF PlaceRow
  <2>2. x = id
    BY <2>1 DEF TypeOK
  <2>3. id \in round[p].removed
    <3>1. Flagged(id, "archived").stored /\ Flagged(id, "deleted").stored
      BY FlagType DEF Flags
    <3>2. rows'[id] \in {Flagged(id, "archived"), Flagged(id, "deleted"), rows[id]}
            \/ id \in round[p].removed
      BY <2>1, <2>2 DEF TypeOK
    <3> QED BY <3>1, <3>2
  <2>4. PICK m \in Messages : id = Mid(m) /\ Nowhere(m)
    BY <2>3 DEF PlaceRow, RoundsTold, RoundTold
  <2>5. id = Mid(rows[id].msg)
    BY DEF RowsTold
  <2> QED BY <2>4, <2>5 DEF Mid, Nowhere
<1>4. Spec => [][Step]_vars
  BY <1>1, <1>2, <1>3, PTL DEF Spec
<1> QED BY <1>4 DEF DeletesOnlyGoneMail
=============================================================================
