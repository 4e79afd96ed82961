----------------------------- MODULE Shell_proofs -----------------------------
(***************************************************************************)
(* The store and the backends of the desktop shell, proved for any number  *)
(* of backends, hand-started migrations, restarts, launches and ports, and *)
(* for any file that holds what it records.                                *)
(*                                                                         *)
(* A store is only changed by Create, EnsureBookkeeping and Apply, and     *)
(* Apply does the work of what it records in one step (StoreStep). While   *)
(* nobody has touched the app, the supervisor of the first launch is the   *)
(* one thread that starts and ends backends, and where it is says which    *)
(* backend can be alive (OneChild).                                        *)
(***************************************************************************)
EXTENDS Shell, FiniteSetTheorems, TLAPS

\* Where a migrating process is among the migrations.
Numbered == \A p \in Procs : proc[p].at = "apply" => proc[p].next \in 1..Len(MIGRATIONS)

\* From the schema probe on, the store a backend serves has the whole v3 chain.
Complete == \A p \in Procs :
    proc[p].at \in {"bind", "announce", "serve"} => KNOWN_MIGRATIONS \subseteq store.applied

\* A thread that ends a backend knows what comes after.
Afterwards == \A t \in Tasks :
    task[t].at \in {"take", "term", "grace"} => task[t].then \in {"retry", "await", "gone"}

\* While nobody restarted or closed the app: the backends that can be alive, by
\* where its supervisor is.
OneChild == Untouched =>
    LET b == task[Boot]
    IN  /\ ~shutdown
        /\ b.at = "store" => Running \subseteq {b.child}
        /\ b.at \in {"health", "watch", "take"} =>
             held \in Backends /\ Running \subseteq {held} /\ (b.at = "take" => b.then = "retry")
        /\ b.at \in {"term", "grace"} => Running \subseteq {b.child} /\ b.then = "retry"
        /\ b.at = "store" => b.child \in Backends
        /\ b.at \notin {"store", "health", "watch", "take", "term", "grace"} => Running = {}

IInv == TypeOK /\ Numbered /\ HoldsWhatItRecords(store) /\ Complete /\ Afterwards /\ OneChild

-----------------------------------------------------------------------------
(* The chain of migrations *)

LEMMA Chain ==
    /\ Len(MIGRATIONS) = 6 /\ DOMAIN MIGRATIONS = 1..6
    /\ 1..Len(MIGRATIONS) = 1..6 /\ 0..Len(MIGRATIONS) + 1 = 0..7
    /\ ToSet(MIGRATIONS) = {"v1", "v5b", "v6", "v9", "v10", "v12"}
    /\ \A i \in 1..6 : MIGRATIONS[i] \in ToSet(MIGRATIONS)
<1>1. Len(MIGRATIONS) = 6 /\ DOMAIN MIGRATIONS = 1..6
  BY DEF MIGRATIONS
<1>2. /\ MIGRATIONS[1] = "v1" /\ MIGRATIONS[2] = "v5b" /\ MIGRATIONS[3] = "v6"
      /\ MIGRATIONS[4] = "v9" /\ MIGRATIONS[5] = "v10" /\ MIGRATIONS[6] = "v12"
  BY DEF MIGRATIONS
<1>3. \A i \in 1..6 : i = 1 \/ i = 2 \/ i = 3 \/ i = 4 \/ i = 5 \/ i = 6
  OBVIOUS
<1> QED BY <1>1, <1>2, <1>3 DEF ToSet

\* The first of some migrations is one of them.
LEMMA FirstOfSome ==
    ASSUME NEW S \in SUBSET (1..6), S # {}
    PROVE  Min(S) \in S
<1>1. \E x \in S : \A y \in S : x <= y
  <2>1. CASE 1 \in S
    BY <2>1
  <2>2. CASE 1 \notin S /\ 2 \in S
    BY <2>2
  <2>3. CASE 1 \notin S /\ 2 \notin S /\ 3 \in S
    BY <2>3
  <2>4. CASE 1 \notin S /\ 2 \notin S /\ 3 \notin S /\ 4 \in S
    BY <2>4
  <2>5. CASE 1 \notin S /\ 2 \notin S /\ 3 \notin S /\ 4 \notin S /\ 5 \in S
    BY <2>5
  <2>6. CASE 1 \notin S /\ 2 \notin S /\ 3 \notin S /\ 4 \notin S /\ 5 \notin S
    <3>1. \A x \in S : x = 6
      BY <2>6
    <3>2. 6 \in S
      BY <3>1
    <3>3. \A y \in S : 6 <= y
      BY <3>1
    <3> QED BY <3>2, <3>3
  <2> QED BY <2>1, <2>2, <2>3, <2>4, <2>5, <2>6
<1> QED BY <1>1 DEF Min

-----------------------------------------------------------------------------
(* What a step does to the store *)

LEMMA DataStepType ==
    ASSUME NEW s \in StoreStates, NEW m
    PROVE  /\ DataStep(m, s) \in StoreStates
           /\ DataStep(m, s).applied = s.applied /\ DataStep(m, s).schema = s.schema
<1>1. Repaired(s) \in StoreStates /\ Repaired(s).applied = s.applied /\ Repaired(s).schema = s.schema
  <2>1. {[b EXCEPT !.key = "bytes"] : b \in s.bodies} \in SUBSET Bodies
    BY DEF StoreStates, Bodies
  <2> QED BY <2>1 DEF Repaired, StoreStates
<1>2. Sealed(s) \in StoreStates /\ Sealed(s).applied = s.applied /\ Sealed(s).schema = s.schema
  <2>1. \A b \in Bodies : [b EXCEPT !.sealed = TRUE] \in Bodies
    BY DEF Bodies
  <2>2. {[b EXCEPT !.sealed = TRUE] : b \in s.bodies} \in SUBSET Bodies
    BY <2>1 DEF StoreStates
  <2> QED BY <2>2 DEF Sealed, StoreStates
<1>3. /\ DraftsSealed(s) \in StoreStates /\ DraftsSealed(s).applied = s.applied
      /\ DraftsSealed(s).schema = s.schema
  BY DEF DraftsSealed, StoreStates, Drafts
<1> QED BY <1>1, <1>2, <1>3 DEF DataStep

\* The data step of a migration does its work, and undoes no other's.
LEMMA DataStepWorks ==
    ASSUME NEW s \in StoreStates, NEW m \in ToSet(MIGRATIONS), ~InTheWay(m, s),
           NEW n \in ToSet(MIGRATIONS), n = m \/ DidItsWork(n, s)
    PROVE  DidItsWork(n, [DataStep(m, s) EXCEPT !.schema = @ \cup {m}])
<1> DEFINE d == DataStep(m, s)
           e == [d EXCEPT !.schema = @ \cup {m}]
<1>1. d \in StoreStates /\ d.schema = s.schema
  BY DataStepType
<1>2. /\ e.schema = s.schema \cup {m} /\ e.account = d.account /\ e.bodies = d.bodies /\ e.draft = d.draft
  BY <1>1 DEF StoreStates
<1>3. n \in e.schema
  BY <1>2 DEF DidItsWork
<1>4. ASSUME n = "v5b" PROVE d.account = "bytes" \/ Collides(d)
  <2>1. CASE m = "v5b"
    BY <2>1 DEF DataStep, Repaired, StoreStates
  <2>2. CASE m = "v6"
    <3>1. d.account = s.account /\ d.bodies = {[b EXCEPT !.sealed = TRUE] : b \in s.bodies}
      BY <2>2 DEF DataStep, Sealed, StoreStates
    <3>2. s.account = "bytes" \/ Collides(s)
      BY <1>4, <2>2 DEF DidItsWork
    <3>3. CASE Collides(s)
      <4>1. PICK b \in s.bodies, c \in s.bodies : b.mail = c.mail /\ b.key = "text" /\ c.key = "bytes"
        BY <3>3 DEF Collides
      <4> DEFINE x == [b EXCEPT !.sealed = TRUE]
                 y == [c EXCEPT !.sealed = TRUE]
      <4>2. x \in d.bodies /\ y \in d.bodies
        BY <3>1
      <4>3. x.mail = y.mail /\ x.key = "text" /\ y.key = "bytes"
        BY <4>1 DEF StoreStates, Bodies
      <4> QED BY <4>2, <4>3 DEF Collides
    <3> QED BY <3>1, <3>2, <3>3
  <2>3. CASE m = "v9"
    BY <1>4, <2>3 DEF DataStep, DraftsSealed, StoreStates, DidItsWork, Collides
  <2>4. CASE m \notin {"v5b", "v6", "v9"}
    BY <1>4, <2>4 DEF DataStep, DidItsWork
  <2> QED BY <2>1, <2>2, <2>3, <2>4
<1>5. ASSUME n = "v6" PROVE \A b \in d.bodies : b.sealed
  <2>1. CASE m = "v6"
    BY <2>1 DEF DataStep, Sealed, StoreStates, Bodies
  <2>2. CASE m # "v6"
    <3>1. \A b \in s.bodies : b.sealed
      BY <1>5, <2>2 DEF DidItsWork
    <3>2. CASE m = "v5b"
      BY <3>1, <3>2 DEF DataStep, Repaired, StoreStates, Bodies
    <3>3. CASE m # "v5b"
      BY <2>2, <3>1, <3>3 DEF DataStep, DraftsSealed, StoreStates
    <3> QED BY <3>2, <3>3
  <2> QED BY <2>1, <2>2
<1>6. ASSUME n = "v9" PROVE d.draft \notin {"plain", "malformed"}
  <2>1. CASE m = "v9"
    BY <2>1 DEF DataStep, DraftsSealed, StoreStates, InTheWay
  <2>2. CASE m # "v9"
    BY <1>6, <2>2 DEF DataStep, Repaired, Sealed, StoreStates, DidItsWork
  <2> QED BY <2>1, <2>2
<1> QED BY <1>2, <1>3, <1>4, <1>5, <1>6 DEF DidItsWork, Collides

\* What a transaction that went through leaves of the store.
LEMMA Applies ==
    ASSUME NEW s \in StoreStates, HoldsWhatItRecords(s), NEW m \in ToSet(MIGRATIONS), ~InTheWay(m, s)
    PROVE  LET a == Recorded(m, [DataStep(m, s) EXCEPT !.schema = @ \cup {m}])
           IN  a \in StoreStates /\ HoldsWhatItRecords(a) /\ s.applied \subseteq a.applied
<1> DEFINE d == DataStep(m, s)
           e == [d EXCEPT !.schema = @ \cup {m}]
           a == Recorded(m, e)
<1>1. d \in StoreStates /\ d.applied = s.applied /\ d.schema = s.schema
  BY DataStepType
<1>2. e \in StoreStates /\ e.applied = s.applied /\ e.schema = s.schema \cup {m}
  BY <1>1 DEF StoreStates
<1>3. a \in StoreStates /\ a.applied = s.applied \cup {m} /\ a.schema = e.schema
  BY <1>2 DEF Recorded, StoreStates
<1>4. a.bodies = e.bodies /\ a.account = e.account /\ a.draft = e.draft
  BY <1>2 DEF Recorded, StoreStates
<1>5. ASSUME NEW n \in a.applied PROVE DidItsWork(n, a)
  <2>1. n \in ToSet(MIGRATIONS) /\ (n = m \/ DidItsWork(n, s))
    BY <1>3, <1>5 DEF HoldsWhatItRecords, StoreStates
  <2>2. DidItsWork(n, e)
    BY <2>1, DataStepWorks
  <2> HIDE DEF a, e
  <2> QED BY <1>3, <1>4, <2>2 DEF DidItsWork, Collides
<1> QED BY <1>2, <1>3, <1>5 DEF HoldsWhatItRecords

-----------------------------------------------------------------------------
(* The processes *)

\* A step of process p in its main, or what happens to it.
Process(p) ==
    \/ Silent(p)
    \/ \E heard \in BOOLEAN : Open(p, heard) \/ Announce(p, heard)
    \/ Die(p) \/ Hang(p) \/ StartTool(p)

\* What such a step makes of its process: it is not brought to life, it comes to the
\* probe with a whole v3 chain, and it tries a migration of the chain.
Advances(p) ==
    /\ proc' \in [Procs -> ProcStates]
    /\ \A q \in Procs \ {p} : proc'[q] = proc[q]
    /\ p \in Backends => Alive(p) \/ ~Alive(p)'
    /\ proc'[p].at = "apply" => proc'[p].next \in 1..Len(MIGRATIONS)
    /\ proc'[p].at \in {"bind", "announce", "serve"} =>
         KNOWN_MIGRATIONS \subseteq store.applied \/ proc[p].at \in {"bind", "announce", "serve"}

\* A process moved on by Goes.
LEMMA GoesOn ==
    ASSUME StoreTypeOK, Numbered, NEW p \in Procs, NEW at \in Steps \cup {"serve"} \cup Ended, Goes(p, at),
           at # "apply",
           p \in Backends => Alive(p) \/ at \in Ended,
           at \in {"bind", "announce", "serve"} =>
             KNOWN_MIGRATIONS \subseteq store.applied \/ proc[p].at \in {"bind", "announce", "serve"}
    PROVE  Advances(p)
<1>1. proc[p] \in ProcStates /\ proc \in [Procs -> ProcStates]
  BY DEF StoreTypeOK
<1>2. proc' = [proc EXCEPT ![p] = [proc[p] EXCEPT !.at = at, !.next = 0, !.hung = FALSE]]
  BY <1>1 DEF Goes, Runs, ProcStates
<1>3. [proc[p] EXCEPT !.at = at, !.next = 0, !.hung = FALSE] \in ProcStates
  <2>1. 0 \in 0..Len(MIGRATIONS) + 1
    BY Chain
  <2> QED BY <1>1, <2>1 DEF ProcStates
<1> QED BY <1>1, <1>2, <1>3 DEF Advances, Alive, ProcStates

\* A process that is alive and tries a migration, or looks for the next one.
LEMMA MovesOn ==
    ASSUME StoreTypeOK, NEW p \in Procs, NEW at \in Steps, NEW next \in 0..Len(MIGRATIONS) + 1, Alive(p),
           proc' = [proc EXCEPT ![p].at = at, ![p].next = next],
           at \notin {"bind", "announce"}, at = "apply" => next \in 1..Len(MIGRATIONS)
    PROVE  Advances(p)
<1>1. proc[p] \in ProcStates /\ proc \in [Procs -> ProcStates]
  BY DEF StoreTypeOK
<1>2. proc' = [proc EXCEPT ![p] = [proc[p] EXCEPT !.at = at, !.next = next]]
  BY <1>1 DEF ProcStates
<1>3. [proc[p] EXCEPT !.at = at, !.next = next] \in ProcStates
  BY <1>1 DEF ProcStates
<1> QED BY <1>1, <1>2, <1>3 DEF Advances, ProcStates, Steps

LEMMA ProcessStep ==
    ASSUME StoreTypeOK, Numbered, NEW p \in Procs, Process(p)
    PROVE  Advances(p)
<1> USE DEF StoreTypeOK, ProcStates
<1>1. CASE Configure(p) \/ Prepare(p) \/ CannotOpen(p) \/ Create(p)
  BY <1>1, GoesOn DEF Configure, Prepare, CannotOpen, Create, Alive, Steps, Ended
<1>2. CASE EnsureBookkeeping(p)
  <2>1. 1 \in 0..Len(MIGRATIONS) + 1
    BY Chain
  <2> QED BY <1>2, <2>1, MovesOn DEF EnsureBookkeeping, Alive, Steps, Ended
<1>3. CASE Probe(p)
  <2> DEFINE open == {i \in Unrecorded(store) : i >= proc[p].next}
  <2>1. CASE open = {}
    BY <1>3, <2>1, GoesOn DEF Probe, Goes, Alive, Steps, Ended
  <2>2. CASE open # {}
    <3>1. Min(open) \in 1..6
      BY <2>2, FirstOfSome, Chain DEF Unrecorded
    <3>2. proc' = [proc EXCEPT ![p].at = "apply", ![p].next = Min(open)]
      BY <1>3, <2>2 DEF Probe
    <3>3. Min(open) \in 0..Len(MIGRATIONS) + 1 /\ Min(open) \in 1..Len(MIGRATIONS)
      BY <3>1, Chain
    <3>4. Alive(p)
      BY <1>3 DEF Probe, Alive, Ended
    <3> HIDE DEF open
    <3> QED BY <3>2, <3>3, <3>4, MovesOn DEF Steps
  <2> QED BY <2>1, <2>2
<1>4. CASE Apply(p)
  <2>1. /\ proc[p].at = "apply" /\ proc[p].next \in 1..6
        /\ proc' = [proc EXCEPT ![p].at = "probe", ![p].next = @ + 1]
    BY <1>4, Chain DEF Apply, Transaction, Numbered
  <2> QED BY <2>1, Chain DEF Advances, Alive, Steps, Ended
<1>5. CASE ApplyFails(p) \/ Die(p)
  BY <1>5, GoesOn DEF ApplyFails, Die, Alive, Steps, Ended
<1>6. CASE Bind(p)
  <2>1. CASE Goes(p, "failed")
    BY <1>6, <2>1, GoesOn DEF Alive, Ended
  <2>2. CASE \E q \in Ports \ Taken : proc' = [proc EXCEPT ![p].at = "announce", ![p].port = q]
    <3>1. Alive(p) /\ proc[p].at = "bind"
      BY <1>6 DEF Bind, Alive, Ended
    <3>2. PICK q \in Ports : proc' = [proc EXCEPT ![p] = [proc[p] EXCEPT !.at = "announce", !.port = q]]
      BY <2>2
    <3>3. [proc[p] EXCEPT !.at = "announce", !.port = q] \in ProcStates
      BY DEF Steps
    <3> QED BY <3>1, <3>2, <3>3 DEF Advances
  <2> QED BY <1>6, <2>1, <2>2 DEF Bind
<1>7. ASSUME NEW heard \in BOOLEAN, Open(p, heard) PROVE Advances(p)
  BY <1>7, GoesOn DEF Open, Valid, Alive, Steps, Ended
<1>8. ASSUME NEW heard \in BOOLEAN, Announce(p, heard) PROVE Advances(p)
  BY <1>8, GoesOn DEF Announce, Alive, Steps, Ended
<1>9. CASE Hang(p)
  BY <1>9 DEF Hang, Advances, Alive, Numbered
<1>10. CASE StartTool(p)
  BY <1>10, GoesOn, StoreAssumption DEF StartTool, Procs, Steps
<1> QED BY <1>1, <1>2, <1>3, <1>4, <1>5, <1>6, <1>7, <1>8, <1>9, <1>10 DEF Process, Silent

\* What such a step makes of the store: all it did before stays done.
Grows == /\ store' \in StoreStates /\ HoldsWhatItRecords(store')
         /\ store.applied \subseteq store'.applied

LEMMA StoreStep ==
    ASSUME StoreTypeOK, Numbered, HoldsWhatItRecords(store), NEW p \in Procs, Process(p)
    PROVE  Grows
<1>1. CASE UNCHANGED store
  BY <1>1 DEF StoreTypeOK, Grows
<1>2. CASE Create(p)
  BY <1>1, <1>2 DEF Create, StoreTypeOK, StoreStates, Grows, HoldsWhatItRecords, DidItsWork, Collides
<1>3. CASE EnsureBookkeeping(p)
  BY <1>3 DEF EnsureBookkeeping, StoreTypeOK, StoreStates, Grows, HoldsWhatItRecords, DidItsWork, Collides
<1>4. CASE Apply(p)
  <2> DEFINE m == MIGRATIONS[proc[p].next]
  <2>1. m \in ToSet(MIGRATIONS)
    BY <1>4, Chain DEF Apply, Numbered
  <2>2. ~InTheWay(m, store) /\ store' = Recorded(m, [DataStep(m, store) EXCEPT !.schema = @ \cup {m}])
    BY <1>4 DEF Apply, Transaction
  <2> QED BY <2>1, <2>2, Applies DEF StoreTypeOK, Grows
<1> QED
  BY <1>1, <1>2, <1>3, <1>4
     DEF Process, Silent, Configure, Prepare, CannotOpen, Probe, ApplyFails, Bind, Open, Announce, Die, Hang,
         StartTool

-----------------------------------------------------------------------------
(* Steps of the shell *)

\* What a step makes of the store and its processes: a process makes a step, the
\* supervisor spawns one or ends one, or nothing happens to them.
Spawned(c) == /\ proc[c].at = "unborn"
              /\ proc' = [proc EXCEPT ![c] = [Unborn EXCEPT !.at = "config", !.shell = launches]]
EndedChild(c) == Alive(c) /\ proc' = Runs(c, "failed")
WorldStep ==
    \/ \E p \in Procs : Process(p)
    \/ UNCHANGED store /\ \E c \in Backends : Spawned(c) \/ EndedChild(c)
    \/ UNCHANGED <<store, proc>>

LEMMA WorldSteps ==
    ASSUME TypeOK, [Next]_vars
    PROVE  WorldStep
<1> USE DEF WorldStep, Outside, world
<1>1. CASE UNCHANGED vars
  BY <1>1 DEF vars
<1>2. ASSUME NEW t \in Tasks, Spawn(t) PROVE WorldStep
  <2> DEFINE c == CHOOSE c \in Left : TRUE
  <2>1. c \in Left
    BY <1>2 DEF Spawn
  <2>2. proc' = [proc EXCEPT ![c] = [Unborn EXCEPT !.at = "config", !.shell = launches]] /\ UNCHANGED store
    BY <1>2 DEF Spawn
  <2> QED BY <2>1, <2>2 DEF Spawned, Left
<1>3. ASSUME NEW t \in Tasks, Terminated(t) PROVE WorldStep
  <2>1. UNCHANGED store /\ proc' = IF Alive(task[t].child) THEN Runs(task[t].child, "failed") ELSE proc
    BY <1>3 DEF Terminated
  <2>2. task[t].child \in Backends \/ task[t].child = NoChild
    BY DEF TypeOK, TaskStates
  <2>3. CASE task[t].child = NoChild
    <3>1. Runs(NoChild, "failed") = proc
      BY ShellAssumption DEF Runs, TypeOK, StoreTypeOK
    <3> QED BY <2>1, <2>3, <3>1
  <2> QED BY <2>1, <2>2, <2>3 DEF EndedChild
<1>4. ASSUME NEW t \in Tasks, Supervises(t), ~Spawn(t), ~Terminated(t) PROVE WorldStep
  BY <1>4
     DEF Supervises, Swap, LoadFails, LoadKeys, WriteKeys, Top, SpawnFails, StoreChild, Healthy, HealthExited,
         HealthTimeout, Retry, WatchStops, WatchExit, Judge, Release, Take, Sigterm
<1>5. ASSUME NEW r \in Restarts, Restart(r) \/ StartOver(r) PROVE WorldStep
  BY <1>5 DEF Restart, StartOver
<1>6. CASE ExitRequested \/ Leave \/ Launch
  BY <1>6 DEF ExitRequested, Leave, Launch
<1>7. CASE Signal
  BY <1>7 DEF Signal, EndedChild, TypeOK
<1>8. ASSUME NEW p \in Procs, Backend(p) \/ Happens(p) PROVE WorldStep
  BY <1>8 DEF Backend, Happens, Process, Heard
<1>9. ASSUME NEW p \in Backends, Prints(p) \/ Pump(p) PROVE WorldStep
  BY <1>9 DEF Prints, Pump, Process, Heard, Procs
<1>10. CASE Stranger
  BY <1>10 DEF Stranger, StrangerBinds
<1> QED BY <1>1, <1>2, <1>3, <1>4, <1>5, <1>6, <1>7, <1>8, <1>9, <1>10 DEF Next

\* No step wakes an ended process, undoes what is recorded, or lets a process come
\* to its port on a store that is not complete.
LEMMA WorldKept ==
    ASSUME TypeOK, Numbered, HoldsWhatItRecords(store), Complete, [Next]_vars
    PROVE  /\ store' \in StoreStates /\ proc' \in [Procs -> ProcStates]
           /\ Numbered' /\ HoldsWhatItRecords(store') /\ Complete'
<1> USE DEF TypeOK, StoreTypeOK
<1>1. CASE \E p \in Procs : Process(p)
  <2>1. PICK p \in Procs : Process(p)
    BY <1>1
  <2>2. Grows /\ Advances(p)
    BY <2>1, ProcessStep, StoreStep
  <2> QED BY <2>2 DEF Grows, Advances, Numbered, Complete
<1>2. ASSUME NEW c \in Backends, Spawned(c), UNCHANGED store
      PROVE  proc' \in [Procs -> ProcStates] /\ Numbered' /\ Complete'
  <2> DEFINE born == [Unborn EXCEPT !.at = "config", !.shell = launches]
  <2>1. born \in ProcStates /\ born.at = "config"
    <3>1. 0 \in 0..Len(MIGRATIONS) + 1
      BY Chain
    <3>2. launches \in Nat
      BY ShellAssumption
    <3>3. Unborn \in ProcStates
      BY <3>1 DEF ProcStates, Unborn
    <3>4. born \in ProcStates
      BY <3>2, <3>3 DEF ProcStates, Steps
    <3> QED BY <3>3, <3>4 DEF ProcStates
  <2>2. proc' = [proc EXCEPT ![c] = born] /\ c \in Procs
    BY <1>2 DEF Spawned, Procs
  <2> HIDE DEF born
  <2> QED BY <1>2, <2>1, <2>2 DEF Numbered, Complete
<1>3. ASSUME NEW c \in Backends, EndedChild(c), UNCHANGED store
      PROVE  proc' \in [Procs -> ProcStates] /\ Numbered' /\ Complete'
  <2>1. c \in Procs /\ Goes(c, "failed")
    BY <1>3 DEF EndedChild, Goes, Procs
  <2>2. Advances(c)
    BY <1>3, <2>1, GoesOn DEF EndedChild, Ended
  <2> QED BY <1>3, <2>1, <2>2 DEF Advances, Numbered, Complete
<1>4. CASE UNCHANGED <<store, proc>>
  BY <1>4 DEF Numbered, Complete
<1> QED BY <1>1, <1>2, <1>3, <1>4, WorldSteps DEF WorldStep

-----------------------------------------------------------------------------
(* Types *)

\* Every thread is somewhere, whatever it does.
LEMMA TaskTypes ==
    ASSUME TypeOK, NEW t \in Tasks
    PROVE  /\ \A at \in {"idle", "swap", "load", "write", "top", "spawn", "store", "health", "retry", "watch",
                         "judge", "release", "take", "term", "grace", "await", "ended", "gone"} :
                Moves(t, at) => task' \in [Tasks -> TaskStates]
           /\ \A at \in {"retry", "take", "judge"}, why \in {"none", "spawn", "exited", "health-timeout"},
                 then \in {"none", "retry", "await", "gone"} :
                Fails(t, why, at, then) => task' \in [Tasks -> TaskStates]
           /\ Again(t) => task' \in [Tasks -> TaskStates]
           /\ Resigns(t) => task' \in [Tasks -> TaskStates] /\ status' \in Statuses
<1> DEFINE Ats == {"idle", "swap", "load", "write", "top", "spawn", "store", "health", "retry", "watch",
                   "judge", "release", "take", "term", "grace", "await", "ended", "gone"}
<1>1. task \in [Tasks -> TaskStates] /\ task[t] \in TaskStates
  BY DEF TypeOK
<1>2. ASSUME NEW at \in Ats, Moves(t, at) PROVE task' \in [Tasks -> TaskStates]
  <2>1. [task[t] EXCEPT !.at = at] \in TaskStates
    BY <1>1 DEF TaskStates
  <2> QED BY <1>1, <1>2, <2>1 DEF Moves
<1>3. ASSUME NEW at \in {"retry", "take", "judge"}, NEW why \in {"none", "spawn", "exited", "health-timeout"},
             NEW then \in {"none", "retry", "await", "gone"}, Fails(t, why, at, then)
      PROVE  task' \in [Tasks -> TaskStates]
  <2>1. [task[t] EXCEPT !.at = at, !.why = why, !.then = then] \in TaskStates
    BY <1>1 DEF TaskStates
  <2>2. task' = [task EXCEPT ![t] = [task[t] EXCEPT !.at = at, !.why = why, !.then = then]]
    BY <1>1, <1>3 DEF Fails
  <2> QED BY <1>1, <2>1, <2>2
<1>4. ASSUME Again(t) PROVE task' \in [Tasks -> TaskStates]
  <2>1. task[t].left \in 0..1 /\ task[t].left - 1 \in 0..1
    BY <1>1, <1>4 DEF TaskStates, SupervisorBudget, Again
  <2>2. [task[t] EXCEPT !.at = "top", !.left = @ - 1, !.child = NoChild, !.why = "none"] \in TaskStates
    BY <1>1, <2>1 DEF TaskStates, SupervisorBudget
  <2>3. task' = [task EXCEPT ![t] = [task[t] EXCEPT !.at = "top", !.left = @ - 1, !.child = NoChild, !.why = "none"]]
    BY <1>1, <1>4 DEF Again
  <2> QED BY <1>1, <2>2, <2>3
<1>5. ASSUME Resigns(t) PROVE task' \in [Tasks -> TaskStates] /\ status' \in Statuses
  BY <1>1, <1>2, <1>5 DEF Resigns, Statuses, Failed, TaskStates
<1> QED BY <1>2, <1>3, <1>4, <1>5

\* A thread that starts over, ends or is not there has the budget zero.
LEMMA IdleType ==
    /\ Idle \in TaskStates
    /\ \A at \in {"swap", "ended"} : [Idle EXCEPT !.at = at] \in TaskStates
BY DEF Idle, TaskStates, SupervisorBudget

LEMMA StatusType == Starting \in Statuses
BY DEF Starting, Statuses

ShellTypes ==
    /\ app \in {"running", "gone"} /\ launches \in 1..MaxLaunches
    /\ status \in Statuses
    /\ supervising \in BOOLEAN /\ shutdown \in BOOLEAN
    /\ held \in Backends \cup {NoChild} /\ pid \in Backends \cup {NoChild}
    /\ slot \in Ports \cup {NoPort} /\ unread \subseteq Backends
    /\ keys \in {"none", "partial", "whole"}
    /\ task \in [Tasks -> TaskStates]

StrangersKept == strangers' \subseteq Ports

LEMMA SupervisesTypes ==
    ASSUME TypeOK, Afterwards, NEW t \in Tasks, Supervises(t)
    PROVE  ShellTypes'
<1> USE DEF ShellTypes, Outside, flags, handles, shell, world
<1> USE DEF At
<1>1. CASE Swap(t) \/ WriteKeys(t) \/ StoreChild(t) \/ Sigterm(t)
  <2>1. CASE Swap(t)
    BY <2>1, TaskTypes DEF Swap, TypeOK
  <2>2. CASE WriteKeys(t)
    BY <2>2, TaskTypes DEF WriteKeys, TypeOK
  <2>3. CASE StoreChild(t)
    <3>1. task[t].child \in Backends \cup {NoChild}
      BY DEF TypeOK, TaskStates
    <3> QED BY <2>3, <3>1, TaskTypes DEF StoreChild, TypeOK
  <2>4. CASE Sigterm(t)
    BY <2>4, TaskTypes DEF Sigterm, TypeOK
  <2> QED BY <1>1, <2>1, <2>2, <2>3, <2>4
<1>2. CASE LoadFails(t)
  BY <1>2, TaskTypes DEF LoadFails, TypeOK, Statuses, Failed
<1>3. CASE LoadKeys(t)
  <2>1. \A at \in {"write", "top"} : [task[t] EXCEPT !.at = at, !.left = SupervisorBudget] \in TaskStates
    <3>1. task[t] \in TaskStates
      BY DEF TypeOK
    <3>2. SupervisorBudget \in 0..SupervisorBudget
      BY DEF SupervisorBudget
    <3> QED BY <3>1, <3>2 DEF TaskStates
  <2> QED BY <1>3, <2>1 DEF LoadKeys, TypeOK
<1>4. CASE Top(t)
  BY <1>4, TaskTypes DEF Top, TypeOK, Statuses, Starting
<1>5. CASE Spawn(t)
  <2> DEFINE c == CHOOSE c \in Left : TRUE
  <2>1. c \in Backends
    BY <1>5 DEF Spawn, Left
  <2>2. /\ task' = [task EXCEPT ![t].at = "store", ![t].child = c]
        /\ slot' = NoPort /\ UNCHANGED <<flags, held, pid, unread, keys, status>>
    BY <1>5 DEF Spawn
  <2> HIDE DEF c
  <2>3. [task[t] EXCEPT !.at = "store", !.child = c] \in TaskStates
    <3>1. task[t] \in TaskStates
      BY DEF TypeOK
    <3> QED BY <2>1, <3>1 DEF TaskStates
  <2> QED BY <2>2, <2>3 DEF TypeOK
<1>6. CASE SpawnFails(t) \/ HealthExited(t) \/ HealthTimeout(t) \/ WatchStops(t) \/ WatchExit(t)
  BY <1>6, TaskTypes DEF SpawnFails, HealthExited, HealthTimeout, WatchStops, WatchExit, Abandons, TypeOK
<1>7. CASE Healthy(t)
  <2>1. task' \in [Tasks -> TaskStates]
    BY <1>7, TaskTypes DEF Healthy
  <2>2. slot \in Ports \cup {NoPort} /\ task[t].child \in Backends \cup {NoChild}
    BY DEF TypeOK, TaskStates
  <2>3. status' \in Statuses
    BY <1>7, <2>2 DEF Healthy, Ready, Statuses
  <2> QED BY <1>7, <2>1, <2>3 DEF Healthy, TypeOK
<1>8. CASE Retry(t) \/ Judge(t)
  <2>1. task' \in [Tasks -> TaskStates] /\ status' \in Statuses
    BY <1>8, TaskTypes DEF Retry, Judge, Again, TypeOK
  <2> QED BY <1>8, <2>1 DEF Retry, Judge, TypeOK
<1>9. CASE Release(t)
  BY <1>9, IdleType DEF Release, TypeOK
<1>10. CASE Take(t)
  <2>1. \A at \in {"term", task[t].then} : [task[t] EXCEPT !.at = at, !.child = held] \in TaskStates
    <3>1. task[t] \in TaskStates /\ held \in Backends \cup {NoChild}
      BY DEF TypeOK
    <3>2. task[t].then \in {"retry", "await", "gone"}
      BY <1>10 DEF Take, Afterwards
    <3> QED BY <3>1, <3>2 DEF TaskStates
  <2> QED BY <1>10, <2>1 DEF Take, TypeOK
<1>11. CASE Terminated(t)
  <2>1. [task[t] EXCEPT !.at = task[t].then, !.child = NoChild, !.then = "none"] \in TaskStates
    BY <1>11 DEF Terminated, TypeOK, TaskStates, Afterwards
  <2> QED BY <1>11, <2>1 DEF Terminated, TypeOK
<1> QED BY <1>1, <1>2, <1>3, <1>4, <1>5, <1>6, <1>7, <1>8, <1>9, <1>10, <1>11 DEF Supervises

LEMMA TypeStep ==
    ASSUME TypeOK, Numbered, HoldsWhatItRecords(store), Complete, Afterwards, [Next]_vars
    PROVE  TypeOK'
<1> USE DEF Outside, flags, handles, shell, world
<1>1. ShellTypes'
  <2>1. CASE UNCHANGED vars
    BY <2>1 DEF vars, ShellTypes, TypeOK
  <2>2. CASE \E t \in Tasks : Supervises(t)
    BY <2>2, SupervisesTypes
  <2>3. ASSUME NEW r \in Restarts, Restart(r) \/ StartOver(r) PROVE ShellTypes'
    <3>1. r \in Tasks
      BY DEF Tasks
    <3>2. CASE Restart(r)
      BY <3>1, <3>2, TaskTypes DEF Restart, TypeOK, ShellTypes
    <3>3. CASE StartOver(r)
      BY <3>1, <3>3, IdleType, StatusType DEF StartOver, TypeOK, ShellTypes
    <3> QED BY <2>3, <3>2, <3>3
  <2>4. CASE ExitRequested
    BY <2>4, TaskTypes DEF ExitRequested, TypeOK, ShellTypes, Tasks
  <2>5. CASE Ends /\ UNCHANGED <<launches, keys>>
    BY <2>5, IdleType, StatusType DEF Ends, TypeOK, ShellTypes
  <2>6. CASE Launch
    <3>1. launches' \in 1..MaxLaunches
      BY <2>6, ShellAssumption DEF Launch, TypeOK
    <3>2. \A t \in Tasks : task'[t] \in TaskStates
      BY <2>6, IdleType DEF Launch, Fresh
    <3>3. task' = [t \in Tasks |-> task'[t]]
      BY <2>6 DEF Launch, Fresh
    <3>4. task' \in [Tasks -> TaskStates]
      BY <3>2, <3>3
    <3> QED BY <2>6, <3>1, <3>4, StatusType DEF Launch, Fresh, TypeOK, ShellTypes
  <2>7. ASSUME NEW p \in Procs, Backend(p) \/ Happens(p) PROVE ShellTypes'
    BY <2>7 DEF Backend, Happens, TypeOK, ShellTypes
  <2>8. ASSUME NEW p \in Backends, Prints(p) \/ Pump(p) PROVE ShellTypes'
    BY <2>8 DEF Prints, Pump, TypeOK, ShellTypes, StoreTypeOK, ProcStates, Procs
  <2>9. CASE Stranger
    BY <2>9 DEF Stranger, TypeOK, ShellTypes
  <2> QED BY <2>1, <2>2, <2>3, <2>4, <2>5, <2>6, <2>7, <2>8, <2>9 DEF Next, Leave, Signal
<1>2. StrangersKept
  <2>1. CASE UNCHANGED strangers
    BY <2>1 DEF StrangersKept, TypeOK, StoreTypeOK
  <2>2. CASE Stranger
    BY <2>2 DEF Stranger, StrangerBinds, StrangersKept, TypeOK, StoreTypeOK
  <2>3. ASSUME NEW p \in Procs, Process(p) PROVE StrangersKept
    BY <2>1, <2>3
       DEF Process, Silent, Configure, Prepare, CannotOpen, Create, EnsureBookkeeping, Probe, Apply, ApplyFails,
           Bind, Open, Announce, Die, Hang, StartTool
  <2>4. ASSUME NEW p \in Procs, Backend(p) \/ Happens(p) PROVE StrangersKept
    BY <2>3, <2>4 DEF Backend, Happens, Process, Heard
  <2>5. ASSUME NEW p \in Backends, Prints(p) \/ Pump(p) PROVE StrangersKept
    BY <2>1, <2>3, <2>5 DEF Prints, Pump, Process, Heard, Procs
  <2>6. ASSUME NEW t \in Tasks, Supervises(t) PROVE UNCHANGED strangers
    BY <2>6
       DEF Supervises, Swap, LoadFails, LoadKeys, WriteKeys, Top, Spawn, SpawnFails, StoreChild, Healthy,
           HealthExited, HealthTimeout, Retry, WatchStops, WatchExit, Judge, Release, Take, Sigterm, Terminated
  <2>7. CASE ExitRequested \/ Leave \/ Signal \/ Launch \/ UNCHANGED vars
    BY <2>1, <2>7 DEF ExitRequested, Leave, Signal, Launch, vars
  <2>8. ASSUME NEW r \in Restarts, Restart(r) \/ StartOver(r) PROVE UNCHANGED strangers
    BY <2>8 DEF Restart, StartOver
  <2> QED BY <2>1, <2>2, <2>4, <2>5, <2>6, <2>7, <2>8 DEF Next
<1> QED BY <1>1, <1>2, WorldKept DEF ShellTypes, StrangersKept, TypeOK, StoreTypeOK

-----------------------------------------------------------------------------
(* What a thread does with its own entry *)

\* The other threads stay where they are, and a thread that was there stays there.
LEMMA OwnEntry ==
    ASSUME TypeOK, Afterwards, NEW t \in Tasks, Supervises(t)
    PROVE  /\ \A u \in Tasks \ {t} : task'[u] = task[u]
           /\ task[t].at # "idle" /\ task'[t].at # "idle"
           /\ task'[t].at \in {"take", "term", "grace"} => task'[t].then \in {"retry", "await", "gone"}
<1> USE DEF Outside, flags, handles, shell, world, At
<1>1. task[t] \in TaskStates /\ task \in [Tasks -> TaskStates]
  BY DEF TypeOK
<1>2. ASSUME NEW at \in {"load", "ended", "release", "top", "spawn", "health", "watch"}, Moves(t, at), task[t].at # "idle"
      PROVE  /\ \A u \in Tasks \ {t} : task'[u] = task[u]
             /\ task[t].at # "idle" /\ task'[t].at = at
  BY <1>1, <1>2 DEF Moves, TaskStates
<1>3. ASSUME NEW at, NEW why, NEW then, Fails(t, why, at, then)
      PROVE  /\ \A u \in Tasks \ {t} : task'[u] = task[u]
             /\ task'[t].at = at /\ task'[t].then = then
  BY <1>1, <1>3 DEF Fails, TaskStates
<1>4. CASE Swap(t) \/ LoadFails(t) \/ WriteKeys(t) \/ Top(t) \/ StoreChild(t) \/ Healthy(t)
  BY <1>2, <1>4 DEF Swap, LoadFails, WriteKeys, Top, StoreChild, Healthy
<1>5. CASE LoadKeys(t) \/ Spawn(t)
  BY <1>1, <1>5 DEF LoadKeys, Spawn, TaskStates
<1>6. CASE SpawnFails(t) \/ HealthExited(t) \/ HealthTimeout(t) \/ WatchStops(t) \/ WatchExit(t)
  BY <1>3, <1>6 DEF SpawnFails, HealthExited, HealthTimeout, WatchStops, WatchExit, Abandons
<1>7. CASE Retry(t) \/ Judge(t)
  BY <1>1, <1>2, <1>7 DEF Retry, Judge, Again, Resigns, TaskStates
<1>8. CASE Release(t)
  BY <1>1, <1>8 DEF Release, Idle
<1>9. CASE Take(t)
  BY <1>1, <1>9 DEF Take, TaskStates, Afterwards
<1>10. CASE Sigterm(t)
  BY <1>1, <1>10 DEF Sigterm, Moves, TaskStates, Afterwards
<1>11. CASE Terminated(t)
  BY <1>1, <1>11 DEF Terminated, TaskStates, Afterwards
<1> QED BY <1>4, <1>5, <1>6, <1>7, <1>8, <1>9, <1>10, <1>11 DEF Supervises

LEMMA AfterwardsStep ==
    ASSUME TypeOK, Afterwards, [Next]_vars
    PROVE  Afterwards'
<1> USE DEF Outside, flags, handles, shell, world
<1>1. CASE UNCHANGED task
  BY <1>1 DEF Afterwards
<1>2. ASSUME NEW t \in Tasks, Supervises(t) PROVE Afterwards'
  BY <1>2, OwnEntry DEF Afterwards
<1>3. ASSUME NEW t \in Tasks, NEW then \in {"await", "gone"}, Fails(t, "none", "take", then) PROVE Afterwards'
  BY <1>3 DEF Fails, TypeOK, TaskStates, Afterwards
<1>4. ASSUME NEW r \in Restarts, StartOver(r) PROVE Afterwards'
  BY <1>4 DEF StartOver, TypeOK, Afterwards, Idle
<1>5. CASE (\E r \in Restarts : Restart(r)) \/ ExitRequested
  BY <1>3, <1>5 DEF Restart, ExitRequested, Tasks
<1>6. CASE Leave \/ Signal \/ Launch
  BY <1>6 DEF Leave, Signal, Launch, Ends, Fresh, Afterwards, Idle
<1>7. CASE Stranger \/ (\E p \in Procs : Backend(p) \/ Happens(p)) \/ (\E p \in Backends : Prints(p) \/ Pump(p))
  BY <1>1, <1>7 DEF Stranger, Backend, Happens, Prints, Pump
<1> QED BY <1>1, <1>2, <1>4, <1>5, <1>6, <1>7 DEF Next, vars

-----------------------------------------------------------------------------
(* One backend at a time *)

\* No backend comes to life.
NoneBorn == Running' \subseteq Running

LEMMA ProcessBearsNone ==
    ASSUME TypeOK, Numbered, NEW p \in Procs, Process(p)
    PROVE  NoneBorn
<1>1. Advances(p)
  BY ProcessStep DEF TypeOK
<1> QED BY <1>1 DEF Advances, NoneBorn, Running, Alive, Procs

\* As long as nobody touched the app, the one thread of the shell that does anything
\* is the supervisor of the start, and it alone brings backends to life.
LEMMA UntouchedSteps ==
    ASSUME TypeOK, Numbered, Afterwards, [Next]_vars, Untouched'
    PROVE  Untouched /\ (Supervises(Boot) \/ (UNCHANGED <<task, shutdown, held>> /\ NoneBorn))
<1> USE DEF Outside, flags, handles, shell, world
<1>1. Boot \in Tasks /\ Restarts \cup {Exit} \subseteq Tasks
  BY DEF Tasks
<1>2. ASSUME UNCHANGED <<flags, held, task, proc>> PROVE Untouched /\ UNCHANGED <<task, shutdown, held>> /\ NoneBorn
  BY <1>2 DEF Untouched, At, NoneBorn, Running, Alive
<1>3. CASE UNCHANGED vars
  BY <1>2, <1>3 DEF vars
<1>4. ASSUME NEW t \in Tasks, Supervises(t) PROVE Untouched /\ Supervises(Boot)
  <2>1. UNCHANGED <<app, launches>>
    BY <1>4
       DEF Supervises, Swap, LoadFails, LoadKeys, WriteKeys, Top, Spawn, SpawnFails, StoreChild, Healthy,
           HealthExited, HealthTimeout, Retry, WatchStops, WatchExit, Judge, Release, Take, Sigterm, Terminated
  <2>2. /\ \A u \in Tasks \ {t} : task'[u] = task[u]
        /\ task'[t].at # "idle"
    BY <1>4, OwnEntry
  <2>3. t \notin Restarts \cup {Exit}
    BY <2>2 DEF Untouched, At
  <2> QED BY <1>1, <1>4, <2>1, <2>2, <2>3 DEF Untouched, At, Tasks
<1>5. ASSUME NEW r \in Restarts, Restart(r) \/ StartOver(r) PROVE FALSE
  <2>1. task'[r].at \in {"take", "swap"}
    BY <1>1, <1>5 DEF Restart, StartOver, Fails, TypeOK, TaskStates, Idle
  <2> QED BY <2>1 DEF Untouched, At
<1>6. ~ExitRequested
  <2>1. ExitRequested => task'[Exit].at = "take"
    BY <1>1 DEF ExitRequested, Fails, TypeOK, TaskStates
  <2> QED BY <2>1 DEF Untouched, At
<1>7. ~(Leave \/ Signal)
  BY DEF Untouched, Leave, Signal, Ends
<1>8. ~Launch
  BY ShellAssumption DEF Untouched, Launch, TypeOK
<1>9. ASSUME NEW p \in Procs, Backend(p) \/ Happens(p)
      PROVE  Untouched /\ UNCHANGED <<task, shutdown, held>> /\ NoneBorn
  <2>1. Process(p) /\ UNCHANGED <<flags, held, task>>
    BY <1>9 DEF Backend, Happens, Process, Heard
  <2> QED BY <2>1, ProcessBearsNone DEF Untouched, At
<1>10. ASSUME NEW p \in Backends, Prints(p)
       PROVE  Untouched /\ UNCHANGED <<task, shutdown, held>> /\ NoneBorn
  <2>1. p \in Procs /\ Process(p) /\ UNCHANGED <<flags, held, task>>
    BY <1>10 DEF Prints, Process, Heard, Procs
  <2> QED BY <2>1, ProcessBearsNone DEF Untouched, At
<1>11. CASE Stranger \/ \E p \in Backends : Pump(p)
  BY <1>2, <1>11 DEF Stranger, StrangerBinds, Pump
<1> QED BY <1>3, <1>4, <1>5, <1>6, <1>7, <1>8, <1>9, <1>10, <1>11 DEF Next

\* OneChild in a state nobody has touched, by where the supervisor is.
Empty == {"swap", "load", "write", "top", "spawn", "retry", "judge", "release", "ended", "idle", "await", "gone"}

LEMMA OneChildStep ==
    ASSUME TypeOK, Numbered, Afterwards, OneChild, [Next]_vars
    PROVE  OneChild'
<1> SUFFICES ASSUME Untouched' PROVE OneChild'
  BY DEF OneChild
<1> USE DEF Outside, flags, handles, shell, world, At
<1> DEFINE b == task[Boot]
<1>1. /\ Boot \in Tasks /\ b \in TaskStates /\ task \in [Tasks -> TaskStates]
      /\ proc \in [Procs -> ProcStates] /\ Backends \subseteq Procs
  BY DEF Tasks, TypeOK, StoreTypeOK, Procs
<1>2. Untouched /\ ~shutdown
  BY UntouchedSteps DEF OneChild
<1>3. CASE UNCHANGED <<task, shutdown, held>> /\ NoneBorn
  BY <1>2, <1>3 DEF OneChild, NoneBorn
<1>4. ASSUME NEW at \in Empty, task'[Boot].at = at, UNCHANGED <<shutdown, proc>>, Running = {} PROVE OneChild'
  BY <1>2, <1>4 DEF OneChild, Empty, Running, Alive
<1>5. ASSUME b.at \in Empty PROVE Running = {}
  BY <1>2, <1>5 DEF OneChild, Empty
<1>6. CASE Swap(Boot) \/ WriteKeys(Boot) \/ Top(Boot) \/ LoadFails(Boot)
  BY <1>1, <1>4, <1>5, <1>6 DEF Swap, WriteKeys, Top, LoadFails, Moves, TaskStates, Empty
<1>7. CASE LoadKeys(Boot) \/ SpawnFails(Boot)
  BY <1>1, <1>4, <1>5, <1>7 DEF LoadKeys, SpawnFails, Fails, TaskStates, Empty
<1>8. CASE Spawn(Boot)
  <2> DEFINE c == CHOOSE c \in Left : TRUE
  <2>1. /\ c \in Backends /\ b.at = "spawn" /\ UNCHANGED shutdown
        /\ proc' = [proc EXCEPT ![c] = [Unborn EXCEPT !.at = "config", !.shell = launches]]
        /\ task' = [task EXCEPT ![Boot].at = "store", ![Boot].child = c]
    BY <1>8 DEF Spawn, Left
  <2> HIDE DEF c
  <2>2. task'[Boot].at = "store" /\ task'[Boot].child = c
    BY <1>1, <2>1 DEF TaskStates
  <2>3. Running' \subseteq {c}
    BY <1>1, <1>5, <2>1 DEF Running, Alive, Empty
  <2> QED BY <1>2, <2>1, <2>2, <2>3 DEF OneChild
<1>9. CASE StoreChild(Boot)
  <2>1. b.at = "store" /\ held' = b.child /\ UNCHANGED <<shutdown, proc>> /\ task' = [task EXCEPT ![Boot].at = "health"]
    BY <1>9 DEF StoreChild, Moves
  <2>2. task'[Boot].at = "health"
    BY <1>1, <2>1 DEF TaskStates
  <2>3. b.child \in Backends /\ Running' \subseteq {b.child}
    BY <1>2, <2>1 DEF OneChild, Running, Alive
  <2> QED BY <1>2, <2>1, <2>2, <2>3 DEF OneChild
<1>10. CASE Healthy(Boot)
  <2>1. b.at = "health" /\ UNCHANGED <<shutdown, proc, held>> /\ task'[Boot].at = "watch"
    BY <1>1, <1>10 DEF Healthy, Moves, TaskStates
  <2> QED BY <1>2, <2>1 DEF OneChild, Running, Alive
<1>11. CASE HealthExited(Boot) \/ HealthTimeout(Boot)
  <2>1. /\ b.at = "health" /\ UNCHANGED <<shutdown, proc, held>>
        /\ task'[Boot].at = "take" /\ task'[Boot].then = "retry"
    BY <1>1, <1>11 DEF HealthExited, HealthTimeout, Abandons, Fails, TaskStates
  <2> QED BY <1>2, <2>1 DEF OneChild, Running, Alive
<1>12. CASE Retry(Boot) \/ Judge(Boot)
  <2>1. b.at \in {"retry", "judge"} /\ UNCHANGED <<shutdown, proc>> /\ task'[Boot].at \in {"top", "release"}
    BY <1>1, <1>12 DEF Retry, Judge, Again, Resigns, Moves, TaskStates
  <2> QED BY <1>4, <1>5, <2>1 DEF Empty
<1>13. ~WatchStops(Boot)
  BY <1>2 DEF WatchStops
<1>14. CASE WatchExit(Boot)
  <2>1. /\ b.at = "watch" /\ UNCHANGED <<shutdown, proc>> /\ task'[Boot].at = "judge"
        /\ held = NoChild \/ HasExited
    BY <1>1, <1>14 DEF WatchExit, Fails, TaskStates
  <2>2. Running = {}
    BY <1>1, <1>2, <2>1, ShellAssumption DEF OneChild, HasExited, Running
  <2> QED BY <1>4, <2>1, <2>2 DEF Empty
<1>15. CASE Release(Boot)
  BY <1>1, <1>4, <1>5, <1>15 DEF Release, Idle, Empty
<1>16. CASE Take(Boot)
  <2>1. held \in Backends /\ Running \subseteq {held} /\ b.then = "retry"
    BY <1>2, <1>16 DEF Take, OneChild
  <2>2. held # NoChild
    BY <1>1, <2>1, ShellAssumption
  <2>3. /\ UNCHANGED <<shutdown, proc>> /\ task'[Boot].at = "term" /\ task'[Boot].child = held
        /\ task'[Boot].then = "retry"
    BY <1>1, <1>16, <2>1, <2>2 DEF Take, TaskStates
  <2> QED BY <1>2, <2>1, <2>3 DEF OneChild, Running, Alive
<1>17. CASE Sigterm(Boot)
  <2>1. b.at = "term" /\ UNCHANGED <<shutdown, proc>> /\ task' = [task EXCEPT ![Boot].at = "grace"]
    BY <1>17 DEF Sigterm, Moves
  <2>2. task'[Boot].at = "grace" /\ task'[Boot].child = b.child /\ task'[Boot].then = b.then
    BY <1>1, <2>1 DEF TaskStates
  <2> QED BY <1>2, <2>1, <2>2 DEF OneChild, Running, Alive
<1>18. CASE Terminated(Boot)
  <2>1. Running \subseteq {b.child} /\ b.then = "retry" /\ UNCHANGED shutdown
    BY <1>2, <1>18 DEF Terminated, OneChild
  <2>2. task'[Boot].at = "retry"
    BY <1>1, <1>18, <2>1 DEF Terminated, TaskStates
  <2>3. Running' = {}
    BY <1>1, <1>18, <2>1 DEF Terminated, Running, Alive, Runs, Ended, ProcStates
  <2> QED BY <1>2, <2>1, <2>2, <2>3 DEF OneChild
<1> QED
  BY <1>3, <1>6, <1>7, <1>8, <1>9, <1>10, <1>11, <1>12, <1>13, <1>14, <1>15, <1>16, <1>17, <1>18, UntouchedSteps
     DEF Supervises

\* The one backend there can be.
LEMMA OneChildIsOneBackend ==
    ASSUME TypeOK, OneChild
    PROVE  OneBackend
<1> SUFFICES ASSUME Untouched PROVE Cardinality(Running) <= 1
  BY DEF OneBackend
<1>1. PICK c : Running \subseteq {c}
  BY DEF OneChild
<1>2. IsFiniteSet({c}) /\ Cardinality({c}) = 1
  BY FS_Singleton
<1>3. Cardinality(Running) <= Cardinality({c})
  BY <1>1, <1>2, FS_Subset
<1> QED BY <1>2, <1>3

-----------------------------------------------------------------------------
(* The theorems *)

LEMMA InvInit ==
    ASSUME Init
    PROVE  IInv
<1>1. store \in StoreStates /\ HoldsWhatItRecords(store)
  BY StoresAssumption DEF Init, InitStore
<1>2. Unborn \in ProcStates /\ Unborn.at = "unborn"
  <2>1. 0 \in 0..Len(MIGRATIONS) + 1
    BY Chain
  <2> QED BY <2>1 DEF ProcStates, Unborn
<1>3. \A p \in Procs : proc[p] = Unborn
  BY DEF Init, InitStore
<1>4. TypeOK
  <2>1. proc \in [Procs -> ProcStates]
    BY <1>2 DEF Init, InitStore
  <2>2. task \in [Tasks -> TaskStates]
    BY IdleType DEF Init
  <2>3. launches \in 1..MaxLaunches
    BY ShellAssumption DEF Init
  <2> QED BY <1>1, <2>1, <2>2, <2>3, StatusType DEF Init, InitStore, TypeOK, StoreTypeOK
<1>5. Numbered /\ Complete
  BY <1>2, <1>3 DEF Numbered, Complete
<1>6. Afterwards
  BY DEF Init, Afterwards, Idle
<1>7. OneChild
  <2>1. Running = {}
    BY <1>2, <1>3 DEF Running, Alive, Procs
  <2>2. task[Boot].at = "swap" /\ ~shutdown
    BY DEF Init, Tasks, Idle
  <2> QED BY <2>1, <2>2 DEF OneChild
<1> QED BY <1>1, <1>4, <1>5, <1>6, <1>7 DEF IInv

LEMMA InvStep ==
    ASSUME IInv, [Next]_vars
    PROVE  IInv'
BY TypeStep, WorldKept, AfterwardsStep, OneChildStep DEF IInv

THEOREM ShellInvariant == Spec => []IInv
BY InvInit, InvStep, PTL DEF Spec

\* The shell's flags and handles, its threads, the processes and the store have their
\* types.
THEOREM ShellTyped == Spec => []TypeOK
BY ShellInvariant, PTL DEF IInv

\* A migration is recorded exactly when its statements and its data rewrite are in the
\* store, whichever processes died or raced, and a backend serves only a store whose v3
\* chain is complete (migrate, validate_schema).
THEOREM ServedStoresAreRecorded == Spec => []ServesAsRecorded
<1>1. HoldsWhatItRecords(store) /\ Complete => ServesAsRecorded
  BY DEF Complete, ServesAsRecorded
<1> QED BY ShellInvariant, <1>1, PTL DEF IInv

\* Until somebody restarts or closes the app, one backend at most works on the store
\* (start_once, terminate_child, supervise).
THEOREM OneBackendAtATime == Spec => []OneBackend
<1>1. IInv => OneBackend
  BY OneChildIsOneBackend DEF IInv
<1> QED BY ShellInvariant, <1>1, PTL
=============================================================================
