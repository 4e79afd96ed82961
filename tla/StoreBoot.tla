------------------------------ MODULE StoreBoot ------------------------------
(***************************************************************************)
(* The lagoon-api process from its first argument to its first request,    *)
(* and the store it prepares on the way: Config::load, prepare or          *)
(* --migrate, the chain of migrations with one transaction each, the       *)
(* schema probe, the port and the line that reports it.                    *)
(*                                                                         *)
(* Several processes can work on one file: two backends, or a backend and  *)
(* a --migrate run somebody started from a terminal. Each can die between  *)
(* any two steps; a transaction it had open is rolled back.                *)
(***************************************************************************)
EXTENDS Naturals, FiniteSets, SequencesExt

CONSTANTS
    Backends,       \* processes the shell may start
    Tools,          \* lagoon-api --migrate runs started by hand
    Ports,          \* ports the kernel hands out
    Mails,          \* mails a legacy store may hold
    Stores,         \* the files there may be before the first start
    MaxEvents       \* bound on what happens by itself: crashes, refusals, commands, ...

Procs == Backends \cup Tools
NoPort == "no port"

ASSUME StoreAssumption == Backends \cap Tools = {} /\ IsFiniteSet(Procs) /\ NoPort \notin Ports
                           /\ MaxEvents \in Nat

VARIABLES
    store,      \* lagoon.sqlite
    proc,       \* proc[p]: where process p is in its main
    strangers,  \* ports other programs of this machine listen on
    events      \* how many of MaxEvents happened

\* Neighbours that only add tables, indexes and columns are one entry: v1 is v1
\* to v5, v9 is v7 to v9, v12 is v11 and v12.
MIGRATIONS == <<"v1", "v5b", "v6", "v9", "v10", "v12">>
V4_MIGRATIONS == {"v12"}
KNOWN_MIGRATIONS == ToSet(MIGRATIONS) \ V4_MIGRATIONS

\* A cached body or snippet names its account by the 16 bytes or by their text.
Bodies == [mail : Mails, key : {"bytes", "text"}, sealed : BOOLEAN]
Drafts == {"none", "plain", "malformed", "sealed"}

\* file: nothing, created and still empty, or tables; foreign: somebody else's
\* tables. ledger: grdb_migrations exists; applied: its rows; schema: the
\* migrations whose statements took effect.
StoreStates == [file : {"none", "empty", "tables"}, foreign : BOOLEAN, ledger : BOOLEAN,
                applied : SUBSET ToSet(MIGRATIONS), schema : SUBSET ToSet(MIGRATIONS),
                account : {"bytes", "text"}, bodies : SUBSET Bodies, draft : Drafts]

Steps == {"config", "prepare", "create", "ledger", "probe", "apply", "open", "bind", "announce"}
Ended == {"done", "refused", "failed"}
ProcStates == [at : {"unborn"} \cup Steps \cup {"serve"} \cup Ended,
               next : 0..Len(MIGRATIONS) + 1, port : Ports \cup {NoPort},
               shell : Nat, hung : BOOLEAN]

Unborn == [at |-> "unborn", next |-> 0, port |-> NoPort, shell |-> 0, hung |-> FALSE]
Alive(p) == proc[p].at \notin {"unborn"} \cup Ended
Taken == strangers \cup {proc[p].port : p \in {q \in Procs : Alive(q)}}

InitStore ==
    /\ store \in Stores
    /\ proc = [p \in Procs |-> Unborn]
    /\ strangers = {} /\ events = 0

Event == events < MaxEvents /\ events' = events + 1

Runs(p, at) == [proc EXCEPT ![p].at = at, ![p].next = 0, ![p].hung = FALSE]
Goes(p, at) == proc' = Runs(p, at)

-----------------------------------------------------------------------------
(* Config::load *)

Environments == [flags : {"known", "unknown"}, body : {"none", "malformed", "valid"},
                 token : {"none", "malformed", "valid"}, api : BOOLEAN]

\* A missing body key or API token is a refusal, a missing token key is not.
Accepted(env) == /\ env.flags = "known" /\ env.body = "valid"
                 /\ env.api /\ env.token # "malformed"

\* The shell passes what it validated; by hand anything can be passed.
Given(p) == IF p \in Tools THEN Environments
            ELSE [flags : {"known"}, body : {"valid"}, token : {"valid"}, api : {TRUE}]

Configure(p) ==
    /\ proc[p].at = "config"
    /\ \E env \in Given(p) :
         Goes(p, IF ~Accepted(env) THEN "failed" ELSE IF p \in Tools THEN "create" ELSE "prepare")
    /\ UNCHANGED <<store, strangers, events>>

-----------------------------------------------------------------------------
(* prepare, open_writable, ensure_bookkeeping *)

LooksLikeALagoonStore(s) == s.ledger /\ "v10" \in s.applied

Prepare(p) ==
    /\ proc[p].at = "prepare"
    /\ Goes(p, IF store.file = "none" \/ LooksLikeALagoonStore(store) THEN "create" ELSE "open")
    /\ UNCHANGED <<store, strangers, events>>

\* The directory or the file cannot be created or opened.
CannotOpen(p) ==
    /\ proc[p].at = "create"
    /\ Goes(p, "failed")
    /\ Event
    /\ UNCHANGED <<store, strangers>>

Create(p) ==
    /\ proc[p].at = "create"
    /\ store' = IF store.file = "none" THEN [store EXCEPT !.file = "empty"] ELSE store
    /\ Goes(p, "ledger")
    /\ UNCHANGED <<strangers, events>>

EnsureBookkeeping(p) ==
    /\ proc[p].at = "ledger"
    /\ store' = [store EXCEPT !.file = "tables", !.ledger = TRUE]
    /\ proc' = [proc EXCEPT ![p].at = "probe", ![p].next = 1]
    /\ UNCHANGED <<strangers, events>>

-----------------------------------------------------------------------------
(* migrate: for each migration the recorded check, then one transaction *)

Unrecorded(s) == {i \in DOMAIN MIGRATIONS : MIGRATIONS[i] \notin s.applied}

\* Everything recorded up to the first that is not is counted and passed over.
Probe(p) ==
    LET open == {i \in Unrecorded(store) : i >= proc[p].next}
    IN  /\ proc[p].at = "probe"
        /\ proc' = IF open = {} THEN Runs(p, IF p \in Tools THEN "done" ELSE "open")
                   ELSE [proc EXCEPT ![p].at = "apply", ![p].next = Min(open)]
        /\ UNCHANGED <<store, strangers, events>>

\* repair_account_ids: an account stored as text moves to its bytes with all
\* its rows, unless one of its mails is already there under the bytes.
Collides(s) == \E b, c \in s.bodies : b.mail = c.mail /\ b.key = "text" /\ c.key = "bytes"
Repaired(s) ==
    IF s.account = "bytes" \/ Collides(s) THEN s
    ELSE [s EXCEPT !.account = "bytes", !.bodies = {[b EXCEPT !.key = "bytes"] : b \in @}]

Sealed(s) == [s EXCEPT !.bodies = {[b EXCEPT !.sealed = TRUE] : b \in @}]

DraftsSealed(s) == [s EXCEPT !.draft = IF @ = "plain" THEN "sealed" ELSE @]

DataStep(m, s) == CASE m = "v5b" -> Repaired(s)
                    [] m = "v6"  -> Sealed(s)
                    [] m = "v9"  -> DraftsSealed(s)
                    [] OTHER     -> s

\* The transaction fails by itself: somebody else's tables or columns are in the
\* way, a plaintext row carries its account as text where bytes are read, or a
\* draft is no JSON array.
InTheWay(m, s) ==
    \/ m \in s.schema
    \/ m = "v6" /\ \E b \in s.bodies : b.key = "text" /\ ~b.sealed
    \/ m = "v9" /\ s.draft = "malformed"

Recorded(m, s) == [s EXCEPT !.applied = @ \cup {m}]

\* Mutant: the identifier is recorded before the transaction of its migration.
RecordedAhead(p, m) ==
    \/ /\ m \notin store.applied
       /\ store' = Recorded(m, store)
       /\ UNCHANGED proc
    \/ /\ m \in store.applied /\ m \notin store.schema
       /\ store' = [DataStep(m, store) EXCEPT !.schema = @ \cup {m}]
       /\ proc' = [proc EXCEPT ![p].at = "probe", ![p].next = @ + 1]

\* The statements, the data step and the identifier commit as one.
Transaction(p, m) ==
    /\ ~InTheWay(m, store) /\ m \notin store.applied
    /\ store' = Recorded(m, [DataStep(m, store) EXCEPT !.schema = @ \cup {m}])
    /\ proc' = [proc EXCEPT ![p].at = "probe", ![p].next = @ + 1]

Apply(p) ==
    /\ proc[p].at = "apply"
    /\ Transaction(p, MIGRATIONS[proc[p].next])
    /\ UNCHANGED <<strangers, events>>

\* Rolled back: in the way, recorded by another process since the probe, a disk
\* that is full.
ApplyFails(p) ==
    /\ proc[p].at = "apply"
    /\ LET m == MIGRATIONS[proc[p].next]
       IN  IF InTheWay(m, store) \/ m \in store.applied THEN UNCHANGED events ELSE Event
    /\ Goes(p, "failed")
    /\ UNCHANGED <<store, strangers>>

-----------------------------------------------------------------------------
(* open_read_only and validate_schema, then the listener *)

Columns == {"v1", "v6"}       \* the migrations REQUIRED_SCHEMA's columns come from

Valid(s) == Columns \subseteq s.schema /\ s.ledger /\ KNOWN_MIGRATIONS \subseteq s.applied

\* heard: the shell that reads this process's output still runs; without it the
\* first log line after the probe ends the process.
Open(p, heard) ==
    /\ proc[p].at = "open" /\ ~proc[p].hung
    /\ Goes(p, IF ~Valid(store) THEN "refused" ELSE IF heard THEN "bind" ELSE "failed")
    /\ UNCHANGED <<store, strangers, events>>

\* The loops are started, then the kernel picks a port.
Bind(p) ==
    /\ proc[p].at = "bind"
    /\ \/ /\ \E q \in Ports \ Taken : proc' = [proc EXCEPT ![p].at = "announce", ![p].port = q]
          /\ UNCHANGED events
       \/ /\ Goes(p, "failed")
          /\ IF Ports \subseteq Taken THEN UNCHANGED events ELSE Event
    /\ UNCHANGED <<store, strangers>>

Announce(p, heard) ==
    /\ proc[p].at = "announce" /\ ~proc[p].hung
    /\ Goes(p, IF heard THEN "serve" ELSE "failed")
    /\ UNCHANGED <<store, strangers, events>>

-----------------------------------------------------------------------------
(* Around it *)

\* A crash, a kill, the end of a graceful shutdown.
Die(p) ==
    /\ Alive(p)
    /\ Goes(p, "failed")
    /\ Event
    /\ UNCHANGED <<store, strangers>>

\* It makes no step any more within anybody's deadline.
Hang(p) ==
    /\ Alive(p) /\ ~proc[p].hung
    /\ proc' = [proc EXCEPT ![p].hung = TRUE]
    /\ Event
    /\ UNCHANGED <<store, strangers>>

StartTool(p) ==
    /\ p \in Tools
    /\ proc[p].at = "unborn"
    /\ Goes(p, "config")
    /\ Event
    /\ UNCHANGED <<store, strangers>>

\* Another program listens on a port a backend has left.
StrangerBinds ==
    /\ \E p \in Backends : /\ proc[p].port \in Ports \ Taken
                          /\ strangers' = strangers \cup {proc[p].port}
    /\ Event /\ UNCHANGED <<store, proc>>

Silent(p) ==
    /\ ~proc[p].hung
    /\ \/ Configure(p) \/ Prepare(p) \/ CannotOpen(p) \/ Create(p) \/ EnsureBookkeeping(p)
       \/ Probe(p) \/ Apply(p) \/ ApplyFails(p) \/ Bind(p)

-----------------------------------------------------------------------------
StoreTypeOK ==
    /\ store \in StoreStates
    /\ proc \in [Procs -> ProcStates]
    /\ strangers \subseteq Ports

\* What a recorded migration has done to the store, its data included.
DidItsWork(m, s) ==
    /\ m \in s.schema
    /\ m = "v5b" => s.account = "bytes" \/ Collides(s)
    /\ m = "v6"  => \A b \in s.bodies : b.sealed
    /\ m = "v9"  => s.draft \notin {"plain", "malformed"}

HoldsWhatItRecords(s) == /\ \A m \in s.applied : DidItsWork(m, s)
                         /\ s.schema \subseteq s.applied

\* A file that is there before the first start was written by this program or one of
\* its predecessors, or is somebody else's and records nothing.
ASSUME StoresAssumption == \A s \in Stores : s \in StoreStates /\ HoldsWhatItRecords(s)

\* A migration is recorded exactly when its statements and its data rewrite are
\* in the store, whoever died or raced in between, and a backend serves only a
\* store whose v3 chain is complete (migrate, validate_schema). The v4 tail may
\* still be on its way when another process is migrating.
ServesAsRecorded ==
    /\ HoldsWhatItRecords(store)
    /\ \A p \in Procs : proc[p].at = "serve" => KNOWN_MIGRATIONS \subseteq store.applied

\* What main.rs:103-106 promises of prepare: a store that is missing is created,
\* one that predates this build's chain is migrated. No backend refuses a store
\* only this program has written.
OwnStoreIsServed ==
    \A p \in Backends : proc[p].at = "refused" => store.foreign
=============================================================================
