-------------------------------- MODULE Shell --------------------------------
(***************************************************************************)
(* The desktop shell around its backend: the keys file, the supervisor     *)
(* that starts a backend, waits for its port and its health, restarts it   *)
(* once and gives up, the restart command, the end of the app by its event *)
(* or by a signal, and the next launch on the same disk.                   *)
(*                                                                         *)
(* Every task is a thread of its own; an await or a lock is a point where  *)
(* the others run. The Rust backend is modelled: the shell learns its port *)
(* from its standard output.                                               *)
(***************************************************************************)
EXTENDS StoreBoot

CONSTANTS
    Restarts,       \* restart_sidecar commands that may be given in one launch
    MaxLaunches     \* bound on the launches of the app

Boot == "boot"
Exit == "exit"
Tasks == {Boot, Exit} \cup Restarts
NoChild == "no child"
SupervisorBudget == 1

ASSUME ShellAssumption == {Boot, Exit} \cap Restarts = {} /\ NoChild \notin Procs
                           /\ MaxLaunches \in Nat \ {0}

VARIABLES
    app,            \* whether the shell's process runs
    launches,       \* the launches so far
    status,         \* Inner::status, what boot_status answers
    supervising,    \* a supervisor loop runs
    shutdown,       \* the supervisor is to stop
    held,           \* Inner::child
    pid,            \* CHILD_PID, what a signal handler ends
    slot,           \* the reported port
    unread,         \* backends whose port line the pump has not read yet
    keys,           \* keys.json
    task            \* task[t]: where each thread of the shell is

flags   == <<app, launches, supervising, shutdown>>
handles == <<held, pid, slot, unread>>
disk    == <<store, keys>>
shell   == <<flags, handles, keys, status>>
vars    == <<flags, status, handles, keys, task, store, proc, strangers, events>>

Statuses == [phase : {"starting", "ready", "failed"}, port : Ports \cup {NoPort},
             child : Backends \cup {NoChild}, code : {"none", "spawn", "keys", "exited", "health-timeout"}]
Starting == [phase |-> "starting", port |-> NoPort, child |-> NoChild, code |-> "none"]
Ready(q, c)  == [phase |-> "ready", port |-> q, child |-> c, code |-> "none"]
Failed(code) == [phase |-> "failed", port |-> NoPort, child |-> NoChild, code |-> code]

TaskStates == [at : {"idle", "swap", "load", "write", "top", "spawn", "store", "health", "retry", "watch",
                     "judge", "release", "take", "term", "grace", "await", "ended", "gone"},
               left : 0..SupervisorBudget, child : Backends \cup {NoChild},
               why : {"none", "spawn", "exited", "health-timeout"},
               then : {"none", "retry", "await", "gone"}]
Idle == [at |-> "idle", left |-> 0, child |-> NoChild, why |-> "none", then |-> "none"]

Fresh == /\ app' = "running" /\ status' = Starting
         /\ supervising' = FALSE /\ shutdown' = FALSE
         /\ held' = NoChild /\ pid' = NoChild /\ slot' = NoPort /\ unread' = {}
         /\ task' = [t \in Tasks |-> IF t = Boot THEN [Idle EXCEPT !.at = "swap"] ELSE Idle]

Init ==
    /\ InitStore
    /\ keys = "none"
    /\ app = "running" /\ launches = 1 /\ status = Starting
    /\ supervising = FALSE /\ shutdown = FALSE
    /\ held = NoChild /\ pid = NoChild /\ slot = NoPort /\ unread = {}
    /\ task = [t \in Tasks |-> IF t = Boot THEN [Idle EXCEPT !.at = "swap"] ELSE Idle]

At(t, at) == task[t].at = at
Moves(t, at) == task' = [task EXCEPT ![t].at = at]
\* start_once or watch_child ended for a reason.
Fails(t, why, at, then) == task' = [task EXCEPT ![t].at = at, ![t].why = why, ![t].then = then]
world == <<store, proc, strangers>>
Outside == UNCHANGED <<world, events>>

-----------------------------------------------------------------------------
(* supervise: the guard, Context::load, the loop *)

Swap(t) ==
    /\ At(t, "swap")
    /\ supervising' = TRUE
    /\ Moves(t, IF supervising THEN "ended" ELSE "load")
    /\ Outside /\ UNCHANGED <<app, launches, shutdown, handles, keys, status>>

\* The binary, the data directory or the keys file: a failure without a retry.
LoadFails(t) ==
    /\ At(t, "load")
    /\ \E code \in {"spawn", "keys"} : status' = Failed(code)
    /\ Moves(t, "release")
    /\ IF keys = "partial" THEN UNCHANGED events ELSE Event
    /\ UNCHANGED world /\ UNCHANGED <<flags, handles, keys>>

\* load_or_generate: a file that is there is read, and a half-written one fails.
LoadKeys(t) ==
    /\ At(t, "load") /\ keys # "partial"
    /\ keys' = IF keys = "none" THEN "partial" ELSE keys
    /\ task' = [task EXCEPT ![t].at = IF keys = "none" THEN "write" ELSE "top", ![t].left = SupervisorBudget]
    /\ Outside /\ UNCHANGED <<flags, handles, status>>

WriteKeys(t) ==
    /\ At(t, "write")
    /\ keys' = "whole" /\ Moves(t, "top")
    /\ Outside /\ UNCHANGED <<flags, handles, status>>

Top(t) ==
    /\ At(t, "top")
    /\ status' = IF shutdown THEN status ELSE Starting
    /\ Moves(t, IF shutdown THEN "release" ELSE "spawn")
    /\ Outside /\ UNCHANGED <<flags, handles, keys>>

-----------------------------------------------------------------------------
(* start_once *)

Left == {c \in Backends : proc[c].at = "unborn"}

\* Which name a new process gets tells nothing apart.
Spawn(t) ==
    /\ At(t, "spawn")
    /\ slot' = NoPort
    /\ Left # {}
    /\ LET c == CHOOSE c \in Left : TRUE IN
         /\ proc' = [proc EXCEPT ![c] = [Unborn EXCEPT !.at = "config", !.shell = launches]]
         /\ task' = [task EXCEPT ![t].at = "store", ![t].child = c]
    /\ UNCHANGED <<flags, held, pid, unread, keys, status, store, strangers, events>>

SpawnFails(t) ==
    /\ At(t, "spawn")
    /\ slot' = NoPort
    /\ Fails(t, "spawn", "retry", "none")
    /\ IF Left # {} THEN Event ELSE UNCHANGED events
    /\ UNCHANGED world /\ UNCHANGED <<flags, held, pid, unread, keys, status>>

StoreChild(t) ==
    /\ At(t, "store")
    /\ pid' = task[t].child /\ held' = task[t].child
    /\ Moves(t, "health")
    /\ Outside /\ UNCHANGED <<flags, slot, unread, keys, status>>

Answers(q) == q \in strangers \/ \E c \in Backends : proc[c].at = "serve" /\ ~proc[c].hung /\ proc[c].port = q

\* wait_healthz: whatever listens on the reported port answers 2xx.
Healthy(t) ==
    /\ At(t, "health")
    /\ slot # NoPort /\ Answers(slot)
    /\ status' = Ready(slot, task[t].child)
    /\ Moves(t, "watch")
    /\ Outside /\ UNCHANGED <<flags, handles, keys>>

HasExited == held # NoChild /\ ~Alive(held)

\* Mutant: a start that failed leaves its child behind.
GivesUpOn(t, why) == Fails(t, why, "retry", "none")

\* terminate_child, then the error.
Abandons(t, why) == Fails(t, why, "take", "retry")

HealthExited(t) ==
    /\ At(t, "health") /\ HasExited
    /\ Abandons(t, "exited")
    /\ Outside /\ UNCHANGED <<flags, handles, keys, status>>

Stuck == \/ proc[held].hung
         \/ proc[held].at = "serve" /\ slot # NoPort /\ ~Answers(slot)

\* Mutant: the deadline counts only while there is a child to wait for.
WithAChild == held # NoChild /\ Stuck

Overdue == held # NoChild => Stuck

\* 20 s went by: the backend hangs, another task has taken it away, or nobody
\* answers on the port the slot holds.
HealthTimeout(t) ==
    /\ At(t, "health")
    /\ Overdue
    /\ Abandons(t, "health-timeout")
    /\ Outside /\ UNCHANGED <<flags, handles, keys, status>>

\* Mutant: a failure after the last restart restarts once more.
AgainAlways(t) ==
    /\ task' = [task EXCEPT ![t].at = "top", ![t].left = @ - 1, ![t].child = NoChild, ![t].why = "none"]
    /\ UNCHANGED status

\* The budget is one for failed starts and exits together.
Again(t) ==
    /\ task[t].left > 0
    /\ task' = [task EXCEPT ![t].at = "top", ![t].left = @ - 1, ![t].child = NoChild, ![t].why = "none"]
    /\ UNCHANGED status

Resigns(t) ==
    /\ task[t].left = 0
    /\ status' = Failed(task[t].why)
    /\ Moves(t, "release")

Retry(t) ==
    /\ At(t, "retry")
    /\ Again(t) \/ Resigns(t)
    /\ Outside /\ UNCHANGED <<flags, handles, keys>>

-----------------------------------------------------------------------------
(* watch_child and what supervise makes of it *)

WatchStops(t) ==
    /\ At(t, "watch") /\ shutdown
    /\ Fails(t, "none", "judge", "none")
    /\ Outside /\ UNCHANGED <<flags, handles, keys, status>>

WatchExit(t) ==
    /\ At(t, "watch")
    /\ held = NoChild \/ HasExited
    /\ pid' = IF held = NoChild THEN pid ELSE NoChild
    /\ Fails(t, "exited", "judge", "none")
    /\ Outside /\ UNCHANGED <<flags, held, slot, unread, keys, status>>

Judge(t) ==
    /\ At(t, "judge")
    /\ \/ /\ shutdown \/ task[t].why = "none"
          /\ Moves(t, "release") /\ UNCHANGED status
       \/ /\ ~shutdown /\ task[t].why # "none"
          /\ Again(t) \/ Resigns(t)
    /\ Outside /\ UNCHANGED <<flags, handles, keys>>

Release(t) ==
    /\ At(t, "release")
    /\ supervising' = FALSE
    /\ task' = [task EXCEPT ![t] = [Idle EXCEPT !.at = "ended"]]
    /\ Outside /\ UNCHANGED <<app, launches, shutdown, handles, keys, status>>

-----------------------------------------------------------------------------
(* terminate_child: take the handle, SIGTERM, wait, SIGKILL *)

Take(t) ==
    /\ At(t, "take")
    /\ task' = [task EXCEPT ![t].at = IF held = NoChild THEN task[t].then ELSE "term", ![t].child = held]
    /\ held' = NoChild
    /\ pid' = IF held = NoChild THEN pid ELSE NoChild
    /\ Outside /\ UNCHANGED <<flags, slot, unread, keys, status>>

\* The child ends within the grace, or at its end.
Terminated(t) ==
    /\ At(t, "grace")
    /\ proc' = IF Alive(task[t].child) THEN Runs(task[t].child, "failed") ELSE proc
    /\ task' = [task EXCEPT ![t].at = task[t].then, ![t].child = NoChild, ![t].then = "none"]
    /\ UNCHANGED <<shell, store, strangers, events>>

Sigterm(t) ==
    /\ At(t, "term")
    /\ Moves(t, "grace")
    /\ Outside /\ UNCHANGED shell

-----------------------------------------------------------------------------
(* restart_sidecar *)

Restart(r) ==
    /\ app = "running" /\ At(r, "idle")
    /\ shutdown' = TRUE
    /\ Fails(r, "none", "take", "await")
    /\ Event /\ UNCHANGED world /\ UNCHANGED <<app, launches, supervising, handles, keys, status>>

\* The supervisor stopped, or 7 s went by.
StartOver(r) ==
    /\ At(r, "await")
    /\ shutdown' = FALSE
    /\ status' = Starting
    /\ task' = [task EXCEPT ![r] = [Idle EXCEPT !.at = "swap"]]
    /\ Outside /\ UNCHANGED <<app, launches, supervising, handles, keys>>

-----------------------------------------------------------------------------
(* The end of the app and the next launch *)

\* RunEvent::Exit: shutdown_all.
ExitRequested ==
    /\ app = "running" /\ At(Exit, "idle")
    /\ shutdown' = TRUE
    /\ Fails(Exit, "none", "take", "gone")
    /\ Event /\ UNCHANGED world /\ UNCHANGED <<app, launches, supervising, handles, keys, status>>

Ends == /\ app' = "gone"
        /\ task' = [t \in Tasks |-> Idle]
        /\ held' = NoChild /\ pid' = NoChild /\ slot' = NoPort /\ unread' = {}
        /\ status' = Starting /\ supervising' = FALSE /\ shutdown' = FALSE

Leave ==
    /\ app = "running" /\ At(Exit, "gone")
    /\ Ends
    /\ Outside /\ UNCHANGED <<launches, keys>>

\* SIGTERM or SIGINT to the shell: the handler ends CHILD_PID and the process.
Signal ==
    /\ app = "running"
    /\ proc' = IF pid # NoChild /\ Alive(pid) THEN Runs(pid, "failed") ELSE proc
    /\ Ends /\ Event
    /\ UNCHANGED <<launches, keys, store, strangers>>

Launch ==
    /\ app = "gone" /\ launches < MaxLaunches
    /\ launches' = launches + 1
    /\ Fresh
    /\ Outside /\ UNCHANGED keys

-----------------------------------------------------------------------------
(* The backends, and the thread that reads what they print *)

Heard(p) == p \in Tools \/ (app = "running" /\ proc[p].shell = launches)

Backend(p) ==
    /\ Silent(p) \/ Open(p, Heard(p))
    /\ UNCHANGED <<shell, task>>

Happens(p) ==
    /\ Die(p) \/ Hang(p) \/ StartTool(p)
    /\ UNCHANGED <<shell, task>>

Prints(p) ==
    /\ Announce(p, Heard(p))
    /\ unread' = IF Heard(p) THEN unread \cup {p} ELSE unread
    /\ UNCHANGED <<flags, held, pid, slot, keys, status, task>>

\* pump: the first line to arrive takes the slot, whoever printed it.
Pump(p) ==
    /\ p \in unread
    /\ unread' = unread \ {p}
    /\ slot' = IF slot = NoPort THEN proc[p].port ELSE slot
    /\ Outside /\ UNCHANGED <<flags, held, pid, keys, status, task>>

Stranger == StrangerBinds /\ UNCHANGED <<shell, task>>

-----------------------------------------------------------------------------
Supervises(t) ==
    \/ Swap(t) \/ LoadFails(t) \/ LoadKeys(t) \/ WriteKeys(t) \/ Top(t) \/ Spawn(t) \/ SpawnFails(t)
    \/ StoreChild(t) \/ Healthy(t) \/ HealthExited(t) \/ HealthTimeout(t) \/ Retry(t)
    \/ WatchStops(t) \/ WatchExit(t) \/ Judge(t) \/ Release(t)
    \/ Take(t) \/ Sigterm(t) \/ Terminated(t)

Next ==
    \/ \E t \in Tasks : Supervises(t)
    \/ \E r \in Restarts : Restart(r) \/ StartOver(r)
    \/ ExitRequested \/ Leave \/ Signal \/ Launch
    \/ \E p \in Procs : Backend(p) \/ Happens(p)
    \/ \E p \in Backends : Prints(p) \/ Pump(p)
    \/ Stranger

\* The threads of the shell are scheduled and its deadlines pass; so is a
\* backend, unless it hangs.
Fairness ==
    /\ \A t \in Tasks : WF_vars(Supervises(t) \/ (t \in Restarts /\ StartOver(t)))
    /\ \A p \in Backends : WF_vars(Backend(p)) /\ WF_vars(Prints(p)) /\ WF_vars(Pump(p))
    /\ WF_vars(Leave)

Spec == Init /\ [][Next]_vars /\ Fairness

-----------------------------------------------------------------------------
TypeOK ==
    /\ StoreTypeOK
    /\ app \in {"running", "gone"} /\ launches \in 1..MaxLaunches
    /\ status \in Statuses
    /\ supervising \in BOOLEAN /\ shutdown \in BOOLEAN
    /\ held \in Backends \cup {NoChild} /\ pid \in Backends \cup {NoChild}
    /\ slot \in Ports \cup {NoPort} /\ unread \subseteq Backends
    /\ keys \in {"none", "partial", "whole"}
    /\ task \in [Tasks -> TaskStates]

Running == {c \in Backends : Alive(c)}
Untouched == app = "running" /\ launches = 1
             /\ \A t \in Restarts \cup {Exit} : At(t, "idle")

\* Until somebody restarts or closes the app, one backend at most works on the
\* store: a start that failed has ended its child before the next one is
\* spawned, and an exit is followed by one start (start_once, supervise).
OneBackend == Untouched => Cardinality(Running) <= 1

Settled == {"idle", "watch", "ended", "gone"}

\* Every start comes to an end: each supervisor, each restart and the exit
\* reaches a backend it watches or gives up, also when a backend hangs without
\* a word, is killed under its supervisor, or another restart interferes.
StartsSettle == []<>(\A t \in Tasks : task[t].at \in Settled)

\* state.rs:247, ipc-contract.md:42: no orphans. When the app is gone no backend
\* goes on serving.
NoOrphans == app = "gone" => \A c \in Backends : proc[c].at # "serve"

\* state.rs:73-81: the port and the pid of a ready status are one backend's.
ReadyNamesOneBackend ==
    status.phase = "ready" => proc[status.child].port = status.port

\* sidecar.rs:461-462: a restart ends with a backend that is ready, or a failure.
RestartsReport == \A r \in Restarts :
    [](At(r, "await") => <>(status.phase # "starting" \/ app = "gone"))
=============================================================================
