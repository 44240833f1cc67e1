--------------------------- MODULE BundledRuntime ---------------------------
(***************************************************************************)
(* BundledAfRuntime: AF core and the southbound handlers in one process.   *)
(* main starts the handlers, each on a thread, then AfOrchestrator, then a *)
(* thread that cleans up subscriptions, and waits until the orchestrator   *)
(* no longer runs.  requestShutdown comes from a signal, from the thread   *)
(* of a handler that fails to start, or from main; main alone joins the    *)
(* threads and destroys the objects (finalizeShutdown).                    *)
(*                                                                         *)
(* One action is one critical section of lifecycle_mutex_ or wait_mutex_,  *)
(* or the code between two of them.  A signal is handled on main, which    *)
(* goes on when the handler returns.                                       *)
(***************************************************************************)
EXTENDS Naturals, FiniteSets

CONSTANTS
  Handlers,    \* the enabled southbound handlers
  MaxSignals,  \* bound on the signals the process receives
  MayThrow     \* whether starting a part of the process may throw

ASSUME RuntimeAssumption ==
  /\ MaxSignals \in Nat /\ MayThrow \in BOOLEAN
  /\ Handlers \cap {"main", "signal"} = {}

\* Who may be inside requestShutdown.
Actors == Handlers \cup {"main", "signal"}

\* What AfOrchestrator::start starts.
Parts == {"services", "sessions", "notifications"}

VARIABLES
  state,       \* state_
  core,        \* orchestrator_ is not null
  owned,       \* southbound_handlers_ is not empty
  parts,       \* the parts of AF core that are started
  running,     \* isRunning() of the orchestrator
  up,          \* the southbound handlers that are started
  main,        \* the next step of the main thread
  threw,       \* whether initialize() or start() left by an exception
  thread,      \* per handler, its thread: none, new, done
  cleaner,     \* the cleanup thread: none, wait, use, done
  shutdown,    \* per actor: out, or the next step of requestShutdown
  accepted,    \* history: the state_ in which a shutdown was accepted
  signals

threads == <<thread, cleaner>>
objects == <<core, owned, parts, running, up>>
vars    == <<state, core, owned, parts, running, up, main, threw, thread, cleaner, shutdown,
             accepted, signals>>

-----------------------------------------------------------------------------
(* requestShutdown, by any actor *)

Enter(a, next) == shutdown' = [shutdown EXCEPT ![a] = next]

\* Faulty variant: a shutdown under way is not noticed.
Accept_again(a) ==
  \/ state = "stopped" /\ UNCHANGED <<state, shutdown, accepted>>
  \/ /\ state # "stopped"
     /\ state' = "stopping" /\ accepted' = state
     /\ Enter(a, "check_core")

\* The first critical section: nothing more happens when the runtime is stopping or
\* stopped.
Accept(a) ==
  \/ state \in {"stopping", "stopped"} /\ UNCHANGED <<state, shutdown, accepted>>
  \/ /\ state \in {"starting", "running"}
     /\ state' = "stopping" /\ accepted' = state
     /\ Enter(a, "check_core")

\* AfOrchestrator::stop returns at once when the orchestrator is not running.
CheckCore(a) ==
  /\ shutdown[a] = "check_core"
  /\ Enter(a, IF core /\ running THEN "stop_core" ELSE "stop_handlers")
  /\ UNCHANGED <<state, objects, main, threw, threads, accepted, signals>>

StopCore(a) ==
  /\ shutdown[a] = "stop_core"
  /\ parts' = {} /\ running' = FALSE
  /\ Enter(a, "stop_handlers")
  /\ UNCHANGED <<state, core, owned, up, main, threw, threads, accepted, signals>>

StopHandlers(a) ==
  /\ shutdown[a] = "stop_handlers"
  /\ up' = {}
  /\ Enter(a, "out")
  /\ UNCHANGED <<state, core, owned, parts, running, main, threw, threads, accepted, signals>>

\* A signal interrupts main between any two of its steps.
Signal ==
  /\ signals < MaxSignals /\ main # "end" /\ shutdown["signal"] = "out"
  /\ signals' = signals + 1
  /\ Accept("signal")
  /\ UNCHANGED <<objects, main, threw, threads>>

-----------------------------------------------------------------------------
(* The threads of the southbound handlers *)

StartHandler(h) ==
  /\ thread[h] = "new"
  /\ up' = up \cup {h}
  /\ thread' = [thread EXCEPT ![h] = "done"]
  /\ UNCHANGED <<state, core, owned, parts, running, main, threw, cleaner, shutdown, accepted, signals>>

HandlerFails(h) ==
  /\ MayThrow /\ thread[h] = "new"
  /\ thread' = [thread EXCEPT ![h] = "done"]
  /\ Accept(h)
  /\ UNCHANGED <<objects, main, threw, cleaner, signals>>

-----------------------------------------------------------------------------
(* The cleanup thread *)

\* Ten minutes have passed: it leaves the lock with a pointer to the orchestrator.
CleanerWakes ==
  /\ cleaner = "wait" /\ state \in {"starting", "running"}
  /\ cleaner' = "use"
  /\ UNCHANGED <<state, objects, main, threw, thread, shutdown, accepted, signals>>

cleanup_expired_subscriptions ==
  /\ cleaner = "use"
  /\ cleaner' = "wait"
  /\ UNCHANGED <<state, objects, main, threw, thread, shutdown, accepted, signals>>

\* Faulty variant: waits for the end of the shutdown it is part of.
CleanerExits_late ==
  /\ cleaner = "wait" /\ state = "stopped"
  /\ cleaner' = "done"
  /\ UNCHANGED <<state, objects, main, threw, thread, shutdown, accepted, signals>>

CleanerExits ==
  /\ cleaner = "wait" /\ state \in {"stopping", "stopped"}
  /\ cleaner' = "done"
  /\ UNCHANGED <<state, objects, main, threw, thread, shutdown, accepted, signals>>

-----------------------------------------------------------------------------
(* The main thread *)

\* main is at a step and neither interrupted nor inside requestShutdown.
At(step) == main = step /\ shutdown["main"] = "out" /\ shutdown["signal"] = "out"

initialize ==
  /\ At("initialize")
  /\ core' = TRUE /\ owned' = TRUE
  /\ main' = "start"
  /\ UNCHANGED <<state, parts, running, up, threw, threads, shutdown, accepted, signals>>

\* An exception leaves initialize() with some of the objects built; main then destroys
\* the runtime, whose destructor shuts down what there is.
InitializeThrows ==
  /\ MayThrow /\ At("initialize")
  /\ owned' \in BOOLEAN
  /\ core' \in {FALSE, owned'}
  /\ threw' = TRUE
  /\ main' = "request"
  /\ UNCHANGED <<state, parts, running, up, threads, shutdown, accepted, signals>>

start ==
  /\ At("start")
  /\ state' = "starting"
  /\ main' = "spawn"
  /\ UNCHANGED <<objects, threw, threads, shutdown, accepted, signals>>

SpawnHandlers ==
  /\ At("spawn")
  /\ thread' = [h \in Handlers |-> "new"]
  /\ main' = "services"
  /\ UNCHANGED <<state, objects, threw, cleaner, shutdown, accepted, signals>>

\* AfOrchestrator::start, one part after the other.
StartPart(part, next) ==
  /\ At(part)
  /\ parts' = parts \cup {part}
  /\ main' = next
  /\ UNCHANGED <<state, core, owned, running, up, threw, threads, shutdown, accepted, signals>>

SetRunning ==
  /\ At("set_running")
  /\ running' = TRUE
  /\ main' = "cleaner"
  /\ UNCHANGED <<state, core, owned, parts, up, threw, threads, shutdown, accepted, signals>>

SpawnCleaner ==
  /\ At("cleaner")
  /\ cleaner' = "wait"
  /\ main' = "set_state"
  /\ UNCHANGED <<state, objects, threw, thread, shutdown, accepted, signals>>

SetState ==
  /\ At("set_state")
  /\ state' = IF state = "starting" THEN "running" ELSE state
  /\ main' = "wait"
  /\ UNCHANGED <<objects, threw, threads, shutdown, accepted, signals>>

\* The exceptions that start() catches before it shuts down and throws again.
StartThrows ==
  /\ MayThrow /\ \E step \in Parts \cup {"cleaner"} : At(step)
  /\ threw' = TRUE
  /\ main' = "request"
  /\ UNCHANGED <<state, objects, threads, shutdown, accepted, signals>>

\* wait: AfOrchestrator::wait, then requestShutdown and finalizeShutdown.
wait ==
  /\ At("wait") /\ ~running
  /\ main' = "request"
  /\ UNCHANGED <<state, objects, threw, threads, shutdown, accepted, signals>>

requestShutdown ==
  /\ At("request")
  /\ Accept("main")
  /\ main' = "join_handlers"
  /\ UNCHANGED <<objects, threw, threads, signals>>

\* Faulty variant: the threads are detached, not joined.
JoinHandlers_detached ==
  /\ At("join_handlers")
  /\ main' = "join_cleaner"
  /\ UNCHANGED <<state, objects, threw, threads, shutdown, accepted, signals>>

JoinHandlers ==
  /\ At("join_handlers")
  /\ \A h \in Handlers : thread[h] # "new" /\ shutdown[h] = "out"
  /\ thread' = [h \in Handlers |-> "none"]
  /\ main' = "join_cleaner"
  /\ UNCHANGED <<state, objects, threw, cleaner, shutdown, accepted, signals>>

JoinCleaner ==
  /\ At("join_cleaner") /\ cleaner \in {"none", "done"}
  /\ cleaner' = "none"
  /\ main' = "reset"
  /\ UNCHANGED <<state, objects, threw, thread, shutdown, accepted, signals>>

\* The destructors of the orchestrator and of its managers stop what is started.
ResetCore ==
  /\ At("reset")
  /\ core' = FALSE /\ parts' = {} /\ running' = FALSE
  /\ main' = "clear"
  /\ UNCHANGED <<state, owned, up, threw, threads, shutdown, accepted, signals>>

\* Faulty variant: the handlers' destructors do not stop them.
ClearHandlers_running ==
  /\ At("clear")
  /\ owned' = FALSE
  /\ main' = "set_stopped"
  /\ UNCHANGED <<state, core, parts, running, up, threw, threads, shutdown, accepted, signals>>

ClearHandlers ==
  /\ At("clear")
  /\ owned' = FALSE /\ up' = {}
  /\ main' = "set_stopped"
  /\ UNCHANGED <<state, core, parts, running, threw, threads, shutdown, accepted, signals>>

SetStopped ==
  /\ At("set_stopped")
  /\ state' = "stopped"
  /\ main' = "end"
  /\ UNCHANGED <<objects, threw, threads, shutdown, accepted, signals>>

-----------------------------------------------------------------------------
Init ==
  /\ state = "stopped"
  /\ core = FALSE /\ owned = FALSE
  /\ parts = {} /\ running = FALSE /\ up = {}
  /\ main = "initialize" /\ threw = FALSE
  /\ thread = [h \in Handlers |-> "none"]
  /\ cleaner = "none"
  /\ shutdown = [a \in Actors |-> "out"]
  /\ accepted = "none"
  /\ signals = 0

MainStep ==
  \/ initialize \/ InitializeThrows \/ start \/ SpawnHandlers
  \/ StartPart("services", "sessions") \/ StartPart("sessions", "notifications")
  \/ StartPart("notifications", "set_running")
  \/ SetRunning \/ SpawnCleaner \/ SetState \/ StartThrows
  \/ wait \/ requestShutdown
  \/ JoinHandlers \/ JoinCleaner \/ ResetCore \/ ClearHandlers \/ SetStopped

Stopping(a)      == CheckCore(a) \/ StopCore(a) \/ StopHandlers(a)
HandlerThread(h) == StartHandler(h) \/ HandlerFails(h)
CleanerThread    == CleanerWakes \/ cleanup_expired_subscriptions \/ CleanerExits

Next ==
  \/ MainStep \/ Signal \/ CleanerThread
  \/ \E h \in Handlers : HandlerThread(h)
  \/ \E a \in Actors : Stopping(a)

\* Every thread is scheduled; signals need not come and nothing need be thrown.
Fairness ==
  /\ WF_vars(MainStep) /\ WF_vars(CleanerThread)
  /\ \A h \in Handlers : WF_vars(HandlerThread(h))
  /\ \A a \in Actors : WF_vars(Stopping(a))

Spec     == Init /\ [][Next]_vars
FairSpec == Spec /\ Fairness

-----------------------------------------------------------------------------
(* Properties *)

Steps == {"initialize", "start", "spawn", "services", "sessions", "notifications", "set_running",
          "cleaner", "set_state", "wait", "request", "join_handlers", "join_cleaner", "reset",
          "clear", "set_stopped", "end"}

\* The types of the lifecycle state, the objects and the threads' positions.
TypeOK ==
  /\ state \in {"stopped", "starting", "running", "stopping"}
  /\ core \in BOOLEAN /\ owned \in BOOLEAN /\ running \in BOOLEAN /\ threw \in BOOLEAN
  /\ parts \in SUBSET Parts /\ up \in SUBSET Handlers
  /\ main \in Steps
  /\ thread \in [Handlers -> {"none", "new", "done"}]
  /\ cleaner \in {"none", "wait", "use", "done"}
  /\ shutdown \in [Actors -> {"out", "check_core", "stop_core", "stop_handlers"}]
  /\ accepted \in {"none", "starting", "running"}
  /\ signals \in Nat

\* Nobody works on the orchestrator or the handlers once finalizeShutdown has
\* destroyed them: neither the cleanup thread, which uses its pointer without the
\* lock, nor a handler's thread, nor a requestShutdown that overlaps main's.
NoUseAfterReset ==
  /\ \A a \in Actors : shutdown[a] \in {"check_core", "stop_core"} => core
  /\ \A a \in Actors : shutdown[a] = "stop_handlers" => owned
  /\ cleaner = "use" => core
  /\ \A h \in Handlers : thread[h] = "new" => owned

\* Signals, failing handlers and main never stop the components at the same time
\* (the managers join their threads in stop and must not be stopped twice at once).
OneShutdown ==
  \A a, b \in Actors : (shutdown[a] # "out" /\ shutdown[b] # "out") => a = b

\* When main is done nothing runs any more, also not a handler whose thread came to
\* start it only after requestShutdown had stopped it.
StoppedIsQuiet ==
  main = "end" =>
    /\ state = "stopped" /\ ~running
    /\ parts = {} /\ up = {}
    /\ cleaner = "none" /\ \A h \in Handlers : thread[h] = "none"

\* A shutdown requested while the runtime is running completes, and so does one after
\* a failed start: main is woken, no thread it joins waits for it in turn.
ShutdownCompletes ==
  (state = "stopping" /\ (accepted = "running" \/ threw)) ~> (state = "stopped")

-----------------------------------------------------------------------------
(* Statements of the repository that the code does not meet. *)

\* main.cpp: requestShutdown is for "graceful shutdown": every request that is
\* accepted (state_ becomes stopping) ends with the runtime stopped.
AcceptedShutdownCompletes == (state = "stopping") ~> (state = "stopped")
=============================================================================
