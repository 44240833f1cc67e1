----------------------- MODULE BundledRuntime_proofs -----------------------
(***************************************************************************)
(* Proofs about BundledRuntime, for every set of handlers and any number   *)
(* of signals, whether or not starting a part may throw.                   *)
(***************************************************************************)
EXTENDS BundledRuntime, TLAPS

-----------------------------------------------------------------------------
(* Inductive invariants *)

PastJoin == {"join_cleaner", "reset", "clear", "set_stopped", "end"}
Started  == {"spawn", "set_running", "cleaner", "set_state", "wait"} \cup Parts

\* Whoever is inside requestShutdown keeps state_ at stopping, until main has joined
\* everyone; so nobody else gets in.
ShutdownInv ==
  /\ \A a \in Actors : shutdown[a] # "out" => state = "stopping"
  /\ main \in {"join_handlers"} \cup PastJoin => state \in {"stopping", "stopped"}
  /\ main \in PastJoin => \A a \in Actors : shutdown[a] = "out"

\* The objects and the threads live between start() and finalizeShutdown.
LifetimeInv ==
  /\ main \in {"initialize", "start"} => state = "stopped"
  /\ main \in Started => state # "stopped"
  /\ (main = "start" \/ (state # "stopped" /\ main \notin {"clear", "set_stopped"})) => core
  /\ (main = "start" \/ (state # "stopped" /\ main # "set_stopped")) => owned
  /\ \A h \in Handlers : thread[h] = "new" => state # "stopped"
  /\ main \in PastJoin => \A h \in Handlers : thread[h] = "none"
  /\ cleaner \in {"wait", "use"} => state # "stopped"
  /\ main \in PastJoin \ {"join_cleaner"} => cleaner = "none"
  /\ main \in {"clear", "set_stopped", "end"} => parts = {} /\ ~running
  /\ main \in {"set_stopped", "end"} => up = {}
  /\ main = "end" => state = "stopped"

-----------------------------------------------------------------------------
(* The invariants are inductive, one step per action. *)

\* The types hold before initialize().
LEMMA InitType == Init => TypeOK
<1> SUFFICES ASSUME Init PROVE TypeOK
  OBVIOUS
<1> USE DEF Init
<1>1. parts \in SUBSET Parts /\ up \in SUBSET Handlers
  OBVIOUS
<1>2. core \in BOOLEAN /\ owned \in BOOLEAN /\ running \in BOOLEAN /\ threw \in BOOLEAN
  OBVIOUS
<1>3. /\ thread \in [Handlers -> {"none", "new", "done"}]
      /\ shutdown \in [Actors -> {"out", "check_core", "stop_core", "stop_handlers"}]
  OBVIOUS
<1> QED
  BY <1>1, <1>2, <1>3 DEF TypeOK, Steps

\* Every step keeps the types.
LEMMA TypeStep == TypeOK /\ [Next]_vars => TypeOK'
<1> SUFFICES ASSUME TypeOK, [Next]_vars PROVE TypeOK'
  OBVIOUS
<1> USE DEF TypeOK, Actors, Steps, objects, threads
<1>1. TypeOK'
  <2>1. CASE initialize
    BY <2>1 DEF initialize
  <2>2. CASE InitializeThrows
    BY <2>2 DEF InitializeThrows
  <2>3. CASE start
    BY <2>3 DEF start
  <2>4. CASE SpawnHandlers
    BY <2>4 DEF SpawnHandlers
  <2>5. ASSUME NEW part \in Parts, NEW next \in Parts \cup {"set_running"}, StartPart(part, next) PROVE TypeOK'
    BY <2>5 DEF StartPart, Parts
  <2>6. CASE SetRunning
    BY <2>6 DEF SetRunning
  <2>7. CASE SpawnCleaner
    BY <2>7 DEF SpawnCleaner
  <2>8. CASE SetState
    BY <2>8 DEF SetState
  <2>9. CASE StartThrows
    BY <2>9 DEF StartThrows, Parts
  <2>10. CASE wait
    BY <2>10 DEF wait
  <2>11. CASE requestShutdown
    BY <2>11 DEF requestShutdown, Accept, Enter
  <2>12. CASE JoinHandlers
    BY <2>12 DEF JoinHandlers
  <2>13. CASE JoinCleaner
    BY <2>13 DEF JoinCleaner
  <2>14. CASE ResetCore
    BY <2>14 DEF ResetCore
  <2>15. CASE ClearHandlers
    BY <2>15 DEF ClearHandlers
  <2>16. CASE SetStopped
    BY <2>16 DEF SetStopped
  <2>17. CASE Signal
    BY <2>17 DEF Signal, Accept, Enter
  <2>18. CASE CleanerWakes
    BY <2>18 DEF CleanerWakes
  <2>19. CASE cleanup_expired_subscriptions
    BY <2>19 DEF cleanup_expired_subscriptions
  <2>20. CASE CleanerExits
    BY <2>20 DEF CleanerExits
  <2>21. ASSUME NEW h \in Handlers, StartHandler(h) PROVE TypeOK'
    BY <2>21 DEF StartHandler
  <2>22. ASSUME NEW h \in Handlers, HandlerFails(h) PROVE TypeOK'
    BY <2>22 DEF HandlerFails, Accept, Enter
  <2>23. ASSUME NEW a \in Actors, CheckCore(a) PROVE TypeOK'
    BY <2>23 DEF CheckCore, Enter
  <2>24. ASSUME NEW a \in Actors, StopCore(a) PROVE TypeOK'
    <3>1. shutdown' \in [Actors -> {"out", "check_core", "stop_core", "stop_handlers"}]
      BY <2>24 DEF StopCore, Enter
    <3>2. parts' \in SUBSET Parts /\ running' \in BOOLEAN
      BY <2>24 DEF StopCore
    <3> QED
      BY <2>24, <3>1, <3>2 DEF StopCore
  <2>25. ASSUME NEW a \in Actors, StopHandlers(a) PROVE TypeOK'
    BY <2>25 DEF StopHandlers, Enter
  <2>26. CASE UNCHANGED vars
    BY <2>26 DEF vars
  <2> QED
    BY <2>1, <2>2, <2>3, <2>4, <2>5, <2>6, <2>7, <2>8, <2>9, <2>10, <2>11, <2>12,
       <2>13, <2>14, <2>15, <2>16, <2>17, <2>18, <2>19, <2>20, <2>21, <2>22, <2>23,
       <2>24, <2>25, <2>26
    DEF Next, MainStep, CleanerThread, HandlerThread, Stopping, Parts
<1> QED
  BY <1>1

\* Every step keeps state_ at stopping as long as someone is inside requestShutdown.
LEMMA ShutdownStep == TypeOK /\ ShutdownInv /\ LifetimeInv /\ [Next]_vars => ShutdownInv'
<1> SUFFICES ASSUME TypeOK, ShutdownInv, LifetimeInv, [Next]_vars PROVE ShutdownInv'
  OBVIOUS
<1> USE DEF TypeOK, ShutdownInv, LifetimeInv, PastJoin, Started, Parts, At, Actors, objects, threads
<1>1. ShutdownInv'
  <2>1. CASE initialize
    BY <2>1 DEF initialize
  <2>2. CASE InitializeThrows
    BY <2>2 DEF InitializeThrows
  <2>3. CASE start
    BY <2>3 DEF start
  <2>4. CASE SpawnHandlers
    BY <2>4 DEF SpawnHandlers
  <2>5. ASSUME NEW part \in Parts, NEW next \in Parts \cup {"set_running"}, StartPart(part, next) PROVE ShutdownInv'
    BY <2>5 DEF StartPart, Parts
  <2>6. CASE SetRunning
    BY <2>6 DEF SetRunning
  <2>7. CASE SpawnCleaner
    BY <2>7 DEF SpawnCleaner
  <2>8. CASE SetState
    BY <2>8 DEF SetState
  <2>9. CASE StartThrows
    BY <2>9 DEF StartThrows, Parts
  <2>10. CASE wait
    BY <2>10 DEF wait
  <2>11. CASE requestShutdown
    BY <2>11 DEF requestShutdown, Accept, Enter
  <2>12. CASE JoinHandlers
    BY <2>12 DEF JoinHandlers
  <2>13. CASE JoinCleaner
    BY <2>13 DEF JoinCleaner
  <2>14. CASE ResetCore
    BY <2>14 DEF ResetCore
  <2>15. CASE ClearHandlers
    BY <2>15 DEF ClearHandlers
  <2>16. CASE SetStopped
    BY <2>16 DEF SetStopped
  <2>17. CASE Signal
    BY <2>17 DEF Signal, Accept, Enter
  <2>18. CASE CleanerWakes
    BY <2>18 DEF CleanerWakes
  <2>19. CASE cleanup_expired_subscriptions
    BY <2>19 DEF cleanup_expired_subscriptions
  <2>20. CASE CleanerExits
    BY <2>20 DEF CleanerExits
  <2>21. ASSUME NEW h \in Handlers, StartHandler(h) PROVE ShutdownInv'
    BY <2>21 DEF StartHandler
  <2>22. ASSUME NEW h \in Handlers, HandlerFails(h) PROVE ShutdownInv'
    BY <2>22 DEF HandlerFails, Accept, Enter
  <2>23. ASSUME NEW a \in Actors, CheckCore(a) PROVE ShutdownInv'
    BY <2>23 DEF CheckCore, Enter
  <2>24. ASSUME NEW a \in Actors, StopCore(a) PROVE ShutdownInv'
    BY <2>24 DEF StopCore, Enter
  <2>25. ASSUME NEW a \in Actors, StopHandlers(a) PROVE ShutdownInv'
    BY <2>25 DEF StopHandlers, Enter
  <2>26. CASE UNCHANGED vars
    BY <2>26 DEF vars
  <2> QED
    BY <2>1, <2>2, <2>3, <2>4, <2>5, <2>6, <2>7, <2>8, <2>9, <2>10, <2>11, <2>12,
       <2>13, <2>14, <2>15, <2>16, <2>17, <2>18, <2>19, <2>20, <2>21, <2>22, <2>23,
       <2>24, <2>25, <2>26
    DEF Next, MainStep, CleanerThread, HandlerThread, Stopping, Parts
<1> QED
  BY <1>1

\* Every step keeps the objects alive while a thread may use them.
LEMMA LifetimeStep == TypeOK /\ ShutdownInv /\ LifetimeInv /\ [Next]_vars => LifetimeInv'
<1> SUFFICES ASSUME TypeOK, ShutdownInv, LifetimeInv, [Next]_vars PROVE LifetimeInv'
  OBVIOUS
<1> USE DEF TypeOK, ShutdownInv, LifetimeInv, PastJoin, Started, Parts, At, Actors, objects, threads
<1>1. LifetimeInv'
  <2>1. CASE initialize
    BY <2>1 DEF initialize
  <2>2. CASE InitializeThrows
    BY <2>2 DEF InitializeThrows
  <2>3. CASE start
    BY <2>3 DEF start
  <2>4. CASE SpawnHandlers
    BY <2>4 DEF SpawnHandlers
  <2>5. ASSUME NEW part \in Parts, NEW next \in Parts \cup {"set_running"}, StartPart(part, next) PROVE LifetimeInv'
    BY <2>5 DEF StartPart, Parts
  <2>6. CASE SetRunning
    BY <2>6 DEF SetRunning
  <2>7. CASE SpawnCleaner
    BY <2>7 DEF SpawnCleaner
  <2>8. CASE SetState
    BY <2>8 DEF SetState
  <2>9. CASE StartThrows
    BY <2>9 DEF StartThrows, Parts
  <2>10. CASE wait
    BY <2>10 DEF wait
  <2>11. CASE requestShutdown
    BY <2>11 DEF requestShutdown, Accept, Enter
  <2>12. CASE JoinHandlers
    BY <2>12 DEF JoinHandlers
  <2>13. CASE JoinCleaner
    BY <2>13 DEF JoinCleaner
  <2>14. CASE ResetCore
    BY <2>14 DEF ResetCore
  <2>15. CASE ClearHandlers
    BY <2>15 DEF ClearHandlers
  <2>16. CASE SetStopped
    BY <2>16 DEF SetStopped
  <2>17. CASE Signal
    BY <2>17 DEF Signal, Accept, Enter
  <2>18. CASE CleanerWakes
    BY <2>18 DEF CleanerWakes
  <2>19. CASE cleanup_expired_subscriptions
    BY <2>19 DEF cleanup_expired_subscriptions
  <2>20. CASE CleanerExits
    BY <2>20 DEF CleanerExits
  <2>21. ASSUME NEW h \in Handlers, StartHandler(h) PROVE LifetimeInv'
    BY <2>21 DEF StartHandler
  <2>22. ASSUME NEW h \in Handlers, HandlerFails(h) PROVE LifetimeInv'
    BY <2>22 DEF HandlerFails, Accept, Enter
  <2>23. ASSUME NEW a \in Actors, CheckCore(a) PROVE LifetimeInv'
    BY <2>23 DEF CheckCore, Enter
  <2>24. ASSUME NEW a \in Actors, StopCore(a) PROVE LifetimeInv'
    BY <2>24 DEF StopCore, Enter
  <2>25. ASSUME NEW a \in Actors, StopHandlers(a) PROVE LifetimeInv'
    BY <2>25 DEF StopHandlers, Enter
  <2>26. CASE UNCHANGED vars
    BY <2>26 DEF vars
  <2> QED
    BY <2>1, <2>2, <2>3, <2>4, <2>5, <2>6, <2>7, <2>8, <2>9, <2>10, <2>11, <2>12,
       <2>13, <2>14, <2>15, <2>16, <2>17, <2>18, <2>19, <2>20, <2>21, <2>22, <2>23,
       <2>24, <2>25, <2>26
    DEF Next, MainStep, CleanerThread, HandlerThread, Stopping, Parts
<1> QED
  BY <1>1

\* What OneShutdown needs beyond the others: a second actor is let in only when
\* state_ is not stopping, and then nobody is inside.
LEMMA OneShutdownStep == TypeOK /\ ShutdownInv /\ OneShutdown /\ [Next]_vars => OneShutdown'
<1> SUFFICES ASSUME TypeOK, ShutdownInv, OneShutdown, [Next]_vars PROVE OneShutdown'
  OBVIOUS
<1> USE DEF TypeOK, ShutdownInv, OneShutdown, Actors, objects, threads
<1>1. OneShutdown'
  <2>1. CASE initialize
    BY <2>1 DEF initialize
  <2>2. CASE InitializeThrows
    BY <2>2 DEF InitializeThrows
  <2>3. CASE start
    BY <2>3 DEF start
  <2>4. CASE SpawnHandlers
    BY <2>4 DEF SpawnHandlers
  <2>5. ASSUME NEW part \in Parts, NEW next \in Parts \cup {"set_running"}, StartPart(part, next) PROVE OneShutdown'
    BY <2>5 DEF StartPart, Parts
  <2>6. CASE SetRunning
    BY <2>6 DEF SetRunning
  <2>7. CASE SpawnCleaner
    BY <2>7 DEF SpawnCleaner
  <2>8. CASE SetState
    BY <2>8 DEF SetState
  <2>9. CASE StartThrows
    BY <2>9 DEF StartThrows, Parts
  <2>10. CASE wait
    BY <2>10 DEF wait
  <2>11. CASE requestShutdown
    BY <2>11 DEF requestShutdown, Accept, Enter
  <2>12. CASE JoinHandlers
    BY <2>12 DEF JoinHandlers
  <2>13. CASE JoinCleaner
    BY <2>13 DEF JoinCleaner
  <2>14. CASE ResetCore
    BY <2>14 DEF ResetCore
  <2>15. CASE ClearHandlers
    BY <2>15 DEF ClearHandlers
  <2>16. CASE SetStopped
    BY <2>16 DEF SetStopped
  <2>17. CASE Signal
    BY <2>17 DEF Signal, Accept, Enter
  <2>18. CASE CleanerWakes
    BY <2>18 DEF CleanerWakes
  <2>19. CASE cleanup_expired_subscriptions
    BY <2>19 DEF cleanup_expired_subscriptions
  <2>20. CASE CleanerExits
    BY <2>20 DEF CleanerExits
  <2>21. ASSUME NEW h \in Handlers, StartHandler(h) PROVE OneShutdown'
    BY <2>21 DEF StartHandler
  <2>22. ASSUME NEW h \in Handlers, HandlerFails(h) PROVE OneShutdown'
    BY <2>22 DEF HandlerFails, Accept, Enter
  <2>23. ASSUME NEW a \in Actors, CheckCore(a) PROVE OneShutdown'
    BY <2>23 DEF CheckCore, Enter
  <2>24. ASSUME NEW a \in Actors, StopCore(a) PROVE OneShutdown'
    BY <2>24 DEF StopCore, Enter
  <2>25. ASSUME NEW a \in Actors, StopHandlers(a) PROVE OneShutdown'
    BY <2>25 DEF StopHandlers, Enter
  <2>26. CASE UNCHANGED vars
    BY <2>26 DEF vars
  <2> QED
    BY <2>1, <2>2, <2>3, <2>4, <2>5, <2>6, <2>7, <2>8, <2>9, <2>10, <2>11, <2>12,
       <2>13, <2>14, <2>15, <2>16, <2>17, <2>18, <2>19, <2>20, <2>21, <2>22, <2>23,
       <2>24, <2>25, <2>26
    DEF Next, MainStep, CleanerThread, HandlerThread, Stopping, Parts
<1> QED
  BY <1>1

-----------------------------------------------------------------------------
(* Theorems *)

\* The lifecycle state, the objects and the threads' positions have their types in
\* every interleaving of main, the handlers' threads, the cleanup thread and signals.
THEOREM RuntimeTypeCorrect == Spec => []TypeOK
  BY InitType, TypeStep, PTL DEF Spec

\* The invariants hold of every behaviour of the runtime.
LEMMA RuntimeInvariants == Spec => [](TypeOK /\ ShutdownInv /\ LifetimeInv)
<1>1. Init => TypeOK /\ ShutdownInv /\ LifetimeInv
  <2>1. Init => ShutdownInv
    BY DEF Init, ShutdownInv, PastJoin
  <2>2. Init => LifetimeInv
    BY DEF Init, LifetimeInv, PastJoin, Started, Parts
  <2> QED
    BY InitType, <2>1, <2>2
<1> QED
  BY <1>1, TypeStep, ShutdownStep, LifetimeStep, PTL DEF Spec

\* requestShutdown is never executed by two actors at once, however signals, failing
\* handlers and main overlap: the managers' stop functions are not entered twice.
THEOREM ShutdownIsExclusive == Spec => []OneShutdown
<1>1. Init => OneShutdown
  BY DEF Init, OneShutdown
<1> QED
  BY <1>1, RuntimeInvariants, OneShutdownStep, PTL DEF Spec

\* The orchestrator and the handlers outlive every thread that uses them without
\* holding lifecycle_mutex_: finalizeShutdown joins before it destroys.
THEOREM ObjectsOutliveThreads == Spec => []NoUseAfterReset
<1>1. TypeOK /\ ShutdownInv /\ LifetimeInv => NoUseAfterReset
  BY DEF TypeOK, ShutdownInv, LifetimeInv, NoUseAfterReset, PastJoin
<1> QED
  BY <1>1, RuntimeInvariants, PTL

\* Whatever path led there, the end of main leaves no part, handler or thread running.
THEOREM EndIsQuiet == Spec => []StoppedIsQuiet
<1>1. TypeOK /\ ShutdownInv /\ LifetimeInv => StoppedIsQuiet
  BY DEF TypeOK, ShutdownInv, LifetimeInv, StoppedIsQuiet, PastJoin
<1> QED
  BY <1>1, RuntimeInvariants, PTL
=============================================================================
