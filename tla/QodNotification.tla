-------------------------- MODULE QodNotification --------------------------
(***************************************************************************)
(* QodNotificationManager: CloudEvents for the sinks of QoD sessions.      *)
(* deliver puts a notification on a bounded queue; worker threads take     *)
(* retries that are due before new notifications, send, and put what       *)
(* failed on a second queue, ordered by the time of the next attempt.      *)
(*                                                                         *)
(* A notification on the retry queue carries the time it has still to wait *)
(* instead of an absolute time; notifications that are already due are     *)
(* taken in any order.  One action is one critical section of queue_mutex_ *)
(* or the sending between two of them.  cancel_session_notifications, and  *)
(* session_tasks_ that only it reads, have no caller and are left out.     *)
(***************************************************************************)
EXTENDS Integers, Sequences, FiniteSets

CONSTANTS
  Notifications,  \* the notifications QodSessionManager hands over, each once
  Sessions,       \* the sessions they are about
  SessionOf,      \* the session of each notification
  Workers,        \* worker_thread_count threads
  MaxQueue,       \* max_queue_size
  MaxRetries,     \* max_retry_attempts
  InitialDelay, Multiplier, MaxDelay,  \* the backoff, in seconds
  Valid,          \* the notifications with a valid sink and credential
  Answers,        \* send_notification: TRUE for a status in 200..299
  MaxStarts,      \* bound on how often the manager is started
  MayStop,
  Null

ASSUME NotificationAssumption ==
  /\ SessionOf \in [Notifications -> Sessions] /\ Valid \subseteq Notifications
  /\ MaxQueue \in Nat \ {0} /\ MaxRetries \in Nat /\ MaxStarts \in Nat
  /\ InitialDelay \in Nat \ {0} /\ Multiplier \in Nat \ {0} /\ MaxDelay \in Nat \ {0}
  /\ Answers \subseteq BOOLEAN /\ MayStop \in BOOLEAN
  /\ Null \notin [n : Notifications, retry_count : Nat]

VARIABLES
  task_queue,     \* new notifications, in order
  retry_queue,    \* notifications that wait: [n, retry_count, wait]
  phase,          \* stopped, running (running_), stopping
  worker,         \* per thread: out, wait, send, settle
  held,           \* per thread: the task it works on, [n, retry_count]
  answer,         \* per thread: whether the sink accepted
  stats,          \* session_stats_: [successful, failed, pending]
  starts,
  fate,           \* per notification: new, refused, accepted, delivered, dropped, discarded
  accepted,       \* history: accepted notifications, in order
  attempts        \* history: per notification, how often it was sent

threads == <<worker, held, answer>>
history == <<accepted, attempts>>
vars    == <<task_queue, retry_queue, phase, worker, held, answer, stats,
             starts, fate, accepted, attempts>>

-----------------------------------------------------------------------------
(* calculate_next_retry *)

\* The delay before the n-th retry; the first one is not capped.
Backoff[n \in Nat] ==
  IF n <= 1 THEN InitialDelay
  ELSE LET longer == Backoff[n - 1] * Multiplier
       IN  IF longer > MaxDelay THEN MaxDelay ELSE longer

\* With a jitter of -25% to +25%, cut to whole seconds.
calculate_next_retry(n) ==
  {d \in 0..(2 * Backoff[n]) : (3 * Backoff[n]) \div 4 <= d /\ 4 * d < 5 * Backoff[n]}

-----------------------------------------------------------------------------
\* Faulty variant: a delivery leaves the notification pending.
update_stats_keeps(s, success) ==
  stats' = [stats EXCEPT ![s] =
    [successful |-> IF success THEN @.successful + 1 ELSE @.successful,
     failed     |-> @.failed,
     pending    |-> IF success THEN @.pending ELSE @.pending + 1]]

\* Called with FALSE for a new notification and for one that is given up.
update_stats(s, success) ==
  stats' = [stats EXCEPT ![s] =
    [successful |-> IF success THEN @.successful + 1 ELSE @.successful,
     failed     |-> @.failed,
     pending    |-> IF ~success THEN @.pending + 1
                    ELSE IF @.pending > 0 THEN @.pending - 1 ELSE 0]]

\* Faulty variant: an off-by-one admits one notification too many.
queue_notification_over(n) ==
  /\ Len(task_queue) <= MaxQueue
  /\ task_queue' = Append(task_queue, n)
  /\ update_stats(SessionOf[n], FALSE)

queue_notification(n) ==
  /\ Len(task_queue) < MaxQueue
  /\ task_queue' = Append(task_queue, n)
  /\ update_stats(SessionOf[n], FALSE)

\* Refused for its sink or credential or because the queue is full.  Accepted
\* whether or not the manager is running.
deliver(n) ==
  /\ fate[n] = "new"
  /\ \/ /\ n \in Valid /\ queue_notification(n)
        /\ fate' = [fate EXCEPT ![n] = "accepted"]
        /\ accepted' = Append(accepted, n)
     \/ /\ n \notin Valid \/ Len(task_queue) >= MaxQueue
        /\ fate' = [fate EXCEPT ![n] = "refused"]
        /\ UNCHANGED <<task_queue, stats, accepted>>
  /\ UNCHANGED <<retry_queue, phase, threads, starts, attempts>>

-----------------------------------------------------------------------------
(* worker_thread *)

Due == {r \in retry_queue : r.wait = 0}

Hold(w, n, count) ==
  /\ held' = [held EXCEPT ![w] = [n |-> n, retry_count |-> count]]
  /\ worker' = [worker EXCEPT ![w] = "send"]

Release(w) == held' = [held EXCEPT ![w] = Null] /\ worker' = [worker EXCEPT ![w] = "wait"]

\* Faulty variant: reads the top of the queue and leaves it there.
TakeRetry_peek(w) ==
  /\ phase = "running" /\ worker[w] = "wait"
  /\ \E r \in Due : Hold(w, r.n, r.retry_count)
  /\ UNCHANGED <<task_queue, retry_queue, phase, answer, stats, starts, fate, history>>

TakeRetry(w) ==
  /\ phase = "running" /\ worker[w] = "wait"
  /\ \E r \in Due : Hold(w, r.n, r.retry_count) /\ retry_queue' = retry_queue \ {r}
  /\ UNCHANGED <<task_queue, phase, answer, stats, starts, fate, history>>

\* Faulty variant: pushes at one end and takes from the same end.
TakeNew_last(w) ==
  /\ phase = "running" /\ worker[w] = "wait"
  /\ Due = {} /\ task_queue # <<>>
  /\ Hold(w, task_queue[Len(task_queue)], 0)
  /\ task_queue' = SubSeq(task_queue, 1, Len(task_queue) - 1)
  /\ UNCHANGED <<retry_queue, phase, answer, stats, starts, fate, history>>

TakeNew(w) ==
  /\ phase = "running" /\ worker[w] = "wait"
  /\ Due = {} /\ task_queue # <<>>
  /\ Hold(w, Head(task_queue), 0)
  /\ task_queue' = Tail(task_queue)
  /\ UNCHANGED <<retry_queue, phase, answer, stats, starts, fate, history>>

Send(w) ==
  /\ worker[w] = "send"
  /\ \E ok \in Answers : answer' = [answer EXCEPT ![w] = ok]
  /\ worker' = [worker EXCEPT ![w] = "settle"]
  /\ attempts' = [attempts EXCEPT ![held[w].n] = @ + 1]
  /\ UNCHANGED <<task_queue, retry_queue, phase, held, stats, starts, fate,
                 accepted>>

\* Faulty variant: counts the first attempt as a retry that was not made.
Retry_again(w) ==
  /\ worker[w] = "settle" /\ ~answer[w] /\ held[w].retry_count <= MaxRetries
  /\ \E d \in calculate_next_retry(held[w].retry_count + 1) :
       retry_queue' = retry_queue \cup
         {[n |-> held[w].n, retry_count |-> held[w].retry_count + 1, wait |-> d]}
  /\ Release(w)
  /\ UNCHANGED <<task_queue, phase, answer, stats, starts, fate, history>>

Retry(w) ==
  /\ worker[w] = "settle" /\ ~answer[w] /\ held[w].retry_count < MaxRetries
  /\ \E d \in calculate_next_retry(held[w].retry_count + 1) :
       retry_queue' = retry_queue \cup
         {[n |-> held[w].n, retry_count |-> held[w].retry_count + 1, wait |-> d]}
  /\ Release(w)
  /\ UNCHANGED <<task_queue, phase, answer, stats, starts, fate, history>>

\* Faulty variant: nothing is done for a notification without retries left.
Settle_success(w) ==
  /\ worker[w] = "settle" /\ answer[w]
  /\ update_stats(SessionOf[held[w].n], answer[w])
  /\ fate' = [fate EXCEPT ![held[w].n] = "delivered"]
  /\ Release(w)
  /\ UNCHANGED <<task_queue, retry_queue, phase, answer, starts, history>>

Settle(w) ==
  /\ worker[w] = "settle" /\ (answer[w] \/ held[w].retry_count >= MaxRetries)
  /\ update_stats(SessionOf[held[w].n], answer[w])
  /\ fate' = [fate EXCEPT ![held[w].n] = IF answer[w] THEN "delivered" ELSE "dropped"]
  /\ Release(w)
  /\ UNCHANGED <<task_queue, retry_queue, phase, answer, starts, history>>

Exit(w) ==
  /\ phase # "running" /\ worker[w] = "wait"
  /\ worker' = [worker EXCEPT ![w] = "out"]
  /\ UNCHANGED <<task_queue, retry_queue, phase, held, answer, stats, starts,
                 fate, history>>

-----------------------------------------------------------------------------
(* start and stop *)

start ==
  /\ starts < MaxStarts /\ phase = "stopped"
  /\ starts' = starts + 1
  /\ phase' = "running"
  /\ worker' = [w \in Workers |-> "wait"]
  /\ UNCHANGED <<task_queue, retry_queue, held, answer, stats, fate, history>>

\* Nothing keeps stop from being called again: a manager that is stopped discards what
\* deliver has accepted since.
stop ==
  /\ MayStop
  /\ phase = "running" \/ (phase = "stopped" /\ task_queue # <<>>)
  /\ phase' = "stopping"
  /\ UNCHANGED <<task_queue, retry_queue, threads, stats, starts, fate, history>>

\* After the workers have joined: empties the first queue and keeps the second.
StopClear ==
  /\ phase = "stopping" /\ \A w \in Workers : worker[w] = "out"
  /\ phase' = "stopped"
  /\ task_queue' = <<>>
  /\ fate' = [n \in Notifications |->
       IF \E i \in DOMAIN task_queue : task_queue[i] = n THEN "discarded" ELSE fate[n]]
  /\ UNCHANGED <<retry_queue, threads, stats, starts, history>>

\* A second passes.
Tick ==
  /\ \E r \in retry_queue : r.wait > 0
  /\ retry_queue' = {[r EXCEPT !.wait = IF @ > 0 THEN @ - 1 ELSE 0] : r \in retry_queue}
  /\ UNCHANGED <<task_queue, phase, threads, stats, starts, fate, history>>

-----------------------------------------------------------------------------
Init ==
  /\ task_queue = <<>> /\ retry_queue = {}
  /\ phase = "stopped"
  /\ worker = [w \in Workers |-> "out"]
  /\ held = [w \in Workers |-> Null]
  /\ answer = [w \in Workers |-> FALSE]
  /\ stats = [s \in Sessions |-> [successful |-> 0, failed |-> 0, pending |-> 0]]
  /\ starts = 0
  /\ fate = [n \in Notifications |-> "new"]
  /\ accepted = <<>>
  /\ attempts = [n \in Notifications |-> 0]

Work(w) == TakeRetry(w) \/ TakeNew(w) \/ Send(w) \/ Retry(w) \/ Settle(w) \/ Exit(w)

Next ==
  \/ \E n \in Notifications : deliver(n)
  \/ \E w \in Workers : Work(w)
  \/ start \/ stop \/ StopClear \/ Tick

\* Sending has a timeout and the condition variable is waited for at most a second,
\* so a worker with something to do does it; the orchestrator starts the manager.
Fairness == WF_vars(start) /\ WF_vars(Tick) /\ \A w \in Workers : WF_vars(Work(w))

Spec     == Init /\ [][Next]_vars
FairSpec == Spec /\ Fairness

-----------------------------------------------------------------------------
(* Properties *)

Fates == {"new", "refused", "accepted", "delivered", "dropped", "discarded"}

\* The types of the queues, the workers' locals, the statistics and the history.
TypeOK ==
  /\ task_queue \in Seq(Notifications) /\ Len(task_queue) <= MaxQueue
  /\ \A r \in retry_queue : r \in [n : Notifications, retry_count : 1..MaxRetries, wait : Nat]
  /\ phase \in {"stopped", "running", "stopping"}
  /\ worker \in [Workers -> {"out", "wait", "send", "settle"}]
  /\ held \in [Workers -> [n : Notifications, retry_count : 0..MaxRetries] \cup {Null}]
  /\ \A w \in Workers : held[w] # Null <=> worker[w] \in {"send", "settle"}
  /\ answer \in [Workers -> BOOLEAN]
  /\ stats \in [Sessions -> [successful : Nat, failed : Nat, pending : Nat]]
  /\ starts \in 0..MaxStarts
  /\ fate \in [Notifications -> Fates]
  /\ accepted \in Seq(Notifications)
  /\ attempts \in [Notifications -> Nat]

Queued(n)  == {i \in DOMAIN task_queue : task_queue[i] = n}
Waiting(n) == {r \in retry_queue : r.n = n}
HeldBy(n)  == {w \in Workers : held[w] # Null /\ held[w].n = n}

\* Between the two queues and the workers no accepted notification gets lost and
\* none is there twice, also across stop and start: it is in exactly one place
\* until it is settled or discarded, and nowhere afterwards.
ExactlyOnePlace ==
  \A n \in Notifications :
    Cardinality(Queued(n)) + Cardinality(Waiting(n)) + Cardinality(HeldBy(n))
      = (IF fate[n] = "accepted" THEN 1 ELSE 0)

\* A sink gets a notification at most max_retry_attempts + 1 times, and it is given
\* up only after exactly that many attempts (worker_thread and its retry_count).
AttemptsExact ==
  \A n \in Notifications :
    /\ attempts[n] <= MaxRetries + 1
    /\ fate[n] = "dropped" => attempts[n] = MaxRetries + 1
    /\ fate[n] \in {"refused", "discarded", "new"} => attempts[n] = 0

\* The workers take notifications from task_queue_ for their first attempt in the order
\* in which deliver accepted them, whatever the other workers, the retries and a stop
\* do: while one is still queued, no later one was taken, waits for a retry or is
\* settled.  (Two workers send outside the lock, so the sends themselves may overtake.)
TakenInOrder ==
  \A i, j \in DOMAIN accepted :
    (i < j /\ Queued(accepted[i]) # {})
      => /\ HeldBy(accepted[j]) = {} /\ Waiting(accepted[j]) = {}
         /\ fate[accepted[j]] \notin {"delivered", "dropped"}

\* A delivered notification is no longer pending: as long as nothing was given up or
\* discarded, pending counts what is under way.
PendingUntilDelivered ==
  \A s \in Sessions :
    LET mine == {n \in Notifications : SessionOf[n] = s}
    IN  (\A n \in mine : fate[n] \notin {"dropped", "discarded"}) =>
          /\ stats[s].pending = Cardinality({n \in mine : fate[n] = "accepted"})
          /\ stats[s].successful = Cardinality({n \in mine : fate[n] = "delivered"})

\* Once the manager is no longer stopped every accepted notification is delivered,
\* given up or was discarded by an earlier stop: no queue starves the other and no
\* lost wake-up leaves one behind, one that waited out a restart included.
AcceptedSettles ==
  <>[](phase = "running") =>
    \A n \in Notifications : (fate[n] = "accepted") ~> (fate[n] \in {"delivered", "dropped", "discarded"})
=============================================================================
