---------------------- MODULE QodNotification_proofs ----------------------
(***************************************************************************)
(* Proofs about QodNotification, for any number of notifications, sessions *)
(* and workers, any queue size, number of retries and backoff.             *)
(***************************************************************************)
EXTENDS QodNotification, FiniteSetTheorems, WellFoundedInduction, TLAPS

-----------------------------------------------------------------------------
(* The backoff *)

\* What the loop of calculate_next_retry makes of the delay before it.
NextDelay(b) == IF b * Multiplier > MaxDelay THEN MaxDelay ELSE b * Multiplier

\* The first delays, for up to n retries, as the loop computes them.
Delays(n) ==
  {f \in [0..n -> Nat] :
     \A i \in 0..n : f[i] = IF i <= 1 THEN InitialDelay ELSE NextDelay(f[i - 1])}

\* A set of natural numbers that is not empty has a least element.
LEMMA LeastNatural ==
  ASSUME NEW T \in SUBSET Nat, T # {}
  PROVE  \E x \in T : \A y \in T : x <= y
<1>1. PICK x \in T : \A y \in T : ~ (<<y, x>> \in {p \in Nat \X Nat : p[1] < p[2]})
  BY NatLessThanWellFounded, WFMin DEF OpToRel
<1>2. \A y \in T : ~ (y < x)
  BY <1>1
<1> QED
  BY <1>2

\* The next delay is a number of seconds too.
LEMMA NextDelayType == \A b \in Nat : NextDelay(b) \in Nat
  BY NotificationAssumption DEF NextDelay

\* The loop has a result for any number of retries.
LEMMA DelaysExist == \A n \in Nat : Delays(n) # {}
<1> DEFINE T == {n \in Nat : Delays(n) = {}}
<1> SUFFICES ASSUME T # {} PROVE FALSE
  OBVIOUS
<1>0. T \in SUBSET Nat
  OBVIOUS
<1>1. PICK m \in T : \A y \in T : m <= y
  <2> HIDE DEF T
  <2> QED
    BY <1>0, LeastNatural
<1>2. CASE m = 0
  <2>1. [i \in 0..0 |-> InitialDelay] \in Delays(0)
    BY NotificationAssumption DEF Delays
  <2> QED
    BY <1>2, <2>1
<1>3. CASE m # 0
  <2>1. m - 1 \in Nat /\ m - 1 \notin T
    BY <1>1, <1>3
  <2>2. PICK f : f \in Delays(m - 1)
    BY <2>1
  <2> DEFINE g == [i \in 0..m |-> IF i < m THEN f[i]
                                  ELSE IF m <= 1 THEN InitialDelay ELSE NextDelay(f[m - 1])]
  <2>3. f \in [0..(m - 1) -> Nat]
    BY <2>2 DEF Delays
  <2>4. f[m - 1] \in Nat
    BY <2>1, <2>3
  <2>5. g \in [0..m -> Nat]
    <3>1. NextDelay(f[m - 1]) \in Nat
      BY <2>4, NextDelayType
    <3>2. \A i \in 0..m : i < m => f[i] \in Nat
      BY <2>1, <2>3
    <3> QED
      BY <3>1, <3>2, NotificationAssumption
  <2>6. ASSUME NEW i \in 0..m PROVE g[i] = IF i <= 1 THEN InitialDelay ELSE NextDelay(g[i - 1])
    <3>1. CASE i < m
      <4>1. g[i] = f[i] /\ (i > 1 => g[i - 1] = f[i - 1])
        BY <3>1, <2>1
      <4> QED
        BY <4>1, <3>1, <2>1, <2>2 DEF Delays
    <3>2. CASE i = m
      <4>1. g[i - 1] = f[i - 1] /\ g[i] = IF m <= 1 THEN InitialDelay ELSE NextDelay(f[m - 1])
        BY <3>2, <2>1
      <4> QED
        BY <4>1, <3>2
    <3> QED
      BY <3>1, <3>2
  <2>7. g \in Delays(m)
    BY <2>5, <2>6 DEF Delays
  <2> QED
    BY <2>7
<1> QED
  BY <1>2, <1>3

\* The number of retries asked for does not change the delays before them.
LEMMA DelaysAgree ==
  ASSUME NEW n \in Nat, NEW m \in Nat, n <= m, NEW f \in Delays(n), NEW g \in Delays(m)
  PROVE  \A i \in 0..n : f[i] = g[i]
<1> DEFINE T == {i \in 0..n : f[i] # g[i]}
<1> SUFFICES ASSUME T # {} PROVE FALSE
  OBVIOUS
<1>0. T \in SUBSET Nat
  OBVIOUS
<1>1. PICK i \in T : \A y \in T : i <= y
  <2> HIDE DEF T
  <2> QED
    BY <1>0, LeastNatural
<1>2. i \in 0..n /\ i \in 0..m
  OBVIOUS
<1>3. CASE i <= 1
  BY <1>2, <1>3 DEF Delays
<1>4. CASE ~ (i <= 1)
  <2>1. i - 1 \in 0..n /\ i - 1 \notin T
    BY <1>1, <1>2, <1>4
  <2>2. f[i] = NextDelay(f[i - 1]) /\ g[i] = NextDelay(g[i - 1])
    BY <1>2, <1>4 DEF Delays
  <2> QED
    BY <2>1, <2>2
<1> QED
  BY <1>3, <1>4

\* What a member of Delays is, without its range.
LEMMA DelaysMember ==
  ASSUME NEW n \in Nat, NEW f \in Delays(n)
  PROVE  \A i \in 0..n : f[i] \in Nat /\ f[i] = IF i <= 1 THEN InitialDelay ELSE NextDelay(f[i - 1])
  BY DEF Delays

\* The recursion that defines Backoff is well founded: Backoff is what the loop of
\* calculate_next_retry computes.
LEMMA BackoffIsLoop ==
  Backoff = [n \in Nat |-> IF n <= 1 THEN InitialDelay ELSE NextDelay(Backoff[n - 1])]
<1> DEFINE D(n) == CHOOSE f : f \in Delays(n)
           b == [n \in Nat |-> D(n)[n]]
           loop(f) == [n \in Nat |-> IF n <= 1 THEN InitialDelay ELSE NextDelay(f[n - 1])]
<1>1. \A n \in Nat : D(n) \in Delays(n)
  BY DelaysExist
<1> HIDE DEF D
<1>2. ASSUME NEW n \in Nat PROVE b[n] = IF n <= 1 THEN InitialDelay ELSE NextDelay(b[n - 1])
  <2>1. D(n)[n] = IF n <= 1 THEN InitialDelay ELSE NextDelay(D(n)[n - 1])
    BY <1>1, DelaysMember
  <2>2. CASE n <= 1
    BY <2>1, <2>2
  <2>3. CASE ~ (n <= 1)
    <3>1. n - 1 \in Nat /\ n - 1 <= n /\ n - 1 \in 0..(n - 1)
      BY <2>3
    <3>2. D(n - 1)[n - 1] = D(n)[n - 1]
      BY <1>1, <3>1, DelaysAgree
    <3>3. b[n - 1] = D(n - 1)[n - 1] /\ b[n] = D(n)[n]
      BY <3>1
    <3> QED
      BY <3>2, <3>3, <2>1, <2>3
  <2> QED
    BY <2>2, <2>3
<1>3. b = [n \in Nat |-> b[n]]
  OBVIOUS
<1> HIDE DEF b
<1>4. b = loop(b)
  BY <1>2, <1>3
<1>5. \E f : f = [n \in Nat |-> IF n <= 1 THEN InitialDelay
                               ELSE IF f[n - 1] * Multiplier > MaxDelay THEN MaxDelay
                                    ELSE f[n - 1] * Multiplier]
  BY <1>4, Zenon DEF NextDelay
<1>6. Backoff = [n \in Nat |-> IF n <= 1 THEN InitialDelay
                               ELSE IF Backoff[n - 1] * Multiplier > MaxDelay THEN MaxDelay
                                    ELSE Backoff[n - 1] * Multiplier]
  BY <1>5, Zenon DEF Backoff
<1> QED
  BY <1>6, Zenon DEF NextDelay

\* Every delay is a whole number of seconds.
LEMMA BackoffType == Backoff \in [Nat -> Nat]
<1> DEFINE T == {n \in Nat : Backoff[n] \notin Nat}
<1>0. T \in SUBSET Nat
  OBVIOUS
<1>1. ASSUME T # {} PROVE FALSE
  <2>1. PICK n \in T : \A y \in T : n <= y
    <3> HIDE DEF T
    <3> QED
      BY <1>0, <1>1, LeastNatural
  <2>2. n \in Nat /\ Backoff[n] \notin Nat
    OBVIOUS
  <2>3. Backoff[n] = IF n <= 1 THEN InitialDelay ELSE NextDelay(Backoff[n - 1])
    BY <2>2, BackoffIsLoop
  <2>4. ~ (n <= 1)
    BY <2>2, <2>3, NotificationAssumption
  <2>5. n - 1 \in Nat /\ n - 1 \notin T
    BY <2>1, <2>2, <2>4
  <2>6. Backoff[n - 1] \in Nat
    BY <2>5
  <2> QED
    BY <2>2, <2>3, <2>4, <2>6, NextDelayType
<1>2. \A n \in Nat : Backoff[n] \in Nat
  BY <1>1
<1>3. Backoff = [n \in Nat |-> Backoff[n]]
  BY BackoffIsLoop
<1> QED
  BY <1>2, <1>3

\* A delay is cut to whole seconds and stays below five quarters of the backoff.
LEMMA DelayBounded ==
  \A n \in Nat : \A d \in calculate_next_retry(n) : d \in Nat /\ 4 * d < 5 * Backoff[n]
  BY BackoffType DEF calculate_next_retry

-----------------------------------------------------------------------------
(* The inductive invariant *)

\* stop returns after the workers have joined.
JoinedInv == phase = "stopped" => \A w \in Workers : worker[w] = "out"

\* The places of a notification, without counting them: it is in a queue once, held
\* once, and never in two places; it is accepted exactly as long as it is in one.
PlaceInv ==
  /\ \A i, j \in DOMAIN task_queue : task_queue[i] = task_queue[j] => i = j
  /\ \A r, q \in retry_queue : r.n = q.n => r = q
  /\ \A v, w \in Workers : held[v] # Null /\ held[w] # Null /\ held[v].n = held[w].n => v = w
  /\ \A i \in DOMAIN task_queue : \A r \in retry_queue : task_queue[i] # r.n
  /\ \A i \in DOMAIN task_queue : \A w \in Workers : held[w] # Null => task_queue[i] # held[w].n
  /\ \A r \in retry_queue : \A w \in Workers : held[w] # Null => r.n # held[w].n
  /\ \A n \in Notifications : fate[n] = "accepted" <=>
       \/ \E i \in DOMAIN task_queue : task_queue[i] = n
       \/ \E r \in retry_queue : r.n = n
       \/ \E w \in Workers : held[w] # Null /\ held[w].n = n

\* retry_count counts the attempts that were made: all of them except, while a worker
\* has the answer, the last one.
CountInv ==
  /\ \A i \in DOMAIN task_queue : attempts[task_queue[i]] = 0
  /\ \A r \in retry_queue : attempts[r.n] = r.retry_count
  /\ \A w \in Workers : worker[w] = "send" => attempts[held[w].n] = held[w].retry_count
  /\ \A w \in Workers : worker[w] = "settle" => attempts[held[w].n] = held[w].retry_count + 1
  /\ \A n \in Notifications :
       /\ fate[n] \in {"new", "refused", "discarded"} => attempts[n] = 0
       /\ fate[n] = "dropped" => attempts[n] = MaxRetries + 1
       /\ fate[n] = "delivered" => attempts[n] <= MaxRetries + 1

\* The first queue is the end of the list of accepted notifications, which names no
\* notification twice and none that is new or was refused.
OrderInv ==
  /\ \A i, j \in DOMAIN accepted : accepted[i] = accepted[j] => i = j
  /\ \A i \in DOMAIN accepted : fate[accepted[i]] \notin {"new", "refused"}
  /\ Len(task_queue) <= Len(accepted)
  /\ \A k \in 1..Len(task_queue) :
       task_queue[k] = accepted[Len(accepted) - Len(task_queue) + k]

\* The notifications of a session with a fate.
Of(s, f) == {n \in Notifications : SessionOf[n] = s /\ fate[n] = f}

\* The statistics of a session count its notifications, of which there are finitely
\* many under way or delivered, until one is given up or discarded.
StatsInv ==
  \A s \in Sessions :
    /\ IsFiniteSet(Of(s, "accepted")) /\ IsFiniteSet(Of(s, "delivered"))
    /\ Of(s, "dropped") = {} /\ Of(s, "discarded") = {} =>
         /\ stats[s].pending = Cardinality(Of(s, "accepted"))
         /\ stats[s].successful = Cardinality(Of(s, "delivered"))

-----------------------------------------------------------------------------
(* Types *)

\* The types hold before the manager is started.
LEMMA InitType == Init => TypeOK
  BY NotificationAssumption DEF Init, TypeOK, Fates

\* What update_stats leaves of the statistics' type.
LEMMA StatsType ==
  ASSUME TypeOK, NEW s \in Sessions, NEW ok \in BOOLEAN, update_stats(s, ok)
  PROVE  stats' \in [Sessions -> [successful : Nat, failed : Nat, pending : Nat]]
<1>1. stats[s] \in [successful : Nat, failed : Nat, pending : Nat]
  BY DEF TypeOK
<1> DEFINE new == [successful |-> IF ok THEN stats[s].successful + 1 ELSE stats[s].successful,
                   failed |-> stats[s].failed,
                   pending |-> IF ~ok THEN stats[s].pending + 1
                               ELSE IF stats[s].pending > 0 THEN stats[s].pending - 1 ELSE 0]
<1>2. stats' = [stats EXCEPT ![s] = new]
  BY <1>1 DEF update_stats
<1>3. new \in [successful : Nat, failed : Nat, pending : Nat]
  BY <1>1
<1> QED
  BY <1>2, <1>3 DEF TypeOK

\* A worker with a task holds a record of it.
LEMMA HeldType ==
  ASSUME TypeOK, NEW w \in Workers, worker[w] \in {"send", "settle"}
  PROVE  /\ held[w] \in [n : Notifications, retry_count : 0..MaxRetries]
         /\ held[w].n \in Notifications /\ held[w].retry_count \in 0..MaxRetries
         /\ held[w] # Null
  BY DEF TypeOK

\* Every step keeps the types; start finds every worker without a task.
LEMMA TypeStep == TypeOK /\ JoinedInv /\ [Next]_vars => TypeOK'
<1> SUFFICES ASSUME TypeOK, JoinedInv, [Next]_vars PROVE TypeOK'
  OBVIOUS
<1> USE NotificationAssumption DEF threads, history
<1>1. ASSUME NEW n \in Notifications, deliver(n) PROVE TypeOK'
  <2>1. CASE n \in Valid /\ queue_notification(n) /\ fate' = [fate EXCEPT ![n] = "accepted"]
               /\ accepted' = Append(accepted, n)
    <3>1. stats' \in [Sessions -> [successful : Nat, failed : Nat, pending : Nat]]
      BY <2>1, StatsType DEF queue_notification
    <3>2. task_queue' \in Seq(Notifications) /\ Len(task_queue') <= MaxQueue
      BY <2>1 DEF queue_notification, TypeOK
    <3>3. fate' \in [Notifications -> Fates] /\ accepted' \in Seq(Notifications)
      BY <2>1 DEF TypeOK, Fates
    <3> QED
      BY <1>1, <3>1, <3>2, <3>3 DEF deliver, TypeOK
  <2>2. CASE fate' = [fate EXCEPT ![n] = "refused"] /\ UNCHANGED <<task_queue, stats, accepted>>
    BY <1>1, <2>2 DEF deliver, TypeOK, Fates
  <2> QED
    BY <1>1, <2>1, <2>2 DEF deliver
<1>2. ASSUME NEW w \in Workers, TakeRetry(w) PROVE TypeOK'
  <2>1. PICK r \in retry_queue : Hold(w, r.n, r.retry_count) /\ retry_queue' = retry_queue \ {r}
    BY <1>2 DEF TakeRetry, Due
  <2>2. [n |-> r.n, retry_count |-> r.retry_count] \in [n : Notifications, retry_count : 0..MaxRetries]
    BY <2>1 DEF TypeOK
  <2>3. [n |-> r.n, retry_count |-> r.retry_count] # Null
    BY <2>2
  <2> QED
    BY <1>2, <2>1, <2>2, <2>3 DEF TakeRetry, Hold, TypeOK
<1>3. ASSUME NEW w \in Workers, TakeNew(w) PROVE TypeOK'
  <2>1. Head(task_queue) \in Notifications /\ Tail(task_queue) \in Seq(Notifications)
          /\ Len(Tail(task_queue)) <= MaxQueue
    BY <1>3 DEF TakeNew, TypeOK
  <2>2. [n |-> Head(task_queue), retry_count |-> 0] \in [n : Notifications, retry_count : 0..MaxRetries]
    BY <2>1
  <2>3. [n |-> Head(task_queue), retry_count |-> 0] # Null
    BY <2>2
  <2> QED
    BY <1>3, <2>1, <2>2, <2>3 DEF TakeNew, Hold, TypeOK
<1>4. ASSUME NEW w \in Workers, Send(w) PROVE TypeOK'
  <2>1. held[w].n \in Notifications
    BY <1>4, HeldType DEF Send
  <2>2. attempts' \in [Notifications -> Nat]
    BY <1>4, <2>1 DEF Send, TypeOK
  <2> QED
    BY <1>4, <2>2 DEF Send, TypeOK
<1>5. ASSUME NEW w \in Workers, Retry(w) PROVE TypeOK'
  <2>1. held[w].n \in Notifications /\ held[w].retry_count \in 0..MaxRetries
          /\ held[w].retry_count + 1 \in 1..MaxRetries
    BY <1>5, HeldType DEF Retry
  <2>2. PICK d \in calculate_next_retry(held[w].retry_count + 1) :
          retry_queue' = retry_queue \cup
            {[n |-> held[w].n, retry_count |-> held[w].retry_count + 1, wait |-> d]}
    BY <1>5 DEF Retry
  <2>3. d \in Nat
    BY <2>1, DelayBounded
  <2>4. \A r \in retry_queue' : r \in [n : Notifications, retry_count : 1..MaxRetries, wait : Nat]
    BY <2>1, <2>2, <2>3 DEF TypeOK
  <2> QED
    BY <1>5, <2>4 DEF Retry, Release, TypeOK
<1>6. ASSUME NEW w \in Workers, Settle(w) PROVE TypeOK'
  <2>1. held[w].n \in Notifications /\ answer[w] \in BOOLEAN /\ SessionOf[held[w].n] \in Sessions
    BY <1>6, HeldType DEF Settle, TypeOK
  <2>2. stats' \in [Sessions -> [successful : Nat, failed : Nat, pending : Nat]]
    BY <1>6, <2>1, StatsType DEF Settle
  <2>3. fate' \in [Notifications -> Fates]
    BY <1>6 DEF Settle, TypeOK, Fates
  <2> QED
    BY <1>6, <2>2, <2>3 DEF Settle, Release, TypeOK
<1>7. ASSUME NEW w \in Workers, Exit(w) PROVE TypeOK'
  BY <1>7 DEF Exit, TypeOK
<1>8. CASE start
  <2>1. \A w \in Workers : held[w] = Null
    BY <1>8 DEF start, TypeOK, JoinedInv
  <2>2. starts' \in 0..MaxStarts
    BY <1>8 DEF start, TypeOK
  <2> QED
    BY <1>8, <2>1, <2>2 DEF start, TypeOK
<1>9. CASE stop
  BY <1>9 DEF stop, TypeOK
<1>10. CASE StopClear
  BY <1>10 DEF StopClear, TypeOK, Fates
<1>11. CASE Tick
  <2>1. ASSUME NEW r \in retry_queue
        PROVE  [r EXCEPT !.wait = IF @ > 0 THEN @ - 1 ELSE 0]
                  \in [n : Notifications, retry_count : 1..MaxRetries, wait : Nat]
    <3>1. r \in [n : Notifications, retry_count : 1..MaxRetries, wait : Nat]
      BY DEF TypeOK
    <3> QED
      BY <3>1
  <2>2. \A r \in retry_queue' : r \in [n : Notifications, retry_count : 1..MaxRetries, wait : Nat]
    BY <1>11, <2>1, Zenon DEF Tick
  <2> QED
    BY <1>11, <2>2 DEF Tick, TypeOK
<1>12. CASE UNCHANGED vars
  BY <1>12 DEF vars, TypeOK
<1> QED
  BY <1>1, <1>2, <1>3, <1>4, <1>5, <1>6, <1>7, <1>8, <1>9, <1>10, <1>11, <1>12 DEF Next, Work

-----------------------------------------------------------------------------
(* The steps keep the invariant *)

\* The workers have joined when the manager is stopped: none starts before the next start.
LEMMA JoinedStep == TypeOK /\ JoinedInv /\ [Next]_vars => JoinedInv'
<1> SUFFICES ASSUME TypeOK, JoinedInv, [Next]_vars PROVE JoinedInv'
  OBVIOUS
<1> USE DEF TypeOK, JoinedInv, threads, history
<1>1. ASSUME NEW n \in Notifications, deliver(n) PROVE JoinedInv'
  BY <1>1 DEF deliver
<1>2. ASSUME NEW w \in Workers, Work(w) PROVE JoinedInv'
  BY <1>2 DEF Work, TakeRetry, TakeNew, Send, Retry, Settle, Exit, Hold, Release
<1>3. CASE start \/ stop \/ StopClear \/ Tick
  BY <1>3 DEF start, stop, StopClear, Tick
<1>4. CASE UNCHANGED vars
  BY <1>4 DEF vars
<1> QED
  BY <1>1, <1>2, <1>3, <1>4 DEF Next

\* What the sequence operations of deliver and the workers do to the first queue.
LEMMA QueueFacts ==
  ASSUME NEW S, NEW q \in Seq(S)
  PROVE  /\ DOMAIN q = 1..Len(q) /\ Len(q) \in Nat
         /\ \A x \in S : /\ DOMAIN Append(q, x) = 1..(Len(q) + 1) /\ Len(Append(q, x)) = Len(q) + 1
                         /\ Append(q, x)[Len(q) + 1] = x
                         /\ \A i \in 1..Len(q) : Append(q, x)[i] = q[i]
         /\ q # <<>> => /\ 1 \in DOMAIN q /\ Head(q) = q[1]
                        /\ DOMAIN Tail(q) = 1..(Len(q) - 1) /\ Len(Tail(q)) = Len(q) - 1
                        /\ \A i \in 1..(Len(q) - 1) : Tail(q)[i] = q[i + 1]
  OBVIOUS

\* No step loses a notification or makes a second copy of it.
LEMMA PlaceStep == TypeOK /\ TypeOK' /\ JoinedInv /\ PlaceInv /\ [Next]_vars => PlaceInv'
<1> SUFFICES ASSUME TypeOK, TypeOK', JoinedInv, PlaceInv, [Next]_vars PROVE PlaceInv'
  OBVIOUS
<1> USE NotificationAssumption DEF threads, history
<1>q. DOMAIN task_queue = 1..Len(task_queue) /\ Len(task_queue) \in Nat
  BY QueueFacts DEF TypeOK
<1>1. ASSUME NEW n \in Notifications, deliver(n) PROVE PlaceInv'
  <2>1. CASE n \in Valid /\ queue_notification(n) /\ fate' = [fate EXCEPT ![n] = "accepted"]
    <3>1. /\ DOMAIN task_queue' = 1..(Len(task_queue) + 1)
          /\ task_queue'[Len(task_queue) + 1] = n
          /\ \A i \in 1..Len(task_queue) : task_queue'[i] = task_queue[i]
      BY <2>1, QueueFacts DEF queue_notification, TypeOK
    <3>2. /\ \A i \in DOMAIN task_queue : task_queue[i] # n
          /\ \A r \in retry_queue : r.n # n
          /\ \A w \in Workers : held[w] # Null => held[w].n # n
      BY <1>1 DEF deliver, PlaceInv
    <3>3. UNCHANGED <<retry_queue, held>>
      BY <1>1 DEF deliver
    <3>4. \A m \in Notifications : fate'[m] = "accepted" <=> fate[m] = "accepted" \/ m = n
      BY <2>1 DEF TypeOK
    <3>5. \A i, j \in DOMAIN task_queue' : task_queue'[i] = task_queue'[j] => i = j
      <4>1. \A i \in DOMAIN task_queue' : i \in 1..Len(task_queue) \/ i = Len(task_queue) + 1
        BY <1>q, <3>1
      <4> QED
        BY <1>q, <3>1, <3>2, <4>1 DEF PlaceInv
    <3>6. \A m \in Notifications : (\E i \in DOMAIN task_queue' : task_queue'[i] = m)
                                     <=> m = n \/ (\E i \in DOMAIN task_queue : task_queue[i] = m)
      BY <1>q, <3>1
    <3>7. \A i \in DOMAIN task_queue' : task_queue'[i] = n \/ \E j \in DOMAIN task_queue : task_queue[j] = task_queue'[i]
      BY <1>q, <3>1
    <3> QED
      BY <3>2, <3>3, <3>4, <3>5, <3>6, <3>7 DEF PlaceInv
  <2>2. CASE fate' = [fate EXCEPT ![n] = "refused"] /\ UNCHANGED task_queue
    <3>1. \A m \in Notifications : fate'[m] = "accepted" <=> fate[m] = "accepted"
      BY <1>1, <2>2 DEF deliver, TypeOK
    <3> QED
      BY <1>1, <2>2, <3>1 DEF deliver, PlaceInv
  <2> QED
    BY <1>1, <2>1, <2>2 DEF deliver
<1>2. ASSUME NEW w \in Workers, TakeRetry(w) PROVE PlaceInv'
  <2>1. PICK r \in retry_queue : Hold(w, r.n, r.retry_count) /\ retry_queue' = retry_queue \ {r}
    BY <1>2 DEF TakeRetry, Due
  <2>2. held[w] = Null
    BY <1>2 DEF TakeRetry, TypeOK
  <2>3. held' = [held EXCEPT ![w] = [n |-> r.n, retry_count |-> r.retry_count]]
    BY <2>1 DEF Hold
  <2>4. held'[w] # Null /\ held'[w].n = r.n /\ \A v \in Workers \ {w} : held'[v] = held[v]
    BY <1>2, <2>1, <2>3 DEF TypeOK, Hold
  <2>5. UNCHANGED <<task_queue, fate>>
    BY <1>2 DEF TakeRetry
  <2> QED
    BY <2>1, <2>2, <2>4, <2>5 DEF PlaceInv
<1>3. ASSUME NEW w \in Workers, TakeNew(w) PROVE PlaceInv'
  <2>1. held[w] = Null
    BY <1>3 DEF TakeNew, TypeOK
  <2>2. /\ 1 \in DOMAIN task_queue /\ Head(task_queue) = task_queue[1]
        /\ DOMAIN task_queue' = 1..(Len(task_queue) - 1)
        /\ \A i \in 1..(Len(task_queue) - 1) : task_queue'[i] = task_queue[i + 1]
    BY <1>3, QueueFacts DEF TakeNew, TypeOK
  <2>3. held' = [held EXCEPT ![w] = [n |-> task_queue[1], retry_count |-> 0]]
    BY <1>3, <2>2 DEF TakeNew, Hold
  <2>4. held'[w] # Null /\ held'[w].n = task_queue[1] /\ \A v \in Workers \ {w} : held'[v] = held[v]
    BY <1>3, <2>3 DEF TypeOK, TakeNew, Hold
  <2>5. UNCHANGED <<retry_queue, fate>>
    BY <1>3 DEF TakeNew
  <2>6. ASSUME NEW i \in DOMAIN task_queue PROVE i = 1 \/ \E j \in DOMAIN task_queue' : task_queue'[j] = task_queue[i]
    <3>1. CASE i # 1
      <4>1. i - 1 \in 1..(Len(task_queue) - 1) /\ (i - 1) + 1 = i
        BY <1>q, <3>1
      <4> QED
        BY <4>1, <2>2
    <3> QED
      BY <3>1
  <2>7. \A j \in DOMAIN task_queue' : j + 1 \in DOMAIN task_queue /\ j + 1 # 1 /\ task_queue'[j] = task_queue[j + 1]
    BY <1>q, <2>2
  <2>8. \A j, k \in DOMAIN task_queue' : j + 1 = k + 1 => j = k
    BY <1>q, <2>2
  <2>9. /\ \A i, j \in DOMAIN task_queue' : task_queue'[i] = task_queue'[j] => i = j
        /\ \A i \in DOMAIN task_queue' : \A r \in retry_queue : task_queue'[i] # r.n
        /\ \A i \in DOMAIN task_queue' : \A v \in Workers : held'[v] # Null => task_queue'[i] # held'[v].n
    BY <2>2, <2>4, <2>7, <2>8 DEF PlaceInv
  <2>10. \A n \in Notifications : fate[n] = "accepted" <=>
             \/ \E i \in DOMAIN task_queue' : task_queue'[i] = n
             \/ \E r \in retry_queue : r.n = n
             \/ \E v \in Workers : held'[v] # Null /\ held'[v].n = n
    BY <2>1, <2>2, <2>4, <2>6, <2>7 DEF PlaceInv
  <2> QED
    BY <2>1, <2>2, <2>4, <2>5, <2>9, <2>10 DEF PlaceInv
<1>4. ASSUME NEW w \in Workers, Send(w) PROVE PlaceInv'
  BY <1>4 DEF Send, PlaceInv
<1>5. ASSUME NEW w \in Workers, Retry(w) PROVE PlaceInv'
  <2>1. PICK task : retry_queue' = retry_queue \cup {task} /\ task.n = held[w].n
    <3>1. PICK d : retry_queue' = retry_queue \cup
            {[n |-> held[w].n, retry_count |-> held[w].retry_count + 1, wait |-> d]}
      BY <1>5 DEF Retry
    <3> WITNESS [n |-> held[w].n, retry_count |-> held[w].retry_count + 1, wait |-> d]
    <3> QED
      BY <3>1
  <2>2. held[w] # Null /\ held'[w] = Null /\ \A v \in Workers \ {w} : held'[v] = held[v]
    BY <1>5, HeldType DEF Retry, Release, TypeOK
  <2>3. UNCHANGED <<task_queue, fate>>
    BY <1>5 DEF Retry
  <2>4. \A r, q \in retry_queue' : r.n = q.n => r = q
    BY <2>1, <2>2 DEF PlaceInv
  <2>5. \A v \in Workers : held'[v] # Null => v # w /\ held[v] # Null /\ held'[v] = held[v]
    BY <2>2
  <2>6. \A i \in DOMAIN task_queue : \A r \in retry_queue' : task_queue[i] # r.n
    BY <2>1, <2>2 DEF PlaceInv
  <2>7. \A r \in retry_queue' : \A v \in Workers : held'[v] # Null => r.n # held'[v].n
    BY <2>1, <2>2, <2>5 DEF PlaceInv
  <2>8. \A n \in Notifications : fate[n] = "accepted" <=>
             \/ \E i \in DOMAIN task_queue : task_queue[i] = n
             \/ \E r \in retry_queue' : r.n = n
             \/ \E v \in Workers : held'[v] # Null /\ held'[v].n = n
    BY <2>1, <2>2, <2>5 DEF PlaceInv
  <2> QED
    BY <2>3, <2>4, <2>5, <2>6, <2>7, <2>8 DEF PlaceInv
<1>6. ASSUME NEW w \in Workers, Settle(w) PROVE PlaceInv'
  <2>1. held[w].n \in Notifications /\ held[w] # Null
    BY <1>6, HeldType DEF Settle
  <2>2. held'[w] = Null /\ \A v \in Workers \ {w} : held'[v] = held[v]
    BY <1>6 DEF Settle, Release, TypeOK
  <2>3. UNCHANGED <<task_queue, retry_queue>>
    BY <1>6 DEF Settle
  <2>4. \A n \in Notifications : fate'[n] = "accepted" <=> fate[n] = "accepted" /\ n # held[w].n
    BY <1>6, <2>1 DEF Settle, TypeOK
  <2> QED
    BY <2>1, <2>2, <2>3, <2>4 DEF PlaceInv
<1>7. ASSUME NEW w \in Workers, Exit(w) PROVE PlaceInv'
  BY <1>7 DEF Exit, PlaceInv
<1>8. CASE start \/ stop
  BY <1>8 DEF start, stop, PlaceInv
<1>9. CASE StopClear
  <2>1. task_queue' = <<>> /\ UNCHANGED <<retry_queue, held>>
    BY <1>9 DEF StopClear
  <2>2. DOMAIN task_queue' = {}
    BY <2>1
  <2>3. \A n \in Notifications : fate'[n] = IF \E i \in DOMAIN task_queue : task_queue[i] = n THEN "discarded" ELSE fate[n]
    BY <1>9 DEF StopClear
  <2> QED
    BY <2>1, <2>2, <2>3 DEF PlaceInv
<1>10. CASE Tick
  <2> DEFINE next(r) == [r EXCEPT !.wait = IF @ > 0 THEN @ - 1 ELSE 0]
  <2>1. \A r \in retry_queue : next(r).n = r.n
    BY DEF TypeOK
  <2>2. retry_queue' = {next(r) : r \in retry_queue} /\ UNCHANGED <<task_queue, held, fate>>
    BY <1>10 DEF Tick
  <2> HIDE DEF next
  <2>3. \A q \in retry_queue' : \E r \in retry_queue : q = next(r) /\ q.n = r.n
    BY <2>1, <2>2
  <2>4. \A r \in retry_queue : \E q \in retry_queue' : q.n = r.n
    BY <2>1, <2>2
  <2> QED
    BY <2>2, <2>3, <2>4 DEF PlaceInv
<1>11. CASE UNCHANGED vars
  BY <1>11 DEF vars, PlaceInv
<1> QED
  BY <1>1, <1>2, <1>3, <1>4, <1>5, <1>6, <1>7, <1>8, <1>9, <1>10, <1>11 DEF Next, Work

\* retry_count keeps counting the attempts: it goes with the notification from the
\* queue to the worker and back.
LEMMA CountStep ==
  TypeOK /\ TypeOK' /\ JoinedInv /\ PlaceInv /\ CountInv /\ [Next]_vars => CountInv'
<1> SUFFICES ASSUME TypeOK, TypeOK', JoinedInv, PlaceInv, CountInv, [Next]_vars PROVE CountInv'
  OBVIOUS
<1> USE NotificationAssumption DEF threads, history
<1>q. DOMAIN task_queue = 1..Len(task_queue) /\ Len(task_queue) \in Nat
  BY QueueFacts DEF TypeOK
<1>1. ASSUME NEW n \in Notifications, deliver(n) PROVE CountInv'
  <2>1. attempts[n] = 0
    BY <1>1 DEF deliver, CountInv
  <2>2. \A i \in DOMAIN task_queue' : attempts[task_queue'[i]] = 0
    <3>1. CASE UNCHANGED task_queue
      BY <3>1 DEF CountInv
    <3>2. CASE task_queue' = Append(task_queue, n)
      <4>1. /\ DOMAIN task_queue' = 1..(Len(task_queue) + 1)
            /\ task_queue'[Len(task_queue) + 1] = n
            /\ \A i \in 1..Len(task_queue) : task_queue'[i] = task_queue[i]
        BY <3>2, QueueFacts DEF TypeOK
      <4> QED
        BY <1>q, <2>1, <4>1 DEF CountInv
    <3> QED
      BY <1>1, <3>1, <3>2 DEF deliver, queue_notification
  <2>3. \A m \in Notifications : fate'[m] = fate[m] \/ (m = n /\ fate'[m] \in {"accepted", "refused"})
    BY <1>1 DEF deliver, TypeOK
  <2>4. UNCHANGED <<retry_queue, worker, held, attempts>>
    BY <1>1 DEF deliver
  <2> QED
    BY <2>1, <2>2, <2>3, <2>4 DEF CountInv
<1>2. ASSUME NEW w \in Workers, TakeRetry(w) PROVE CountInv'
  <2>1. PICK r \in retry_queue : Hold(w, r.n, r.retry_count) /\ retry_queue' = retry_queue \ {r}
    BY <1>2 DEF TakeRetry, Due
  <2>2. /\ worker'[w] = "send" /\ \A v \in Workers \ {w} : worker'[v] = worker[v] /\ held'[v] = held[v]
        /\ held'[w] = [n |-> r.n, retry_count |-> r.retry_count]
    BY <2>1 DEF Hold, TypeOK
  <2>3. UNCHANGED <<task_queue, fate, attempts>>
    BY <1>2 DEF TakeRetry
  <2> QED
    BY <2>1, <2>2, <2>3 DEF CountInv
<1>3. ASSUME NEW w \in Workers, TakeNew(w) PROVE CountInv'
  <2>1. /\ 1 \in DOMAIN task_queue /\ Head(task_queue) = task_queue[1]
        /\ DOMAIN task_queue' = 1..(Len(task_queue) - 1)
        /\ \A i \in 1..(Len(task_queue) - 1) : task_queue'[i] = task_queue[i + 1]
    BY <1>3, QueueFacts DEF TakeNew, TypeOK
  <2>2. /\ worker'[w] = "send" /\ \A v \in Workers \ {w} : worker'[v] = worker[v] /\ held'[v] = held[v]
        /\ held'[w] = [n |-> task_queue[1], retry_count |-> 0]
    BY <1>3, <2>1 DEF TakeNew, Hold, TypeOK
  <2>3. UNCHANGED <<retry_queue, fate, attempts>>
    BY <1>3 DEF TakeNew
  <2>4. \A i \in DOMAIN task_queue' : i + 1 \in DOMAIN task_queue /\ task_queue'[i] = task_queue[i + 1]
    BY <1>q, <2>1
  <2> QED
    BY <2>1, <2>2, <2>3, <2>4 DEF CountInv
<1>4. ASSUME NEW w \in Workers, Send(w) PROVE CountInv'
  <2>1. held[w].n \in Notifications /\ held[w] # Null /\ held[w].retry_count \in 0..MaxRetries
    BY <1>4, HeldType DEF Send
  <2>2. \A n \in Notifications : attempts'[n] = IF n = held[w].n THEN attempts[n] + 1 ELSE attempts[n]
    BY <1>4, <2>1 DEF Send, TypeOK
  <2>3. /\ worker'[w] = "settle" /\ \A v \in Workers \ {w} : worker'[v] = worker[v]
        /\ UNCHANGED <<task_queue, retry_queue, held, fate>>
    BY <1>4 DEF Send, TypeOK
  <2>4. fate[held[w].n] = "accepted"
    BY <2>1 DEF PlaceInv
  <2>5. \A i \in DOMAIN task_queue : task_queue[i] \in Notifications /\ task_queue[i] # held[w].n
    BY <1>q, <2>1 DEF PlaceInv, TypeOK
  <2>6. \A r \in retry_queue : r.n \in Notifications /\ r.n # held[w].n
    BY <2>1 DEF PlaceInv, TypeOK
  <2>7. \A v \in Workers \ {w} : worker[v] \in {"send", "settle"} =>
                                   held[v].n \in Notifications /\ held[v].n # held[w].n
    BY <2>1, HeldType DEF PlaceInv
  <2>8. attempts[held[w].n] = held[w].retry_count
    BY <1>4 DEF Send, CountInv
  <2> QED
    BY <2>1, <2>2, <2>3, <2>4, <2>5, <2>6, <2>7, <2>8 DEF CountInv
<1>5. ASSUME NEW w \in Workers, Retry(w) PROVE CountInv'
  <2>1. PICK d : retry_queue' = retry_queue \cup
          {[n |-> held[w].n, retry_count |-> held[w].retry_count + 1, wait |-> d]}
    BY <1>5 DEF Retry
  <2>2. attempts[held[w].n] = held[w].retry_count + 1
    BY <1>5 DEF Retry, CountInv
  <2>3. \A r \in retry_queue' : attempts[r.n] = r.retry_count
    BY <2>1, <2>2 DEF CountInv
  <2>4. worker'[w] = "wait" /\ \A v \in Workers \ {w} : worker'[v] = worker[v] /\ held'[v] = held[v]
    BY <1>5 DEF Retry, Release, TypeOK
  <2>5. UNCHANGED <<task_queue, fate, attempts>>
    BY <1>5 DEF Retry
  <2> QED
    BY <2>3, <2>4, <2>5 DEF CountInv
<1>6. ASSUME NEW w \in Workers, Settle(w) PROVE CountInv'
  <2>1. held[w].n \in Notifications /\ held[w].retry_count \in 0..MaxRetries
    BY <1>6, HeldType DEF Settle
  <2>2. attempts[held[w].n] = held[w].retry_count + 1
    BY <1>6 DEF Settle, CountInv
  <2>3. worker'[w] = "wait" /\ \A v \in Workers \ {w} : worker'[v] = worker[v] /\ held'[v] = held[v]
    BY <1>6 DEF Settle, Release, TypeOK
  <2>4. UNCHANGED <<task_queue, retry_queue, attempts>>
    BY <1>6 DEF Settle
  <2>5. \A n \in Notifications \ {held[w].n} : fate'[n] = fate[n]
    BY <1>6, <2>1 DEF Settle, TypeOK
  <2>6. fate'[held[w].n] = IF answer[w] THEN "delivered" ELSE "dropped"
    BY <1>6, <2>1 DEF Settle, TypeOK
  <2>7. ~ answer[w] => held[w].retry_count = MaxRetries
    BY <1>6, <2>1 DEF Settle
  <2>8. attempts[held[w].n] <= MaxRetries + 1 /\ (~ answer[w] => attempts[held[w].n] = MaxRetries + 1)
    BY <2>1, <2>2, <2>7
  <2> QED
    BY <2>3, <2>4, <2>5, <2>6, <2>8 DEF CountInv
<1>7. ASSUME NEW w \in Workers, Exit(w) PROVE CountInv'
  BY <1>7 DEF Exit, CountInv, TypeOK
<1>8. CASE start
  BY <1>8 DEF start, CountInv
<1>9. CASE stop
  BY <1>9 DEF stop, CountInv
<1>10. CASE StopClear
  <2>1. task_queue' = <<>> /\ UNCHANGED <<retry_queue, worker, held, attempts>>
    BY <1>10 DEF StopClear
  <2>2. DOMAIN task_queue' = {}
    BY <2>1
  <2>3. \A n \in Notifications : fate'[n] = IF \E i \in DOMAIN task_queue : task_queue[i] = n THEN "discarded" ELSE fate[n]
    BY <1>10 DEF StopClear
  <2> QED
    BY <2>1, <2>2, <2>3 DEF CountInv
<1>11. CASE Tick
  <2> DEFINE next(r) == [r EXCEPT !.wait = IF @ > 0 THEN @ - 1 ELSE 0]
  <2>1. \A r \in retry_queue : next(r).n = r.n /\ next(r).retry_count = r.retry_count
    BY DEF TypeOK
  <2>2. retry_queue' = {next(r) : r \in retry_queue} /\ UNCHANGED <<task_queue, worker, held, fate, attempts>>
    BY <1>11 DEF Tick
  <2> HIDE DEF next
  <2> QED
    BY <2>1, <2>2 DEF CountInv
<1>12. CASE UNCHANGED vars
  BY <1>12 DEF vars, CountInv
<1> QED
  BY <1>1, <1>2, <1>3, <1>4, <1>5, <1>6, <1>7, <1>8, <1>9, <1>10, <1>11, <1>12 DEF Next, Work

\* The first queue stays the end of the list of accepted notifications: both grow at
\* the end, the queue gets shorter at its head.
LEMMA OrderStep == TypeOK /\ TypeOK' /\ OrderInv /\ [Next]_vars => OrderInv'
<1> SUFFICES ASSUME TypeOK, TypeOK', OrderInv, [Next]_vars PROVE OrderInv'
  OBVIOUS
<1> USE NotificationAssumption DEF threads, history
<1>q. /\ DOMAIN task_queue = 1..Len(task_queue) /\ Len(task_queue) \in Nat
      /\ DOMAIN accepted = 1..Len(accepted) /\ Len(accepted) \in Nat
  BY QueueFacts DEF TypeOK
<1>1. ASSUME NEW n \in Notifications, deliver(n) PROVE OrderInv'
  <2>1. CASE task_queue' = Append(task_queue, n) /\ accepted' = Append(accepted, n)
               /\ fate' = [fate EXCEPT ![n] = "accepted"]
    <3>1. /\ Len(task_queue') = Len(task_queue) + 1
          /\ task_queue'[Len(task_queue) + 1] = n
          /\ \A i \in 1..Len(task_queue) : task_queue'[i] = task_queue[i]
      BY <2>1, QueueFacts DEF TypeOK
    <3>2. /\ DOMAIN accepted' = 1..(Len(accepted) + 1) /\ Len(accepted') = Len(accepted) + 1
          /\ accepted'[Len(accepted) + 1] = n
          /\ \A i \in 1..Len(accepted) : accepted'[i] = accepted[i]
      BY <2>1, QueueFacts DEF TypeOK
    <3>3. \A i \in DOMAIN accepted : accepted[i] \in Notifications /\ accepted[i] # n
      BY <1>1, <1>q DEF deliver, OrderInv, TypeOK
    <3>4. \A i, j \in DOMAIN accepted' : accepted'[i] = accepted'[j] => i = j
      <4>1. \A i \in DOMAIN accepted' : i \in DOMAIN accepted \/ i = Len(accepted) + 1
        BY <1>q, <3>2
      <4> QED
        BY <1>q, <3>2, <3>3, <4>1 DEF OrderInv
    <3>5. \A i \in DOMAIN accepted' : fate'[accepted'[i]] \notin {"new", "refused"}
      <4>1. \A m \in Notifications : fate'[m] = IF m = n THEN "accepted" ELSE fate[m]
        BY <2>1 DEF TypeOK
      <4>2. \A i \in DOMAIN accepted' : accepted'[i] = n \/ (i \in DOMAIN accepted /\ accepted'[i] = accepted[i])
        BY <1>q, <3>2
      <4> QED
        BY <3>3, <4>1, <4>2 DEF OrderInv
    <3>6. Len(task_queue') <= Len(accepted')
      BY <1>q, <3>1, <3>2 DEF OrderInv
    <3>7. ASSUME NEW k \in 1..Len(task_queue')
          PROVE  task_queue'[k] = accepted'[Len(accepted') - Len(task_queue') + k]
      <4>1. Len(accepted') - Len(task_queue') + k = Len(accepted) - Len(task_queue) + k
        BY <1>q, <3>1, <3>2
      <4>2. CASE k \in 1..Len(task_queue)
        <5>1. Len(accepted) - Len(task_queue) + k \in 1..Len(accepted)
          BY <1>q, <4>2 DEF OrderInv
        <5> QED
          BY <4>1, <4>2, <5>1, <3>1, <3>2 DEF OrderInv
      <4>3. CASE k = Len(task_queue) + 1
        BY <1>q, <4>1, <4>3, <3>1, <3>2
      <4> QED
        BY <1>q, <4>2, <4>3, <3>1
    <3> QED
      BY <3>4, <3>5, <3>6, <3>7 DEF OrderInv
  <2>2. CASE fate' = [fate EXCEPT ![n] = "refused"] /\ UNCHANGED <<task_queue, accepted>>
    <3>1. \A i \in DOMAIN accepted : accepted[i] \in Notifications /\ accepted[i] # n
      BY <1>1, <1>q DEF deliver, OrderInv, TypeOK
    <3> QED
      BY <2>2, <3>1 DEF OrderInv, TypeOK
  <2> QED
    BY <1>1, <2>1, <2>2 DEF deliver, queue_notification
<1>2. ASSUME NEW w \in Workers, TakeNew(w) PROVE OrderInv'
  <2>1. /\ 1 \in DOMAIN task_queue /\ Len(task_queue') = Len(task_queue) - 1
        /\ \A i \in 1..(Len(task_queue) - 1) : task_queue'[i] = task_queue[i + 1]
    BY <1>2, QueueFacts DEF TakeNew, TypeOK
  <2>2. UNCHANGED <<accepted, fate>>
    BY <1>2 DEF TakeNew
  <2>3. Len(task_queue') <= Len(accepted)
    BY <1>q, <2>1 DEF OrderInv
  <2>4. ASSUME NEW k \in 1..Len(task_queue')
        PROVE  task_queue'[k] = accepted[Len(accepted) - Len(task_queue') + k]
    <3>1. k + 1 \in 1..Len(task_queue)
            /\ Len(accepted) - Len(task_queue') + k = Len(accepted) - Len(task_queue) + (k + 1)
      BY <1>q, <2>1
    <3> QED
      BY <2>1, <3>1 DEF OrderInv
  <2> QED
    BY <2>2, <2>3, <2>4 DEF OrderInv
<1>3. ASSUME NEW w \in Workers, TakeRetry(w) \/ Send(w) \/ Retry(w) \/ Exit(w) PROVE OrderInv'
  BY <1>3 DEF TakeRetry, Send, Retry, Exit, OrderInv
<1>4. ASSUME NEW w \in Workers, Settle(w) PROVE OrderInv'
  <2>1. \A n \in Notifications : fate'[n] \in {fate[n], "delivered", "dropped"}
    BY <1>4 DEF Settle, TypeOK
  <2>2. \A i \in DOMAIN accepted : accepted[i] \in Notifications
    BY <1>q DEF TypeOK
  <2>3. UNCHANGED <<accepted, task_queue>>
    BY <1>4 DEF Settle
  <2> QED
    BY <2>1, <2>2, <2>3 DEF OrderInv
<1>5. CASE start \/ stop \/ Tick
  BY <1>5 DEF start, stop, Tick, OrderInv
<1>6. CASE StopClear
  <2>1. task_queue' = <<>> /\ Len(task_queue') = 0 /\ UNCHANGED accepted
    BY <1>6 DEF StopClear
  <2>2. \A n \in Notifications : fate'[n] \in {fate[n], "discarded"}
    BY <1>6 DEF StopClear
  <2>3. \A i \in DOMAIN accepted : accepted[i] \in Notifications
    BY <1>q DEF TypeOK
  <2>4. Len(task_queue') <= Len(accepted') /\ 1..Len(task_queue') = {}
    BY <1>q, <2>1
  <2> QED
    BY <2>1, <2>2, <2>3, <2>4 DEF OrderInv
<1>7. CASE UNCHANGED vars
  BY <1>7 DEF vars, OrderInv
<1> QED
  BY <1>1, <1>2, <1>3, <1>4, <1>5, <1>6, <1>7 DEF Next, Work

\* The statistics keep counting: a new notification is pending, a delivered one is no
\* longer, and nothing else changes either number of a session that lost nothing.
LEMMA StatsStep == TypeOK /\ PlaceInv /\ StatsInv /\ [Next]_vars => StatsInv'
<1> SUFFICES ASSUME TypeOK, PlaceInv, StatsInv, [Next]_vars PROVE StatsInv'
  OBVIOUS
<1> USE NotificationAssumption DEF threads, history
<1>0. ASSUME UNCHANGED <<fate, stats>> PROVE StatsInv'
  BY <1>0 DEF StatsInv, Of
<1>1. ASSUME NEW n \in Notifications, deliver(n) PROVE StatsInv'
  <2>1. CASE queue_notification(n) /\ fate' = [fate EXCEPT ![n] = "accepted"]
    <3> SUFFICES ASSUME NEW s \in Sessions
                 PROVE  /\ IsFiniteSet(Of(s, "accepted")') /\ IsFiniteSet(Of(s, "delivered")')
                        /\ Of(s, "dropped")' = {} /\ Of(s, "discarded")' = {} =>
                             /\ stats'[s].pending = Cardinality(Of(s, "accepted")')
                             /\ stats'[s].successful = Cardinality(Of(s, "delivered")')
      BY DEF StatsInv
    <3>1. /\ Of(s, "delivered")' = Of(s, "delivered")
          /\ Of(s, "dropped")' = Of(s, "dropped") /\ Of(s, "discarded")' = Of(s, "discarded")
      BY <1>1, <2>1 DEF deliver, TypeOK, Of
    <3>2. CASE SessionOf[n] = s
      <4>1. Of(s, "accepted")' = Of(s, "accepted") \cup {n} /\ n \notin Of(s, "accepted")
        BY <1>1, <2>1, <3>2 DEF deliver, TypeOK, Of
      <4>2. IsFiniteSet(Of(s, "accepted")')
              /\ Cardinality(Of(s, "accepted")') = Cardinality(Of(s, "accepted")) + 1
        BY <4>1, FS_AddElement DEF StatsInv
      <4>3. stats'[s].pending = stats[s].pending + 1 /\ stats'[s].successful = stats[s].successful
        BY <2>1, <3>2 DEF queue_notification, update_stats, TypeOK
      <4> QED
        BY <3>1, <4>2, <4>3 DEF StatsInv
    <3>3. CASE SessionOf[n] # s
      <4>1. Of(s, "accepted")' = Of(s, "accepted")
        BY <1>1, <2>1, <3>3 DEF deliver, TypeOK, Of
      <4>2. stats'[s] = stats[s]
        BY <2>1, <3>3 DEF queue_notification, update_stats, TypeOK
      <4> QED
        BY <3>1, <4>1, <4>2 DEF StatsInv
    <3> QED
      BY <3>2, <3>3
  <2>2. CASE fate' = [fate EXCEPT ![n] = "refused"] /\ UNCHANGED stats
    <3>1. \A s \in Sessions : \A f \in {"accepted", "delivered", "dropped", "discarded"} : Of(s, f)' = Of(s, f)
      BY <1>1, <2>2 DEF deliver, TypeOK, Of
    <3> QED
      BY <2>2, <3>1 DEF StatsInv
  <2> QED
    BY <1>1, <2>1, <2>2 DEF deliver
<1>2. ASSUME NEW w \in Workers, TakeRetry(w) \/ TakeNew(w) \/ Send(w) \/ Retry(w) \/ Exit(w) PROVE StatsInv'
  BY <1>0, <1>2 DEF TakeRetry, TakeNew, Send, Retry, Exit
<1>3. ASSUME NEW w \in Workers, Settle(w) PROVE StatsInv'
  <2> DEFINE n == held[w].n
  <2>1. n \in Notifications /\ held[w] # Null /\ answer[w] \in BOOLEAN
    BY <1>3, HeldType DEF Settle, TypeOK
  <2>2. fate[n] = "accepted"
    BY <2>1 DEF PlaceInv
  <2>3. \A m \in Notifications : fate'[m] = IF m = n THEN IF answer[w] THEN "delivered" ELSE "dropped" ELSE fate[m]
    BY <1>3, <2>1 DEF Settle, TypeOK
  <2>4. update_stats(SessionOf[n], answer[w])
    BY <1>3 DEF Settle
  <2> HIDE DEF n
  <2> SUFFICES ASSUME NEW s \in Sessions
               PROVE  /\ IsFiniteSet(Of(s, "accepted")') /\ IsFiniteSet(Of(s, "delivered")')
                      /\ Of(s, "dropped")' = {} /\ Of(s, "discarded")' = {} =>
                           /\ stats'[s].pending = Cardinality(Of(s, "accepted")')
                           /\ stats'[s].successful = Cardinality(Of(s, "delivered")')
    BY DEF StatsInv
  <2>5. CASE SessionOf[n] # s
    <3>1. \A f \in {"accepted", "delivered", "dropped", "discarded"} : Of(s, f)' = Of(s, f)
      BY <2>1, <2>3, <2>5 DEF Of
    <3>2. stats'[s] = stats[s]
      BY <2>1, <2>4, <2>5 DEF update_stats, TypeOK
    <3> QED
      BY <3>1, <3>2 DEF StatsInv
  <2>6. CASE SessionOf[n] = s /\ ~ answer[w]
    <3>1. n \in Of(s, "dropped")' /\ Of(s, "delivered")' = Of(s, "delivered")
            /\ Of(s, "accepted")' = Of(s, "accepted") \ {n}
      BY <2>1, <2>2, <2>3, <2>6 DEF Of
    <3> QED
      BY <3>1, FS_RemoveElement DEF StatsInv
  <2>7. CASE SessionOf[n] = s /\ answer[w]
    <3>1. /\ Of(s, "delivered")' = Of(s, "delivered") \cup {n} /\ n \notin Of(s, "delivered")
          /\ Of(s, "accepted")' = Of(s, "accepted") \ {n} /\ n \in Of(s, "accepted")
          /\ Of(s, "dropped")' = Of(s, "dropped") /\ Of(s, "discarded")' = Of(s, "discarded")
      BY <2>1, <2>2, <2>3, <2>7 DEF Of
    <3>2. /\ IsFiniteSet(Of(s, "delivered")')
          /\ Cardinality(Of(s, "delivered")') = Cardinality(Of(s, "delivered")) + 1
      BY <3>1, FS_AddElement DEF StatsInv
    <3>3. /\ IsFiniteSet(Of(s, "accepted")')
          /\ Cardinality(Of(s, "accepted")') = Cardinality(Of(s, "accepted")) - 1
      BY <3>1, FS_RemoveElement DEF StatsInv
    <3>4. Cardinality(Of(s, "accepted")') \in Nat /\ Cardinality(Of(s, "accepted")) \in Nat
      BY <3>3, FS_CardinalityType DEF StatsInv
    <3>5. /\ stats'[s].successful = stats[s].successful + 1
          /\ stats[s].pending > 0 => stats'[s].pending = stats[s].pending - 1
      BY <2>4, <2>7 DEF update_stats, TypeOK
    <3> QED
      BY <3>1, <3>2, <3>3, <3>4, <3>5 DEF StatsInv
  <2> QED
    BY <2>1, <2>5, <2>6, <2>7
<1>4. CASE start \/ stop \/ Tick
  BY <1>0, <1>4 DEF start, stop, Tick
<1>5. CASE StopClear
  <2>1. \A n \in Notifications : fate'[n] \in {fate[n], "discarded"}
    BY <1>5 DEF StopClear
  <2>2. UNCHANGED stats
    BY <1>5 DEF StopClear
  <2>3. ASSUME NEW s \in Sessions
        PROVE  Of(s, "accepted")' \subseteq Of(s, "accepted") /\ Of(s, "delivered")' \subseteq Of(s, "delivered")
    BY <2>1 DEF Of
  <2>4. ASSUME NEW s \in Sessions, Of(s, "discarded")' = {}
        PROVE  \A f \in {"accepted", "delivered", "dropped", "discarded"} : Of(s, f)' = Of(s, f)
    <3>1. \A n \in Notifications : SessionOf[n] = s => fate'[n] = fate[n]
      BY <2>1, <2>4 DEF Of
    <3> QED
      BY <3>1 DEF Of
  <2>5. \A s \in Sessions : IsFiniteSet(Of(s, "accepted")') /\ IsFiniteSet(Of(s, "delivered")')
    BY <2>3, FS_Subset DEF StatsInv
  <2> QED
    BY <2>2, <2>4, <2>5 DEF StatsInv
<1>6. CASE UNCHANGED vars
  BY <1>0, <1>6 DEF vars
<1> QED
  BY <1>1, <1>2, <1>3, <1>4, <1>5, <1>6 DEF Next, Work

-----------------------------------------------------------------------------
(* The theorems *)

IInv == TypeOK /\ JoinedInv /\ PlaceInv /\ CountInv /\ OrderInv /\ StatsInv

\* The invariant holds before the first notification.
LEMMA InitInv == Init => IInv
<1> SUFFICES ASSUME Init PROVE IInv
  OBVIOUS
<1>1. TypeOK
  BY InitType
<1>2. DOMAIN task_queue = {} /\ DOMAIN accepted = {} /\ Len(task_queue) = 0 /\ Len(accepted) = 0
  BY DEF Init
<1>3. JoinedInv /\ PlaceInv /\ CountInv
  BY <1>2 DEF Init, JoinedInv, PlaceInv, CountInv
<1>4. OrderInv
  BY <1>2 DEF Init, OrderInv
<1>5. StatsInv
  <2>1. \A s \in Sessions : \A f \in {"accepted", "delivered"} : Of(s, f) = {}
    BY DEF Init, Of
  <2>2. \A s \in Sessions : stats[s].pending = 0 /\ stats[s].successful = 0
    BY DEF Init
  <2> QED
    BY <2>1, <2>2, FS_EmptySet DEF StatsInv
<1> QED
  BY <1>1, <1>3, <1>4, <1>5 DEF IInv

\* Every reachable state satisfies the invariant.
LEMMA Invariant == Spec => []IInv
<1>1. IInv /\ [Next]_vars => IInv'
  <2> SUFFICES ASSUME IInv, [Next]_vars PROVE IInv'
    OBVIOUS
  <2>1. TypeOK'
    BY TypeStep DEF IInv
  <2> QED
    BY <2>1, JoinedStep, PlaceStep, CountStep, OrderStep, StatsStep DEF IInv
<1> QED
  BY <1>1, InitInv, PTL DEF Spec

\* The queues, the workers' locals and the statistics keep their types, the bound of the
\* first queue and of retry_count included.
THEOREM TypeCorrect == Spec => []TypeOK
  BY Invariant, PTL DEF IInv

\* From the places to their number: an accepted notification is in exactly one.
LEMMA OnePlace == TypeOK /\ PlaceInv => ExactlyOnePlace
<1> SUFFICES ASSUME TypeOK, PlaceInv, NEW n \in Notifications
             PROVE  Cardinality(Queued(n)) + Cardinality(Waiting(n)) + Cardinality(HeldBy(n))
                      = (IF fate[n] = "accepted" THEN 1 ELSE 0)
  BY DEF ExactlyOnePlace
<1>1. Cardinality({}) = 0 /\ \A x : Cardinality({x}) = 1
  BY FS_EmptySet, FS_Singleton
<1>2. ASSUME NEW i \in DOMAIN task_queue, task_queue[i] = n
      PROVE  Queued(n) = {i} /\ Waiting(n) = {} /\ HeldBy(n) = {}
  BY <1>2 DEF PlaceInv, Queued, Waiting, HeldBy
<1>3. ASSUME NEW r \in retry_queue, r.n = n
      PROVE  Queued(n) = {} /\ Waiting(n) = {r} /\ HeldBy(n) = {}
  BY <1>3 DEF PlaceInv, Queued, Waiting, HeldBy
<1>4. ASSUME NEW w \in Workers, held[w] # Null, held[w].n = n
      PROVE  Queued(n) = {} /\ Waiting(n) = {} /\ HeldBy(n) = {w}
  BY <1>4 DEF PlaceInv, Queued, Waiting, HeldBy
<1>5. CASE fate[n] = "accepted"
  <2>1. Cardinality(Queued(n)) + Cardinality(Waiting(n)) + Cardinality(HeldBy(n)) = 1
    <3>1. CASE \E i \in DOMAIN task_queue : task_queue[i] = n
      <4>1. Cardinality(Queued(n)) = 1 /\ Cardinality(Waiting(n)) = 0 /\ Cardinality(HeldBy(n)) = 0
        BY <1>1, <1>2, <3>1, Zenon
      <4> QED
        BY <4>1
    <3>2. CASE \E r \in retry_queue : r.n = n
      <4>1. Cardinality(Queued(n)) = 0 /\ Cardinality(Waiting(n)) = 1 /\ Cardinality(HeldBy(n)) = 0
        BY <1>1, <1>3, <3>2, Zenon
      <4> QED
        BY <4>1
    <3>3. CASE \E w \in Workers : held[w] # Null /\ held[w].n = n
      <4>1. Cardinality(Queued(n)) = 0 /\ Cardinality(Waiting(n)) = 0 /\ Cardinality(HeldBy(n)) = 1
        BY <1>1, <1>4, <3>3, Zenon
      <4> QED
        BY <4>1
    <3> QED
      BY <1>5, <3>1, <3>2, <3>3 DEF PlaceInv
  <2> QED
    BY <1>5, <2>1
<1>6. CASE fate[n] # "accepted"
  <2>1. Queued(n) = {} /\ Waiting(n) = {} /\ HeldBy(n) = {}
    BY <1>6 DEF PlaceInv, Queued, Waiting, HeldBy
  <2> QED
    BY <1>1, <1>6, <2>1
<1> QED
  BY <1>5, <1>6

\* Between the two queues and the workers of worker_thread no accepted notification is
\* lost or duplicated, across stop and start too.
THEOREM PlaceUnique == Spec => []ExactlyOnePlace
<1>1. IInv => ExactlyOnePlace
  BY OnePlace DEF IInv
<1> QED
  BY <1>1, Invariant, PTL

\* A sink gets a notification at most max_retry_attempts + 1 times, and one that
\* worker_thread gives up exactly that often.
THEOREM AttemptsCounted == Spec => []AttemptsExact
<1>1. IInv => AttemptsExact
  <2> SUFFICES ASSUME IInv, NEW n \in Notifications PROVE attempts[n] <= MaxRetries + 1
    BY DEF IInv, CountInv, AttemptsExact
  <2>1. CASE fate[n] # "accepted"
    <3>1. fate[n] \in {"new", "refused", "discarded"} \/ fate[n] = "dropped" \/ fate[n] = "delivered"
      BY <2>1 DEF IInv, TypeOK, Fates
    <3>2. attempts[n] = 0 \/ attempts[n] = MaxRetries + 1 \/ attempts[n] <= MaxRetries + 1
      BY <3>1 DEF IInv, CountInv
    <3> QED
      BY <3>2, NotificationAssumption
  <2>2. ASSUME NEW i \in DOMAIN task_queue, task_queue[i] = n PROVE attempts[n] <= MaxRetries + 1
    BY <2>2, NotificationAssumption DEF IInv, CountInv
  <2>3. ASSUME NEW r \in retry_queue, r.n = n PROVE attempts[n] <= MaxRetries + 1
    <3>1. attempts[n] = r.retry_count /\ r.retry_count \in 1..MaxRetries
      BY <2>3 DEF IInv, CountInv, TypeOK
    <3> QED
      BY <3>1, NotificationAssumption
  <2>4. ASSUME NEW w \in Workers, held[w] # Null, held[w].n = n PROVE attempts[n] <= MaxRetries + 1
    <3>1. worker[w] \in {"send", "settle"}
      BY <2>4 DEF IInv, TypeOK
    <3>2. held[w].retry_count \in 0..MaxRetries
      BY <3>1, HeldType DEF IInv
    <3>3. attempts[n] \in {held[w].retry_count, held[w].retry_count + 1}
      BY <2>4, <3>1 DEF IInv, CountInv
    <3> QED
      BY <3>2, <3>3, NotificationAssumption
  <2> QED
    BY <2>1, <2>2, <2>3, <2>4 DEF IInv, PlaceInv
<1> QED
  BY <1>1, Invariant, PTL

\* The workers take notifications for their first attempt in the order in which deliver
\* accepted them (what they then send may overtake each other).
THEOREM QueueKeepsOrder == Spec => []TakenInOrder
<1>1. IInv => TakenInOrder
  <2> SUFFICES ASSUME IInv, NEW i \in DOMAIN accepted, NEW j \in DOMAIN accepted, i < j,
                      Queued(accepted[i]) # {}
               PROVE  /\ HeldBy(accepted[j]) = {} /\ Waiting(accepted[j]) = {}
                      /\ fate[accepted[j]] \notin {"delivered", "dropped"}
    BY DEF TakenInOrder
  <2>1. /\ DOMAIN task_queue = 1..Len(task_queue) /\ Len(task_queue) \in Nat
        /\ DOMAIN accepted = 1..Len(accepted) /\ Len(accepted) \in Nat
    BY QueueFacts DEF IInv, TypeOK
  <2> DEFINE gone == Len(accepted) - Len(task_queue)
  <2>2. PICK k \in 1..Len(task_queue) : task_queue[k] = accepted[i]
    BY <2>1 DEF Queued
  <2>3. gone \in Nat /\ task_queue[k] = accepted[gone + k] /\ gone + k \in DOMAIN accepted
    BY <2>1 DEF IInv, OrderInv
  <2>4. i = gone + k
    BY <2>2, <2>3 DEF IInv, OrderInv
  <2>5. j - gone \in 1..Len(task_queue) /\ gone + (j - gone) = j
    BY <2>1, <2>3, <2>4
  <2>6. task_queue[j - gone] = accepted[j]
    BY <2>5 DEF IInv, OrderInv
  <2>7. accepted[j] \in Notifications
    BY <2>1 DEF IInv, TypeOK
  <2>8. j - gone \in DOMAIN task_queue
    BY <2>1, <2>5
  <2> HIDE DEF gone
  <2> QED
    BY <2>6, <2>7, <2>8 DEF IInv, PlaceInv, HeldBy, Waiting
<1> QED
  BY <1>1, Invariant, PTL

\* The statistics of update_stats count what is under way and what was delivered, as
\* long as nothing of the session was given up or discarded.
THEOREM PendingCounted == Spec => []PendingUntilDelivered
<1>1. IInv => PendingUntilDelivered
  <2> SUFFICES ASSUME IInv, NEW s \in Sessions,
                      \A n \in {m \in Notifications : SessionOf[m] = s} : fate[n] \notin {"dropped", "discarded"}
               PROVE  /\ stats[s].pending =
                           Cardinality({n \in {m \in Notifications : SessionOf[m] = s} : fate[n] = "accepted"})
                      /\ stats[s].successful =
                           Cardinality({n \in {m \in Notifications : SessionOf[m] = s} : fate[n] = "delivered"})
    BY DEF PendingUntilDelivered
  <2>1. \A f : {n \in {m \in Notifications : SessionOf[m] = s} : fate[n] = f} = Of(s, f)
    BY DEF Of
  <2>2. Of(s, "dropped") = {} /\ Of(s, "discarded") = {}
    BY DEF Of
  <2> QED
    BY <2>1, <2>2 DEF IInv, StatsInv
<1> QED
  BY <1>1, Invariant, PTL
=============================================================================
