---------------------------- MODULE DemoAdapter ----------------------------
(***************************************************************************)
(* The demo QoD adapter, a client of AF core: SessionManager creates a     *)
(* session for every configured stream, polls them and deletes them when   *)
(* it shuts down.  One thread drives it, but the answer to a request may   *)
(* be lost or late, and both clients then send the request again.          *)
(*                                                                         *)
(* A request AF core has not answered when its attempt ends may still be   *)
(* carried out, now or later: it is pending.  Streams and sessions are     *)
(* taken in any order; time (delays between attempts, polling interval) is *)
(* left out.  AF core is modelled by what its handlers answer; QodSession  *)
(* has the detail.  get_session_status and delete_session of               *)
(* SessionManager, extend_session and retrieve_sessions have no caller.    *)
(***************************************************************************)
EXTENDS Integers, FiniteSets

CONSTANTS
  Streams,       \* the streams of the configuration
  SessionIds,    \* bound: the sessions AF core creates
  MaxRetries,    \* retry.max_retries
  Configs,       \* configurations: bundled (run in AF core's process, or an executable of its
                 \* own), transport ("grpc": QodClient, "http": HttpQodClient) and the
                 \* iterations of the monitoring loop (negative: no limit)
  NoId,          \* the empty session id
  None

ASSUME AdapterAssumption ==
  /\ MaxRetries \in Nat
  /\ Configs \subseteq [bundled : BOOLEAN, transport : {"grpc", "http"}, iterations : Int]
  /\ NoId \notin SessionIds

VARIABLES
  config,
  phase, todo,           \* the part of run() or main() in execution, and what is left of its loop
  iteration,
  request,               \* the request in progress: stream or session, and attempts made
  sessions_,
  shutdown_requested_,
  af_core,               \* "starting", "up", "stopped"
  core,                  \* AF core's sessions: "unused", "live", "unavailable", "removed"
  stream_of,             \* the stream a session was created for
  pending,               \* requests given up on that AF core may yet carry out
  lost,                  \* sessions whose id never reached the adapter
  misread,               \* sessions whose refused deletion was taken for a success
  undeleted              \* sessions whose deletion ended in an error

control == <<config, phase, todo, iteration, shutdown_requested_>>
service == <<af_core, core, stream_of>>
ghosts  == <<lost, misread, undeleted>>
vars    == <<control, request, sessions_, service, pending, ghosts>>

NoRequest == [of |-> None, attempts |-> 0]

-----------------------------------------------------------------------------
(* AF core's handlers: the outcomes of a request, each with the sessions   *)
(* after it and the answer.                                                *)

Error(c)          == [core |-> c, stream_of |-> stream_of, ok |-> FALSE, id |-> NoId, status |-> None]
Ok(c, id, status) == [core |-> c, stream_of |-> stream_of, ok |-> TRUE, id |-> id, status |-> status]

Created(i, s) ==
  [Ok([core EXCEPT ![i] = "live"], i, "live") EXCEPT !.stream_of = [stream_of EXCEPT ![i] = s]]

\* A repeated request may be refused for its conflict with the session of the first,
\* or create another one: that depends on the consumer id.
CreateOutcomes(s) ==
  {Error(core)} \cup {Created(i, s) : i \in {j \in SessionIds : core[j] = "unused"}}

GetOutcomes(i) ==
  IF i \in SessionIds /\ core[i] \in {"live", "unavailable"} THEN {Ok(core, i, core[i])} ELSE {Error(core)}

\* The PCF may refuse to release a live session; one that is no longer live is
\* deleted again.
DeleteOutcomes(i) ==
  IF i \notin SessionIds \/ core[i] \notin {"live", "unavailable"} THEN {Error(core)}
  ELSE {Ok([core EXCEPT ![i] = "unavailable"], i, "unavailable")}
         \cup (IF core[i] = "live" THEN {Error(core)} ELSE {})

Outcomes(op, x) ==
  CASE op = "create"  -> CreateOutcomes(x)
    [] op = "monitor" -> GetOutcomes(x)
    [] op = "cleanup" -> DeleteOutcomes(x)

-----------------------------------------------------------------------------
(* SessionManager: what it does with the result of a client call.          *)

Put(f, x, v) == [y \in DOMAIN f \cup {x} |-> IF y = x THEN v ELSE f[y]]
Drop(f, x)   == [y \in DOMAIN f \ {x} |-> f[y]]

request_qos_for_stream(s, ok, info) ==
  /\ sessions_' = IF ok THEN Put(sessions_, info.id, [stream |-> s, status |-> info.status]) ELSE sessions_
  /\ UNCHANGED undeleted

\* Faulty variant: a session the AF does not answer for is no longer tracked.
monitor_sessions_forgets(i, ok, info) ==
  /\ sessions_' = IF ok THEN [sessions_ EXCEPT ![i].status = info.status] ELSE Drop(sessions_, i)
  /\ UNCHANGED undeleted

monitor_sessions(i, ok, info) ==
  /\ sessions_' = IF ok THEN [sessions_ EXCEPT ![i].status = info.status] ELSE sessions_
  /\ UNCHANGED undeleted

cleanup_all_sessions(i, ok) ==
  /\ sessions_' = IF ok THEN Drop(sessions_, i) ELSE sessions_
  /\ undeleted' = IF ok THEN undeleted ELSE undeleted \cup {i}

\* A call has ended: its loop goes on with the next stream or session.
Handle(x, ok, info) ==
  /\ \/ phase = "create"  /\ request_qos_for_stream(x, ok, info)
     \/ phase = "monitor" /\ monitor_sessions(x, ok, info)
     \/ phase = "cleanup" /\ cleanup_all_sessions(x, ok)
  /\ request' = NoRequest
  /\ todo' = todo \ {x}
  /\ UNCHANGED <<config, phase, iteration, shutdown_requested_>>

Call(x) ==
  /\ phase \in {"create", "monitor", "cleanup"} /\ request = NoRequest
  /\ request' = [of |-> x, attempts |-> 0]
  /\ UNCHANGED <<control, sessions_, service, pending, ghosts>>

-----------------------------------------------------------------------------
(* HttpQodClient and QodClient *)

Calling == request.of # None

\* parse_session_info: of a body that is cut off or no JSON it makes a result
\* without an id.
parse_session_info(o, usable) ==
  IF usable THEN [id |-> o.id, status |-> o.status] ELSE [id |-> NoId, status |-> "REQUESTED"]

\* Whether the caller is told of a success.  HttpQodClient looks at the status;
\* QodClient looks for an error in the body, and finds none in one that is empty or
\* no JSON.
Success(o, usable) == o.ok \/ (config.transport = "grpc" /\ ~usable)

\* An attempt AF core answers, with a status that is not retried.
Answered ==
  /\ Calling /\ request.attempts < MaxRetries /\ af_core = "up"
  /\ \E o \in Outcomes(phase, request.of), usable \in BOOLEAN :
       /\ core' = o.core /\ stream_of' = o.stream_of
       /\ Handle(request.of, Success(o, usable), parse_session_info(o, usable))
       /\ lost' = IF phase = "create" /\ o.ok /\ ~usable THEN lost \cup {o.id} ELSE lost
       /\ misread' = IF phase = "cleanup" /\ ~o.ok /\ Success(o, usable)
                     THEN misread \cup {request.of} ELSE misread
  /\ UNCHANGED <<af_core, pending>>

\* The request of this attempt may be pending; a read that is carried out late has
\* no effect, and is left out.
MayBePending ==
  pending' \in {pending} \cup
    {pending \cup {[op |-> phase, of |-> request.of, n |-> request.attempts]} : p \in {phase} \ {"monitor"}}

\* Faulty variant: an attempt that failed is not counted.
Retry_uncounted ==
  /\ Calling /\ request.attempts < MaxRetries
  /\ MayBePending
  /\ UNCHANGED <<control, sessions_, request, service, ghosts>>

\* An attempt without a final answer: the request did not arrive, was turned down
\* with 429, 502, 503 or 504, or is pending.  Over HTTP nothing ends the wait for the
\* answer but the other side: there is no time limit, and no fairness for this step.
Retry ==
  /\ Calling /\ request.attempts < MaxRetries
  /\ MayBePending
  /\ request' = [request EXCEPT !.attempts = @ + 1]
  /\ UNCHANGED <<control, sessions_, service, ghosts>>

\* A gRPC status that is not retryable; the request may be pending.
is_not_retryable ==
  /\ Calling /\ request.attempts < MaxRetries
  /\ MayBePending
  /\ Handle(request.of, FALSE, None)
  /\ UNCHANGED <<service, lost, misread>>

\* All attempts failed.
RetriesExhausted ==
  /\ Calling /\ request.attempts = MaxRetries
  /\ Handle(request.of, FALSE, None)
  /\ UNCHANGED <<service, pending, lost, misread>>

\* The attempts of the two clients: every failure of the HTTP client is retried, of
\* gRPC's only the statuses UNAVAILABLE, DEADLINE_EXCEEDED and RESOURCE_EXHAUSTED.
do_http_request == config.transport = "http" /\ (Answered \/ Retry \/ RetriesExhausted)
send_message    == config.transport = "grpc" /\ (Answered \/ Retry \/ is_not_retryable \/ RetriesExhausted)

-----------------------------------------------------------------------------
(* The control loop *)

Goto(p, work) == phase' = p /\ todo' = work
StaySame      == UNCHANGED <<config, shutdown_requested_, request, sessions_, service, pending, ghosts>>

\* AF core can be reached in time.
wait_for_ready ==
  /\ phase = "wait" /\ af_core = "up"
  /\ Goto("create", Streams)
  /\ UNCHANGED iteration /\ StaySame

\* It cannot: run() and main() return.
NotReachable ==
  /\ phase = "wait"
  /\ Goto("done", {})
  /\ UNCHANGED iteration /\ StaySame

\* The head of the monitoring loop, reached from create_all_sessions and from
\* monitor_sessions.
LoopHead ==
  /\ phase \in {"create", "monitor"} /\ todo = {} /\ ~Calling
  /\ LET i == IF phase = "monitor" /\ config.iterations >= 0 THEN iteration + 1 ELSE iteration
     IN  /\ iteration' = i
         /\ IF shutdown_requested_ \/ i = config.iterations
            THEN Goto("cleanup", DOMAIN sessions_)
            ELSE Goto("sleep", {})
  /\ StaySame

\* Faulty variant: after the sleep the flag is not looked at again, and the loop
\* is left without the cleanup.
Wake_without_cleanup ==
  /\ phase = "sleep"
  /\ IF shutdown_requested_ THEN Goto("done", {}) ELSE Goto("monitor", DOMAIN sessions_)
  /\ UNCHANGED iteration /\ StaySame

Wake ==
  /\ phase = "sleep"
  /\ IF shutdown_requested_ THEN Goto("cleanup", DOMAIN sessions_) ELSE Goto("monitor", DOMAIN sessions_)
  /\ UNCHANGED iteration /\ StaySame

Finish ==
  /\ phase = "cleanup" /\ todo = {} /\ ~Calling
  /\ Goto("done", {})
  /\ UNCHANGED iteration /\ StaySame

-----------------------------------------------------------------------------
(* The environment *)

\* Standalone: a signal.  Bundled: the destructor of g_bundled_adapter_runtime,
\* which runs after main() has returned and AF core has been stopped.
RequestShutdown ==
  /\ ~shutdown_requested_ /\ (config.bundled => af_core = "stopped")
  /\ shutdown_requested_' = TRUE
  /\ UNCHANGED <<config, phase, todo, iteration, request, sessions_, service, pending, ghosts>>

StartCore ==
  /\ af_core = "starting" /\ af_core' = "up"
  /\ UNCHANGED <<control, request, sessions_, core, stream_of, pending, ghosts>>

\* QodSessionManager::stop forgets every session.
StopCore ==
  /\ af_core # "stopped" /\ af_core' = "stopped"
  /\ core' = [i \in SessionIds |-> IF core[i] = "unused" THEN "unused" ELSE "removed"]
  /\ UNCHANGED <<control, request, sessions_, stream_of, pending, ghosts>>

\* AF core carries out a request nobody waits for any longer.
CarryOut ==
  /\ af_core = "up"
  /\ \E r \in pending : \E o \in Outcomes(r.op, r.of) :
       /\ core' = o.core /\ stream_of' = o.stream_of
       /\ lost' = IF r.op = "create" /\ o.ok THEN lost \cup {o.id} ELSE lost
       /\ pending' = pending \ {r}
  /\ UNCHANGED <<control, request, sessions_, af_core, misread, undeleted>>

\* A session ends, or expires and is cleaned up.
SessionEnds(i) ==
  /\ af_core = "up" /\ core[i] \in {"live", "unavailable"}
  /\ core' \in {[core EXCEPT ![i] = "unavailable"], [core EXCEPT ![i] = "removed"]} \ {core}
  /\ UNCHANGED <<control, request, sessions_, af_core, stream_of, pending, ghosts>>

-----------------------------------------------------------------------------
Init ==
  /\ config \in Configs
  /\ phase = "wait" /\ todo = {} /\ iteration = 0
  /\ request = NoRequest /\ sessions_ = [i \in {} |-> None]
  /\ shutdown_requested_ = FALSE
  /\ af_core = "starting"
  /\ core = [i \in SessionIds |-> "unused"] /\ stream_of = [i \in SessionIds |-> None]
  /\ pending = {} /\ lost = {} /\ misread = {} /\ undeleted = {}

\* What the adapter's thread does by itself.
Driven ==
  \/ wait_for_ready \/ NotReachable \/ LoopHead \/ Wake \/ Finish
  \/ \E x \in todo : Call(x)
  \/ send_message \/ RetriesExhausted

Adapter == Driven \/ do_http_request

Environment ==
  \/ RequestShutdown \/ StartCore \/ StopCore \/ CarryOut
  \/ \E i \in SessionIds : SessionEnds(i)

Next == Adapter \/ Environment

\* The adapter's thread runs, and a gRPC call ends at its deadline.  An attempt of the
\* HTTP client, which reads without a time limit, need not end.
Spec == Init /\ [][Next]_vars /\ WF_vars(Driven)

-----------------------------------------------------------------------------
(* Properties *)

\* A session that AF core holds for one of the streams is tracked, whatever fails in
\* between, unless its id never arrived or AF core's refusal to delete it was not
\* understood: only a lost, late or unreadable answer leaves a session behind that
\* nobody deletes.
LiveIsTracked ==
  \A i \in SessionIds : core[i] = "live" =>
    i \in lost \cup misread \/ (i \in DOMAIN sessions_ /\ sessions_[i].stream = stream_of[i])

\* "Delete every tracked session (graceful shutdown)": when the adapter has ended,
\* a session that is still live is one whose id it never had or whose deletion failed,
\* with or without the adapter knowing.
CleanedUp ==
  phase = "done" => \A i \in SessionIds : core[i] = "live" => i \in lost \cup misread \cup undeleted

\* An attempt over HTTP that is not over.
HttpWaits == config.transport = "http" /\ Calling /\ request.attempts < MaxRetries

\* A shutdown request is never stuck behind retries, polling or the cleanup of
\* sessions AF core no longer answers for, and the adapter's thread can be joined,
\* unless it waits for ever in one HTTP attempt: do_http_request has no time limit, so
\* a peer that keeps the connection open and sends nothing blocks the shutdown.
ShutdownCompletes == shutdown_requested_ ~> (phase = "done" \/ []HttpWaits)
=============================================================================
