# phine.af: TLA+ models of the application function

phine.af is a 5G application function (AF).  Consumers ask it, through the CAMARA
Quality-on-Demand (QoD) API, for a quality of service between a device and an
application server; AF core keeps the session, asks the policy control function
(PCF) of the 5G core to enforce it and tells the consumer what became of it.

This directory holds TLA+ models of the parts of the program where threads,
failures and time meet, configurations with which TLC checks them on small
instances, and proofs for TLAPS.  `PROJECT.json` maps every definition to the
lines it models and lists runs, hazards, findings and theorems.

    tlc -config MCQodSession_races.cfg MCQodSession     # one run
    tlapm QodSession_proofs.tla                         # the proofs

## Modules

| module | what it is |
|---|---|
| `RestApi` | the northbound side: endpoints (`QodRestAdapter`), `RestRouter`, `RequestRouter`, `QodHandler` and the way back to an HTTP response |
| `QodRequest` | one creation on its way through `QodHandler`, `QodSessionManager` and `QodPcfHandler` to the PCF: parsing, validation, conversion |
| `QodSession` | `QodSessionManager` over `QodStateManager`: create, delete, extend, the conversation with the PCF, cleanup, stop |
| `SessionLifecycle` | what AF core promises about one session; `QodSession` is proved to implement it when requests do not overlap |
| `QodNotification` | `QodNotificationManager`: queue, workers, retries, statistics, start and stop |
| `UeState` | `UeStateManager`: UE states, identities, PDU sessions and the indices |
| `PcfSession` | `QodPcfHandler` and `HttpPcfGateway`: app sessions and the maps between them and QoD sessions |
| `AppSessionContract` | what the southbound side promises about app sessions; `PcfSession` is proved to implement it |
| `Policy` | `PolicyManager`: policies of the older API and their app sessions |
| `DemoAdapter` | the demonstration client of AF core, bundled or standalone, over gRPC or HTTP |
| `BundledRuntime` | `BundledAfRuntime` with `AfOrchestrator::start/stop/wait`: threads, signals, shutdown |
| `MC...` | the instances for TLC, with one `.cfg` per run |
| `..._proofs` | inductive invariants, theorems and their proofs, one module for each of `QodSession`, `QodNotification`, `UeState`, `PcfSession`, `Policy`, `DemoAdapter` and `BundledRuntime`; `RestApi_proofs` is about `RestApi` and `QodRequest` together |

`RestApi` extends `QodRequest`: a creation enters through the endpoint and goes on to the PCF in one
behaviour.  The other modules share no variables.  They meet where one component calls another:
`QodRequest` ends where `QodSession` begins (a session is stored) and where `PcfSession` begins (a
valid context is sent); the app sessions of `QodSession` are those of `AppSessionContract`, which
`PcfSession` implements; `QodSession` hands a notification to the notification manager (`events`
records that it did; `QodNotification` takes up from there); `DemoAdapter` sees of AF core what its
handlers answer; and `BundledRuntime` starts and stops the parts that the others model (`Stop` and
`StopClear` in `QodSession`, `stop` in `QodNotification`, `StopCore` in `DemoAdapter`).

Definitions called `X_something` with the comment "Faulty variant" are the mistakes
against which a property is tried: put in place of `X`, the property fails.

## Inventory

| component | state | operations | hard behaviour | what makes it correct |
|---|---|---|---|---|
| QodSessionManager | configuration, cleanup thread | create, delete, extend, retrieve sessions; PCF answers; cleanup; stop | no lock of its own: it copies a session out of the store, talks to the PCF or the UE states, and writes the copy back | what is AVAILABLE was granted by the PCF and has consistent times, an UNAVAILABLE session has released the app session it names, nothing removed comes back, every creation settles |
| QodStateManager | sessions by id, ids by SUPI, PCF session map, QoS profiles | add, update, remove, expire | each call is atomic, sequences of calls are not | the indices agree with the store |
| QodNotificationManager | `task_queue_`, `retry_queue_`, statistics, workers | deliver, start, stop | workers compete for two queues; retries over time; stop with work left | nothing lost or doubled, attempts counted, everything settles |
| UeStateManager | UE states and their indices, PDU sessions | lookups, promotion, merging, PDU sessions | nested calls that lock the same mutex again; indices of merged states | indices agree with the states, no lookup blocks itself |
| QodHandler, QodRestAdapter, RequestRouter, RestRouter | routing tables, filled once | parse, validate, dispatch, format | tied together by strings; a failed extension is explained by a second read | the client is told what happened, of the session it named |
| PolicyManager | policies and their PCF session ids | create, update, delete a policy | its mutex is held while it waits for the PCF; create holds it only to store; update does not release the app session it replaces; rollback | an active policy is what the network does, no app session escapes unnoticed |
| SubscriptionManager | subscriptions by id and by event | create, update, delete, notify, expire | expiry is checked in two places | no event after expiry or deletion |
| EventDispatcher | subscribers | subscribe, publish | callbacks run in the publisher | (nobody subscribes in the program) |
| AfOrchestrator | the components, `running` | initialize, start, stop, wait | stop and start overlap | stop leaves nothing running |
| QodPcfHandler, HttpPcfGateway | QoD to app session map and back | create, update, delete app sessions over HTTP | HTTP between two locked sections; lost and unusable answers | no app session is lost but by a refused creation; deletions are real and hit their own session |
| PcfHandler, PccRuleManager | PCC rules | app sessions of policies | (unreachable: no message type is registered for them) | |
| api_component | connection to AF core | forward requests | thread pool | (stateless forwarding) |
| demo-qod-adapter | its own sessions, worker thread | create, monitor, delete | lost and late answers, retries; AF core stopped before the cleanup | nothing it knows is left behind, shutdown completes |
| Bundled runtime | `state_`, threads, the orchestrator, the handlers | initialize, start, wait, requestShutdown | signals and failing threads during start | shutdown is executed once, completes, and uses nothing it destroyed |
| common | messages, transport, data model | | a git submodule, not part of this repository | modelled as external |

## QodSession

`sessions`, `sessions_by_supi` and `pcf_session_mapping` are the members of
`QodStateManager`.  Each of its functions locks one mutex, so one action is one such
call with the local code up to the next.  `pc[t]` is where API thread `t` is inside an
operation, `copy[t]` the local `QodSession` it works on, `reply[t]` the app session id
in the PCF's answer.  `app_sessions` is the PCF: an app session is unused, live or
released, and an answer may be lost after the PCF acted on the request.  `events` is
the history of notifications handed over, `used` the ids that were generated,
`expired` the ids the cleanup thread has collected and has still to remove.

| code | actions |
|---|---|
| `create_session` | `CreateSession`, `AddSession`, `create_or_update_ue_state`, `apply_session_to_pcf`; on failure `FailSession`, `NotifyFailed` |
| `handle_pcf_session_response` | `handle_pcf_session_response`, `update_pcf_session_map`, `NotifyResponse`, `WriteResponse` |
| `delete_session` | `DeleteSession`, `remove_session_from_pcf`, `remove_pcf_to_qod_session_mapping`, `MarkDeleted`, `NotifyDeleted`, `WriteBack` |
| `extend_session_duration` | `ExtendSession`, `WriteBack` |
| `cleanup_expired_sessions` | `CollectExpired`, `RemoveExpired` (one id at a time) |
| `stop` | `Stop`, `StopClear` |

Three points where the code is less than obvious:

* *Unset times.* Extending a session that is still REQUESTED dereferences an empty
  `started_at`.  The value read is one of `Garbage` (a moment long past or far ahead).
* *Ids.* `generate_session_id` draws from a static, unlocked generator.  With `RacyIds`
  two threads that overlap may draw the same id; without it ids are unique.
* *UE states.* `UeStateManager` is filled only by `create_or_update_ue_state`, with
  provisional states that have neither a SUPI nor PDU sessions, so in this program
  `resolve_device` finds no SUPI (`Resolutions = {Null}`).  The code after it handles one,
  and other components may provision states; `Resolutions = {u1}` stands for that and
  makes the SUPI index matter.  `update_ue_state_from_pcf_response` does nothing
  for states without SUPI and PDU sessions and is left out.

### Runs

| run | instance | shows |
|---|---|---|
| `races` | 3 threads, 1 session, all operations, stop, a known SUPI | `SupiIndexExact`, `AvailableIsBacked`, `UnavailableIsReleased`, `DeletedToldAfterAvailable`, `RemovedStaysRemoved` |
| `serial` | 1 thread and the cleanup thread, 2 sessions, stop | the code implements `SessionLifecycle`; anonymous consumers never conflict |
| `progress` | 2 fair threads that create, delete and extend, fair cleanup and clock | every session leaves the REQUESTED it was created with; every session with an expiry is forgotten after its TTL |
| `deleted` | 2 threads | *violated*: `DeletedIsFinal`: the answer of the PCF to a creation, handled late, turns a session that was reported deleted into an AVAILABLE one |

The module states six more properties after comments and documents that the code does not satisfy.  They
are in no configuration; added to one (with the instance named), TLC shows the behaviour.

| property | says | behaviour |
|---|---|---|
| `NoConflictingSessions` | `qod_session_manager.h:234` "Check for conflicting sessions" | `check_session_conflict` looks sessions up for the empty consumer id, so two named consumers, one after the other (`serial`), both get an active session for one device and server |
| `CleanupOnlyExpired` | `:273` "sessions that have expired based on their expiration time" | the cleanup thread removes a session that was extended after the pass collected it (`serial`) |
| `UnavailableIsForgotten` | `:43` "TTL for unavailable sessions" | a session the PCF refused has no `expires_at` and is never collected (`progress`) |
| `AddNeverReplaces` | `:284` "Generate a unique session ID" | with `RacyIds` two threads store two consumers' sessions under one id (`races` with 2 threads, `RacyIds = TRUE` and `Consumers = {c1, c2}`) |
| `EndedIsReleased` | `06-qos-http-tutorial.md:438`: on a deletion the AF signals the PCF to remove the rule | a deletion that read the session while it was REQUESTED knows no app session to release and writes UNAVAILABLE over the session granted meanwhile (`races` with 2 threads) |
| `RequestedNeverReturns` | `qod_handler.cpp:317` "The session must be in the AVAILABLE state" to be extended | an extension is let through for a REQUESTED session and writes its copy back after the session settled (`races` with 2 threads) |

These two are also the limits of what the runs show: `UnavailableIsReleased` is about sessions that
name an app session, and `RequestedSettles` about a session as it was created, without an expiry.  A session
that an extension put back to REQUESTED has one, and `ExpiredIsForgotten` is about it.

Bounds.  Sessions interact only through an id they share, through the SUPI index and
through the conflict check: one session and three threads cover a creation, a deletion
and an extension of the same session at once, two sessions the index and the conflict
check.  `Durations = {0, 1, 3}` with limits 1 and 2 lies below, within and above the
limits; `MaxTime = 2` with `Ttl = 1` lets a session of length 1 expire and be collected,
`MaxTime = 3` in the liveness run leaves room for the pass that removes it.  Threads,
session ids and app session ids are symmetric; the liveness run uses no symmetry.
`CHECK_DEADLOCK FALSE` throughout: the bounds on clock and ids end every behaviour,
and a server without clients may rest.

Fairness (`progress`): a thread inside an operation goes on, since `send_request`
has a timeout and the store's locks are held for a few instructions; the cleanup thread's
loop wakes up by a timeout; time passes.  Clients owe nothing: no request is fair.

`serial` has one API thread because `SessionLifecycle` is what a consumer expects of a
session, and with overlapping requests the code does not give it (`deleted`).

## QodNotification

`task_queue`, `retry_queue` and `stats` are the members; `worker[w]`, `held[w]` and `answer[w]` a
worker's position and locals; `fate`, `accepted` and `attempts` are history.  A worker takes a due
retry before anything new, sends outside the lock and settles under it.  Deliveries go on being
accepted when the manager is stopped; `stop` empties `task_queue_` and leaves `retry_queue_`, also when
the manager is stopped already.

| run | instance | shows |
|---|---|---|
| `delivery` | 3 notifications, queue of 2, 2 workers, 2 retries, stop and restart, fair | `ExactlyOnePlace`, `AttemptsExact`, `TakenInOrder`, `PendingUntilDelivered`, `AcceptedSettles` |

Abstractions: a retry's due time is a countdown in seconds; among due retries any may be
taken (the code takes the earliest, so this allows more); `session_tasks_` and
`cancel_session_notifications`, its only reader, which nothing calls, are left out.
`HttpNotificationClient::send_notification` is a stub that reports status 0, so in this build
every answer is a failure; `Answers` also has success, for the client the interface is made
for.  `calculate_next_retry` is modelled with its jitter as a set of delays.

`TakenInOrder` is about the order in which workers take notifications out of `task_queue_`.  The sends
happen outside the lock, so with two workers they may overtake each other, and nothing in the code says
otherwise.

Three notifications overflow a queue of two and leave one for each worker and one in
between.  The two retries wait 1 and 2 seconds before jitter, so the backoff grows once.

Fairness: workers wait at most a second for the condition variable, so the missing
`notify_one` for retries delays but does not lose them; sending has a timeout; the
orchestrator starts the manager.  `AcceptedSettles` is about behaviours in which the manager is running
in the end; what a stop discards it has settled.

## RestApi and QodRequest

`call` is the request as it arrives, `incoming` the message RequestRouter gets, `reply` the handler's message
and `response` what the client reads; `stored` are the sessions, `effect` what QodSessionManager did for
the request and `seen` the states of the store since it came.  A creation has `request` (body and kind of
token), `session` (in AF core), `message` (to the southbound side), `context` (for the PCF) and `answer`.
`stage` says who holds the request.  JSON objects are functions from the keys that are present, so a key
that one side writes and the other does not read is lost in the model as it is in the code.

| code | definitions |
|---|---|
| `QodRestAdapter`, `RestRouter` | `register_endpoints`, `create_handler`, `http_request_to_message`, `message_to_http_response` |
| `RequestRouter`, `AfOrchestrator` | `route_message`, `register_qod_handlers`, `configure_components`, `process_message` |
| `QodHandler` | `handle_create_session` with `CreateChecks`, `handle_get_session`, `handle_delete_session`, `handle_extend_session` and `ClassifyFailure` (its second read), `handle_retrieve_sessions`, `session_to_json` |
| `QodSessionManager` | `create_session`, `apply_session_to_pcf` with `build_pcf_request` and `convert_device_to_pcf` |
| `QodPcfHandler` and `helpers.cpp` | `handle_qod_create_pcf_session` with `ParsedSession`, `build_app_session_context`, `map_ports_to_media_subcomponents`, `validate_app_session_context` and the validators it calls |

| run | instance | shows |
|---|---|---|
| `request` | all combinations of device identifiers, of ports and ranges on both sides, of profile (also one without a maximum duration of its own and one whose mapping is not valid) and duration, of sink and credential; all methods and paths with headers and query parameters named like the keys the handlers read; sessions of the consumer and of another in every state | `AnswerIsTrue`, `AnswerDescribesSession`, `FlowsMeanPorts`, `ContextNamesDevice`, `AcceptedIsSent` |
| `ports` | the same | *violated*: `FlowsCoverRequest`: ranges of device ports are written under `port_ranges` and read under `ranges`, ports of the server are not written at all |

`FlowsMeanPorts` checks the derivation of flows against a reference definition: the sources and destinations in
the flows of a session are those of the packets, in both directions, that its ports mean.  For what is sent to
the PCF the reference is the client's session, reduced by `Carried` to what the message says in a
way that QodPcfHandler reads: the two ends and the device's single ports.  What is lost on the way is the
subject of `ports`.  The property is about sessions whose
two ends have different addresses: with equal ones the flow of one direction also describes packets of the
other.

The property does not look at the keyword of a flow.  `flow_description_utils.h:15-16` defines "in" as downlink and
"out" as uplink, and a comment in `build_media_components` and `test_flow_descriptions.cpp` follow it, but
`map_ports_to_media_subcomponents` writes "out" for both directions.  `FlowsNameDirection` states what the header says; it
does not hold and is in no configuration.

`AcceptedIsSent` needs a profile whose mapping passes `QosProfileMapper::validate_qos_mapping`, which is in the common
library: `ValidMappings` are the mappings it accepts, and QodPcfHandler answers 400 `bad_request` for the others
(`MappingRefused`).  The default profiles have valid mappings, but `register_qos_profile` adds any; the instance has
one that is refused.

Six port numbers
leave room for a range with a port below it, in it and above it.  The operations of the session manager are single steps here; what
happens between two of them to a session is `OthersAct`, allowed where a handler calls twice.

Seen while modelling, and part of the model:

* A request that names its device by phone number or network access identifier only, and every 3-legged
  one (whose device the token stands for), passes the northbound validation and is refused southbound: the
  context needs an address.  A compressed IPv6 address is refused as well.  `AcceptedIsSent` is about
  devices with well-formed addresses for this reason.
* A successful DELETE is answered 200, not 204: `qod_handler.cpp:251` writes `http_status`,
  `rest_router.cpp:85` reads `status`.  A failed one is answered 400 with NOT_FOUND.
* DURATION_OUT_OF_RANGE is reached only when the session becomes AVAILABLE between the two
  reads, since the manager caps durations instead of refusing them.
* `retrieve-sessions` with a body that names no device lists all the consumer's sessions; a
  network access identifier never matches.
* A message type without a handler is answered without a status, which becomes HTTP 200.

## UeState

`ue_states_by_key_` and the indices are the members of `UeStateManager`.  Every public method holds
`rw_mtx_` from its first line to its last, so an action is a call.  Two calls lock it again in the same
thread: the lookups by address, and the promotion to a SUPI whose state exists.  In this build
the second lock throws; the model gives the outcome (`"throws"`, no step).  `Reported` is what a
source of network notifications may pass, `InitialData` and `NewPdus` what QodSessionManager passes.  The PDU session
that `add_qod_session_to_ue` makes up has an id of its own for each key (`DefaultPdu`), so a merge keeps both.

`create_or_update_provisional_ue_state` merges the PDU sessions of its initial data into an existing state and leaves
the address index alone.  Its one caller, QodSessionManager, passes none.  `PdusPassed` says whether a caller
may: it is FALSE in the run, and the theorems assume that.  With `PdusPassed = TRUE` TLC finds `IndexSound` violated: a PDU
session is replaced by one with another address, and the old address stays in the index.

| run | instance | shows |
|---|---|---|
| `ue` | one subscriber known by SUPI, GPSI and address, two addresses, one PDU session id and the made-up ones, at most 2 states with at most 2 PDU sessions (`FewPdus`) | `OneStatePerSupi`, `IndexSound`, `IdentityChangeKeepsSessions` |

Two PDU sessions in a state are what a merge of two states with one each makes.  Two states are the least for a merge and for an index entry that one takes from the other, and the
instance has three keys for them; calls about different subscribers touch each other only through an
address both use, which the two states share here.  `LookupsFind` (a lookup
by an indexed identifier gives a state, as the header says) is stated and does not hold: the
lookup by GPSI makes a key of the GPSI instead of using the one in the index, so a promoted state is not
found, and the lookups by address throw.

## PcfSession

`qod_to_pcf_sessions_` and `pcf_to_qod_sessions_` are the handler's maps, `call[t]` the request thread `t` is
serving; `app_sessions` and `owner` are the PCF; `asked`, `granted`, `refused` and `confirmed` are what AF
core asked and was told.  An action is a critical section of `sessions_mutex_` or an HTTP exchange.  In
an exchange the PCF may refuse, do what is asked and answer, do it and the answer be lost, or (for
a creation) answer without a usable Location; at any time it may terminate an app session by itself.

| run | instance | shows |
|---|---|---|
| `pcf` | 2 threads, 3 QoD sessions, 3 app sessions | `GrantedIsMapped`, `LiveIsReachable`, `ConfirmedReleased`, `ReleasedForOwner`, and `Implements` (`AppSessionContract`) |

Two threads race for one session while a third one exists that neither may touch.  A behaviour ends
when every session was asked for and every deletion made, so deadlock is not checked.  A mapping
is never removed (nothing calls the two response handlers that would), which is why a repeated deletion still
finds the app session and is answered by the PCF.

## Policy

`policies_` and `policies_mutex_` are members, `call[t]` the operation of thread `t`, `pcf` the
app sessions of the southbound peer with what they were made of.  `superseded`, `nameless`
and `doubtful` are history: app sessions an update replaced or a policy of the same id covered, app
sessions whose id never arrived, and policies that an update broken off while copying, or a deletion without an
answer, left in doubt.

| run | instance | shows |
|---|---|---|
| `policies` | 2 threads, 2 policy ids, 2 app sessions, bodies that are valid, invalid after merging, or of a wrong type | `ActiveIsApplied`, `NoSilentLeak` |

The southbound service of this repository answers `error.unhandled_message_type` to the messages of
PolicyManager; the model's peer is open and has this as one case, so that the manager's own logic shows.
Seen while modelling: `update_policy` creates a second app session and forgets the first; a value of the
wrong type ends an update halfway without the rollback.

## DemoAdapter

`sessions_` is the adapter's registry, `phase`, `todo` and `iteration` the position of its one thread, `request` the
request in progress with its attempts; `core` and `stream_of` are AF core's sessions, `pending` the requests
given up that AF core may still carry out.  `lost`, `misread` and `undeleted` are history:
sessions whose id never arrived, whose refused deletion was taken for a success, whose deletion failed.

| run | instance | shows |
|---|---|---|
| `adapter` | 2 streams, 2 sessions, 2 attempts, both transports, bundled and standalone, with and without a limit of iterations | `LiveIsTracked`, `CleanedUp`, `ShutdownCompletes` |

Two attempts are the least for a retry, two streams for a failure of one with the other tracked.  The
HTTP client tells success by the status of the answer; the gRPC client looks for an error in the body, so an
error answer whose body is empty or unreadable is a success to it (`Success`).

Fairness: the adapter's own thread (`Driven`).  Calls over gRPC have a deadline, so their attempts end.  The HTTP client
reads without a time limit, so no attempt over HTTP is fair: with a peer that keeps the connection open and
sends nothing, `do_http_request` never returns and the shutdown never completes.  This is the one exception in
`ShutdownCompletes` (`HttpWaits` for ever).  In the bundled program AF core may be stopped before the adapter's
cleanup (`StopCore` at any time); the sessions it had then are "removed" and the adapter's deletions fail.

## BundledRuntime

`state` is `state_`; `core` and `owned` tell whether the orchestrator and the handlers exist;
`parts`, `running` and `up` what is started; `main`, `thread[h]` and `cleaner` are the positions of
the main thread, the handlers' threads and the cleanup thread; `shutdown[a]` where actor `a`
(main, a handler's thread, a signal) is inside `requestShutdown`.  One action is one critical section
of `lifecycle_mutex_` or `wait_mutex_`, or the code between two.  A signal runs on the main
thread, where the kernel delivers it when it can, and main goes on when it returns.  `accepted` is the
history of the state in which the current shutdown was accepted.  `initialize` and `start` may throw at any
part that is started (`MayThrow`).  The runtime's destructor repeats requestShutdown and
finalizeShutdown; after a regular end both find nothing to do, so only the path from a failing
`initialize` has steps for it.

| run | instance | shows |
|---|---|---|
| `runtime` | 2 handlers that may fail, 2 signals, a start that may throw | `NoUseAfterReset`, `OneShutdown`, `StoppedIsQuiet`, `ShutdownCompletes` |

A shutdown requested while `start()` is under way is accepted (`state_` becomes stopping) at a time
when `AfOrchestrator::stop` has nothing to stop; start then completes, `wait` waits for a stop
that was already spent, and later requests return at the state check.  `AcceptedShutdownCompletes` states
what `main.cpp:66` says ("Press Ctrl+C to stop."); it is in no configuration because of this behaviour.
`ShutdownCompletes` is the part that does hold: a shutdown accepted in running, or after start
threw, ends in stopped.

Two handlers and two signals give four requests that may overlap with main's own.  Fairness is
that of the scheduler, for each thread; nothing forces a signal, and the handler that starts may
also fail.  The processes end, so deadlock is not checked.

## Proofs

Every invariant and action property that a passing run checks is also a theorem, for every value of the constants that meets the
assumptions named below.
The proofs have one shape: an inductive invariant that says what a thread's locals have to do with the shared
state, a lemma per action or per group of actions, and a temporal step that combines them.  The inductive
invariants were checked with TLC on the runs' instances first (`RequestKnown` of `RestApi_proofs` excepted, which
is too slow to evaluate).

### QodSession

For any number of threads, sessions, app sessions, devices and any clock:

| theorem | statement |
|---|---|
| `TypeCorrect` | `Spec => []TypeOK` |
| `SupiIndexCorrect` | unique ids imply `Spec => []SupiIndexExact` |
| `AvailableCorrect` | unique ids imply `Spec => []AvailableIsBacked` |
| `UnavailableCorrect` | unique ids imply `Spec => []UnavailableIsReleased` |
| `NotificationsOrdered` | unique ids imply `Spec => []DeletedToldAfterAvailable` |
| `RemovalIsFinal` | `Spec => RemovedStaysRemoved`, whether or not ids are unique |
| `AnonymousKeptApart` | one request at a time implies `Spec => []AnonymousNeverConflict` |
| `LifecycleImplemented` | one request at a time implies `Spec => ImplementsLifecycle` |

"Unique ids" is the assumption `~RacyIds`; without it `AddNeverReplaces` fails (see above).  "One request at a
time" is `OneAtATime`, a single API thread (beside the cleanup thread and stop, which overlap with it); with two
the `deleted` run refutes the lifecycle, and two overlapping creations pass `check_session_conflict` together.  The
other assumptions are `ConstantsAssumption` and `NullAssumption`, which only say what kind of
values the constants are.

None of the properties is inductive, because the store is overwritten with copies read
earlier; each invariant says what is true of every *version* of a session, stored or copied.
`IdInv`: an id that is yet to be stored is known to its creator only, and two creations never
share one.  `SupiInv` adds to the exact index that no copy disagrees with the store about the
SUPI, so that `update_session`, which leaves the index alone, may.  `SoundInv`: every version
has a duration within the limits, an AVAILABLE one names a created app session and has
consistent times, an UNAVAILABLE one with an app session is released; and as long as a session is
being created no other version of it has an app session, which is why the creator's write cannot
hide one.  `ToldInv`: whoever can see a session as AVAILABLE sees it after its consumer was told.

For one request at a time: `RequestedInv`: a REQUESTED session is the one being created, has no expiry and is not among
those the cleanup thread has collected (without it a `Forget` of a REQUESTED session would be possible);
`CopyInv`: how far the copy of the thread is ahead of the entry it overwrites, at each of its positions;
`AppInv`: no two sessions share an app session, and a granted one is live until it is stored; `RivalInv`: a session
about to be stored has no rival.  The refinement maps a step by what it does to the `View` (status) and to `InForce` of
one session (`OneChanges`); steps that change neither for any session are stuttering steps (`Stutters`).

### BundledRuntime

For any set of handlers and any number of signals:

| theorem | statement |
|---|---|
| `RuntimeTypeCorrect` | `Spec => []TypeOK` |
| `ShutdownIsExclusive` | `Spec => []OneShutdown` |
| `ObjectsOutliveThreads` | `Spec => []NoUseAfterReset` |
| `EndIsQuiet` | `Spec => []StoppedIsQuiet` |

`ShutdownInv` ties the positions inside requestShutdown to `state_`: as long as someone is inside it is
stopping, so nobody else is let in.  `LifetimeInv` ties objects and threads to main's position:
objects exist from initialize until main resets them, threads from start until main joins them, and the
joins come first.

### PcfSession

For any number of threads, QoD sessions and app sessions, from `PcfAssumption`
(`None` is none of them):

| theorem | statement |
|---|---|
| `PcfTypeCorrect` | `Spec => []TypeOK` |
| `GrantsStayMapped` | `Spec => []GrantedIsMapped` |
| `LiveStaysReachable` | `Spec => []LiveIsReachable` |
| `DeletionsAreReal` | `Spec => []ConfirmedReleased` |
| `ReleasesAreOwn` | `Spec => ReleasedForOwner` |
| `HandlerKeepsContract` | `Spec => Implements`: the handler refines `AppSessionContract` |

What the handler holds between two critical sections is in a thread's locals, so each invariant is about the
locals too.  `CallInv`: a thread that creates is alone in creating for its session, whose app session
does not exist yet or is the one it is about to store; any other thread carries the ids of a grant, and
one about to confirm a deletion those of a released app session.  `OwnerInv`: app sessions have
different owners, and each is granted to its owner, about to be, or its owner was refused.  `MapInv`: the maps
hold exactly the grants, in both directions.  The invariant `IInv` is their conjunction with types and
`ConfirmedReleased`; the refinement follows from it step by step (`ContractStep`).

### QodNotification

For any number of notifications, sessions and workers, any queue size, number of retries and backoff:

| theorem | statement |
|---|---|
| `TypeCorrect` | `Spec => []TypeOK` |
| `PlaceUnique` | `Spec => []ExactlyOnePlace` |
| `AttemptsCounted` | `Spec => []AttemptsExact` |
| `QueueKeepsOrder` | `Spec => []TakenInOrder` |
| `PendingCounted` | `Spec => []PendingUntilDelivered` |

`NotificationAssumption` gives the constants their types; the queue size, the first delay, the multiplier and the cap are
positive, as in `QodNotificationConfig`.  `PlaceInv` states the places of a notification pairwise instead of counting them;
`CountInv` ties `retry_count` at each place to the attempts made (one less while a worker has the answer and has
not settled it); `OrderInv` says that `task_queue_` is the end of the list of accepted
notifications; `StatsInv` needs the finiteness of the sets it counts; `JoinedInv` says that no worker is left when the
manager is stopped.  `Backoff` is a recursive function: that it is what the loop computes, and a number
of seconds, for every count is shown by considering a least count for which it is not.

### UeState

For any number of subscribers, addresses, PDU sessions and states, from `UeAssumption` and `NoneAssumption` (an absent value
is no identifier and no state), and each theorem from `~PdusPassed` (see above):

| theorem | statement |
|---|---|
| `SupiUnique` | `Spec => []OneStatePerSupi` |
| `IndicesSound` | `Spec => []IndexSound` |
| `IdentityChange` | `Spec => IdentityChangeKeepsSessions` |

`EntryInv`: an entry of the SUPI or the address index leads to a stored state that has that SUPI, or a PDU session with
that address.  Together with `OneStatePerSupi` it is inductive: promotion moves a state to a new key and merging deletes
one, and in both the entries that lead to the old key are found through the identifiers of the state.

### RestApi and QodRequest

For all requests of the API's types:

| theorem | statement |
|---|---|
| `FlowsSound` | `RestSpec => []FlowsMeanPorts` |
| `ContextSound` | `RestSpec => []ContextNamesDevice` |
| `AcceptedSent` | `RestSpec => []AcceptedIsSent` |
| `AnswersTrue` | `RestSpec => []AnswerIsTrue` |
| `AnswersDescribe` | `RestSpec => []AnswerDescribesSession` |

The assumptions say which requests and states there are.  `RequestAssumption`: a profile mapping that
`validate_qos_mapping` accepts has a priority and rates of the form in which `initialize_default_mappings` (`qod_state_manager.cpp`)
makes them.  `CallAssumption`: ports in a body have the
types of the API's schema, an HTTP path is a sequence of segments that are not empty, and the key a query parameter is stored
under (`query.` and its name) is not `sessionId`.  `NullAssumption`: a null value is none of the objects the
program builds.  `StoredAssumption`: the sessions in the store were made by `create_session`.

`CreationInv` follows a creation: at each stage the session is the one parsed from the body, the message the one written
for it, the context the one built for what was read of the message.  The first three theorems then are about
conversions composed with each other, and the work is in lemmas about them: which packets the flows of all
combinations of port specifications admit, which keys a written device has, that a context with one
address passes every validator.  `AnswerInv`: the handler at work is the one of the operation that method and
path mean, it has the id of the path, and nothing is done before its reply.  `DescribeInv`: the store holds
well-made sessions, so what `session_to_json` writes of one is read back as the same.

### Policy

For any number of threads, policies, app sessions and any bodies, from `PolicyAssumption` (`None` is none of them):

| theorem | statement |
|---|---|
| `ActiveApplied` | `Spec => []ActiveIsApplied` (policies in `doubtful` excepted) |
| `LeaksKnown` | `Spec => []NoSilentLeak` |

`MutexInv`: `policies_mutex_` is held exactly during an update or a deletion, and what its holder has read is
still so.  `TxInv`: an app session belongs to one policy, stored or in a thread's hands.  `AppliedInv`: an active policy is
enforced, and a thread that applied one with success holds one that is; a creation runs without the mutex, so this
has to hold of policies that are not stored yet.

### DemoAdapter

For any streams, sessions, number of attempts and configurations, from `AdapterAssumption` (types of the constants):

| theorem | statement |
|---|---|
| `SessionsTracked` | `Spec => []LiveIsTracked` |
| `ShutdownCleansUp` | `Spec => []CleanedUp` |

`CallInv`: a request is in progress only for an element its loop has still to do.  `WaitInv`: nothing was created before AF
core was reachable.  `CleanupInv`: the cleanup has still to come to every live session that it will not leave behind.

### Only model-checked

Liveness (`RequestedSettles`, `ExpiredIsForgotten`, `AcceptedSettles`, `ShutdownCompletes` of the runtime and of the
adapter), since fairness and ENABLED are beyond the prover, and the two statements whose runs expect a violation.

## Not modelled

* `QodSessionManager::handle_pcf_session_terminated` is reached only by a message that
  `QodPcfHandler` never sends; `handle_pdu_session_terminated_event` is never subscribed.
* `QodPcfHandler::handle_pcf_create_response`, its siblings for update, deletion and notification: their registration is
  commented out, nothing calls them.  The app session operations of `PcfHandler`, and `PccRuleManager`
  behind them: no message type is registered for them.
* `SubscriptionManager`: every operation is one critical section over one map, so requests cannot interfere
  in an interesting way, and `notify_event`, the one reader that acts on a subscription, has no caller.
  That the cleanup thread does not call it after its destruction is part of `BundledRuntime`.
* `EventDispatcher` (nobody subscribes) and `api_component` (forwards and keeps nothing).
* Synchronous notification delivery (`enable_async_delivery` is never false), `cancel_session_notifications`
  and `cleanup_old_stats` (no callers).
* A signal that interrupts main inside a critical section: the handler locks the same mutex and the process
  hangs.  This is a hazard without a property, since every behaviour could end in it.  After a `start` that throws,
  unwinding destroys the runtime before main's handler uses `g_runtime`; the model ends with the destruction.
* `af_core/src/main.cpp`, the standalone entry: its cleanup loop reads a flag nobody clears.
* Bodies that are not of the types in the API's schema (nlohmann exceptions, answered as errors), except in `Policy`,
  where such a value breaks an update off.

## Plan

Done, in this order: the session store under concurrent requests, notifications, the lifecycle of the
process, UE states, app sessions with their contract, the way of a request, policies, the adapter.
Then the theorems, component by component, and the refinement of `SessionLifecycle`.  Worth doing next:

1. `QodSession` over `AppSessionContract` in place of its own abstract PCF, so that the two refinements compose.
2. The safety half of `ShutdownCompletes`: that no position of the adapter or the runtime is a dead end.
3. Type correctness of `RestApi` for all operations as a theorem of its own.
