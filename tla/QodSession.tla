----------------------------- MODULE QodSession -----------------------------
(***************************************************************************)
(* QoD sessions in AF core: QodSessionManager (the operations behind the   *)
(* CAMARA API, the conversation with the PCF, the cleanup thread) over     *)
(* QodStateManager (the session store and its two indices).                *)
(*                                                                         *)
(* The API is served by several threads and QodSessionManager itself has   *)
(* no lock: an operation is atomic only inside one call of the store, each *)
(* of which takes one mutex.  Everything between two calls works on a      *)
(* local copy of the session (copy) that may be stale when written back.   *)
(* One action below is one such call with the local code that follows it.  *)
(*                                                                         *)
(* Reads (get_session, retrieve_sessions_by_device) change nothing and     *)
(* appear only where an operation uses them.  Requests that are refused    *)
(* before the first change of state are guards, not actions.               *)
(***************************************************************************)
EXTENDS Integers

CONSTANTS
  Threads,      \* the threads that serve API requests
  SessionIds,   \* the UUIDs generate_session_id can return
  PcfIds,       \* the app session ids the PCF can assign
  Consumers,    \* the api_consumer_ids of the requests
  Anonymous,    \* the empty api_consumer_id
  Devices,      \* the devices requests name (Null: the request names none)
  Servers,      \* the application servers
  Supis,        \* the SUPIs UeStateManager may resolve a device to
  Resolutions,  \* the SUPIs resolve_device may answer (Null: none, see UE states below)
  Sinks,        \* whether requests carry a notification sink
  Durations,    \* the durations that requests ask for
  Extensions,   \* the additional durations that requests ask for
  MinDuration, MaxDuration, Ttl,  \* QodSessionConfig
  Garbage,      \* what reading an unset started_at may yield
  MaxTime,      \* bound on the clock
  Operations,   \* the operations clients call: "create", "delete", "extend"
  MayStop,      \* whether the manager may be stopped
  RacyIds,      \* whether two threads racing in generate_session_id may get one id
  Null

ASSUME ConstantsAssumption ==
  /\ MinDuration \in Nat /\ MaxDuration \in Nat /\ Ttl \in Nat /\ MaxTime \in Nat
  /\ Durations \subseteq Nat /\ Extensions \subseteq Nat \ {0} /\ Garbage \subseteq Int
  /\ Sinks \subseteq BOOLEAN
  /\ Resolutions \subseteq Supis \cup {Null}
  /\ Null \notin SessionIds \cup PcfIds \cup Supis \cup Int

Statuses == {"REQUESTED", "AVAILABLE", "UNAVAILABLE"}
Infos    == {"NONE", "NETWORK_TERMINATED", "DELETE_REQUESTED"}

QodSession ==
  [ id       : SessionIds,          consumer : Consumers,
    device   : Devices,             server   : Servers,
    supi     : Supis \cup {Null},   sink     : BOOLEAN,
    duration : Nat,                 pcf      : PcfIds \cup {Null},
    status   : Statuses,            info     : Infos,
    started  : Int \cup {Null},     expires  : Int \cup {Null} ]

ASSUME NullAssumption == Null \notin QodSession

VARIABLES
  sessions,             \* QodStateManager::sessions_by_id_ (Null: no entry)
  sessions_by_supi,     \* QodStateManager::sessions_by_supi_ ({}: no entry)
  pcf_session_mapping,  \* QodStateManager::pcf_session_mapping_ (Null: no entry)
  ue_states,            \* the devices for which UeStateManager keeps a UE state
  app_sessions,         \* the PCF: is an app session unused, live or released
  events,               \* the notifications handed to the notification manager
  clock,
  used,                 \* the session ids generated so far
  pc, copy, reply,      \* per thread: next call, local session, PCF id received
  expired,              \* what the running cleanup pass has still to remove
  manager               \* QodSessionManager: running, stopping, stopped

store   == <<sessions, sessions_by_supi>>
locals  == <<pc, copy, reply>>
cleaner == <<expired, manager>>
vars    == <<sessions, sessions_by_supi, pcf_session_mapping, ue_states, app_sessions,
             events, clock, used, pc, copy, reply, expired, manager>>

Stored(s) == sessions[s] # Null
Idle(t)   == pc[t] = "idle"

-----------------------------------------------------------------------------
(* QodStateManager: each operator is one critical section. *)

add_session(s, rec) ==
  /\ sessions' = [sessions EXCEPT ![s] = rec]
  /\ sessions_by_supi' = [u \in Supis |->
       IF u = rec.supi THEN sessions_by_supi[u] \cup {s} ELSE sessions_by_supi[u]]

\* Faulty variant: stores the session even when it has been removed.
update_session_upsert(rec) ==
  /\ sessions' = [sessions EXCEPT ![rec.id] = rec]
  /\ UNCHANGED sessions_by_supi

\* Overwrites the entry; does nothing when the session is gone.
update_session(rec) ==
  /\ sessions' = [s \in SessionIds |->
       IF s = rec.id /\ Stored(s) THEN rec ELSE sessions[s]]
  /\ UNCHANGED sessions_by_supi

update_session_status(s, status, info) ==
  /\ sessions' = [x \in SessionIds |->
       IF x = s /\ Stored(x) THEN [sessions[x] EXCEPT !.status = status, !.info = info]
                             ELSE sessions[x]]
  /\ UNCHANGED sessions_by_supi

remove_session(s) ==
  /\ sessions' = [sessions EXCEPT ![s] = Null]
  /\ sessions_by_supi' = [u \in Supis |->
       IF Stored(s) /\ sessions[s].supi = u THEN sessions_by_supi[u] \ {s}
                                            ELSE sessions_by_supi[u]]

clear_all_sessions ==
  /\ sessions' = [s \in SessionIds |-> Null]
  /\ sessions_by_supi' = [u \in Supis |-> {}]

\* Faulty variant: misses the instant at which the grace period ends.
get_expired_sessions_strict ==
  {s \in SessionIds : Stored(s) /\ sessions[s].expires # Null /\ clock > sessions[s].expires + Ttl}

get_expired_sessions ==
  {s \in SessionIds : /\ Stored(s)
                      /\ sessions[s].expires # Null
                      /\ clock >= sessions[s].expires + Ttl}

-----------------------------------------------------------------------------
(* Helpers of QodSessionManager. *)

\* Faulty variant: only sessions still being set up are considered.
retrieve_sessions_by_device_requested(device, consumer) ==
  {s \in SessionIds : /\ Stored(s)
                      /\ sessions[s].consumer = consumer
                      /\ sessions[s].status = "REQUESTED"
                      /\ sessions[s].device = device}

retrieve_sessions_by_device(device, consumer) ==
  {s \in SessionIds : /\ Stored(s)
                      /\ sessions[s].consumer = consumer
                      /\ sessions[s].status # "UNAVAILABLE"
                      /\ sessions[s].device = device}

\* The lookup passes "" as the consumer.
check_session_conflict(device, server) ==
  {s \in retrieve_sessions_by_device(device, Anonymous) : sessions[s].server = server}

\* The generator is static and unsynchronised: threads that overlap in it race.
generate_session_id(t) ==
  (SessionIds \ used) \cup
  (IF RacyIds THEN {copy[u].id : u \in {v \in Threads \ {t} : pc[v] = "add"}} ELSE {})

send_status_change_notification(rec, info) ==
  events' = events \cup {[session |-> rec.id, status |-> rec.status,
                          info |-> IF info = "NONE" THEN rec.info ELSE info]}

\* What the operations make of a session.
Granted(rec, p, now) == [rec EXCEPT !.status = "AVAILABLE", !.pcf = p, !.started = now,
                                    !.expires = now + rec.duration]
Refused(rec)         == [rec EXCEPT !.status = "UNAVAILABLE", !.info = "NETWORK_TERMINATED"]
Ended(rec, now)      == [rec EXCEPT !.status = "UNAVAILABLE", !.info = "DELETE_REQUESTED",
                                    !.expires = now]
Extended(rec, total, start) == [rec EXCEPT !.duration = total, !.expires = start + total]

Goto(t, next) == pc' = [pc EXCEPT ![t] = next]
Return(t)     == Goto(t, "idle") /\ copy' = [copy EXCEPT ![t] = Null]
SetCopy(t, r) == copy' = [copy EXCEPT ![t] = r]

-----------------------------------------------------------------------------
(* create_session *)

\* Validation, device resolution, conflict check and the new session object.
CreateSession(t) ==
  /\ Idle(t) /\ "create" \in Operations
  /\ \E consumer \in Consumers, device \in Devices, server \in Servers,
        duration \in Durations, sink \in Sinks, supi \in Resolutions,
        id \in generate_session_id(t) :
       /\ MinDuration <= duration /\ duration <= MaxDuration
       /\ device = Null => supi = Null
       /\ device # Null => check_session_conflict(device, server) = {}
       /\ SetCopy(t, [id |-> id, consumer |-> consumer, device |-> device,
                      server |-> server, supi |-> supi, sink |-> sink,
                      duration |-> duration, pcf |-> Null, status |-> "REQUESTED",
                      info |-> "NONE", started |-> Null, expires |-> Null])
       /\ used' = used \cup {id}
  /\ Goto(t, "add")
  /\ UNCHANGED <<store, pcf_session_mapping, ue_states, app_sessions, events, clock, reply, cleaner>>

AddSession(t) ==
  /\ pc[t] = "add"
  /\ add_session(copy[t].id, copy[t])
  /\ Goto(t, "ue_state")
  /\ UNCHANGED <<pcf_session_mapping, ue_states, app_sessions, events, clock, used, copy, reply, cleaner>>

\* The UE states of this program are the provisional ones made here: they have no
\* SUPI and no PDU session, so a lookup finds neither and sessions have no
\* pdu_session_id.  A SUPI in Resolutions stands for states provisioned by others.
create_or_update_ue_state(t) ==
  /\ pc[t] = "ue_state"
  /\ ue_states' = IF copy[t].device = Null THEN ue_states ELSE ue_states \cup {copy[t].device}
  /\ Goto(t, "apply")
  /\ UNCHANGED <<store, pcf_session_mapping, app_sessions, events, clock, used, copy, reply, cleaner>>

\* Faulty variant: a request without an answer counts as sent.
apply_session_to_pcf_optimistic(t) ==
  /\ pc[t] = "apply"
  /\ \/ \E p \in {q \in PcfIds : app_sessions[q] = "unused"} :
          /\ app_sessions' = [app_sessions EXCEPT ![p] = "live"]
          /\ Goto(t, "respond") /\ reply' = [reply EXCEPT ![t] = p] /\ UNCHANGED copy
     \/ UNCHANGED <<app_sessions, reply>> /\ Return(t)
  /\ UNCHANGED <<store, pcf_session_mapping, ue_states, events, clock, used, cleaner>>

\* send_request and what the PCF does with it.  The request may be carried out
\* and its answer lost or unusable; it may be refused with a pcf_error; it may
\* fail without an answer the manager understands.
apply_session_to_pcf(t) ==
  /\ pc[t] = "apply"
  /\ \/ \E p \in {q \in PcfIds : app_sessions[q] = "unused"} :
          /\ app_sessions' = [app_sessions EXCEPT ![p] = "live"]
          /\ \/ Goto(t, "respond") /\ reply' = [reply EXCEPT ![t] = p]
             \/ Goto(t, "failed") /\ UNCHANGED reply
     \/ UNCHANGED <<app_sessions, reply>> /\ Goto(t, "respond")
     \/ UNCHANGED <<app_sessions, reply>> /\ Goto(t, "failed")
  /\ UNCHANGED <<store, pcf_session_mapping, ue_states, events, clock, used, copy, cleaner>>

AfterResponse(rec) == IF rec.sink THEN "notify" ELSE "write_response"

\* Reads the stored session and prepares its new value in a copy.  (The update of the
\* UE state that follows a grant moves sessions with a SUPI or a PDU session only.)
handle_pcf_session_response(t) ==
  /\ pc[t] = "respond"
  /\ LET s  == copy[t].id
         ok == reply[t] # Null
     IN  \/ /\ Stored(s) /\ ok
            /\ SetCopy(t, Granted(sessions[s], reply[t], clock))
            /\ Goto(t, "map")
         \/ /\ Stored(s) /\ ~ok
            /\ SetCopy(t, Refused(sessions[s]))
            /\ Goto(t, AfterResponse(sessions[s]))
         \/ ~Stored(s) /\ ok /\ Return(t)
         \/ ~Stored(s) /\ ~ok /\ Goto(t, "failed") /\ UNCHANGED copy
  /\ reply' = [reply EXCEPT ![t] = Null]
  /\ UNCHANGED <<store, pcf_session_mapping, ue_states, app_sessions, events, clock, used, cleaner>>

update_pcf_session_map(t) ==
  /\ pc[t] = "map"
  /\ pcf_session_mapping' = [pcf_session_mapping EXCEPT ![copy[t].pcf] = copy[t].id]
  /\ Goto(t, AfterResponse(copy[t]))
  /\ UNCHANGED <<store, ue_states, app_sessions, events, clock, used, copy, reply, cleaner>>

NotifyResponse(t) ==
  /\ pc[t] = "notify"
  /\ send_status_change_notification(copy[t],
       IF copy[t].status = "AVAILABLE" THEN "NONE" ELSE "NETWORK_TERMINATED")
  /\ Goto(t, "write_response")
  /\ UNCHANGED <<store, pcf_session_mapping, ue_states, app_sessions, clock, used, copy, reply, cleaner>>

\* Faulty variant: the failure path loses the session it still has to report.
WriteResponse_drops(t) ==
  /\ pc[t] = "write_response"
  /\ update_session(copy[t])
  /\ Goto(t, IF copy[t].status = "AVAILABLE" THEN "idle" ELSE "failed")
  /\ SetCopy(t, Null)
  /\ UNCHANGED <<pcf_session_mapping, ue_states, app_sessions, events, clock, used, reply, cleaner>>

WriteResponse(t) ==
  /\ pc[t] = "write_response"
  /\ update_session(copy[t])
  /\ \/ copy[t].status = "AVAILABLE" /\ Return(t)
     \/ copy[t].status # "AVAILABLE" /\ Goto(t, "failed") /\ UNCHANGED copy
  /\ UNCHANGED <<pcf_session_mapping, ue_states, app_sessions, events, clock, used, reply, cleaner>>

FailSession(t) ==
  /\ pc[t] = "failed"
  /\ update_session_status(copy[t].id, "UNAVAILABLE", "NETWORK_TERMINATED")
  /\ Goto(t, "notify_failed")
  /\ UNCHANGED <<pcf_session_mapping, ue_states, app_sessions, events, clock, used, copy, reply, cleaner>>

\* Reads the session again; when it is gone, value() throws and create_session ends.
NotifyFailed(t) ==
  /\ pc[t] = "notify_failed"
  /\ LET s == copy[t].id
     IN  \/ /\ Stored(s) /\ copy[t].sink
            /\ send_status_change_notification(sessions[s], "NETWORK_TERMINATED")
         \/ ~(Stored(s) /\ copy[t].sink) /\ UNCHANGED events
  /\ Return(t)
  /\ UNCHANGED <<store, pcf_session_mapping, ue_states, app_sessions, clock, used, reply, cleaner>>

-----------------------------------------------------------------------------
(* delete_session *)

\* Faulty variant: marks an AVAILABLE session deleted without telling the PCF.
DeleteSession_local(t) ==
  /\ Idle(t) /\ "delete" \in Operations
  /\ \E s \in SessionIds, consumer \in Consumers :
       /\ Stored(s) /\ sessions[s].consumer = consumer
       /\ SetCopy(t, sessions[s])
  /\ Goto(t, "mark")
  /\ UNCHANGED <<store, pcf_session_mapping, ue_states, app_sessions, events, clock, used, reply, cleaner>>

\* Reads the session for its owner; only an AVAILABLE one goes to the PCF.
DeleteSession(t) ==
  /\ Idle(t) /\ "delete" \in Operations
  /\ \E s \in SessionIds, consumer \in Consumers :
       /\ Stored(s) /\ sessions[s].consumer = consumer
       /\ SetCopy(t, sessions[s])
       /\ Goto(t, IF sessions[s].status = "AVAILABLE" /\ sessions[s].pcf # Null
                  THEN "remove" ELSE "mark")
  /\ UNCHANGED <<store, pcf_session_mapping, ue_states, app_sessions, events, clock, used, reply, cleaner>>

\* Faulty variant: goes on although the PCF did not confirm the removal.
remove_session_from_pcf_ignored(t) ==
  /\ pc[t] = "remove"
  /\ \/ /\ app_sessions[copy[t].pcf] = "live"
        /\ app_sessions' = [app_sessions EXCEPT ![copy[t].pcf] = "released"]
     \/ UNCHANGED app_sessions
  /\ Goto(t, "unmap")
  /\ UNCHANGED <<store, pcf_session_mapping, ue_states, events, clock, used, copy, reply, cleaner>>

\* Without a positive answer delete_session gives up, whatever the PCF did.
remove_session_from_pcf(t) ==
  /\ pc[t] = "remove"
  /\ \/ /\ app_sessions[copy[t].pcf] = "live"
        /\ app_sessions' = [app_sessions EXCEPT ![copy[t].pcf] = "released"]
        /\ (Goto(t, "unmap") /\ UNCHANGED copy) \/ Return(t)
     \/ UNCHANGED app_sessions /\ Return(t)
  /\ UNCHANGED <<store, pcf_session_mapping, ue_states, events, clock, used, reply, cleaner>>

remove_pcf_to_qod_session_mapping(t) ==
  /\ pc[t] = "unmap"
  /\ pcf_session_mapping' = [pcf_session_mapping EXCEPT ![copy[t].pcf] = Null]
  /\ Goto(t, "mark")
  /\ UNCHANGED <<store, ue_states, app_sessions, events, clock, used, copy, reply, cleaner>>

\* Faulty variant: tells the consumer whatever the previous status was.
MarkDeleted_always(t) ==
  /\ pc[t] = "mark"
  /\ SetCopy(t, Ended(copy[t], clock))
  /\ Goto(t, IF copy[t].sink THEN "notify_deleted" ELSE "write")
  /\ UNCHANGED <<store, pcf_session_mapping, ue_states, app_sessions, events, clock, used, reply, cleaner>>

MarkDeleted(t) ==
  /\ pc[t] = "mark"
  /\ SetCopy(t, Ended(copy[t], clock))
  /\ Goto(t, IF copy[t].sink /\ copy[t].status = "AVAILABLE" THEN "notify_deleted" ELSE "write")
  /\ UNCHANGED <<store, pcf_session_mapping, ue_states, app_sessions, events, clock, used, reply, cleaner>>

NotifyDeleted(t) ==
  /\ pc[t] = "notify_deleted"
  /\ send_status_change_notification(copy[t], "DELETE_REQUESTED")
  /\ Goto(t, "write")
  /\ UNCHANGED <<store, pcf_session_mapping, ue_states, app_sessions, clock, used, copy, reply, cleaner>>

\* The last call of delete_session and of extend_session_duration.
WriteBack(t) ==
  /\ pc[t] = "write"
  /\ update_session(copy[t])
  /\ Return(t)
  /\ UNCHANGED <<pcf_session_mapping, ue_states, app_sessions, events, clock, used, reply, cleaner>>

-----------------------------------------------------------------------------
(* extend_session_duration *)

\* Faulty variant: no cap at the profile's maximum.
Capped_not(duration) == duration

Capped(duration) == IF duration > MaxDuration THEN MaxDuration ELSE duration

\* Dereferences started_at, which a REQUESTED session does not have.
StartTimes(rec) == IF rec.started = Null THEN Garbage ELSE {rec.started}

ExtendSession(t) ==
  /\ Idle(t) /\ "extend" \in Operations
  /\ \E s \in SessionIds, consumer \in Consumers, more \in Extensions :
       /\ Stored(s) /\ sessions[s].consumer = consumer
       /\ sessions[s].status \in {"AVAILABLE", "REQUESTED"}
       /\ \E start \in StartTimes(sessions[s]) :
            SetCopy(t, Extended(sessions[s], Capped(sessions[s].duration + more), start))
  /\ Goto(t, "write")
  /\ UNCHANGED <<store, pcf_session_mapping, ue_states, app_sessions, events, clock, used, reply, cleaner>>

-----------------------------------------------------------------------------
(* cleanup_expired_sessions on the cleanup thread; stop *)

CollectExpired ==
  /\ manager = "running" /\ expired = {}
  /\ get_expired_sessions # {}
  /\ expired' = get_expired_sessions
  /\ UNCHANGED <<store, pcf_session_mapping, ue_states, app_sessions, events, clock, used, locals, manager>>

RemoveExpired ==
  /\ \E s \in expired : remove_session(s) /\ expired' = expired \ {s}
  /\ UNCHANGED <<pcf_session_mapping, ue_states, app_sessions, events, clock, used, locals, manager>>

Stop ==
  /\ MayStop /\ manager = "running"
  /\ manager' = "stopping"
  /\ UNCHANGED <<store, pcf_session_mapping, ue_states, app_sessions, events, clock, used, locals, expired>>

\* After the cleanup thread has joined.
StopClear ==
  /\ manager = "stopping" /\ expired = {}
  /\ manager' = "stopped"
  /\ clear_all_sessions
  /\ UNCHANGED <<pcf_session_mapping, ue_states, app_sessions, events, clock, used, locals, expired>>

Tick ==
  /\ clock < MaxTime
  /\ clock' = clock + 1
  /\ UNCHANGED <<store, pcf_session_mapping, ue_states, app_sessions, events, used, locals, cleaner>>

-----------------------------------------------------------------------------
Init ==
  /\ sessions = [s \in SessionIds |-> Null]
  /\ sessions_by_supi = [u \in Supis |-> {}]
  /\ pcf_session_mapping = [p \in PcfIds |-> Null]
  /\ ue_states = {}
  /\ app_sessions = [p \in PcfIds |-> "unused"]
  /\ events = {}
  /\ clock = 0
  /\ used = {}
  /\ pc = [t \in Threads |-> "idle"]
  /\ copy = [t \in Threads |-> Null]
  /\ reply = [t \in Threads |-> Null]
  /\ expired = {}
  /\ manager = "running"

\* The steps of a request that has been accepted.
Continue(t) ==
  \/ AddSession(t) \/ create_or_update_ue_state(t) \/ apply_session_to_pcf(t)
  \/ handle_pcf_session_response(t) \/ update_pcf_session_map(t) \/ NotifyResponse(t)
  \/ WriteResponse(t)
  \/ FailSession(t) \/ NotifyFailed(t)
  \/ remove_session_from_pcf(t) \/ remove_pcf_to_qod_session_mapping(t)
  \/ MarkDeleted(t) \/ NotifyDeleted(t) \/ WriteBack(t)

Request(t) == CreateSession(t) \/ DeleteSession(t) \/ ExtendSession(t)

Next ==
  \/ \E t \in Threads : Request(t) \/ Continue(t)
  \/ CollectExpired \/ RemoveExpired \/ Stop \/ StopClear \/ Tick

\* Clients need not call anything; accepted requests, the cleanup thread and the
\* clock keep going (send_request returns, if only by its timeout).
Fairness ==
  /\ \A t \in Threads : WF_vars(Continue(t))
  /\ WF_vars(CollectExpired) /\ WF_vars(RemoveExpired) /\ WF_vars(Tick)

Spec     == Init /\ [][Next]_vars
FairSpec == Spec /\ Fairness

-----------------------------------------------------------------------------
(* Properties *)

Locations == {"idle", "add", "ue_state", "apply", "respond", "map", "notify",
              "write_response", "failed", "notify_failed", "remove", "unmap", "mark",
              "notify_deleted", "write"}
Events    == [session : SessionIds, status : Statuses, info : Infos]

\* The types of the store, the indices, the PCF and the threads' locals; a thread
\* has a local session exactly while it serves a request.
TypeOK ==
  /\ sessions \in [SessionIds -> QodSession \cup {Null}]
  /\ sessions_by_supi \in [Supis -> SUBSET SessionIds]
  /\ pcf_session_mapping \in [PcfIds -> SessionIds \cup {Null}]
  /\ ue_states \in SUBSET Devices
  /\ app_sessions \in [PcfIds -> {"unused", "live", "released"}]
  /\ events \in SUBSET Events
  /\ clock \in Nat
  /\ used \in SUBSET SessionIds
  /\ pc \in [Threads -> Locations]
  /\ copy \in [Threads -> QodSession \cup {Null}]
  /\ \A t \in Threads : pc[t] # "idle" => copy[t] \in QodSession
  /\ reply \in [Threads -> PcfIds \cup {Null}]
  /\ expired \in SUBSET SessionIds
  /\ manager \in {"running", "stopping", "stopped"}

\* sessions_by_supi_ lists exactly the stored sessions of each SUPI.  update_session
\* relies on it ("Assumes SUPI does not change after creation") although it writes
\* copies that other threads took before the session was changed or removed.
SupiIndexExact ==
  \A u \in Supis : sessions_by_supi[u] = {s \in SessionIds : Stored(s) /\ sessions[s].supi = u}

\* An AVAILABLE session names a PCF app session that was really created (it may have
\* been released since, see DeletedIsFinal), has a start, a duration within the limits
\* of its profile, and expires exactly when that duration is over, whatever stale copies
\* delete and extend write back.
AvailableIsBacked ==
  \A s \in SessionIds : (Stored(s) /\ sessions[s].status = "AVAILABLE") =>
    LET rec == sessions[s]
    IN  /\ rec.pcf \in PcfIds /\ app_sessions[rec.pcf] # "unused"
        /\ rec.started \in Int
        /\ MinDuration <= rec.duration /\ rec.duration <= MaxDuration
        /\ rec.expires = rec.started + rec.duration

\* A session that is UNAVAILABLE and names its app session has had it released: a
\* removal the PCF did not confirm ends delete_session before it marks the session, and
\* no copy of the session taken before is written over it in a way that hides the app
\* session it names.  Nothing is said of UNAVAILABLE sessions that name none, as one has
\* that was deleted while its creation was under way (EndedIsReleased below).
UnavailableIsReleased ==
  \A s \in SessionIds :
    (Stored(s) /\ sessions[s].status = "UNAVAILABLE" /\ sessions[s].pcf # Null)
      => app_sessions[sessions[s].pcf] = "released"

\* A consumer is told that its session was deleted only after it was told that the
\* session became AVAILABLE: handle_pcf_session_response notifies before it stores
\* the status that lets delete_session notify.
DeletedToldAfterAvailable ==
  \A e \in events : (e.info = "DELETE_REQUESTED" /\ e.status = "UNAVAILABLE") =>
    \E f \in events : f.session = e.session /\ f.status = "AVAILABLE"

\* A session that was removed (by the cleanup thread or by stop) never comes back:
\* requests still holding a copy of it must not store it again.
RemovedStaysRemoved ==
  [][\A s \in SessionIds : (s \in used /\ Stored(s)' /\ ~Stored(s))
       => \E t \in Threads : pc[t] = "add" /\ copy[t].id = s]_vars

\* A session as create_session stores it, REQUESTED and without an expiry, leaves
\* REQUESTED: create_session ends in an answer of the PCF, in an error or in the
\* fallback that marks the session UNAVAILABLE, whatever deletions and extensions
\* overlap with it.  (An extension that read the session before that may put REQUESTED
\* back afterwards, with an expiry: see RequestedNeverReturns.)
AsCreated(s) == Stored(s) /\ sessions[s].status = "REQUESTED" /\ sessions[s].expires = Null
RequestedSettles ==
  \A s \in SessionIds : AsCreated(s) ~> (~Stored(s) \/ sessions[s].status # "REQUESTED")

\* A session with an expiry is forgotten once the expiry and the TTL have passed,
\* unless a write moved its expiry (MaxTime is where the model's clock ends).
DueWithinHorizon(s) == Stored(s) /\ sessions[s].expires # Null /\ sessions[s].expires + Ttl <= MaxTime
ExpiredIsForgotten ==
  \A s \in SessionIds : DueWithinHorizon(s) ~> ~DueWithinHorizon(s)

\* Two sessions of consumers without an id never share a device and an application
\* server while both are active (check_session_conflict, for the only consumers it
\* looks at, when requests do not overlap).
AnonymousNeverConflict ==
  \A r, s \in SessionIds :
    (/\ r # s /\ Stored(r) /\ Stored(s)
     /\ sessions[r].consumer = Anonymous /\ sessions[s].consumer = Anonymous
     /\ sessions[r].status # "UNAVAILABLE" /\ sessions[s].status # "UNAVAILABLE"
     /\ sessions[r].device # Null)
      => ~(sessions[r].device = sessions[s].device /\ sessions[r].server = sessions[s].server)

\* The sessions as SessionLifecycle sees them.
LifecycleStatus ==
  [s \in SessionIds |->
    IF Stored(s) THEN sessions[s].status
    ELSE IF s \in used /\ \A t \in Threads : ~(pc[t] = "add" /\ copy[t].id = s) THEN "gone"
    ELSE "none"]
Enforced ==
  {s \in SessionIds : Stored(s) /\ sessions[s].pcf # Null /\ app_sessions[sessions[s].pcf] = "live"}
Lifecycle == INSTANCE SessionLifecycle
               WITH Sessions <- SessionIds, status <- LifecycleStatus, enforced <- Enforced

\* One request at a time, create_session, delete_session, extend_session_duration,
\* the cleanup thread and stop together implement the session lifecycle.
ImplementsLifecycle == Lifecycle!Spec

-----------------------------------------------------------------------------
(* Statements of the repository that the code does not meet. *)

Active(s) == Stored(s) /\ sessions[s].status # "UNAVAILABLE"

\* qod_session_manager.h:234: create_session "Check[s] for conflicting sessions":
\* no two active sessions of one device use the same application server.
NoConflictingSessions ==
  \A r, s \in SessionIds :
    (r # s /\ Active(r) /\ Active(s) /\ sessions[r].device # Null)
      => ~(sessions[r].device = sessions[s].device /\ sessions[r].server = sessions[s].server)

\* 06-qos-http-tutorial.md: after a delete the session is UNAVAILABLE with
\* DELETE_REQUESTED and is kept so that clients can "observe the final state".
Deleted(s) == Stored(s) /\ sessions[s].status = "UNAVAILABLE" /\ sessions[s].info = "DELETE_REQUESTED"
DeletedIsFinal ==
  [][\A s \in SessionIds : (Deleted(s) /\ Stored(s)') => sessions'[s].status = "UNAVAILABLE"]_vars

\* 06-qos-http-tutorial.md:438: deleting a session makes the AF signal "the PCF to remove
\* the policy rule": a live app session in pcf_session_mapping_ is of no ended session.
EndedIsReleased ==
  \A p \in PcfIds : (app_sessions[p] = "live" /\ pcf_session_mapping[p] # Null) =>
    ~(Stored(pcf_session_mapping[p]) /\ sessions[pcf_session_mapping[p]].status = "UNAVAILABLE")

\* qod_handler.cpp:317: to be extended "the session must be in the AVAILABLE state", so
\* an extension does not put a session back to REQUESTED.
RequestedNeverReturns ==
  [][\A s \in SessionIds : (Stored(s) /\ Stored(s)' /\ sessions[s].status # "REQUESTED")
       => sessions'[s].status # "REQUESTED"]_vars

\* qod_session_manager.h:273: cleanup is for sessions "that have expired based on
\* their expiration time and a configured grace period".
CleanupOnlyExpired ==
  [][\A s \in SessionIds : (s \in expired /\ s \notin expired' /\ Stored(s))
       => s \in get_expired_sessions]_vars

\* qod_session_manager.h:43, :271: unavailable sessions have a TTL; cleanup removes
\* "expired and terminated sessions".
UnavailableIsForgotten ==
  \A s \in SessionIds : (Stored(s) /\ sessions[s].status = "UNAVAILABLE" /\ clock + Ttl < MaxTime)
                           ~> (~Stored(s) \/ sessions[s].status # "UNAVAILABLE"
                               \/ (sessions[s].expires # Null /\ sessions[s].expires + Ttl > MaxTime))

\* qod_session_manager.h:284: "Generate a unique session ID": adding a session never
\* replaces another one.
AddNeverReplaces ==
  [][\A s \in SessionIds : (Stored(s) /\ Stored(s)') =>
       sessions'[s].consumer = sessions[s].consumer]_vars
=============================================================================
