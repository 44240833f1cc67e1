----------------------------- MODULE PcfSession -----------------------------
(***************************************************************************)
(* QodPcfHandler and HttpPcfGateway: the PCF app sessions behind QoD       *)
(* sessions.  Requests of AF core are handled by several threads at once.  *)
(* The two session maps are read and written under sessions_mutex_, the    *)
(* HTTP exchange with the PCF is made without it, so one action is one     *)
(* locked section or one exchange.                                         *)
(*                                                                         *)
(* AF core asks once for the creation under a QoD session id; updates and  *)
(* deletions come at any time, in any number, also for unknown ids.  What  *)
(* makes a request malformed or invalid is the subject of QodRequest.  The *)
(* last_request field, written for debugging and never read, is left out.  *)
(***************************************************************************)
CONSTANTS Threads, Qods, PcfIds, None

ASSUME PcfAssumption == None \notin Qods \cup PcfIds

VARIABLES
  qod_to_pcf_sessions_, pcf_to_qod_sessions_,
  call,           \* per thread: the step it is at, its QoD and its PCF session id
  app_sessions,   \* at the PCF: "unused", "live", "released", "terminated"
  owner,          \* at the PCF: the QoD session named by the request's notifUri
  asked,          \* the QoD sessions AF core has asked a creation for
  granted,        \* the pcf_session_id of the 200 answer to that request
  refused,        \* the QoD sessions whose creation was answered with an error
  confirmed       \* the app sessions whose deletion was answered 200

maps    == <<qod_to_pcf_sessions_, pcf_to_qod_sessions_>>
pcf     == <<app_sessions, owner>>
answers == <<asked, granted, refused, confirmed>>
vars    == <<maps, call, pcf, answers>>

PcfSessionState == {"CREATING", "UPDATING", "DELETING"}
PcfSessionInfo  == [pcf_session_id : PcfIds, state : PcfSessionState]

Steps == {"idle", "create_app_session", "store", "update_app_session", "updated",
          "delete_app_session", "deleted"}
Idle  == [step |-> "idle", qod |-> None, pcf |-> None]

-----------------------------------------------------------------------------
(* The session maps *)

Put(f, x, v) == [y \in DOMAIN f \cup {x} |-> IF y = x THEN v ELSE f[y]]

Known(q) == q \in DOMAIN qod_to_pcf_sessions_

store_session_mapping(q, p) ==
  /\ qod_to_pcf_sessions_' = Put(qod_to_pcf_sessions_, q, [pcf_session_id |-> p, state |-> "CREATING"])
  /\ pcf_to_qod_sessions_' = Put(pcf_to_qod_sessions_, p, q)

update_session_state(p, state) ==
  /\ qod_to_pcf_sessions_' =
       IF p \in DOMAIN pcf_to_qod_sessions_ /\ Known(pcf_to_qod_sessions_[p])
       THEN [qod_to_pcf_sessions_ EXCEPT ![pcf_to_qod_sessions_[p]].state = state]
       ELSE qod_to_pcf_sessions_
  /\ UNCHANGED pcf_to_qod_sessions_

Step(t, step, q, p) == call' = [call EXCEPT ![t] = [step |-> step, qod |-> q, pcf |-> p]]
Return(t)           == call' = [call EXCEPT ![t] = Idle]
At(t, step)         == call[t].step = step

-----------------------------------------------------------------------------
(* Creation *)

\* A malformed request is answered 400, one that builds an invalid app session
\* context too.  A valid one is sent.
handle_qod_create_pcf_session(t, q) ==
  /\ At(t, "idle") /\ q \notin asked
  /\ asked' = asked \cup {q}
  /\ \/ refused' = refused \cup {q} /\ UNCHANGED call
     \/ Step(t, "create_app_session", q, None) /\ UNCHANGED refused
  /\ UNCHANGED <<maps, pcf, granted, confirmed>>

\* Faulty variant: the app session id is taken without a look at the Location
\* header, so an answer that names an older session is believed.
create_app_session_unchecked(t) ==
  /\ At(t, "create_app_session")
  /\ \E p \in PcfIds :
       /\ app_sessions[p] = "unused"
       /\ app_sessions' = [app_sessions EXCEPT ![p] = "live"]
       /\ owner' = [owner EXCEPT ![p] = call[t].qod]
       /\ \E o \in PcfIds : app_sessions'[o] # "unused" /\ Step(t, "store", call[t].qod, o)
       /\ UNCHANGED refused
  /\ UNCHANGED <<maps, asked, granted, confirmed>>

\* The POST: the PCF creates the session and its 2xx answer has a usable Location
\* header; it creates one and the answer is lost, or its header is missing, has no
\* "/app-sessions/" or an empty id; or it creates none (refused, request lost).
\* Everything but the first is answered 502.
create_app_session(t) ==
  /\ At(t, "create_app_session")
  /\ \/ \E p \in PcfIds :
          /\ app_sessions[p] = "unused"
          /\ app_sessions' = [app_sessions EXCEPT ![p] = "live"]
          /\ owner' = [owner EXCEPT ![p] = call[t].qod]
          /\ \/ Step(t, "store", call[t].qod, p) /\ UNCHANGED refused
             \/ Return(t) /\ refused' = refused \cup {call[t].qod}
     \/ /\ Return(t) /\ refused' = refused \cup {call[t].qod}
        /\ UNCHANGED pcf
  /\ UNCHANGED <<maps, asked, granted, confirmed>>

\* The mapping is stored and the request answered 200 with the pcf_session_id.
create_pcf_session(t) ==
  /\ At(t, "store")
  /\ store_session_mapping(call[t].qod, call[t].pcf)
  /\ granted' = [granted EXCEPT ![call[t].qod] = call[t].pcf]
  /\ Return(t)
  /\ UNCHANGED <<pcf, asked, refused, confirmed>>

-----------------------------------------------------------------------------
(* Update *)

\* A malformed request is answered 400; without a mapping the answer is 500.
\* Neither changes anything.
handle_qod_update_pcf_session(t, q) ==
  /\ At(t, "idle") /\ Known(q)
  /\ Step(t, "update_app_session", q, qod_to_pcf_sessions_[q].pcf_session_id)
  /\ UNCHANGED <<maps, pcf, answers>>

\* The PATCH succeeds only for a session the PCF has; a failure is answered 502.
update_app_session(t) ==
  /\ At(t, "update_app_session")
  /\ \/ app_sessions[call[t].pcf] = "live" /\ Step(t, "updated", call[t].qod, call[t].pcf)
     \/ Return(t)
  /\ UNCHANGED <<maps, pcf, answers>>

update_pcf_session(t) ==
  /\ At(t, "updated")
  /\ update_session_state(call[t].pcf, "UPDATING")
  /\ Return(t)
  /\ UNCHANGED <<pcf, answers>>

-----------------------------------------------------------------------------
(* Deletion *)

\* Faulty variant: the mapping is forgotten before the PCF has answered.
handle_qod_delete_pcf_session_forgets(t, q) ==
  /\ At(t, "idle") /\ Known(q)
  /\ Step(t, "delete_app_session", q, qod_to_pcf_sessions_[q].pcf_session_id)
  /\ qod_to_pcf_sessions_' = [o \in DOMAIN qod_to_pcf_sessions_ \ {q} |-> qod_to_pcf_sessions_[o]]
  /\ UNCHANGED <<pcf_to_qod_sessions_, pcf, answers>>

\* Faulty variant: the id is that of whichever session comes first.
handle_qod_delete_pcf_session_any(t, q) ==
  /\ At(t, "idle") /\ Known(q)
  /\ \E o \in DOMAIN qod_to_pcf_sessions_ :
       Step(t, "delete_app_session", q, qod_to_pcf_sessions_[o].pcf_session_id)
  /\ UNCHANGED <<maps, pcf, answers>>

handle_qod_delete_pcf_session(t, q) ==
  /\ At(t, "idle") /\ Known(q)
  /\ Step(t, "delete_app_session", q, qod_to_pcf_sessions_[q].pcf_session_id)
  /\ UNCHANGED <<maps, pcf, answers>>

\* Faulty variant: a failed exchange counts as a deletion.
delete_app_session_ignored(t) ==
  /\ At(t, "delete_app_session")
  /\ \/ app_sessions[call[t].pcf] = "live" /\ app_sessions' = [app_sessions EXCEPT ![call[t].pcf] = "released"]
     \/ UNCHANGED app_sessions
  /\ Step(t, "deleted", call[t].qod, call[t].pcf)
  /\ UNCHANGED <<maps, owner, answers>>

\* The POST to .../delete: done and confirmed; done and the answer lost; or not
\* done (unknown to the PCF, refused, request lost).  The last two are answered
\* 502; the mapping stays in all three.
delete_app_session(t) ==
  /\ At(t, "delete_app_session")
  /\ \/ /\ app_sessions[call[t].pcf] = "live"
        /\ app_sessions' = [app_sessions EXCEPT ![call[t].pcf] = "released"]
        /\ Step(t, "deleted", call[t].qod, call[t].pcf) \/ Return(t)
     \/ Return(t) /\ UNCHANGED app_sessions
  /\ UNCHANGED <<maps, owner, answers>>

delete_pcf_session(t) ==
  /\ At(t, "deleted")
  /\ update_session_state(call[t].pcf, "DELETING")
  /\ confirmed' = confirmed \cup {call[t].pcf}
  /\ Return(t)
  /\ UNCHANGED <<pcf, asked, granted, refused>>

\* The PCF ends an app session by itself.  Its notification reaches no handler.
PcfTerminates(p) ==
  /\ app_sessions[p] = "live"
  /\ app_sessions' = [app_sessions EXCEPT ![p] = "terminated"]
  /\ UNCHANGED <<maps, call, owner, answers>>

-----------------------------------------------------------------------------
Init ==
  /\ qod_to_pcf_sessions_ = [q \in {} |-> None]
  /\ pcf_to_qod_sessions_ = [p \in {} |-> None]
  /\ call = [t \in Threads |-> Idle]
  /\ app_sessions = [p \in PcfIds |-> "unused"]
  /\ owner = [p \in PcfIds |-> None]
  /\ asked = {} /\ granted = [q \in Qods |-> None]
  /\ refused = {} /\ confirmed = {}

Exchange(t) ==
  \/ create_app_session(t) \/ create_pcf_session(t)
  \/ update_app_session(t) \/ update_pcf_session(t)
  \/ delete_app_session(t) \/ delete_pcf_session(t)

Next ==
  \/ \E t \in Threads, q \in Qods :
       \/ handle_qod_create_pcf_session(t, q)
       \/ handle_qod_update_pcf_session(t, q)
       \/ handle_qod_delete_pcf_session(t, q)
  \/ \E t \in Threads : Exchange(t)
  \/ \E p \in PcfIds : PcfTerminates(p)

Spec == Init /\ [][Next]_vars

-----------------------------------------------------------------------------
(* Properties *)

\* The maps, the calls in progress and the PCF's sessions keep their types.
TypeOK ==
  /\ DOMAIN qod_to_pcf_sessions_ \subseteq Qods
  /\ \A q \in DOMAIN qod_to_pcf_sessions_ : qod_to_pcf_sessions_[q] \in PcfSessionInfo
  /\ DOMAIN pcf_to_qod_sessions_ \subseteq PcfIds
  /\ \A p \in DOMAIN pcf_to_qod_sessions_ : pcf_to_qod_sessions_[p] \in Qods
  /\ call \in [Threads -> [step : Steps, qod : Qods \cup {None}, pcf : PcfIds \cup {None}]]
  /\ app_sessions \in [PcfIds -> {"unused", "live", "released", "terminated"}]
  /\ owner \in [PcfIds -> Qods \cup {None}]
  /\ asked \subseteq Qods /\ refused \subseteq Qods /\ confirmed \subseteq PcfIds
  /\ granted \in [Qods -> PcfIds \cup {None}]

\* What AF core was told is what the handler knows: the pcf_session_id of a 200
\* answer is mapped to its QoD session in both directions, whatever calls come
\* after it (create_pcf_session, and the deletion that keeps the mapping).
GrantedIsMapped ==
  \A q \in Qods : granted[q] # None =>
    /\ Known(q) /\ qod_to_pcf_sessions_[q].pcf_session_id = granted[q]
    /\ granted[q] \in DOMAIN pcf_to_qod_sessions_ /\ pcf_to_qod_sessions_[granted[q]] = q

\* An app session still reserved at the PCF can be deleted through the handler,
\* also after deletions that failed, unless its creation was answered with an
\* error: that answer is the only way create_pcf_session loses one.
LiveIsReachable ==
  \A p \in PcfIds : app_sessions[p] = "live" =>
    \/ owner[p] \in refused
    \/ \E t \in Threads : At(t, "store") /\ call[t].pcf = p /\ call[t].qod = owner[p]
    \/ Known(owner[p]) /\ qod_to_pcf_sessions_[owner[p]].pcf_session_id = p

\* A deletion answered 200 has released the app session at the PCF, also when
\* two deletions of one QoD session race or one is repeated after a lost answer.
ConfirmedReleased == \A p \in confirmed : app_sessions[p] = "released"

\* An app session is released only by a deletion of the QoD session it was
\* created for, never by one of another session handled at the same time.
ReleasedForOwner ==
  [][\A p \in PcfIds :
       app_sessions[p] # "released" /\ app_sessions'[p] = "released" =>
         \E t \in Threads : At(t, "delete_app_session") /\ call[t].qod = owner[p]]_vars

\* The handler keeps the promise QodSessionManager relies on.
Contract == INSTANCE AppSessionContract WITH phase <- app_sessions

\* The handler implements the contract of app sessions.
Implements == Contract!Spec
=============================================================================
