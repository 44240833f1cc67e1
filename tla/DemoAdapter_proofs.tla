------------------------ MODULE DemoAdapter_proofs ------------------------
(***************************************************************************)
(* Proofs about DemoAdapter, for any streams, any number of sessions, any  *)
(* number of attempts and any configurations.                              *)
(***************************************************************************)
EXTENDS DemoAdapter, TLAPS

-----------------------------------------------------------------------------
(* The inductive invariant *)

Tracked == [stream : Streams, status : {"live", "unavailable", "REQUESTED"}]

\* What the loops go through: streams while creating, tracked sessions afterwards.
TypeInv ==
  /\ core \in [SessionIds -> {"unused", "live", "unavailable", "removed"}]
  /\ stream_of \in [SessionIds -> Streams \cup {None}]
  /\ sessions_ \in [DOMAIN sessions_ -> Tracked]
  /\ request = [of |-> request.of, attempts |-> request.attempts]
  /\ phase = "create" => todo \subseteq Streams
  /\ phase \in {"monitor", "cleanup"} => todo \subseteq DOMAIN sessions_
  /\ \A r \in pending : r.op \in {"create", "cleanup"} /\ (r.op = "create" => r.of \in Streams)

\* A request is in progress only in a loop, for an element that is still to do.
CallInv == Calling => phase \in {"create", "monitor", "cleanup"} /\ request.of \in todo

\* Before AF core is reachable no session was created and no request sent.
WaitInv == phase = "wait" => pending = {} /\ \A i \in SessionIds : core[i] # "live"

\* The cleanup has still to come to a live session that it will not leave behind.
CleanupInv ==
  phase = "cleanup" => \A i \in SessionIds : core[i] = "live" => i \in lost \cup misread \cup undeleted \cup todo

IInv == TypeInv /\ CallInv /\ WaitInv /\ LiveIsTracked /\ CleanupInv /\ CleanedUp

-----------------------------------------------------------------------------
(* AF core's outcomes *)

\* An error changes nothing; a success makes an unused session live.
LEMMA CreateFacts ==
  ASSUME NEW s, NEW o \in CreateOutcomes(s)
  PROVE  \/ o.ok = FALSE /\ o.core = core /\ o.stream_of = stream_of
         \/ \E i \in SessionIds :
              /\ core[i] = "unused" /\ o.ok = TRUE /\ o.id = i /\ o.status = "live"
              /\ o.core = [core EXCEPT ![i] = "live"] /\ o.stream_of = [stream_of EXCEPT ![i] = s]
<1>1. CASE o = Error(core)
  BY <1>1 DEF Error
<1>2. ASSUME NEW i \in SessionIds, core[i] = "unused", o = Created(i, s)
      PROVE  /\ o.ok = TRUE /\ o.id = i /\ o.status = "live"
             /\ o.core = [core EXCEPT ![i] = "live"] /\ o.stream_of = [stream_of EXCEPT ![i] = s]
  BY <1>2 DEF Created, Ok
<1> QED
  BY <1>1, <1>2 DEF CreateOutcomes

\* A read changes nothing, and its success tells a status.
LEMMA GetFacts ==
  ASSUME NEW i, NEW o \in GetOutcomes(i)
  PROVE  /\ o.core = core /\ o.stream_of = stream_of /\ o.ok \in BOOLEAN
         /\ o.ok => o.status \in {"live", "unavailable"}
<1>1. CASE i \in SessionIds /\ core[i] \in {"live", "unavailable"}
  <2>1. o = Ok(core, i, core[i])
    BY <1>1 DEF GetOutcomes
  <2> QED
    BY <1>1, <2>1 DEF Ok
<1>2. CASE ~(i \in SessionIds /\ core[i] \in {"live", "unavailable"})
  <2>1. o = Error(core)
    BY <1>2 DEF GetOutcomes
  <2> QED
    BY <2>1 DEF Error
<1> QED
  BY <1>1, <1>2

\* After a deletion that succeeded the session is not live.
LEMMA DeleteFacts ==
  ASSUME NEW i, NEW o \in DeleteOutcomes(i)
  PROVE  /\ o.stream_of = stream_of
         /\ \/ o.ok = FALSE /\ o.core = core
            \/ o.ok = TRUE /\ i \in SessionIds /\ o.core = [core EXCEPT ![i] = "unavailable"]
  BY DEF DeleteOutcomes, Error, Ok

\* The request of an attempt that is given up.
LEMMA PendingFacts ==
  ASSUME IInv, Calling, MayBePending
  PROVE  \A r \in pending' : r.op \in {"create", "cleanup"} /\ (r.op = "create" => r.of \in Streams)
<1> DEFINE new == [op |-> phase, of |-> request.of, n |-> request.attempts]
<1>1. pending' = pending \/ (phase # "monitor" /\ pending' = pending \cup {new})
  BY DEF MayBePending
<1>2. phase # "monitor" => new.op \in {"create", "cleanup"} /\ (new.op = "create" => new.of \in Streams)
  BY DEF IInv, CallInv, TypeInv
<1> HIDE DEF new
<1> QED
  BY <1>1, <1>2 DEF IInv, TypeInv

-----------------------------------------------------------------------------
(* The steps of a call *)

\* What is left of the invariant when a call has ended is about the sessions.
LEMMA HandledKeeps ==
  ASSUME IInv, Calling, NEW x, x = request.of,
         request' = NoRequest, todo' = todo \ {x}, phase' = phase,
         core' \in [SessionIds -> {"unused", "live", "unavailable", "removed"}],
         stream_of' \in [SessionIds -> Streams \cup {None}],
         sessions_' \in [DOMAIN sessions_' -> Tracked],
         phase \in {"monitor", "cleanup"} => todo' \subseteq DOMAIN sessions_',
         \A r \in pending' : r.op \in {"create", "cleanup"} /\ (r.op = "create" => r.of \in Streams),
         LiveIsTracked',
         phase = "cleanup" => \A i \in SessionIds : core'[i] = "live" => i \in lost' \cup misread' \cup undeleted' \cup todo'
  PROVE  IInv'
<1>1. phase \in {"create", "monitor", "cleanup"}
  BY DEF IInv, CallInv
<1>2. TypeInv'
  BY <1>1 DEF IInv, TypeInv, NoRequest
<1>3. CallInv' /\ WaitInv' /\ CleanedUp'
  BY <1>1 DEF CallInv, WaitInv, CleanedUp, Calling, NoRequest
<1>4. CleanupInv'
  BY DEF CleanupInv
<1> QED
  BY <1>2, <1>3, <1>4 DEF IInv

\* A call that fails without an answer.
LEMMA FailedKeeps ==
  ASSUME IInv, Calling, Handle(request.of, FALSE, None), UNCHANGED <<service, lost, misread>>,
         \A r \in pending' : r.op \in {"create", "cleanup"} /\ (r.op = "create" => r.of \in Streams)
  PROVE  IInv'
<1>1. /\ request' = NoRequest /\ todo' = todo \ {request.of} /\ phase' = phase
      /\ sessions_' = sessions_ /\ core' = core /\ stream_of' = stream_of /\ lost' = lost /\ misread' = misread
      /\ undeleted' = undeleted \/ undeleted' = undeleted \cup {request.of}
      /\ phase = "cleanup" => undeleted' = undeleted \cup {request.of}
  BY DEF Handle, request_qos_for_stream, monitor_sessions, cleanup_all_sessions, service
<1>2. LiveIsTracked'
  BY <1>1 DEF IInv, LiveIsTracked
<1>3. phase = "cleanup" => \A i \in SessionIds : core'[i] = "live" => i \in lost' \cup misread' \cup undeleted' \cup todo'
  BY <1>1 DEF IInv, CleanupInv
<1>4. /\ core' \in [SessionIds -> {"unused", "live", "unavailable", "removed"}]
      /\ stream_of' \in [SessionIds -> Streams \cup {None}]
      /\ sessions_' \in [DOMAIN sessions_' -> Tracked]
      /\ phase \in {"monitor", "cleanup"} => todo' \subseteq DOMAIN sessions_'
  BY <1>1 DEF IInv, TypeInv
<1> QED
  BY <1>1, <1>2, <1>3, <1>4, HandledKeeps

\* The answer to a creation: the new session is tracked, or its id is lost.
LEMMA AnsweredCreate ==
  ASSUME IInv, Answered, phase = "create"
  PROVE  IInv'
<1> DEFINE x == request.of
<1>1. Calling /\ x \in Streams
  BY DEF Answered, IInv, CallInv, TypeInv
<1>2. PICK o \in CreateOutcomes(x), usable \in BOOLEAN :
        /\ core' = o.core /\ stream_of' = o.stream_of
        /\ Handle(x, Success(o, usable), parse_session_info(o, usable))
        /\ lost' = IF o.ok /\ ~usable THEN lost \cup {o.id} ELSE lost
        /\ misread' = misread
  BY DEF Answered, Outcomes
<1> DEFINE info == parse_session_info(o, usable)
<1>3. /\ request' = NoRequest /\ todo' = todo \ {x} /\ phase' = phase /\ pending' = pending
      /\ sessions_' = IF Success(o, usable) THEN Put(sessions_, info.id, [stream |-> x, status |-> info.status])
                      ELSE sessions_
  BY <1>2 DEF Handle, request_qos_for_stream, Answered
<1>4. CASE o.ok = FALSE
  <2>1. core' = core /\ stream_of' = stream_of /\ lost' = lost
    BY <1>2, <1>4, CreateFacts
  <2>2. /\ sessions_' \in [DOMAIN sessions_' -> Tracked]
        /\ \A j \in SessionIds : j \in DOMAIN sessions_ => j \in DOMAIN sessions_' /\ sessions_'[j] = sessions_[j]
    <3>1. CASE Success(o, usable)
      <4>1. info = [id |-> NoId, status |-> "REQUESTED"]
        BY <1>4, <3>1 DEF Success, parse_session_info
      <4>2. [stream |-> x, status |-> "REQUESTED"] \in Tracked
        BY <1>1 DEF Tracked
      <4>3. sessions_' = Put(sessions_, NoId, [stream |-> x, status |-> "REQUESTED"])
        BY <1>3, <3>1, <4>1
      <4> QED
        BY <4>2, <4>3, AdapterAssumption DEF Put, IInv, TypeInv
    <3>2. CASE ~Success(o, usable)
      BY <1>3, <3>2 DEF IInv, TypeInv
    <3> QED
      BY <3>1, <3>2
  <2>3. LiveIsTracked'
    BY <1>2, <2>1, <2>2 DEF IInv, LiveIsTracked
  <2> QED
    BY <1>1, <1>3, <2>1, <2>2, <2>3, HandledKeeps DEF IInv, TypeInv
<1>5. CASE o.ok = TRUE
  <2>1. PICK i \in SessionIds :
          /\ core[i] = "unused" /\ o.id = i /\ o.status = "live"
          /\ core' = [core EXCEPT ![i] = "live"] /\ stream_of' = [stream_of EXCEPT ![i] = x]
    <3>1. PICK i \in SessionIds :
            /\ core[i] = "unused" /\ o.id = i /\ o.status = "live"
            /\ o.core = [core EXCEPT ![i] = "live"] /\ o.stream_of = [stream_of EXCEPT ![i] = x]
      <4>1. \/ o.ok = FALSE /\ o.core = core /\ o.stream_of = stream_of
            \/ \E i \in SessionIds :
                 /\ core[i] = "unused" /\ o.ok = TRUE /\ o.id = i /\ o.status = "live"
                 /\ o.core = [core EXCEPT ![i] = "live"] /\ o.stream_of = [stream_of EXCEPT ![i] = x]
        BY CreateFacts
      <4> QED
        BY <1>5, <4>1
    <3> QED
      BY <1>2, <3>1
  <2>2. IF usable THEN info = [id |-> i, status |-> "live"] ELSE info = [id |-> NoId, status |-> "REQUESTED"]
    BY <2>1 DEF parse_session_info
  <2>3. [stream |-> x, status |-> info.status] \in Tracked
    BY <1>1, <2>2 DEF Tracked
  <2> DEFINE t == [stream |-> x, status |-> info.status]
  <2>4. sessions_' = Put(sessions_, info.id, t)
    BY <1>3, <1>5 DEF Success
  <2>5. t.stream = x
    OBVIOUS
  <2> HIDE DEF t, info
  <2>6. /\ sessions_' \in [DOMAIN sessions_' -> Tracked] /\ DOMAIN sessions_' = DOMAIN sessions_ \cup {info.id}
        /\ sessions_'[info.id] = t
        /\ \A j \in DOMAIN sessions_ : j # info.id => sessions_'[j] = sessions_[j]
    BY <2>3, <2>4 DEF Put, IInv, TypeInv, t
  <2>7. /\ core' \in [SessionIds -> {"unused", "live", "unavailable", "removed"}]
        /\ stream_of' \in [SessionIds -> Streams \cup {None}]
    BY <1>1, <2>1 DEF IInv, TypeInv
  <2>8. ASSUME NEW j \in SessionIds, core'[j] = "live"
        PROVE  j \in lost' \cup misread' \/ (j \in DOMAIN sessions_' /\ sessions_'[j].stream = stream_of'[j])
    <3>1. CASE j = i /\ usable
      <4>1. info.id = i
        BY <2>2, <3>1
      <4>2. stream_of'[i] = x
        BY <2>1 DEF IInv, TypeInv
      <4> QED
        BY <2>5, <2>6, <3>1, <4>1, <4>2
    <3>2. CASE j = i /\ ~usable
      BY <1>2, <1>5, <2>1, <3>2
    <3>3. CASE j # i
      <4>1. core[j] = "live" /\ stream_of'[j] = stream_of[j] /\ (j \in lost \cup misread => j \in lost' \cup misread')
        BY <1>2, <2>1, <2>8, <3>3 DEF IInv, TypeInv
      <4>2. j # info.id
        BY <2>2, <3>3, AdapterAssumption
      <4> QED
        BY <2>6, <4>1, <4>2 DEF IInv, LiveIsTracked
    <3> QED
      BY <3>1, <3>2, <3>3
  <2>9. LiveIsTracked'
    BY <2>8 DEF LiveIsTracked
  <2>10. \A r \in pending' : r.op \in {"create", "cleanup"} /\ (r.op = "create" => r.of \in Streams)
    BY <1>3 DEF IInv, TypeInv
  <2> QED
    BY <1>1, <1>3, <2>6, <2>7, <2>9, <2>10, HandledKeeps
<1> QED
  BY <1>2, <1>4, <1>5, CreateFacts

\* The answer to a read: the session stays tracked.
LEMMA AnsweredMonitor ==
  ASSUME IInv, Answered, phase = "monitor"
  PROVE  IInv'
<1> DEFINE x == request.of
<1>1. Calling /\ x \in DOMAIN sessions_
  BY DEF Answered, IInv, CallInv, TypeInv
<1>2. PICK o \in GetOutcomes(x), usable \in BOOLEAN :
        /\ core' = o.core /\ stream_of' = o.stream_of
        /\ Handle(x, Success(o, usable), parse_session_info(o, usable))
        /\ lost' = lost /\ misread' = misread
  BY DEF Answered, Outcomes
<1> DEFINE info == parse_session_info(o, usable)
<1>3. /\ request' = NoRequest /\ todo' = todo \ {x} /\ phase' = phase /\ pending' = pending
      /\ sessions_' = IF Success(o, usable) THEN [sessions_ EXCEPT ![x].status = info.status] ELSE sessions_
  BY <1>2 DEF Handle, monitor_sessions, Answered
<1>4. core' = core /\ stream_of' = stream_of
  BY <1>2, GetFacts
<1>5. Success(o, usable) => info.status \in {"live", "unavailable", "REQUESTED"}
  BY GetFacts DEF parse_session_info, Success
<1> HIDE DEF info
<1>6. sessions_ \in [DOMAIN sessions_ -> Tracked]
  BY DEF IInv, TypeInv
<1>7. /\ sessions_' \in [DOMAIN sessions_' -> Tracked] /\ DOMAIN sessions_' = DOMAIN sessions_
      /\ \A i \in DOMAIN sessions_ : sessions_'[i].stream = sessions_[i].stream
  <2>1. CASE ~Success(o, usable)
    BY <1>3, <1>6, <2>1
  <2>2. CASE Success(o, usable)
    <3>1. sessions_' = [sessions_ EXCEPT ![x] = [stream |-> sessions_[x].stream, status |-> info.status]]
      <4>1. sessions_[x] \in Tracked
        BY <1>1, <1>6
      <4>2. [sessions_[x] EXCEPT !.status = info.status] = [stream |-> sessions_[x].stream, status |-> info.status]
        BY <4>1 DEF Tracked
      <4> QED
        BY <1>3, <2>2, <4>2
    <3>2. [stream |-> sessions_[x].stream, status |-> info.status] \in Tracked
      BY <1>1, <1>5, <1>6, <2>2 DEF Tracked
    <3> QED
      BY <1>6, <3>1, <3>2
  <2> QED
    BY <2>1, <2>2
<1>8. LiveIsTracked'
  BY <1>2, <1>4, <1>7 DEF IInv, LiveIsTracked
<1>9. todo' \subseteq DOMAIN sessions_'
  BY <1>3, <1>7 DEF IInv, TypeInv
<1> QED
  BY <1>1, <1>3, <1>4, <1>7, <1>8, <1>9, HandledKeeps DEF IInv, TypeInv

\* The answer to a deletion: a session that is not tracked any longer is not live.
LEMMA AnsweredCleanup ==
  ASSUME IInv, Answered, phase = "cleanup"
  PROVE  IInv'
<1> DEFINE x == request.of
<1>1. Calling /\ x \in DOMAIN sessions_
  BY DEF Answered, IInv, CallInv, TypeInv
<1>2. PICK o \in DeleteOutcomes(x), usable \in BOOLEAN :
        /\ core' = o.core /\ stream_of' = o.stream_of
        /\ Handle(x, Success(o, usable), parse_session_info(o, usable))
        /\ lost' = lost
        /\ misread' = IF ~o.ok /\ Success(o, usable) THEN misread \cup {x} ELSE misread
  BY DEF Answered, Outcomes
<1>3. /\ request' = NoRequest /\ todo' = todo \ {x} /\ phase' = phase /\ pending' = pending
      /\ sessions_' = IF Success(o, usable) THEN Drop(sessions_, x) ELSE sessions_
      /\ undeleted' = IF Success(o, usable) THEN undeleted ELSE undeleted \cup {x}
  BY <1>2 DEF Handle, cleanup_all_sessions, Answered
<1>4. stream_of' = stream_of
  BY <1>2, DeleteFacts
<1>5. /\ core' \in [SessionIds -> {"unused", "live", "unavailable", "removed"}]
      /\ \A i \in SessionIds : core'[i] = "live" => core[i] = "live" /\ (i = x => o.ok = FALSE)
  <2>1. core \in [SessionIds -> {"unused", "live", "unavailable", "removed"}]
    BY DEF IInv, TypeInv
  <2>2. CASE o.ok = FALSE /\ o.core = core
    BY <1>2, <2>1, <2>2
  <2>3. CASE o.ok = TRUE /\ x \in SessionIds /\ o.core = [core EXCEPT ![x] = "unavailable"]
    BY <1>2, <2>1, <2>3
  <2> QED
    BY <2>2, <2>3, DeleteFacts
<1>6. /\ sessions_' \in [DOMAIN sessions_' -> Tracked]
      /\ \A i \in DOMAIN sessions_ : i # x \/ ~Success(o, usable) =>
           i \in DOMAIN sessions_' /\ sessions_'[i] = sessions_[i]
  BY <1>3 DEF Drop, IInv, TypeInv
<1>7. LiveIsTracked'
  BY <1>2, <1>4, <1>5, <1>6 DEF IInv, LiveIsTracked
<1>8. \A i \in SessionIds : core'[i] = "live" => i \in lost' \cup misread' \cup undeleted' \cup todo'
  BY <1>2, <1>3, <1>5 DEF IInv, CleanupInv
<1>9. todo' \subseteq DOMAIN sessions_'
  BY <1>3, <1>6 DEF IInv, TypeInv
<1> QED
  BY <1>1, <1>3, <1>4, <1>5, <1>6, <1>7, <1>8, <1>9, HandledKeeps DEF IInv, TypeInv

\* Every answer.
LEMMA AnsweredKeeps ==
  ASSUME IInv, Answered
  PROVE  IInv'
<1>1. phase \in {"create", "monitor", "cleanup"}
  BY DEF Answered, IInv, CallInv
<1> QED
  BY <1>1, AnsweredCreate, AnsweredMonitor, AnsweredCleanup

\* An attempt that is repeated: only the count and what is pending change.
LEMMA RetryKeeps ==
  ASSUME IInv, Retry
  PROVE  IInv'
<1>1. Calling /\ MayBePending /\ UNCHANGED <<control, sessions_, service, ghosts>>
      /\ request' = [request EXCEPT !.attempts = @ + 1]
  BY DEF Retry
<1>2. \A r \in pending' : r.op \in {"create", "cleanup"} /\ (r.op = "create" => r.of \in Streams)
  BY <1>1, PendingFacts
<1>3. request' = [of |-> request.of, attempts |-> request.attempts + 1]
  BY <1>1 DEF IInv, TypeInv
<1>4. phase # "wait"
  BY <1>1 DEF IInv, CallInv
<1>5. TypeInv' /\ CallInv' /\ WaitInv'
  BY <1>1, <1>2, <1>3, <1>4
     DEF IInv, TypeInv, CallInv, WaitInv, Calling, control, service
<1>6. LiveIsTracked' /\ CleanupInv' /\ CleanedUp'
  BY <1>1 DEF IInv, LiveIsTracked, CleanupInv, CleanedUp, control, service, ghosts
<1> QED
  BY <1>5, <1>6 DEF IInv

\* The two clients.
LEMMA ClientKeeps ==
  ASSUME IInv, do_http_request \/ send_message \/ RetriesExhausted
  PROVE  IInv'
<1>1. CASE is_not_retryable
  BY <1>1, PendingFacts, FailedKeeps DEF is_not_retryable
<1>2. CASE RetriesExhausted
  BY <1>2, FailedKeeps DEF RetriesExhausted, IInv, TypeInv
<1> QED
  BY <1>1, <1>2, AnsweredKeeps, RetryKeeps DEF do_http_request, send_message

\* The beginning of a call.
LEMMA CallKeeps ==
  ASSUME IInv, NEW x \in todo, Call(x)
  PROVE  IInv'
<1>1. /\ phase \in {"create", "monitor", "cleanup"} /\ request' = [of |-> x, attempts |-> 0]
      /\ UNCHANGED <<control, sessions_, service, pending, ghosts>>
  BY DEF Call
<1>2. TypeInv' /\ CallInv' /\ WaitInv'
  BY <1>1 DEF IInv, TypeInv, CallInv, WaitInv, Calling, control, service
<1>3. LiveIsTracked' /\ CleanupInv' /\ CleanedUp'
  BY <1>1 DEF IInv, LiveIsTracked, CleanupInv, CleanedUp, control, service, ghosts
<1> QED
  BY <1>2, <1>3 DEF IInv

-----------------------------------------------------------------------------
(* The control loop and the environment *)

\* The loop moves on.  A session that is live when the cleanup begins is one of those it
\* goes through, or its id was lost.
LEMMA GotoKeeps ==
  ASSUME IInv, wait_for_ready \/ NotReachable \/ LoopHead \/ Wake \/ Finish
  PROVE  IInv'
<1>1. /\ UNCHANGED <<config, shutdown_requested_, request, sessions_, service, pending, ghosts>>
      /\ ~Calling
  <2>1. phase \in {"wait", "sleep"} => ~Calling
    BY DEF IInv, CallInv
  <2> QED
    BY <2>1 DEF wait_for_ready, NotReachable, LoopHead, Wake, Finish, StaySame
<1>2. \/ phase' = "create" /\ todo' = Streams
      \/ phase' \in {"monitor", "cleanup"} /\ todo' = DOMAIN sessions_
      \/ phase' = "sleep" /\ todo' = {}
      \/ phase' = "done" /\ todo' = {} /\ (phase = "wait" \/ (phase = "cleanup" /\ todo = {}))
  BY DEF wait_for_ready, NotReachable, LoopHead, Wake, Finish, Goto
<1>3. TypeInv' /\ CallInv' /\ WaitInv'
  BY <1>1, <1>2 DEF IInv, TypeInv, CallInv, WaitInv, Calling, service
<1>4. LiveIsTracked'
  BY <1>1 DEF IInv, LiveIsTracked, service, ghosts
<1>5. CleanupInv'
  BY <1>1, <1>2 DEF IInv, LiveIsTracked, CleanupInv, service, ghosts
<1>6. CleanedUp'
  BY <1>1, <1>2 DEF IInv, WaitInv, CleanupInv, CleanedUp, service, ghosts
<1> QED
  BY <1>3, <1>4, <1>5, <1>6 DEF IInv

\* AF core's sessions change, none becomes live but with its id lost, and the adapter does nothing.
LEMMA CoreKeeps ==
  ASSUME IInv, UNCHANGED <<control, request, sessions_, misread, undeleted>>,
         core' \in [SessionIds -> {"unused", "live", "unavailable", "removed"}],
         stream_of' \in [SessionIds -> Streams \cup {None}],
         pending' \subseteq pending, lost \subseteq lost',
         phase = "wait" => \A i \in SessionIds : core'[i] # "live",
         \A i \in SessionIds : core'[i] = "live" =>
           i \in lost' \/ (core[i] = "live" /\ stream_of'[i] = stream_of[i])
  PROVE  IInv'
<1>1. TypeInv' /\ CallInv' /\ WaitInv'
  BY DEF IInv, TypeInv, CallInv, WaitInv, Calling, control
<1>2. LiveIsTracked'
  BY DEF IInv, LiveIsTracked
<1>3. CleanupInv' /\ CleanedUp'
  BY DEF IInv, CleanupInv, CleanedUp, control
<1> QED
  BY <1>1, <1>2, <1>3 DEF IInv

\* A request that is carried out late: a session it creates has its id lost.
LEMMA CarryOutKeeps ==
  ASSUME IInv, CarryOut
  PROVE  IInv'
<1>1. PICK r \in pending : \E o \in Outcomes(r.op, r.of) :
        /\ core' = o.core /\ stream_of' = o.stream_of
        /\ lost' = IF r.op = "create" /\ o.ok THEN lost \cup {o.id} ELSE lost
        /\ pending' = pending \ {r}
  BY DEF CarryOut
<1>2. PICK o \in Outcomes(r.op, r.of) :
        /\ core' = o.core /\ stream_of' = o.stream_of
        /\ lost' = IF r.op = "create" /\ o.ok THEN lost \cup {o.id} ELSE lost
        /\ pending' = pending \ {r}
  BY <1>1
<1>3. /\ r.op \in {"create", "cleanup"} /\ (r.op = "create" => r.of \in Streams)
      /\ core \in [SessionIds -> {"unused", "live", "unavailable", "removed"}]
      /\ stream_of \in [SessionIds -> Streams \cup {None}]
      /\ phase # "wait"
  BY DEF IInv, TypeInv, WaitInv
<1>4. UNCHANGED <<control, request, sessions_, misread, undeleted>>
  BY DEF CarryOut
<1>5. /\ core' \in [SessionIds -> {"unused", "live", "unavailable", "removed"}]
      /\ stream_of' \in [SessionIds -> Streams \cup {None}]
      /\ \A i \in SessionIds : core'[i] = "live" =>
           i \in lost' \/ (core[i] = "live" /\ stream_of'[i] = stream_of[i])
  <2>1. CASE r.op = "create"
    <3>1. o \in CreateOutcomes(r.of)
      BY <2>1 DEF Outcomes
    <3>2. \/ o.ok = FALSE /\ o.core = core /\ o.stream_of = stream_of
          \/ \E i \in SessionIds :
               /\ core[i] = "unused" /\ o.ok = TRUE /\ o.id = i /\ o.status = "live"
               /\ o.core = [core EXCEPT ![i] = "live"] /\ o.stream_of = [stream_of EXCEPT ![i] = r.of]
      BY <3>1, CreateFacts
    <3>3. CASE o.ok = FALSE /\ o.core = core /\ o.stream_of = stream_of
      BY <1>2, <1>3, <3>3
    <3>4. ASSUME NEW i \in SessionIds, o.ok = TRUE, o.id = i,
                 o.core = [core EXCEPT ![i] = "live"], o.stream_of = [stream_of EXCEPT ![i] = r.of]
          PROVE  <1>5!1 /\ <1>5!2 /\ <1>5!3
      BY <1>2, <1>3, <2>1, <3>4
    <3> QED
      BY <3>2, <3>3, <3>4
  <2>2. CASE r.op = "cleanup"
    <3>1. o \in DeleteOutcomes(r.of)
      BY <2>2 DEF Outcomes
    <3>2. /\ o.stream_of = stream_of
          /\ \/ o.core = core
             \/ r.of \in SessionIds /\ o.core = [core EXCEPT ![r.of] = "unavailable"]
      BY <3>1, DeleteFacts
    <3> QED
      BY <1>2, <1>3, <3>2
  <2> QED
    BY <1>3, <2>1, <2>2
<1>6. pending' \subseteq pending /\ lost \subseteq lost'
  BY <1>2
<1> QED
  BY <1>3, <1>4, <1>5, <1>6, CoreKeeps

\* The other steps of the environment.
LEMMA EnvironmentKeeps ==
  ASSUME IInv, Environment
  PROVE  IInv'
<1>0. /\ core \in [SessionIds -> {"unused", "live", "unavailable", "removed"}]
      /\ stream_of \in [SessionIds -> Streams \cup {None}]
      /\ phase = "wait" => \A i \in SessionIds : core[i] # "live"
  BY DEF IInv, TypeInv, WaitInv
<1>1. CASE RequestShutdown
  <2>1. UNCHANGED <<config, phase, todo, iteration, request, sessions_, service, pending, ghosts>>
    BY <1>1 DEF RequestShutdown
  <2>2. TypeInv' /\ CallInv' /\ WaitInv'
    BY <2>1 DEF IInv, TypeInv, CallInv, WaitInv, Calling, service
  <2>3. LiveIsTracked' /\ CleanupInv' /\ CleanedUp'
    BY <2>1 DEF IInv, LiveIsTracked, CleanupInv, CleanedUp, service, ghosts
  <2> QED
    BY <2>2, <2>3 DEF IInv
<1>2. CASE StartCore
  BY <1>0, <1>2, CoreKeeps DEF StartCore, ghosts
<1>3. CASE StopCore
  <2>1. /\ core' \in [SessionIds -> {"unused", "live", "unavailable", "removed"}]
        /\ \A i \in SessionIds : core'[i] # "live"
    BY <1>0, <1>3 DEF StopCore
  <2> QED
    BY <1>0, <1>3, <2>1, CoreKeeps DEF StopCore, ghosts
<1>4. ASSUME NEW i \in SessionIds, SessionEnds(i)
      PROVE  IInv'
  <2>1. /\ core' \in [SessionIds -> {"unused", "live", "unavailable", "removed"}]
        /\ \A j \in SessionIds : core'[j] = "live" => core[j] = "live"
    BY <1>0, <1>4 DEF SessionEnds
  <2> QED
    BY <1>0, <1>4, <2>1, CoreKeeps DEF SessionEnds, ghosts
<1> QED
  BY <1>1, <1>2, <1>3, <1>4, CarryOutKeeps DEF Environment

-----------------------------------------------------------------------------
(* The theorems *)

\* The adapter starts without sessions and requests.
LEMMA InitInv == Init => IInv
<1> SUFFICES ASSUME Init PROVE IInv
  OBVIOUS
<1>1. TypeInv
  BY DEF Init, TypeInv, NoRequest
<1>2. CallInv /\ WaitInv /\ LiveIsTracked /\ CleanupInv /\ CleanedUp
  BY DEF Init, CallInv, Calling, NoRequest, WaitInv, LiveIsTracked, CleanupInv, CleanedUp
<1> QED
  BY <1>1, <1>2 DEF IInv

\* Every step keeps the invariant.
LEMMA NextInv == IInv /\ [Next]_vars => IInv'
<1> SUFFICES ASSUME IInv, [Next]_vars PROVE IInv'
  OBVIOUS
<1>1. CASE Adapter
  BY <1>1, GotoKeeps, CallKeeps, ClientKeeps DEF Adapter, Driven
<1>2. CASE Environment
  BY <1>2, EnvironmentKeeps
<1>3. CASE UNCHANGED vars
  <2>1. TypeInv' /\ CallInv' /\ WaitInv'
    BY <1>3 DEF IInv, TypeInv, CallInv, WaitInv, Calling, vars, control, service
  <2>2. LiveIsTracked' /\ CleanupInv' /\ CleanedUp'
    BY <1>3 DEF IInv, LiveIsTracked, CleanupInv, CleanedUp, vars, control, service, ghosts
  <2> QED
    BY <2>1, <2>2 DEF IInv
<1> QED
  BY <1>1, <1>2, <1>3 DEF Next

\* The invariant holds in every reachable state.
LEMMA Invariance == Spec => []IInv
  BY InitInv, NextInv, PTL DEF Spec

\* Whatever is lost, late, repeated or unreadable, in either transport: a live session of AF
\* core is tracked with its stream, or its id or the refusal to delete it never arrived.
THEOREM SessionsTracked == Spec => []LiveIsTracked
<1>1. IInv => LiveIsTracked
  BY DEF IInv
<1> QED
  BY <1>1, Invariance, PTL

\* An adapter that has ended leaves behind only sessions whose id it never had or whose
\* deletion failed.
THEOREM ShutdownCleansUp == Spec => []CleanedUp
<1>1. IInv => CleanedUp
  BY DEF IInv
<1> QED
  BY <1>1, Invariance, PTL
=============================================================================
