------------------------- MODULE PcfSession_proofs -------------------------
(***************************************************************************)
(* Proofs about PcfSession, for any number of threads, QoD sessions and    *)
(* app sessions.                                                           *)
(***************************************************************************)
EXTENDS PcfSession, TLAPS

-----------------------------------------------------------------------------
(* The inductive invariant *)

Creating == {"create_app_session", "store"}

\* A thread that creates is the only one to create for its QoD session, which has no
\* app session yet, or exactly the one the thread is about to store; any other thread
\* has the ids of a grant.
CallInv ==
  /\ \A t \in Threads : ~At(t, "idle") => call[t].qod \in Qods
  /\ \A t \in Threads : call[t].step \in Creating =>
       /\ call[t].qod \in asked /\ granted[call[t].qod] = None
       /\ \A u \in Threads : u # t /\ call[u].step \in Creating => call[u].qod # call[t].qod
  /\ \A t \in Threads : At(t, "create_app_session") => \A p \in PcfIds : owner[p] # call[t].qod
  /\ \A t \in Threads : At(t, "store") => call[t].pcf \in PcfIds /\ owner[call[t].pcf] = call[t].qod
  /\ \A t \in Threads : call[t].step \notin Creating \cup {"idle"} =>
       call[t].pcf \in PcfIds /\ granted[call[t].qod] = call[t].pcf
  /\ \A t \in Threads : At(t, "deleted") => app_sessions[call[t].pcf] = "released"

\* An app session has an owner once it exists, no two have the same one, and it is
\* granted to its owner, or about to be, or its owner was refused.
OwnerInv ==
  /\ \A p \in PcfIds : app_sessions[p] = "unused" <=> owner[p] = None
  /\ \A p \in PcfIds : owner[p] # None => owner[p] \in asked
  /\ \A p, o \in PcfIds : owner[p] # None /\ owner[p] = owner[o] => p = o
  /\ \A q \in Qods : granted[q] # None => q \in asked /\ owner[granted[q]] = q
  /\ \A p \in PcfIds : owner[p] # None =>
       \/ owner[p] \in refused
       \/ granted[owner[p]] = p
       \/ \E t \in Threads : At(t, "store") /\ call[t].pcf = p /\ call[t].qod = owner[p]

\* The maps hold the grants, in both directions, and nothing else.
MapInv ==
  /\ \A q \in Qods : Known(q) <=> granted[q] # None
  /\ \A q \in Qods : Known(q) => qod_to_pcf_sessions_[q].pcf_session_id = granted[q]
  /\ \A q \in Qods : granted[q] # None =>
       granted[q] \in DOMAIN pcf_to_qod_sessions_ /\ pcf_to_qod_sessions_[granted[q]] = q

IInv == TypeOK /\ CallInv /\ OwnerInv /\ MapInv /\ ConfirmedReleased

-----------------------------------------------------------------------------
(* Types *)

\* The types hold when nothing was asked yet.
LEMMA InitType == Init => TypeOK
  BY PcfAssumption DEF Init, TypeOK, Idle, Steps

\* Every step keeps the types; the steps of a call use what is known of its ids.
LEMMA TypeStep == TypeOK /\ CallInv /\ [Next]_vars => TypeOK'
<1> SUFFICES ASSUME TypeOK, CallInv, [Next]_vars PROVE TypeOK'
  OBVIOUS
<1> USE DEF TypeOK, At, Idle, Steps, maps, pcf, answers, PcfSessionInfo, PcfSessionState
<1>1. ASSUME NEW t \in Threads, NEW q \in Qods, handle_qod_create_pcf_session(t, q) PROVE TypeOK'
  BY <1>1 DEF CallInv, Creating, handle_qod_create_pcf_session, Step
<1>2. ASSUME NEW t \in Threads, NEW q \in Qods, handle_qod_update_pcf_session(t, q) PROVE TypeOK'
  BY <1>2 DEF CallInv, Creating, handle_qod_update_pcf_session, Step, Known
<1>3. ASSUME NEW t \in Threads, NEW q \in Qods, handle_qod_delete_pcf_session(t, q) PROVE TypeOK'
  BY <1>3 DEF CallInv, Creating, handle_qod_delete_pcf_session, Step, Known
<1>4. ASSUME NEW t \in Threads, create_app_session(t) PROVE TypeOK'
  BY <1>4 DEF CallInv, Creating, create_app_session, Step, Return
<1>5. ASSUME NEW t \in Threads, create_pcf_session(t) PROVE TypeOK'
  BY <1>5 DEF CallInv, Creating, create_pcf_session, store_session_mapping, Put, Return
<1>6. ASSUME NEW t \in Threads, update_app_session(t) PROVE TypeOK'
  BY <1>6 DEF CallInv, Creating, update_app_session, Step, Return
<1>7. ASSUME NEW t \in Threads, update_pcf_session(t) PROVE TypeOK'
  BY <1>7 DEF CallInv, Creating, update_pcf_session, update_session_state, Known, Return
<1>8. ASSUME NEW t \in Threads, delete_app_session(t) PROVE TypeOK'
  <2> USE <1>8 DEF delete_app_session
  <2>1. call[t].qod \in Qods /\ call[t].pcf \in PcfIds
    BY DEF CallInv, Creating
  <2>2. call' \in [Threads -> [step : Steps, qod : Qods \cup {None}, pcf : PcfIds \cup {None}]]
    BY <2>1 DEF Step, Return
  <2>3. app_sessions' \in [PcfIds -> {"unused", "live", "released", "terminated"}]
    BY <2>1
  <2> QED
    BY <2>2, <2>3
<1>9. ASSUME NEW t \in Threads, delete_pcf_session(t) PROVE TypeOK'
  BY <1>9 DEF CallInv, Creating, delete_pcf_session, update_session_state, Known, Return
<1>10. ASSUME NEW p \in PcfIds, PcfTerminates(p) PROVE TypeOK'
  BY <1>10 DEF CallInv, Creating, PcfTerminates
<1>11. CASE UNCHANGED vars
  BY <1>11 DEF vars
<1> QED
  BY <1>1, <1>2, <1>3, <1>4, <1>5, <1>6, <1>7, <1>8, <1>9, <1>10, <1>11 DEF Next, Exchange

-----------------------------------------------------------------------------
(* The invariant *)

\* The invariant holds when nothing was asked yet.
LEMMA InitInv == Init => IInv
<1> SUFFICES ASSUME Init PROVE IInv
  OBVIOUS
<1>1. TypeOK
  BY InitType
<1>2. CallInv
  BY DEF Init, CallInv, Creating, At, Idle
<1>3. OwnerInv /\ MapInv /\ ConfirmedReleased
  BY DEF Init, OwnerInv, MapInv, ConfirmedReleased, Known
<1> QED
  BY <1>1, <1>2, <1>3 DEF IInv

\* A confirmed deletion stays released: the PCF never uses an id again.
LEMMA ConfirmedStep == IInv /\ TypeOK' /\ [Next]_vars => ConfirmedReleased'
<1> SUFFICES ASSUME IInv, TypeOK', [Next]_vars PROVE ConfirmedReleased'
  OBVIOUS
<1> USE PcfAssumption DEF IInv, TypeOK, At, Idle, maps, pcf, answers, Known, ConfirmedReleased
<1>1. ASSUME NEW t \in Threads, NEW q \in Qods, handle_qod_create_pcf_session(t, q) PROVE ConfirmedReleased'
  BY <1>1 DEF handle_qod_create_pcf_session, Step, CallInv, Creating
<1>2. ASSUME NEW t \in Threads, NEW q \in Qods, handle_qod_update_pcf_session(t, q) PROVE ConfirmedReleased'
  BY <1>2 DEF handle_qod_update_pcf_session, Step, CallInv, Creating
<1>3. ASSUME NEW t \in Threads, NEW q \in Qods, handle_qod_delete_pcf_session(t, q) PROVE ConfirmedReleased'
  BY <1>3 DEF handle_qod_delete_pcf_session, Step, CallInv, Creating
<1>4. ASSUME NEW t \in Threads, create_app_session(t) PROVE ConfirmedReleased'
  BY <1>4 DEF create_app_session, Step, Return, CallInv, Creating
<1>5. ASSUME NEW t \in Threads, create_pcf_session(t) PROVE ConfirmedReleased'
  BY <1>5 DEF create_pcf_session, store_session_mapping, Put, Return, CallInv, Creating
<1>6. ASSUME NEW t \in Threads, update_app_session(t) PROVE ConfirmedReleased'
  BY <1>6 DEF update_app_session, Step, Return, CallInv, Creating
<1>7. ASSUME NEW t \in Threads, update_pcf_session(t) PROVE ConfirmedReleased'
  BY <1>7 DEF update_pcf_session, update_session_state, Return, CallInv, Creating
<1>8. ASSUME NEW t \in Threads, delete_app_session(t) PROVE ConfirmedReleased'
  BY <1>8 DEF delete_app_session, Step, Return, CallInv, Creating
<1>9. ASSUME NEW t \in Threads, delete_pcf_session(t) PROVE ConfirmedReleased'
  BY <1>9 DEF delete_pcf_session, update_session_state, Return, CallInv, Creating
<1>10. ASSUME NEW p \in PcfIds, PcfTerminates(p) PROVE ConfirmedReleased'
  BY <1>10 DEF PcfTerminates, CallInv, Creating
<1>11. CASE UNCHANGED vars
  BY <1>11 DEF vars, CallInv, Creating
<1> QED
  BY <1>1, <1>2, <1>3, <1>4, <1>5, <1>6, <1>7, <1>8, <1>9, <1>10, <1>11 DEF Next, Exchange

\* The maps keep holding the grants: a mapping is stored once and never removed.
LEMMA MapStep == IInv /\ TypeOK' /\ [Next]_vars => MapInv'
<1> SUFFICES ASSUME IInv, TypeOK', [Next]_vars PROVE MapInv'
  OBVIOUS
<1> USE PcfAssumption DEF IInv, TypeOK, At, Idle, maps, pcf, answers, Known, MapInv
<1>1. ASSUME NEW t \in Threads, NEW q \in Qods, handle_qod_create_pcf_session(t, q) PROVE MapInv'
  BY <1>1 DEF handle_qod_create_pcf_session, Step, CallInv, OwnerInv, Creating
<1>2. ASSUME NEW t \in Threads, NEW q \in Qods, handle_qod_update_pcf_session(t, q) PROVE MapInv'
  BY <1>2 DEF handle_qod_update_pcf_session, Step, CallInv, OwnerInv, Creating
<1>3. ASSUME NEW t \in Threads, NEW q \in Qods, handle_qod_delete_pcf_session(t, q) PROVE MapInv'
  BY <1>3 DEF handle_qod_delete_pcf_session, Step, CallInv, OwnerInv, Creating
<1>4. ASSUME NEW t \in Threads, create_app_session(t) PROVE MapInv'
  BY <1>4 DEF create_app_session, Step, Return, CallInv, OwnerInv, Creating
<1>5. ASSUME NEW t \in Threads, create_pcf_session(t) PROVE MapInv'
  BY <1>5 DEF create_pcf_session, store_session_mapping, Put, Return, CallInv, OwnerInv, Creating
<1>6. ASSUME NEW t \in Threads, update_app_session(t) PROVE MapInv'
  BY <1>6 DEF update_app_session, Step, Return, CallInv, OwnerInv, Creating
<1>7. ASSUME NEW t \in Threads, update_pcf_session(t) PROVE MapInv'
  BY <1>7 DEF update_pcf_session, update_session_state, Return, CallInv, OwnerInv, Creating
<1>8. ASSUME NEW t \in Threads, delete_app_session(t) PROVE MapInv'
  BY <1>8 DEF delete_app_session, Step, Return, CallInv, OwnerInv, Creating
<1>9. ASSUME NEW t \in Threads, delete_pcf_session(t) PROVE MapInv'
  BY <1>9 DEF delete_pcf_session, update_session_state, Return, CallInv, OwnerInv, Creating
<1>10. ASSUME NEW p \in PcfIds, PcfTerminates(p) PROVE MapInv'
  BY <1>10 DEF PcfTerminates, CallInv, OwnerInv, Creating
<1>11. CASE UNCHANGED vars
  BY <1>11 DEF vars, CallInv, OwnerInv, Creating
<1> QED
  BY <1>1, <1>2, <1>3, <1>4, <1>5, <1>6, <1>7, <1>8, <1>9, <1>10, <1>11 DEF Next, Exchange

\* App sessions keep their owners.
LEMMA OwnerStep == IInv /\ TypeOK' /\ [Next]_vars => OwnerInv'
<1> SUFFICES ASSUME IInv, TypeOK', [Next]_vars PROVE OwnerInv'
  OBVIOUS
<1> USE PcfAssumption DEF IInv, TypeOK, At, Idle, maps, pcf, answers, Known, OwnerInv
<1>1. ASSUME NEW t \in Threads, NEW q \in Qods, handle_qod_create_pcf_session(t, q) PROVE OwnerInv'
  BY <1>1 DEF handle_qod_create_pcf_session, Step, CallInv, Creating
<1>2. ASSUME NEW t \in Threads, NEW q \in Qods, handle_qod_update_pcf_session(t, q) PROVE OwnerInv'
  BY <1>2 DEF handle_qod_update_pcf_session, Step, CallInv, Creating
<1>3. ASSUME NEW t \in Threads, NEW q \in Qods, handle_qod_delete_pcf_session(t, q) PROVE OwnerInv'
  BY <1>3 DEF handle_qod_delete_pcf_session, Step, CallInv, Creating
<1>4. ASSUME NEW t \in Threads, create_app_session(t) PROVE OwnerInv'
  <2> USE <1>4 DEF create_app_session
  <2> DEFINE Created(p) == /\ app_sessions[p] = "unused"
                           /\ app_sessions' = [app_sessions EXCEPT ![p] = "live"]
                           /\ owner' = [owner EXCEPT ![p] = call[t].qod]
  <2>1. ASSUME NEW p \in PcfIds, Created(p), Step(t, "store", call[t].qod, p), refused' = refused PROVE OwnerInv'
    BY <2>1 DEF Step, CallInv, Creating
  <2>2. ASSUME NEW p \in PcfIds, Created(p), Return(t), refused' = refused \cup {call[t].qod} PROVE OwnerInv'
    BY <2>2 DEF Return, CallInv, Creating
  <2>3. CASE Return(t) /\ refused' = refused \cup {call[t].qod} /\ UNCHANGED pcf
    BY <2>3 DEF Return, CallInv, Creating
  <2> QED
    BY <2>1, <2>2, <2>3
<1>5. ASSUME NEW t \in Threads, create_pcf_session(t) PROVE OwnerInv'
  BY <1>5 DEF create_pcf_session, store_session_mapping, Put, Return, CallInv, Creating
<1>6. ASSUME NEW t \in Threads, update_app_session(t) PROVE OwnerInv'
  BY <1>6 DEF update_app_session, Step, Return, CallInv, Creating
<1>7. ASSUME NEW t \in Threads, update_pcf_session(t) PROVE OwnerInv'
  BY <1>7 DEF update_pcf_session, update_session_state, Return, CallInv, Creating
<1>8. ASSUME NEW t \in Threads, delete_app_session(t) PROVE OwnerInv'
  BY <1>8 DEF delete_app_session, Step, Return, CallInv, Creating
<1>9. ASSUME NEW t \in Threads, delete_pcf_session(t) PROVE OwnerInv'
  BY <1>9 DEF delete_pcf_session, update_session_state, Return, CallInv, Creating
<1>10. ASSUME NEW p \in PcfIds, PcfTerminates(p) PROVE OwnerInv'
  BY <1>10 DEF PcfTerminates, CallInv, Creating
<1>11. CASE UNCHANGED vars
  BY <1>11 DEF vars, CallInv, Creating
<1> QED
  BY <1>1, <1>2, <1>3, <1>4, <1>5, <1>6, <1>7, <1>8, <1>9, <1>10, <1>11 DEF Next, Exchange

\* The calls in progress keep the ids they work with.
LEMMA CallStep == IInv /\ TypeOK' /\ [Next]_vars => CallInv'
<1> SUFFICES ASSUME IInv, TypeOK', [Next]_vars PROVE CallInv'
  OBVIOUS
<1> USE PcfAssumption DEF IInv, TypeOK, At, Idle, maps, pcf, answers, Known, CallInv
<1>1. ASSUME NEW t \in Threads, NEW q \in Qods, handle_qod_create_pcf_session(t, q) PROVE CallInv'
  <2> USE <1>1 DEF handle_qod_create_pcf_session
  <2>1. CASE UNCHANGED call
    BY <2>1 DEF OwnerInv, Creating
  <2>2. CASE Step(t, "create_app_session", q, None)
    BY <2>2 DEF Step, OwnerInv, Creating
  <2> QED
    BY <2>1, <2>2
<1>2. ASSUME NEW t \in Threads, NEW q \in Qods, handle_qod_update_pcf_session(t, q) PROVE CallInv'
  BY <1>2 DEF handle_qod_update_pcf_session, Step, OwnerInv, MapInv, Creating
<1>3. ASSUME NEW t \in Threads, NEW q \in Qods, handle_qod_delete_pcf_session(t, q) PROVE CallInv'
  BY <1>3 DEF handle_qod_delete_pcf_session, Step, OwnerInv, MapInv, Creating
<1>4. ASSUME NEW t \in Threads, create_app_session(t) PROVE CallInv'
  <2> USE <1>4 DEF create_app_session
  <2> DEFINE Created(p) == /\ app_sessions[p] = "unused"
                           /\ app_sessions' = [app_sessions EXCEPT ![p] = "live"]
                           /\ owner' = [owner EXCEPT ![p] = call[t].qod]
  <2>1. ASSUME NEW p \in PcfIds, Created(p), Step(t, "store", call[t].qod, p), refused' = refused PROVE CallInv'
    BY <2>1 DEF Step, OwnerInv, MapInv, Creating
  <2>2. ASSUME NEW p \in PcfIds, Created(p), Return(t), refused' = refused \cup {call[t].qod} PROVE CallInv'
    BY <2>2 DEF Return, OwnerInv, MapInv, Creating
  <2>3. CASE Return(t) /\ refused' = refused \cup {call[t].qod} /\ UNCHANGED pcf
    BY <2>3 DEF Return, OwnerInv, MapInv, Creating
  <2> QED
    BY <2>1, <2>2, <2>3
<1>5. ASSUME NEW t \in Threads, create_pcf_session(t) PROVE CallInv'
  BY <1>5 DEF create_pcf_session, store_session_mapping, Put, Return, OwnerInv, MapInv, Creating
<1>6. ASSUME NEW t \in Threads, update_app_session(t) PROVE CallInv'
  <2> USE <1>6 DEF update_app_session
  <2>1. CASE Step(t, "updated", call[t].qod, call[t].pcf)
    BY <2>1 DEF Step, Creating
  <2>2. CASE Return(t)
    BY <2>2 DEF Return, Creating
  <2> QED
    BY <2>1, <2>2
<1>7. ASSUME NEW t \in Threads, update_pcf_session(t) PROVE CallInv'
  BY <1>7 DEF update_pcf_session, update_session_state, Return, OwnerInv, MapInv, Creating
<1>8. ASSUME NEW t \in Threads, delete_app_session(t) PROVE CallInv'
  <2> USE <1>8 DEF delete_app_session
  <2> DEFINE Released == app_sessions' = [app_sessions EXCEPT ![call[t].pcf] = "released"]
  <2>1. CASE Released /\ Step(t, "deleted", call[t].qod, call[t].pcf)
    BY <2>1 DEF Step, Creating
  <2>2. CASE Released /\ Return(t)
    BY <2>2 DEF Return, Creating
  <2>3. CASE Return(t) /\ UNCHANGED app_sessions
    BY <2>3 DEF Return, Creating
  <2> QED
    BY <2>1, <2>2, <2>3
<1>9. ASSUME NEW t \in Threads, delete_pcf_session(t) PROVE CallInv'
  BY <1>9 DEF delete_pcf_session, update_session_state, Return, OwnerInv, MapInv, Creating
<1>10. ASSUME NEW p \in PcfIds, PcfTerminates(p) PROVE CallInv'
  BY <1>10 DEF PcfTerminates, OwnerInv, MapInv, Creating
<1>11. CASE UNCHANGED vars
  BY <1>11 DEF vars, OwnerInv, MapInv, Creating
<1> QED
  BY <1>1, <1>2, <1>3, <1>4, <1>5, <1>6, <1>7, <1>8, <1>9, <1>10, <1>11 DEF Next, Exchange

\* The inductive invariant holds in every state.
LEMMA Invariant == Spec => []IInv
<1>1. Init => IInv
  BY InitInv
<1>2. IInv /\ [Next]_vars => IInv'
  BY TypeStep, CallStep, OwnerStep, MapStep, ConfirmedStep DEF IInv
<1> QED
  BY <1>1, <1>2, PTL DEF Spec

-----------------------------------------------------------------------------
(* Theorems *)

\* Types of the session maps, the calls and the PCF's sessions.
THEOREM PcfTypeCorrect == Spec => []TypeOK
<1>1. IInv => TypeOK
  BY DEF IInv
<1> QED
  BY <1>1, Invariant, PTL

\* What create_pcf_session answered AF core stays mapped in both directions.
THEOREM GrantsStayMapped == Spec => []GrantedIsMapped
<1>1. IInv => GrantedIsMapped
  BY DEF IInv, MapInv, GrantedIsMapped
<1> QED
  BY <1>1, Invariant, PTL

\* No live app session is out of the handler's reach, unless its creation was
\* answered with an error.
THEOREM LiveStaysReachable == Spec => []LiveIsReachable
<1>1. IInv => LiveIsReachable
  BY PcfAssumption DEF IInv, TypeOK, OwnerInv, MapInv, LiveIsReachable, Known
<1> QED
  BY <1>1, Invariant, PTL

\* A deletion answered 200 has released its app session, for good.
THEOREM DeletionsAreReal == Spec => []ConfirmedReleased
<1>1. IInv => ConfirmedReleased
  BY DEF IInv
<1> QED
  BY <1>1, Invariant, PTL

\* delete_app_session releases the app session of the QoD session it was called for.
THEOREM ReleasesAreOwn == Spec => ReleasedForOwner
<1> DEFINE Own == \A p \in PcfIds :
                    app_sessions[p] # "released" /\ app_sessions'[p] = "released" =>
                      \E t \in Threads : At(t, "delete_app_session") /\ call[t].qod = owner[p]
<1>1. IInv /\ [Next]_vars => [Own]_vars
  <2> SUFFICES ASSUME IInv, [Next]_vars PROVE Own
    OBVIOUS
  <2> USE DEF IInv, TypeOK, At, maps, pcf, answers
  <2>1. ASSUME NEW t \in Threads, NEW q \in Qods, handle_qod_create_pcf_session(t, q) PROVE Own
    BY <2>1 DEF handle_qod_create_pcf_session
  <2>2. ASSUME NEW t \in Threads, NEW q \in Qods, handle_qod_update_pcf_session(t, q) PROVE Own
    BY <2>2 DEF handle_qod_update_pcf_session
  <2>3. ASSUME NEW t \in Threads, NEW q \in Qods, handle_qod_delete_pcf_session(t, q) PROVE Own
    BY <2>3 DEF handle_qod_delete_pcf_session
  <2>4. ASSUME NEW t \in Threads, create_app_session(t) PROVE Own
    BY <2>4 DEF create_app_session
  <2>5. ASSUME NEW t \in Threads, create_pcf_session(t) PROVE Own
    BY <2>5 DEF create_pcf_session
  <2>6. ASSUME NEW t \in Threads, update_app_session(t) PROVE Own
    BY <2>6 DEF update_app_session
  <2>7. ASSUME NEW t \in Threads, update_pcf_session(t) PROVE Own
    BY <2>7 DEF update_pcf_session
  <2>8. ASSUME NEW t \in Threads, delete_app_session(t) PROVE Own
    <3>1. owner[call[t].pcf] = call[t].qod
      BY <2>8, PcfAssumption DEF delete_app_session, CallInv, OwnerInv, Creating
    <3> QED
      BY <2>8, <3>1 DEF delete_app_session, CallInv, Creating
  <2>9. ASSUME NEW t \in Threads, delete_pcf_session(t) PROVE Own
    BY <2>9 DEF delete_pcf_session
  <2>10. ASSUME NEW p \in PcfIds, PcfTerminates(p) PROVE Own
    BY <2>10 DEF PcfTerminates
  <2>11. CASE UNCHANGED vars
    BY <2>11 DEF vars
  <2> QED
    BY <2>1, <2>2, <2>3, <2>4, <2>5, <2>6, <2>7, <2>8, <2>9, <2>10, <2>11 DEF Next, Exchange
<1> QED
  BY <1>1, Invariant, PTL DEF Spec, ReleasedForOwner

-----------------------------------------------------------------------------
(* Refinement *)

\* Every step is a step of the contract or leaves its variables alone.
LEMMA ContractStep == IInv /\ [Next]_vars => [Contract!Next]_(Contract!vars)
<1> SUFFICES ASSUME IInv, [Next]_vars PROVE Contract!Next \/ UNCHANGED Contract!vars
  OBVIOUS
<1> USE DEF IInv, TypeOK, At, maps, pcf, answers, Contract!vars
<1>1. ASSUME NEW t \in Threads, NEW q \in Qods, handle_qod_create_pcf_session(t, q) PROVE UNCHANGED Contract!vars
  BY <1>1 DEF handle_qod_create_pcf_session
<1>2. ASSUME NEW t \in Threads, NEW q \in Qods, handle_qod_update_pcf_session(t, q) PROVE UNCHANGED Contract!vars
  BY <1>2 DEF handle_qod_update_pcf_session
<1>3. ASSUME NEW t \in Threads, NEW q \in Qods, handle_qod_delete_pcf_session(t, q) PROVE UNCHANGED Contract!vars
  BY <1>3 DEF handle_qod_delete_pcf_session
<1>4. ASSUME NEW t \in Threads, create_app_session(t) PROVE Contract!Next \/ UNCHANGED Contract!vars
  <2>1. CASE UNCHANGED pcf
    BY <1>4, <2>1 DEF create_app_session
  <2>2. ASSUME NEW p \in PcfIds, app_sessions[p] = "unused",
               app_sessions' = [app_sessions EXCEPT ![p] = "live"],
               owner' = [owner EXCEPT ![p] = call[t].qod]
        PROVE Contract!Next
    <3>1. call[t].qod \in Qods /\ \A o \in PcfIds : owner[o] # call[t].qod
      BY <1>4 DEF create_app_session, CallInv
    <3>2. Contract!Establish(call[t].qod, p)
      BY <1>4, <2>2, <3>1 DEF create_app_session, Contract!Establish
    <3> QED
      BY <3>1, <3>2 DEF Contract!Next
  <2> QED
    BY <1>4, <2>1, <2>2 DEF create_app_session
<1>5. ASSUME NEW t \in Threads, create_pcf_session(t) PROVE Contract!Next
  <2>1. /\ call[t].qod \in Qods /\ call[t].pcf \in PcfIds
        /\ owner[call[t].pcf] = call[t].qod /\ granted[call[t].qod] = None
    BY <1>5 DEF create_pcf_session, CallInv, Creating
  <2>2. Contract!Grant(call[t].qod, call[t].pcf)
    BY <1>5, <2>1 DEF create_pcf_session, Contract!Grant
  <2> QED
    BY <2>1, <2>2 DEF Contract!Next
<1>6. ASSUME NEW t \in Threads, update_app_session(t) PROVE UNCHANGED Contract!vars
  BY <1>6 DEF update_app_session
<1>7. ASSUME NEW t \in Threads, update_pcf_session(t) PROVE UNCHANGED Contract!vars
  BY <1>7 DEF update_pcf_session
<1>8. ASSUME NEW t \in Threads, delete_app_session(t) PROVE Contract!Next \/ UNCHANGED Contract!vars
  <2>1. call[t].qod \in Qods /\ call[t].pcf \in PcfIds /\ granted[call[t].qod] = call[t].pcf
    BY <1>8 DEF delete_app_session, CallInv, Creating
  <2>2. CASE UNCHANGED app_sessions
    BY <1>8, <2>2 DEF delete_app_session
  <2>3. CASE /\ app_sessions[call[t].pcf] = "live"
             /\ app_sessions' = [app_sessions EXCEPT ![call[t].pcf] = "released"]
    <3>1. Contract!Release(call[t].qod)
      BY <1>8, <2>1, <2>3, PcfAssumption DEF delete_app_session, Contract!Release
    <3> QED
      BY <2>1, <3>1 DEF Contract!Next
  <2> QED
    BY <1>8, <2>2, <2>3 DEF delete_app_session
<1>9. ASSUME NEW t \in Threads, delete_pcf_session(t) PROVE UNCHANGED Contract!vars
  BY <1>9 DEF delete_pcf_session
<1>10. ASSUME NEW p \in PcfIds, PcfTerminates(p) PROVE Contract!Next
  <2>1. Contract!Terminate(p)
    BY <1>10 DEF PcfTerminates, Contract!Terminate
  <2> QED
    BY <2>1 DEF Contract!Next
<1>11. CASE UNCHANGED vars
  BY <1>11 DEF vars
<1> QED
  BY <1>1, <1>2, <1>3, <1>4, <1>5, <1>6, <1>7, <1>8, <1>9, <1>10, <1>11 DEF Next, Exchange

\* QodPcfHandler implements the contract of app sessions.
THEOREM HandlerKeepsContract == Spec => Implements
<1>1. Init => Contract!Init
  BY DEF Init, Contract!Init
<1> QED
  BY <1>1, ContractStep, Invariant, PTL DEF Spec, Implements, Contract!Spec
=============================================================================
