------------------------------- MODULE Policy -------------------------------
(***************************************************************************)
(* PolicyManager of AF core: QoS policies, each applied to the network by  *)
(* an application session of the PCF.  Request threads run its operations; *)
(* update_policy and delete_policy hold policies_mutex_ while they wait    *)
(* for the southbound, create_policy holds it only to store the result.    *)
(*                                                                         *)
(* The southbound peer is open: it may create or delete the application    *)
(* session or not, and its answer may be lost, be an error, or lack the    *)
(* session's id.  (The southbound service of this repository answers       *)
(* "error.unhandled_message_type" to every such message.)  A value of the  *)
(* wrong JSON type is Mistyped.  app_id and the two addresses are one      *)
(* field, the subject; additional_params is left out.                      *)
(***************************************************************************)
EXTENDS Integers, Sequences

CONSTANTS
  Threads,
  PolicyIds,     \* bound: the ids of policies stored at a time
  AppSessions,   \* bound: the application sessions the PCF creates
  PolicyData,    \* the bodies of requests: functions from some fields to values
  Mistyped,
  None

ASSUME PolicyAssumption == None \notin Threads \cup PolicyIds \cup AppSessions

VARIABLES
  policies_,        \* policy id -> [fields, state, pcf_transaction_id]
  policies_mutex_,
  call,             \* the operation each thread is in
  pcf,              \* application session -> unused, deleted, or live with the request it was made of
  superseded,       \* application sessions replaced by an update or by a policy of the same id
  nameless,         \* application sessions whose id never reached the policy manager
  doubtful          \* policies torn by an update, or whose deletion had no answer

vars == <<policies_, policies_mutex_, call, pcf, superseded, nameless, doubtful>>

Idle == [pc |-> "idle"]

Unused           == [state |-> "unused"]
Deleted          == [state |-> "deleted"]
MadeOf(request)  == [state |-> "live", request |-> request]

-----------------------------------------------------------------------------
(* The policy record *)

\* In the order they are copied.
Fields == <<"subject", "flow_direction", "qos_reference", "guaranteed_bandwidth", "maximum_bandwidth">>

Defaults == [subject |-> "", flow_direction |-> "bidirectional", qos_reference |-> 9,
             guaranteed_bandwidth |-> 0, maximum_bandwidth |-> 0]

Given(data, i)    == Fields[i] \in DOMAIN data
Readable(data, i) == Given(data, i) => data[Fields[i]] # Mistyped
WellTyped(data)   == \A i \in DOMAIN Fields : Readable(data, i)

\* The fields after those of a request are copied over them; copying ends with an
\* exception at the first value of the wrong type.
CopyFields(f, data) ==
  [n \in DOMAIN f |->
     IF \E i \in DOMAIN Fields : Fields[i] = n /\ Given(data, i) /\ \A j \in 1..i : Readable(data, j)
     THEN data[n] ELSE f[n]]

validate_policy(f) ==
  /\ f.subject # ""
  /\ f.flow_direction \in {"uplink", "downlink", "bidirectional"}
  /\ f.qos_reference \in 1..79
  /\ f.guaranteed_bandwidth >= 0 /\ f.maximum_bandwidth >= 0
  /\ f.maximum_bandwidth > 0 => f.guaranteed_bandwidth <= f.maximum_bandwidth

\* The app_session_request of apply_policy; a bandwidth that is not given is 0.
AppSessionRequest(f) ==
  LET along(dir, bw) == IF f.flow_direction \in {dir, "bidirectional"} THEN bw ELSE 0
  IN  [ue |-> f.subject, qi |-> f.qos_reference,
       max_bw_ul |-> along("uplink", f.maximum_bandwidth),
       max_bw_dl |-> along("downlink", f.maximum_bandwidth),
       min_bw_ul |-> along("uplink", f.guaranteed_bandwidth),
       min_bw_dl |-> along("downlink", f.guaranteed_bandwidth)]

Put(f, x, v) == [y \in DOMAIN f \cup {x} |-> IF y = x THEN v ELSE f[y]]
Drop(f, x)   == [y \in DOMAIN f \ {x} |-> f[y]]
Sessions(p)  == {p.pcf_transaction_id} \ {None}

-----------------------------------------------------------------------------
\* An id no stored policy has (the id of a deleted one stands for a new one).
\* std::mt19937 is shared by the threads without a lock: a thread may draw the id
\* another one has just drawn.
generate_policy_id ==
  (PolicyIds \ DOMAIN policies_) \cup
  {call[t].id : t \in {u \in Threads : call[u].pc = "apply" /\ call[u].op = "create"}}

create_policy(t, data) ==
  /\ call[t] = Idle
  /\ WellTyped(data) /\ validate_policy(CopyFields(Defaults, data))
  /\ \E id \in generate_policy_id :
       call' = [call EXCEPT ![t] =
         [pc |-> "apply", op |-> "create", id |-> id, ok |-> FALSE,
          policy |-> [fields |-> CopyFields(Defaults, data), state |-> "inactive", pcf_transaction_id |-> None]]]
  /\ UNCHANGED <<policies_, policies_mutex_, pcf, superseded, nameless, doubtful>>

\* Faulty variant: a policy found invalid after the update is not rolled back.
update_policy_without_rollback(t, id, data) ==
  /\ call[t] = Idle /\ policies_mutex_ = None /\ id \in DOMAIN policies_
  /\ LET f == CopyFields(policies_[id].fields, data)
     IN  IF ~WellTyped(data) \/ ~validate_policy(f)
         THEN /\ policies_' = [policies_ EXCEPT ![id].fields = f]
              /\ doubtful' = IF WellTyped(data) THEN doubtful ELSE doubtful \cup {id}
              /\ UNCHANGED <<policies_mutex_, call>>
         ELSE /\ policies_mutex_' = t
              /\ call' = [call EXCEPT ![t] = [pc |-> "apply", op |-> "update", id |-> id, ok |-> FALSE,
                                              policy |-> [policies_[id] EXCEPT !.fields = f]]]
              /\ UNCHANGED <<policies_, doubtful>>
  /\ UNCHANGED <<pcf, superseded, nameless>>

\* An exception while copying returns false at once, with a part of the fields changed.
update_policy(t, id, data) ==
  /\ call[t] = Idle /\ policies_mutex_ = None /\ id \in DOMAIN policies_
  /\ LET f == CopyFields(policies_[id].fields, data)
     IN  \/ /\ ~WellTyped(data)
            /\ policies_' = [policies_ EXCEPT ![id].fields = f]
            /\ doubtful' = doubtful \cup {id}
            /\ UNCHANGED <<policies_mutex_, call>>
         \/ /\ WellTyped(data) /\ validate_policy(f)
            /\ policies_mutex_' = t
            /\ call' = [call EXCEPT ![t] = [pc |-> "apply", op |-> "update", id |-> id, ok |-> FALSE,
                                            policy |-> [policies_[id] EXCEPT !.fields = f]]]
            /\ UNCHANGED <<policies_, doubtful>>
  /\ UNCHANGED <<pcf, superseded, nameless>>

\* Without a transaction id remove_policy does not contact the PCF.
delete_policy(t, id) ==
  /\ call[t] = Idle /\ policies_mutex_ = None /\ id \in DOMAIN policies_
  /\ \/ /\ policies_[id].pcf_transaction_id = None
        /\ policies_' = Drop(policies_, id) /\ doubtful' = doubtful \ {id}
        /\ UNCHANGED <<policies_mutex_, call>>
     \/ /\ policies_[id].pcf_transaction_id # None
        /\ policies_mutex_' = t
        /\ call' = [call EXCEPT ![t] = [pc |-> "remove", op |-> "delete", id |-> id]]
        /\ UNCHANGED <<policies_, doubtful>>
  /\ UNCHANGED <<pcf, superseded, nameless>>

-----------------------------------------------------------------------------
\* apply_policy's exchange with the southbound: an application session is made and
\* its id arrives, the id is missing from the answer, or there is no usable answer;
\* or nothing is made.
apply_policy(t) ==
  /\ call[t].pc = "apply"
  /\ LET c      == call[t]
         done(ok, tx) == call' = [call EXCEPT ![t] =
           [pc |-> "applied", op |-> c.op, id |-> c.id, ok |-> ok,
            policy |-> [fields |-> c.policy.fields, state |-> IF ok THEN "active" ELSE "error",
                        pcf_transaction_id |-> tx]]]
     IN  \/ \E a \in {b \in AppSessions : pcf[b] = Unused} :
              /\ pcf' = [pcf EXCEPT ![a] = MadeOf(AppSessionRequest(c.policy.fields))]
              /\ \/ done(TRUE, a) /\ UNCHANGED nameless
                 \/ \E ok \in BOOLEAN :
                      done(ok, c.policy.pcf_transaction_id) /\ nameless' = nameless \cup {a}
         \/ done(FALSE, c.policy.pcf_transaction_id) /\ UNCHANGED <<pcf, nameless>>
  /\ UNCHANGED <<policies_, policies_mutex_, superseded, doubtful>>

\* The end of create_policy: the policy is stored even if it was not applied.
StorePolicy(t) ==
  /\ call[t].pc = "applied" /\ call[t].op = "create" /\ policies_mutex_ = None
  /\ LET id == call[t].id
     IN  /\ policies_' = Put(policies_, id, call[t].policy)
         /\ superseded' = superseded \cup (IF id \in DOMAIN policies_ THEN Sessions(policies_[id]) ELSE {})
         /\ doubtful' = doubtful \ {id}
  /\ call' = [call EXCEPT ![t] = Idle]
  /\ UNCHANGED <<policies_mutex_, pcf, nameless>>

\* The end of update_policy: the policy as applied, or the old one.
FinishUpdate(t) ==
  /\ call[t].pc = "applied" /\ call[t].op = "update"
  /\ LET id == call[t].id
     IN  IF call[t].ok
         THEN /\ policies_' = [policies_ EXCEPT ![id] = call[t].policy]
              /\ superseded' = superseded \cup (Sessions(policies_[id]) \ Sessions(call[t].policy))
              /\ doubtful' = doubtful \ {id}
         ELSE UNCHANGED <<policies_, superseded, doubtful>>
  /\ policies_mutex_' = None /\ call' = [call EXCEPT ![t] = Idle]
  /\ UNCHANGED <<pcf, nameless>>

\* Faulty variant: the policy is erased whatever the southbound answers.
remove_policy_forgets(t) ==
  /\ call[t].pc = "remove"
  /\ LET id == call[t].id
         a  == policies_[id].pcf_transaction_id
     IN  /\ pcf' \in {pcf, [pcf EXCEPT ![a] = Deleted]}
         /\ policies_' = Drop(policies_, id) /\ doubtful' = doubtful \ {id}
  /\ policies_mutex_' = None /\ call' = [call EXCEPT ![t] = Idle]
  /\ UNCHANGED <<superseded, nameless>>

\* remove_policy and the end of delete_policy: the policy is erased when the
\* southbound confirms the deletion, and kept after any other answer or none.
remove_policy(t) ==
  /\ call[t].pc = "remove"
  /\ LET id == call[t].id
         a  == policies_[id].pcf_transaction_id
     IN  \/ /\ pcf' = [pcf EXCEPT ![a] = Deleted]
            /\ \/ policies_' = Drop(policies_, id) /\ doubtful' = doubtful \ {id}
               \/ doubtful' = doubtful \cup {id} /\ UNCHANGED policies_
         \/ UNCHANGED <<pcf, policies_, doubtful>>
  /\ policies_mutex_' = None /\ call' = [call EXCEPT ![t] = Idle]
  /\ UNCHANGED <<superseded, nameless>>

-----------------------------------------------------------------------------
Init ==
  /\ policies_ = [i \in {} |-> None] /\ policies_mutex_ = None
  /\ call = [t \in Threads |-> Idle]
  /\ pcf = [a \in AppSessions |-> Unused]
  /\ superseded = {} /\ nameless = {} /\ doubtful = {}

\* A request of one of the three operations; one that is refused changes nothing.
handle_qos_request(t) ==
  \/ \E data \in PolicyData : create_policy(t, data)
  \/ \E id \in PolicyIds, data \in PolicyData : update_policy(t, id, data)
  \/ \E id \in PolicyIds : delete_policy(t, id)

Next ==
  \E t \in Threads :
    handle_qos_request(t) \/ apply_policy(t) \/ StorePolicy(t) \/ FinishUpdate(t) \/ remove_policy(t)

Spec == Init /\ [][Next]_vars

-----------------------------------------------------------------------------
(* Properties *)

Live(a) == pcf[a].state = "live"

\* What an active policy says is what the network does: while no update is in
\* progress there is a live application session made of exactly its fields, after
\* any sequence of refused, failed and concurrent operations, unless an update was
\* broken off while copying or a deletion was never answered.
ActiveIsApplied ==
  policies_mutex_ = None =>
    \A id \in DOMAIN policies_ \ doubtful :
      policies_[id].state = "active" =>
        \E a \in AppSessions : pcf[a] = MadeOf(AppSessionRequest(policies_[id].fields))

\* An application session that is live can still be deleted through its policy, is
\* about to be stored, or was let go in one of three ways: an update replaced it,
\* a policy with the same id was stored over it, or its id never arrived.
NoSilentLeak ==
  \A a \in AppSessions : Live(a) =>
    \/ a \in superseded \cup nameless
    \/ \E id \in DOMAIN policies_ : policies_[id].pcf_transaction_id = a
    \/ \E t \in Threads : call[t].pc = "applied" /\ call[t].policy.pcf_transaction_id = a
=============================================================================
