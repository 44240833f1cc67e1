--------------------------- MODULE Policy_proofs ---------------------------
(***************************************************************************)
(* Proofs about Policy, for any number of threads, policies, application   *)
(* sessions and request bodies.                                            *)
(***************************************************************************)
EXTENDS Policy, TLAPS

-----------------------------------------------------------------------------
(* The inductive invariant *)

\* A policy record, whatever its fields hold.
IsPolicy(p) ==
  /\ p = [fields |-> p.fields, state |-> p.state, pcf_transaction_id |-> p.pcf_transaction_id]
  /\ p.pcf_transaction_id \in AppSessions \cup {None}

Applying(t) == call[t].pc \in {"apply", "applied"}
Updating(t) == Applying(t) /\ call[t].op = "update"
Tx(t)       == call[t].policy.pcf_transaction_id
StoredTx(i) == policies_[i].pcf_transaction_id

\* The stored policies and the locals of the calls.
TypeInv ==
  /\ policies_ = [i \in DOMAIN policies_ |-> policies_[i]] /\ DOMAIN policies_ \subseteq PolicyIds
  /\ \A i \in DOMAIN policies_ : IsPolicy(policies_[i])
  /\ policies_mutex_ \in Threads \cup {None}
  /\ call = [t \in Threads |-> call[t]]
  /\ \A t \in Threads :
       /\ call[t].pc \in {"idle", "apply", "applied", "remove"}
       /\ call[t].pc # "idle" => call[t].id \in PolicyIds
       /\ Applying(t) => IsPolicy(call[t].policy) /\ call[t].op \in {"create", "update"}
       /\ call[t].pc = "applied" => call[t].ok \in BOOLEAN
  /\ pcf = [a \in AppSessions |-> pcf[a]]
  /\ \A a \in AppSessions : pcf[a] \in {Unused, Deleted} \/ pcf[a].state = "live"

\* policies_mutex_ is held exactly from the start of an update or a deletion to its end,
\* and what the holder has read of the policy is still so.
MutexInv ==
  /\ \A t \in Threads : Updating(t) \/ call[t].pc = "remove" <=> policies_mutex_ = t
  /\ \A t \in Threads : policies_mutex_ = t => call[t].id \in DOMAIN policies_
  /\ \A t \in Threads : call[t].pc = "remove" => StoredTx(call[t].id) # None
  /\ \A t \in Threads : Updating(t) /\ (call[t].pc = "apply" \/ ~call[t].ok) => Tx(t) = StoredTx(call[t].id)

\* A transaction id belongs to one policy: a stored one or one in the hands of a thread,
\* or both while that thread updates it; it is not the id of a nameless session.
TxInv ==
  /\ \A i, j \in DOMAIN policies_ : StoredTx(i) # None /\ StoredTx(i) = StoredTx(j) => i = j
  /\ \A t \in Threads : \A i \in DOMAIN policies_ :
       Applying(t) /\ Tx(t) # None /\ Tx(t) = StoredTx(i) => call[t].op = "update" /\ call[t].id = i
  /\ \A t, u \in Threads : Applying(t) /\ Applying(u) /\ Tx(t) # None /\ Tx(t) = Tx(u) => t = u
  /\ \A i \in DOMAIN policies_ : StoredTx(i) # None => StoredTx(i) \notin nameless /\ pcf[StoredTx(i)] # Unused
  /\ \A t \in Threads : Applying(t) /\ Tx(t) # None => Tx(t) \notin nameless /\ pcf[Tx(t)] # Unused
  /\ nameless \subseteq AppSessions /\ \A a \in nameless : pcf[a] # Unused

\* An application session made of these fields, which has this transaction id or is
\* nameless: no policy can delete it but the one with that id.
Enforced(fields, tx) ==
  \E a \in AppSessions : pcf[a] = MadeOf(AppSessionRequest(fields)) /\ (a = tx \/ a \in nameless)

\* An active policy is enforced; a thread that applied one with success holds one that is.
AppliedInv ==
  /\ \A i \in DOMAIN policies_ \ doubtful :
       policies_[i].state = "active" => Enforced(policies_[i].fields, StoredTx(i))
  /\ \A t \in Threads : call[t].pc = "applied" /\ call[t].policy.state = "active" =>
       Enforced(call[t].policy.fields, Tx(t))

IInv == TypeInv /\ MutexInv /\ TxInv /\ AppliedInv /\ NoSilentLeak

-----------------------------------------------------------------------------
(* What the operations do, step by step *)

\* Only the call of the thread that takes the step changes, to c.
Step(t, c) ==
  /\ call'[t] = c /\ \A u \in Threads \ {t} : call'[u] = call[u]
  /\ call' = [u \in Threads |-> call'[u]]

\* What a thread holds while it applies a policy.
Holds(t, c, pc, op, id, tx) ==
  /\ Step(t, c) /\ c.pc = pc /\ c.op = op /\ c.id = id
  /\ IsPolicy(c.policy) /\ c.policy.pcf_transaction_id = tx

\* A creation starts: the thread holds a policy of its own, without a transaction id.
LEMMA CreateStep ==
  ASSUME TypeInv, NEW t \in Threads, NEW data \in PolicyData, create_policy(t, data)
  PROVE  /\ call[t] = Idle
         /\ \E id \in PolicyIds : \E c : Holds(t, c, "apply", "create", id, None)
         /\ UNCHANGED <<policies_, policies_mutex_, pcf, superseded, nameless, doubtful>>
<1>1. PICK id \in generate_policy_id :
         call' = [call EXCEPT ![t] =
           [pc |-> "apply", op |-> "create", id |-> id, ok |-> FALSE,
            policy |-> [fields |-> CopyFields(Defaults, data), state |-> "inactive", pcf_transaction_id |-> None]]]
  BY DEF create_policy
<1>2. id \in PolicyIds
  BY DEF TypeInv, Applying, generate_policy_id
<1> DEFINE c == [pc |-> "apply", op |-> "create", id |-> id, ok |-> FALSE,
                 policy |-> [fields |-> CopyFields(Defaults, data), state |-> "inactive", pcf_transaction_id |-> None]]
<1>3. Holds(t, c, "apply", "create", id, None)
  BY <1>1 DEF TypeInv, Step, IsPolicy, Holds
<1> HIDE DEF c
<1> QED
  BY <1>2, <1>3 DEF create_policy

\* An update starts: broken off while copying, it leaves other fields in a policy that
\* is doubtful from then on; or the thread takes the mutex and holds a copy of the policy.
LEMMA UpdateStep ==
  ASSUME TypeInv, NEW t \in Threads, NEW id \in PolicyIds, NEW data \in PolicyData,
         update_policy(t, id, data)
  PROVE  /\ call[t] = Idle /\ policies_mutex_ = None /\ id \in DOMAIN policies_
         /\ UNCHANGED <<pcf, superseded, nameless>>
         /\ \/ /\ DOMAIN policies_' = DOMAIN policies_
               /\ \A i \in DOMAIN policies_ \ {id} : policies_'[i] = policies_[i]
               /\ IsPolicy(policies_'[id]) /\ policies_'[id].pcf_transaction_id = StoredTx(id)
               /\ policies_' = [i \in DOMAIN policies_' |-> policies_'[i]]
               /\ doubtful' = doubtful \cup {id}
               /\ UNCHANGED <<policies_mutex_, call>>
            \/ /\ policies_mutex_' = t
               /\ \E c : Holds(t, c, "apply", "update", id, StoredTx(id))
               /\ UNCHANGED <<policies_, doubtful>>
<1> DEFINE f == CopyFields(policies_[id].fields, data)
           p == [fields |-> f, state |-> policies_[id].state, pcf_transaction_id |-> StoredTx(id)]
<1>1. id \in DOMAIN policies_ /\ [policies_[id] EXCEPT !.fields = f] = p
  BY DEF TypeInv, IsPolicy, update_policy, StoredTx
<1>2. CASE policies_' = [policies_ EXCEPT ![id].fields = f] /\ doubtful' = doubtful \cup {id}
             /\ UNCHANGED <<policies_mutex_, call>>
  <2>1. policies_' = [policies_ EXCEPT ![id] = p]
    BY <1>1, <1>2
  <2>2. IsPolicy(p) /\ p.pcf_transaction_id = StoredTx(id)
    BY <1>1 DEF TypeInv, IsPolicy, StoredTx
  <2> HIDE DEF p
  <2>3. /\ DOMAIN policies_' = DOMAIN policies_ /\ policies_'[id] = p
        /\ \A i \in DOMAIN policies_ \ {id} : policies_'[i] = policies_[i]
        /\ policies_' = [i \in DOMAIN policies_' |-> policies_'[i]]
    BY <1>1, <2>1 DEF TypeInv
  <2> QED
    BY <1>2, <2>2, <2>3 DEF update_policy
<1>3. CASE /\ policies_mutex_' = t
           /\ call' = [call EXCEPT ![t] = [pc |-> "apply", op |-> "update", id |-> id, ok |-> FALSE,
                                           policy |-> [policies_[id] EXCEPT !.fields = f]]]
           /\ UNCHANGED <<policies_, doubtful>>
  <2> DEFINE c == [pc |-> "apply", op |-> "update", id |-> id, ok |-> FALSE, policy |-> p]
  <2>1. call' = [call EXCEPT ![t] = c]
    BY <1>1, <1>3
  <2>2. IsPolicy(p) /\ p.pcf_transaction_id = StoredTx(id)
    BY <1>1 DEF TypeInv, IsPolicy, StoredTx
  <2> HIDE DEF p
  <2>3. Holds(t, c, "apply", "update", id, StoredTx(id))
    BY <2>1, <2>2 DEF Step, TypeInv, Holds
  <2> HIDE DEF c
  <2> QED
    BY <1>3, <2>3 DEF update_policy
<1> QED
  BY <1>2, <1>3 DEF update_policy

\* A deletion starts: a policy without a transaction id is erased; for any other the
\* thread takes the mutex.
LEMMA DeleteStep ==
  ASSUME TypeInv, NEW t \in Threads, NEW id \in PolicyIds, delete_policy(t, id)
  PROVE  /\ call[t] = Idle /\ policies_mutex_ = None /\ id \in DOMAIN policies_
         /\ UNCHANGED <<pcf, superseded, nameless>>
         /\ \/ /\ StoredTx(id) = None
               /\ DOMAIN policies_' = DOMAIN policies_ \ {id}
               /\ \A i \in DOMAIN policies_ \ {id} : policies_'[i] = policies_[i]
               /\ policies_' = [i \in DOMAIN policies_' |-> policies_'[i]]
               /\ doubtful' = doubtful \ {id}
               /\ UNCHANGED <<policies_mutex_, call>>
            \/ /\ StoredTx(id) # None
               /\ policies_mutex_' = t
               /\ \E c : Step(t, c) /\ c.pc = "remove" /\ c.id = id
               /\ UNCHANGED <<policies_, doubtful>>
  BY DEF delete_policy, Drop, StoredTx, Step, TypeInv

\* The exchange of apply_policy: the thread holds the policy with its new state, and with
\* the id of the session that was made, or with the old one.
LEMMA ApplyStep ==
  ASSUME TypeInv, NEW t \in Threads, apply_policy(t)
  PROVE  /\ call[t].pc = "apply"
         /\ UNCHANGED <<policies_, policies_mutex_, superseded, doubtful>>
         /\ \E c : \E tx \in AppSessions \cup {None} :
              /\ Holds(t, c, "applied", call[t].op, call[t].id, tx)
              /\ c.ok \in BOOLEAN /\ c.policy.fields = call[t].policy.fields
              /\ c.policy.state = "active" => c.ok
              /\ \/ \E a \in AppSessions :
                      /\ pcf[a] = Unused /\ pcf' = [b \in AppSessions |-> pcf'[b]]
                      /\ pcf'[a] = MadeOf(AppSessionRequest(call[t].policy.fields))
                      /\ \A b \in AppSessions \ {a} : pcf'[b] = pcf[b]
                      /\ \/ c.ok /\ tx = a /\ UNCHANGED nameless
                         \/ tx = Tx(t) /\ nameless' = nameless \cup {a}
                 \/ ~c.ok /\ tx = Tx(t) /\ UNCHANGED <<pcf, nameless>>
<1> DEFINE C(ok, tx) ==
      [pc |-> "applied", op |-> call[t].op, id |-> call[t].id, ok |-> ok,
       policy |-> [fields |-> call[t].policy.fields, state |-> IF ok THEN "active" ELSE "error",
                   pcf_transaction_id |-> tx]]
<1>1. Tx(t) \in AppSessions \cup {None} /\ Tx(t) = call[t].policy.pcf_transaction_id
  BY DEF apply_policy, TypeInv, Applying, IsPolicy, Tx
<1>2. ASSUME NEW ok \in BOOLEAN, NEW tx \in AppSessions \cup {None}, call' = [call EXCEPT ![t] = C(ok, tx)]
      PROVE  /\ Holds(t, C(ok, tx), "applied", call[t].op, call[t].id, tx)
             /\ C(ok, tx).ok = ok /\ C(ok, tx).policy.fields = call[t].policy.fields
             /\ C(ok, tx).policy.state = "active" => ok
  BY <1>2 DEF TypeInv, Step, Holds, IsPolicy
<1>3. \/ \E a \in {b \in AppSessions : pcf[b] = Unused} :
            /\ pcf' = [pcf EXCEPT ![a] = MadeOf(AppSessionRequest(call[t].policy.fields))]
            /\ \/ call' = [call EXCEPT ![t] = C(TRUE, a)] /\ UNCHANGED nameless
               \/ \E ok \in BOOLEAN : call' = [call EXCEPT ![t] = C(ok, Tx(t))] /\ nameless' = nameless \cup {a}
      \/ call' = [call EXCEPT ![t] = C(FALSE, Tx(t))] /\ UNCHANGED <<pcf, nameless>>
  BY <1>1 DEF apply_policy
<1>4. ASSUME NEW a \in AppSessions, pcf' = [pcf EXCEPT ![a] = MadeOf(AppSessionRequest(call[t].policy.fields))]
      PROVE  /\ pcf' = [b \in AppSessions |-> pcf'[b]]
             /\ pcf'[a] = MadeOf(AppSessionRequest(call[t].policy.fields))
             /\ \A b \in AppSessions \ {a} : pcf'[b] = pcf[b]
  BY <1>4 DEF TypeInv
<1> HIDE DEF C
<1>5. call[t].pc = "apply" /\ UNCHANGED <<policies_, policies_mutex_, superseded, doubtful>>
  BY DEF apply_policy
<1> DEFINE Made(ok, tx) ==
      \/ \E a \in AppSessions :
           /\ pcf[a] = Unused /\ pcf' = [b \in AppSessions |-> pcf'[b]]
           /\ pcf'[a] = MadeOf(AppSessionRequest(call[t].policy.fields))
           /\ \A b \in AppSessions \ {a} : pcf'[b] = pcf[b]
           /\ \/ ok /\ tx = a /\ UNCHANGED nameless
              \/ tx = Tx(t) /\ nameless' = nameless \cup {a}
      \/ ~ok /\ tx = Tx(t) /\ UNCHANGED <<pcf, nameless>>
<1>6. \E ok \in BOOLEAN : \E tx \in AppSessions \cup {None} : call' = [call EXCEPT ![t] = C(ok, tx)] /\ Made(ok, tx)
  <2>1. ASSUME NEW a \in AppSessions, pcf[a] = Unused,
               pcf' = [pcf EXCEPT ![a] = MadeOf(AppSessionRequest(call[t].policy.fields))],
               call' = [call EXCEPT ![t] = C(TRUE, a)], UNCHANGED nameless
        PROVE  Made(TRUE, a)
    BY <1>4, <2>1
  <2>2. ASSUME NEW a \in AppSessions, pcf[a] = Unused, NEW ok \in BOOLEAN,
               pcf' = [pcf EXCEPT ![a] = MadeOf(AppSessionRequest(call[t].policy.fields))],
               call' = [call EXCEPT ![t] = C(ok, Tx(t))], nameless' = nameless \cup {a}
        PROVE  Made(ok, Tx(t))
    BY <1>4, <2>2
  <2>3. UNCHANGED <<pcf, nameless>> => Made(FALSE, Tx(t))
    OBVIOUS
  <2> HIDE DEF Made
  <2> QED
    BY <1>1, <1>3, <2>1, <2>2, <2>3
<1>7. PICK ok \in BOOLEAN, tx \in AppSessions \cup {None} : call' = [call EXCEPT ![t] = C(ok, tx)] /\ Made(ok, tx)
  BY <1>6
<1>8. /\ Holds(t, C(ok, tx), "applied", call[t].op, call[t].id, tx)
      /\ C(ok, tx).ok = ok /\ C(ok, tx).policy.fields = call[t].policy.fields
      /\ C(ok, tx).policy.state = "active" => ok
  BY <1>2, <1>7
<1>9. Made(C(ok, tx).ok, tx)
  BY <1>7, <1>8
<1> QED
  BY <1>5, <1>8, <1>9

\* The end of a creation: the policy is stored under its id.
LEMMA StoreStep ==
  ASSUME TypeInv, NEW t \in Threads, StorePolicy(t)
  PROVE  /\ call[t].pc = "applied" /\ call[t].op = "create" /\ policies_mutex_ = None
         /\ Step(t, Idle)
         /\ DOMAIN policies_' = DOMAIN policies_ \cup {call[t].id}
         /\ policies_'[call[t].id] = call[t].policy
         /\ \A i \in DOMAIN policies_ \ {call[t].id} : policies_'[i] = policies_[i]
         /\ policies_' = [i \in DOMAIN policies_' |-> policies_'[i]]
         /\ superseded \subseteq superseded'
         /\ call[t].id \in DOMAIN policies_ /\ StoredTx(call[t].id) # None => StoredTx(call[t].id) \in superseded'
         /\ doubtful' = doubtful \ {call[t].id}
         /\ UNCHANGED <<policies_mutex_, pcf, nameless>>
  BY DEF StorePolicy, Put, Sessions, StoredTx, Step, TypeInv

\* The end of an update: the policy as applied, or the old one.
LEMMA FinishStep ==
  ASSUME TypeInv, MutexInv, NEW t \in Threads, FinishUpdate(t)
  PROVE  /\ call[t].pc = "applied" /\ call[t].op = "update" /\ call[t].id \in DOMAIN policies_
         /\ Step(t, Idle)
         /\ policies_mutex_' = None /\ UNCHANGED <<pcf, nameless>>
         /\ \/ /\ call[t].ok
               /\ DOMAIN policies_' = DOMAIN policies_ /\ policies_'[call[t].id] = call[t].policy
               /\ \A i \in DOMAIN policies_ \ {call[t].id} : policies_'[i] = policies_[i]
               /\ policies_' = [i \in DOMAIN policies_' |-> policies_'[i]]
               /\ superseded \subseteq superseded'
               /\ StoredTx(call[t].id) \notin {None, Tx(t)} => StoredTx(call[t].id) \in superseded'
               /\ doubtful' = doubtful \ {call[t].id}
            \/ ~call[t].ok /\ UNCHANGED <<policies_, superseded, doubtful>>
<1>1. call[t].id \in DOMAIN policies_
  BY DEF FinishUpdate, MutexInv, Updating, Applying
<1> QED
  BY <1>1 DEF FinishUpdate, Sessions, StoredTx, Tx, Step, TypeInv

\* The end of a deletion: erased after a confirmed one, doubtful after one whose answer
\* was lost, and as before when nothing was deleted.
LEMMA RemoveStep ==
  ASSUME TypeInv, MutexInv, NEW t \in Threads, remove_policy(t)
  PROVE  /\ call[t].pc = "remove" /\ call[t].id \in DOMAIN policies_
         /\ StoredTx(call[t].id) \in AppSessions
         /\ Step(t, Idle)
         /\ policies_mutex_' = None /\ UNCHANGED <<superseded, nameless>>
         /\ \/ /\ pcf'[StoredTx(call[t].id)] = Deleted /\ pcf' = [b \in AppSessions |-> pcf'[b]]
               /\ \A b \in AppSessions \ {StoredTx(call[t].id)} : pcf'[b] = pcf[b]
               /\ \/ /\ DOMAIN policies_' = DOMAIN policies_ \ {call[t].id}
                     /\ \A i \in DOMAIN policies_ \ {call[t].id} : policies_'[i] = policies_[i]
                     /\ policies_' = [i \in DOMAIN policies_' |-> policies_'[i]]
                     /\ doubtful' = doubtful \ {call[t].id}
                  \/ doubtful' = doubtful \cup {call[t].id} /\ UNCHANGED policies_
            \/ UNCHANGED <<pcf, policies_, doubtful>>
<1>1. call[t].pc = "remove" /\ call[t].id \in DOMAIN policies_ /\ StoredTx(call[t].id) \in AppSessions
  BY DEF remove_policy, MutexInv, TypeInv, IsPolicy, StoredTx
<1> QED
  BY <1>1 DEF remove_policy, Drop, StoredTx, Step, TypeInv


-----------------------------------------------------------------------------
(* The view of the calls that the invariant takes *)

\* The other threads' calls do not change.
LEMMA OtherCalls ==
  ASSUME NEW t \in Threads, NEW c, Step(t, c)
  PROVE  \A u \in Threads \ {t} : /\ call'[u] = call[u] /\ Tx(u)' = Tx(u)
                                  /\ Applying(u)' <=> Applying(u)
                                  /\ Updating(u)' <=> Updating(u)
  BY DEF Step, Applying, Updating, Tx

\* The thread applies a policy from now on, or still.
LEMMA HoldingCall ==
  ASSUME NEW t \in Threads, NEW c, NEW pc \in {"apply", "applied"}, NEW op, NEW id, NEW tx,
         Holds(t, c, pc, op, id, tx)
  PROVE  /\ call'[t] = c /\ call'[t].pc = pc /\ call'[t].op = op /\ call'[t].id = id
         /\ Applying(t)' /\ (Updating(t)' <=> op = "update") /\ Tx(t)' = tx /\ IsPolicy(call'[t].policy)
  BY DEF Holds, Step, Applying, Updating, Tx

\* The thread has nothing to do any more.
LEMMA IdleCall ==
  ASSUME NEW t \in Threads, Step(t, Idle)
  PROVE  call'[t].pc = "idle" /\ ~Applying(t)' /\ ~Updating(t)'
  BY DEF Step, Idle, Applying, Updating

-----------------------------------------------------------------------------
(* The steps keep the invariant *)

\* A new creation holds no session yet.
LEMMA CreateKeeps ==
  ASSUME IInv, NEW t \in Threads, NEW data \in PolicyData, create_policy(t, data)
  PROVE  IInv'
<1> USE PolicyAssumption DEF IInv
<1>0. PICK id \in PolicyIds : \E c : Holds(t, c, "apply", "create", id, None)
  BY CreateStep
<1>1. PICK c : Holds(t, c, "apply", "create", id, None)
  BY <1>0
<1>2. /\ call[t].pc = "idle" /\ ~Applying(t) /\ ~Updating(t)
      /\ UNCHANGED <<policies_, policies_mutex_, pcf, superseded, nameless, doubtful>>
  BY CreateStep DEF Idle, Applying, Updating
<1>3. /\ call'[t].pc = "apply" /\ call'[t].op = "create" /\ call'[t].id = id
      /\ Applying(t)' /\ ~Updating(t)' /\ Tx(t)' = None /\ IsPolicy(call'[t].policy)
  BY <1>1, HoldingCall
<1>4. \A u \in Threads \ {t} : /\ call'[u] = call[u] /\ Tx(u)' = Tx(u)
                               /\ Applying(u)' <=> Applying(u)
                               /\ Updating(u)' <=> Updating(u)
  BY <1>1, OtherCalls DEF Holds
<1>5. \A i : StoredTx(i)' = StoredTx(i)
  BY <1>2 DEF StoredTx
<1>6. TypeInv'
  <2>1. call' = [u \in Threads |-> call'[u]]
    BY <1>1 DEF Holds, Step
  <2>2. \A u \in Threads :
       /\ call'[u].pc \in {"idle", "apply", "applied", "remove"}
       /\ call'[u].pc # "idle" => call'[u].id \in PolicyIds
       /\ Applying(u)' => IsPolicy(call'[u].policy) /\ call'[u].op \in {"create", "update"}
       /\ call'[u].pc = "applied" => call'[u].ok \in BOOLEAN
    BY <1>3, <1>4 DEF TypeInv
  <2> QED
    BY <1>2, <2>1, <2>2 DEF TypeInv, IsPolicy
<1>7. MutexInv'
  BY <1>2, <1>3, <1>4, <1>5 DEF MutexInv, TypeInv
<1>8. TxInv'
  BY <1>2, <1>3, <1>4, <1>5 DEF TxInv
<1>9. AppliedInv'
  BY <1>2, <1>3, <1>4, <1>5 DEF AppliedInv, Enforced
<1>10. NoSilentLeak'
  BY <1>2, <1>3, <1>4, <1>5 DEF NoSilentLeak, Live
<1> QED
  BY <1>6, <1>7, <1>8, <1>9, <1>10

\* The end of a creation: the policy is now stored with what the thread held.
LEMMA StoreKeeps ==
  ASSUME IInv, NEW t \in Threads, StorePolicy(t)
  PROVE  IInv'
<1> USE PolicyAssumption DEF IInv
<1>0. PICK id : id = call[t].id
  OBVIOUS
<1>1. /\ call[t].pc = "applied" /\ call[t].op = "create" /\ policies_mutex_ = None
      /\ Step(t, Idle)
      /\ DOMAIN policies_' = DOMAIN policies_ \cup {id}
      /\ policies_'[id] = call[t].policy
      /\ \A i \in DOMAIN policies_ \ {id} : policies_'[i] = policies_[i]
      /\ policies_' = [i \in DOMAIN policies_' |-> policies_'[i]]
      /\ superseded \subseteq superseded'
      /\ id \in DOMAIN policies_ /\ StoredTx(id) # None => StoredTx(id) \in superseded'
      /\ doubtful' = doubtful \ {id}
      /\ UNCHANGED <<policies_mutex_, pcf, nameless>>
  BY <1>0, StoreStep
<1>2. Applying(t) /\ ~Updating(t) /\ IsPolicy(call[t].policy) /\ id \in PolicyIds
  BY <1>0, <1>1 DEF TypeInv, Applying, Updating
<1>3. call'[t].pc = "idle" /\ ~Applying(t)' /\ ~Updating(t)'
  BY <1>1, IdleCall
<1>4. \A u \in Threads \ {t} : /\ call'[u] = call[u] /\ Tx(u)' = Tx(u)
                               /\ Applying(u)' <=> Applying(u)
                               /\ Updating(u)' <=> Updating(u)
  BY <1>1, OtherCalls
<1>5. StoredTx(id)' = Tx(t) /\ \A i \in DOMAIN policies_ \ {id} : StoredTx(i)' = StoredTx(i)
  BY <1>1 DEF StoredTx, Tx
<1>6. TypeInv'
  <2>1. call' = [u \in Threads |-> call'[u]]
    BY <1>1 DEF Step
  <2>2. \A u \in Threads :
       /\ call'[u].pc \in {"idle", "apply", "applied", "remove"}
       /\ call'[u].pc # "idle" => call'[u].id \in PolicyIds
       /\ Applying(u)' => IsPolicy(call'[u].policy) /\ call'[u].op \in {"create", "update"}
       /\ call'[u].pc = "applied" => call'[u].ok \in BOOLEAN
    BY <1>3, <1>4 DEF TypeInv
  <2>3. DOMAIN policies_' \subseteq PolicyIds /\ \A i \in DOMAIN policies_' : IsPolicy(policies_'[i])
    BY <1>1, <1>2 DEF TypeInv
  <2> QED
    BY <1>1, <2>1, <2>2, <2>3 DEF TypeInv, IsPolicy
<1>7. MutexInv'
  BY <1>1, <1>2, <1>3, <1>4, <1>5 DEF MutexInv, TypeInv
<1>8. TxInv'
  BY <1>1, <1>2, <1>3, <1>4, <1>5 DEF TxInv
<1>9. AppliedInv'
  BY <1>1, <1>2, <1>3, <1>4, <1>5 DEF AppliedInv, Enforced, Tx
<1>10. NoSilentLeak'
  BY <1>1, <1>2, <1>3, <1>4, <1>5 DEF NoSilentLeak, Live, Tx, StoredTx
<1> QED
  BY <1>6, <1>7, <1>8, <1>9, <1>10

\* An update that is broken off makes its policy doubtful; any other only takes the mutex.
LEMMA UpdateKeeps ==
  ASSUME IInv, NEW t \in Threads, NEW id \in PolicyIds, NEW data \in PolicyData, update_policy(t, id, data)
  PROVE  IInv'
<1> USE PolicyAssumption DEF IInv
<1>1. /\ call[t].pc = "idle" /\ ~Applying(t) /\ ~Updating(t)
      /\ policies_mutex_ = None /\ id \in DOMAIN policies_
      /\ UNCHANGED <<pcf, superseded, nameless>>
  BY UpdateStep DEF Idle, Applying, Updating
<1>2. CASE /\ DOMAIN policies_' = DOMAIN policies_
           /\ \A i \in DOMAIN policies_ \ {id} : policies_'[i] = policies_[i]
           /\ IsPolicy(policies_'[id]) /\ policies_'[id].pcf_transaction_id = StoredTx(id)
           /\ policies_' = [i \in DOMAIN policies_' |-> policies_'[i]]
           /\ doubtful' = doubtful \cup {id}
           /\ UNCHANGED <<policies_mutex_, call>>
  <2>1. \A i \in DOMAIN policies_ : StoredTx(i)' = StoredTx(i)
    BY <1>2 DEF StoredTx
  <2>2. \A u : /\ Tx(u)' = Tx(u)
               /\ Applying(u)' <=> Applying(u)
               /\ Updating(u)' <=> Updating(u)
    BY <1>2 DEF Tx, Applying, Updating
  <2>3. TypeInv'
    <3>1. \A i \in DOMAIN policies_' : IsPolicy(policies_'[i])
      BY <1>2 DEF TypeInv
    <3> QED
      BY <1>1, <1>2, <2>2, <3>1 DEF TypeInv, IsPolicy
  <2>4. MutexInv'
    BY <1>1, <1>2, <2>1, <2>2 DEF MutexInv, TypeInv
  <2>5. TxInv'
    BY <1>1, <1>2, <2>1, <2>2 DEF TxInv
  <2>6. AppliedInv'
    BY <1>1, <1>2, <2>1, <2>2 DEF AppliedInv, Enforced
  <2>7. NoSilentLeak'
    BY <1>1, <1>2, <2>1, <2>2 DEF NoSilentLeak, Live, StoredTx
  <2> QED
    BY <2>3, <2>4, <2>5, <2>6, <2>7
<1>3. CASE /\ policies_mutex_' = t
           /\ \E c : Holds(t, c, "apply", "update", id, StoredTx(id))
           /\ UNCHANGED <<policies_, doubtful>>
  <2>1. PICK c : Holds(t, c, "apply", "update", id, StoredTx(id))
    BY <1>3
  <2>2. /\ call'[t].pc = "apply" /\ call'[t].op = "update" /\ call'[t].id = id
        /\ Applying(t)' /\ Updating(t)' /\ Tx(t)' = StoredTx(id) /\ IsPolicy(call'[t].policy)
    BY <2>1, HoldingCall
  <2>3. \A u \in Threads \ {t} : /\ call'[u] = call[u] /\ Tx(u)' = Tx(u)
                                 /\ Applying(u)' <=> Applying(u)
                                 /\ Updating(u)' <=> Updating(u)
    BY <2>1, OtherCalls DEF Holds
  <2>4. \A i : StoredTx(i)' = StoredTx(i)
    BY <1>3 DEF StoredTx
  <2>5. TypeInv'
    <3>1. call' = [u \in Threads |-> call'[u]]
      BY <2>1 DEF Holds, Step
    <3>2. \A u \in Threads :
       /\ call'[u].pc \in {"idle", "apply", "applied", "remove"}
       /\ call'[u].pc # "idle" => call'[u].id \in PolicyIds
       /\ Applying(u)' => IsPolicy(call'[u].policy) /\ call'[u].op \in {"create", "update"}
       /\ call'[u].pc = "applied" => call'[u].ok \in BOOLEAN
      BY <2>2, <2>3 DEF TypeInv
    <3> QED
      BY <1>1, <1>3, <3>1, <3>2 DEF TypeInv, IsPolicy
  <2>6. MutexInv'
    BY <1>1, <1>3, <2>2, <2>3, <2>4 DEF MutexInv, TypeInv
  <2>7. TxInv'
    <3>1. \A u \in Threads : Applying(u) => call[u].op = "create"
      BY <1>1 DEF MutexInv, TypeInv, Updating
    <3> QED
      BY <1>1, <1>3, <2>2, <2>3, <2>4, <3>1 DEF TxInv
  <2>8. AppliedInv'
    BY <1>1, <1>3, <2>2, <2>3, <2>4 DEF AppliedInv, Enforced
  <2>9. NoSilentLeak'
    BY <1>1, <1>3, <2>2, <2>3, <2>4 DEF NoSilentLeak, Live
  <2> QED
    BY <2>5, <2>6, <2>7, <2>8, <2>9
<1> QED
  BY <1>2, <1>3, UpdateStep

\* A deletion erases a policy without a session, or only takes the mutex.
LEMMA DeleteKeeps ==
  ASSUME IInv, NEW t \in Threads, NEW id \in PolicyIds, delete_policy(t, id)
  PROVE  IInv'
<1> USE PolicyAssumption DEF IInv
<1>0. call[t] = Idle /\ policies_mutex_ = None /\ id \in DOMAIN policies_
        /\ UNCHANGED <<pcf, superseded, nameless>>
  BY DeleteStep
<1>1. /\ call[t].pc = "idle" /\ ~Applying(t) /\ ~Updating(t)
      /\ policies_mutex_ = None /\ id \in DOMAIN policies_
      /\ UNCHANGED <<pcf, superseded, nameless>>
  BY <1>0 DEF Idle, Applying, Updating
<1>2. CASE /\ StoredTx(id) = None
           /\ DOMAIN policies_' = DOMAIN policies_ \ {id}
           /\ \A i \in DOMAIN policies_ \ {id} : policies_'[i] = policies_[i]
           /\ policies_' = [i \in DOMAIN policies_' |-> policies_'[i]]
           /\ doubtful' = doubtful \ {id}
           /\ UNCHANGED <<policies_mutex_, call>>
  <2>1. \A i \in DOMAIN policies_ \ {id} : StoredTx(i)' = StoredTx(i)
    BY <1>2 DEF StoredTx
  <2>2. \A u : /\ Tx(u)' = Tx(u)
               /\ Applying(u)' <=> Applying(u)
               /\ Updating(u)' <=> Updating(u)
    BY <1>2 DEF Tx, Applying, Updating
  <2>3. TypeInv'
    <3>1. \A i \in DOMAIN policies_' : IsPolicy(policies_'[i])
      BY <1>2 DEF TypeInv
    <3> QED
      BY <1>1, <1>2, <2>2, <3>1 DEF TypeInv, IsPolicy
  <2>4. MutexInv'
    BY <1>1, <1>2, <2>1, <2>2 DEF MutexInv, TypeInv
  <2>5. TxInv'
    BY <1>1, <1>2, <2>1, <2>2 DEF TxInv
  <2>6. AppliedInv'
    BY <1>1, <1>2, <2>1, <2>2 DEF AppliedInv, Enforced
  <2>7. NoSilentLeak'
    BY <1>1, <1>2, <2>1, <2>2 DEF NoSilentLeak, Live, StoredTx
  <2> QED
    BY <2>3, <2>4, <2>5, <2>6, <2>7
<1>3. CASE /\ StoredTx(id) # None
           /\ policies_mutex_' = t
           /\ \E c : Step(t, c) /\ c.pc = "remove" /\ c.id = id
           /\ UNCHANGED <<policies_, doubtful>>
  <2>1. PICK c : Step(t, c) /\ c.pc = "remove" /\ c.id = id
    BY <1>3
  <2>2. call'[t].pc = "remove" /\ call'[t].id = id /\ ~Applying(t)' /\ ~Updating(t)'
    BY <2>1 DEF Step, Applying, Updating
  <2>3. \A u \in Threads \ {t} : /\ call'[u] = call[u] /\ Tx(u)' = Tx(u)
                                 /\ Applying(u)' <=> Applying(u)
                                 /\ Updating(u)' <=> Updating(u)
    BY <2>1, OtherCalls
  <2>4. \A i : StoredTx(i)' = StoredTx(i)
    BY <1>3 DEF StoredTx
  <2>5. TypeInv'
    <3>1. call' = [u \in Threads |-> call'[u]]
      BY <2>1 DEF Step
    <3>2. \A u \in Threads :
       /\ call'[u].pc \in {"idle", "apply", "applied", "remove"}
       /\ call'[u].pc # "idle" => call'[u].id \in PolicyIds
       /\ Applying(u)' => IsPolicy(call'[u].policy) /\ call'[u].op \in {"create", "update"}
       /\ call'[u].pc = "applied" => call'[u].ok \in BOOLEAN
      BY <2>2, <2>3 DEF TypeInv
    <3> QED
      BY <1>1, <1>3, <3>1, <3>2 DEF TypeInv, IsPolicy
  <2>6. MutexInv'
    BY <1>1, <1>3, <2>2, <2>3, <2>4 DEF MutexInv, TypeInv
  <2>7. TxInv'
    BY <1>1, <1>3, <2>2, <2>3, <2>4 DEF TxInv
  <2>8. AppliedInv'
    BY <1>1, <1>3, <2>2, <2>3, <2>4 DEF AppliedInv, Enforced
  <2>9. NoSilentLeak'
    BY <1>1, <1>3, <2>2, <2>3, <2>4 DEF NoSilentLeak, Live
  <2> QED
    BY <2>5, <2>6, <2>7, <2>8, <2>9
<1> QED
  BY <1>2, <1>3, DeleteStep

\* A new session has the transaction id of one policy, or is nameless.
LEMMA ApplyKeeps ==
  ASSUME IInv, NEW t \in Threads, apply_policy(t)
  PROVE  IInv'
<1> USE PolicyAssumption DEF IInv
<1>1. /\ call[t].pc = "apply" /\ Applying(t) /\ IsPolicy(call[t].policy)
      /\ UNCHANGED <<policies_, policies_mutex_, superseded, doubtful>>
  BY ApplyStep DEF TypeInv, Applying
<1>2. PICK c : \E tx \in AppSessions \cup {None} :
        /\ Holds(t, c, "applied", call[t].op, call[t].id, tx)
        /\ c.ok \in BOOLEAN /\ c.policy.fields = call[t].policy.fields
        /\ c.policy.state = "active" => c.ok
        /\ \/ \E a \in AppSessions :
                /\ pcf[a] = Unused /\ pcf' = [b \in AppSessions |-> pcf'[b]]
                /\ pcf'[a] = MadeOf(AppSessionRequest(call[t].policy.fields))
                /\ \A b \in AppSessions \ {a} : pcf'[b] = pcf[b]
                /\ \/ c.ok /\ tx = a /\ UNCHANGED nameless
                   \/ tx = Tx(t) /\ nameless' = nameless \cup {a}
           \/ ~c.ok /\ tx = Tx(t) /\ UNCHANGED <<pcf, nameless>>
  BY ApplyStep
<1>a. PICK tx \in AppSessions \cup {None} :
        /\ Holds(t, c, "applied", call[t].op, call[t].id, tx)
        /\ c.ok \in BOOLEAN /\ c.policy.fields = call[t].policy.fields
        /\ c.policy.state = "active" => c.ok
        /\ \/ \E a \in AppSessions :
                /\ pcf[a] = Unused /\ pcf' = [b \in AppSessions |-> pcf'[b]]
                /\ pcf'[a] = MadeOf(AppSessionRequest(call[t].policy.fields))
                /\ \A b \in AppSessions \ {a} : pcf'[b] = pcf[b]
                /\ \/ c.ok /\ tx = a /\ UNCHANGED nameless
                   \/ tx = Tx(t) /\ nameless' = nameless \cup {a}
           \/ ~c.ok /\ tx = Tx(t) /\ UNCHANGED <<pcf, nameless>>
  BY <1>2
<1>3. /\ call'[t] = c /\ call'[t].pc = "applied" /\ call'[t].op = call[t].op /\ call'[t].id = call[t].id
      /\ Applying(t)' /\ (Updating(t)' <=> Updating(t)) /\ Tx(t)' = tx /\ IsPolicy(call'[t].policy)
  <2>1. Holds(t, c, "applied", call[t].op, call[t].id, tx)
    BY <1>a
  <2>2. /\ call'[t] = c /\ call'[t].pc = "applied" /\ call'[t].op = call[t].op /\ call'[t].id = call[t].id
        /\ Applying(t)' /\ (Updating(t)' <=> call[t].op = "update") /\ Tx(t)' = tx /\ IsPolicy(call'[t].policy)
    BY <2>1, HoldingCall
  <2> QED
    BY <1>1, <2>2 DEF Updating
<1>4. \A u \in Threads \ {t} : /\ call'[u] = call[u] /\ Tx(u)' = Tx(u)
                               /\ Applying(u)' <=> Applying(u)
                               /\ Updating(u)' <=> Updating(u)
  BY <1>a, OtherCalls DEF Holds
<1>5. \A i : StoredTx(i)' = StoredTx(i)
  BY <1>1 DEF StoredTx
<1>6. TypeInv'
  <2>1. call' = [u \in Threads |-> call'[u]]
    BY <1>a DEF Holds, Step
  <2>2. \A u \in Threads :
       /\ call'[u].pc \in {"idle", "apply", "applied", "remove"}
       /\ call'[u].pc # "idle" => call'[u].id \in PolicyIds
       /\ Applying(u)' => IsPolicy(call'[u].policy) /\ call'[u].op \in {"create", "update"}
       /\ call'[u].pc = "applied" => call'[u].ok \in BOOLEAN
    BY <1>1, <1>a, <1>3, <1>4 DEF TypeInv
  <2>3. pcf' = [a \in AppSessions |-> pcf'[a]]
          /\ \A a \in AppSessions : pcf'[a] \in {Unused, Deleted} \/ pcf'[a].state = "live"
    BY <1>a DEF TypeInv, MadeOf
  <2> QED
    BY <1>1, <2>1, <2>2, <2>3 DEF TypeInv, IsPolicy
<1>7. MutexInv'
  BY <1>1, <1>a, <1>3, <1>4, <1>5 DEF MutexInv, TypeInv
<1>8. ASSUME NEW a \in AppSessions, pcf[a] = Unused,
             pcf'[a] = MadeOf(AppSessionRequest(call[t].policy.fields)),
             \A b \in AppSessions \ {a} : pcf'[b] = pcf[b],
             c.ok, tx = a, UNCHANGED nameless
      PROVE  TxInv' /\ AppliedInv' /\ NoSilentLeak'
  <2>0. pcf'[a] # Unused /\ pcf'[a].state = "live"
    BY <1>8 DEF MadeOf, Unused
  <2>f. /\ \A i \in DOMAIN policies_ : StoredTx(i) # a
        /\ \A u \in Threads : Applying(u) => Tx(u) # a
        /\ a \notin nameless /\ a # None
    BY <1>8 DEF TxInv
  <2>1. TxInv'
    <3>1. \A i \in DOMAIN policies_' : StoredTx(i)' # None => StoredTx(i)' \notin nameless' /\ pcf'[StoredTx(i)'] # Unused
      BY <1>1, <1>5, <1>8, <2>f DEF TxInv, TypeInv, IsPolicy, StoredTx
    <3>2. \A u \in Threads : Applying(u)' /\ Tx(u)' # None => Tx(u)' \notin nameless' /\ pcf'[Tx(u)'] # Unused
      <4>1. \A u \in Threads : Applying(u) /\ Tx(u) # None => Tx(u) \in AppSessions
        BY DEF TypeInv, IsPolicy, Tx
      <4>2. \A u \in Threads : Applying(u) /\ Tx(u) # None => Tx(u) \notin nameless' /\ pcf'[Tx(u)] # Unused
        BY <1>8, <2>f, <4>1 DEF TxInv
      <4> QED
        BY <1>1, <1>3, <1>4, <1>8, <2>0, <2>f, <4>2
    <3>3. \A u \in Threads : \A i \in DOMAIN policies_' :
            Applying(u)' /\ Tx(u)' # None /\ Tx(u)' = StoredTx(i)' => call'[u].op = "update" /\ call'[u].id = i
      BY <1>1, <1>3, <1>4, <1>5, <1>8, <2>f DEF TxInv
    <3>4. \A v, u \in Threads : Applying(v)' /\ Applying(u)' /\ Tx(v)' # None /\ Tx(v)' = Tx(u)' => v = u
      BY <1>1, <1>3, <1>4, <1>8, <2>f DEF TxInv
    <3>5. nameless' \subseteq AppSessions /\ \A b \in nameless' : pcf'[b] # Unused
      BY <1>8, <2>0, <2>f DEF TxInv
    <3>6. \A i, j \in DOMAIN policies_' : StoredTx(i)' # None /\ StoredTx(i)' = StoredTx(j)' => i = j
      BY <1>1, <1>5 DEF TxInv
    <3> QED
      BY <3>1, <3>2, <3>3, <3>4, <3>5, <3>6 DEF TxInv
  <2>2. AppliedInv'
    <3>1. \A f, x : Enforced(f, x) => Enforced(f, x)'
      BY <1>8 DEF Enforced, MadeOf, Unused
    <3>2. Enforced(c.policy.fields, tx)'
      BY <1>a, <1>8 DEF Enforced
    <3> QED
      BY <1>1, <1>3, <1>4, <1>5, <3>1, <3>2 DEF AppliedInv
  <2>3. NoSilentLeak'
    BY <1>1, <1>3, <1>4, <1>5, <1>8, <2>0 DEF NoSilentLeak, Live, Tx
  <2> QED
    BY <2>1, <2>2, <2>3
<1>9. ASSUME NEW a \in AppSessions, pcf[a] = Unused,
             pcf'[a] = MadeOf(AppSessionRequest(call[t].policy.fields)),
             \A b \in AppSessions \ {a} : pcf'[b] = pcf[b],
             tx = Tx(t), nameless' = nameless \cup {a}
      PROVE  TxInv' /\ AppliedInv' /\ NoSilentLeak'
  <2>0. pcf'[a] # Unused /\ pcf'[a].state = "live"
    BY <1>9 DEF MadeOf, Unused
  <2>f. /\ \A i \in DOMAIN policies_ : StoredTx(i) # a
        /\ \A u \in Threads : Applying(u) => Tx(u) # a
        /\ a \notin nameless /\ a # None
    BY <1>9 DEF TxInv
  <2>1. TxInv'
    <3>1. \A i \in DOMAIN policies_' : StoredTx(i)' # None => StoredTx(i)' \notin nameless' /\ pcf'[StoredTx(i)'] # Unused
      BY <1>1, <1>5, <1>9, <2>f DEF TxInv, TypeInv, IsPolicy, StoredTx
    <3>2. \A u \in Threads : Applying(u)' /\ Tx(u)' # None => Tx(u)' \notin nameless' /\ pcf'[Tx(u)'] # Unused
      <4>1. \A u \in Threads : Applying(u) /\ Tx(u) # None => Tx(u) \in AppSessions
        BY DEF TypeInv, IsPolicy, Tx
      <4>2. \A u \in Threads : Applying(u) /\ Tx(u) # None => Tx(u) \notin nameless' /\ pcf'[Tx(u)] # Unused
        BY <1>9, <2>f, <4>1 DEF TxInv
      <4> QED
        BY <1>1, <1>3, <1>4, <1>9, <2>0, <2>f, <4>2
    <3>3. \A u \in Threads : \A i \in DOMAIN policies_' :
            Applying(u)' /\ Tx(u)' # None /\ Tx(u)' = StoredTx(i)' => call'[u].op = "update" /\ call'[u].id = i
      BY <1>1, <1>3, <1>4, <1>5, <1>9, <2>f DEF TxInv
    <3>4. \A v, u \in Threads : Applying(v)' /\ Applying(u)' /\ Tx(v)' # None /\ Tx(v)' = Tx(u)' => v = u
      BY <1>1, <1>3, <1>4, <1>9, <2>f DEF TxInv
    <3>5. nameless' \subseteq AppSessions /\ \A b \in nameless' : pcf'[b] # Unused
      BY <1>9, <2>0, <2>f DEF TxInv
    <3>6. \A i, j \in DOMAIN policies_' : StoredTx(i)' # None /\ StoredTx(i)' = StoredTx(j)' => i = j
      BY <1>1, <1>5 DEF TxInv
    <3> QED
      BY <3>1, <3>2, <3>3, <3>4, <3>5, <3>6 DEF TxInv
  <2>2. AppliedInv'
    <3>1. \A f, x : Enforced(f, x) => Enforced(f, x)'
      BY <1>9 DEF Enforced, MadeOf, Unused
    <3>2. Enforced(c.policy.fields, tx)'
      BY <1>a, <1>9 DEF Enforced
    <3> QED
      BY <1>1, <1>3, <1>4, <1>5, <3>1, <3>2 DEF AppliedInv
  <2>3. NoSilentLeak'
    BY <1>1, <1>3, <1>4, <1>5, <1>9, <2>0 DEF NoSilentLeak, Live, Tx
  <2> QED
    BY <2>1, <2>2, <2>3
<1>10. ASSUME ~c.ok, tx = Tx(t), UNCHANGED <<pcf, nameless>>
       PROVE  TxInv' /\ AppliedInv' /\ NoSilentLeak'
  <2>1. TxInv'
    BY <1>1, <1>3, <1>4, <1>5, <1>10 DEF TxInv
  <2>2. AppliedInv'
    <3>1. \A f, x : Enforced(f, x) => Enforced(f, x)'
      BY <1>10 DEF Enforced
    <3> QED
      BY <1>1, <1>a, <1>3, <1>4, <1>5, <1>10, <3>1 DEF AppliedInv
  <2>3. NoSilentLeak'
    BY <1>1, <1>3, <1>4, <1>5, <1>10 DEF NoSilentLeak, Live, Tx
  <2> QED
    BY <2>1, <2>2, <2>3
<1> QED
  BY <1>a, <1>6, <1>7, <1>8, <1>9, <1>10

\* The end of an update: the stored policy becomes what the thread held, or stays.
LEMMA FinishKeeps ==
  ASSUME IInv, NEW t \in Threads, FinishUpdate(t)
  PROVE  IInv'
<1> USE PolicyAssumption DEF IInv
<1>0. PICK id : id = call[t].id
  OBVIOUS
<1>1. /\ call[t].pc = "applied" /\ call[t].op = "update" /\ id \in DOMAIN policies_
      /\ Step(t, Idle) /\ policies_mutex_' = None /\ UNCHANGED <<pcf, nameless>>
      /\ \/ /\ call[t].ok
            /\ DOMAIN policies_' = DOMAIN policies_ /\ policies_'[id] = call[t].policy
            /\ \A i \in DOMAIN policies_ \ {id} : policies_'[i] = policies_[i]
            /\ policies_' = [i \in DOMAIN policies_' |-> policies_'[i]]
            /\ superseded \subseteq superseded'
            /\ StoredTx(id) \notin {None, Tx(t)} => StoredTx(id) \in superseded'
            /\ doubtful' = doubtful \ {id}
         \/ ~call[t].ok /\ UNCHANGED <<policies_, superseded, doubtful>>
  BY <1>0, FinishStep
<1>2. Applying(t) /\ Updating(t) /\ IsPolicy(call[t].policy) /\ policies_mutex_ = t
        /\ \A u \in Threads \ {t} : ~Updating(u) /\ call[u].pc # "remove"
  BY <1>1 DEF TypeInv, Applying, Updating, MutexInv
<1>3. call'[t].pc = "idle" /\ ~Applying(t)' /\ ~Updating(t)'
  BY <1>1, IdleCall
<1>4. \A u \in Threads \ {t} : /\ call'[u] = call[u] /\ Tx(u)' = Tx(u)
                               /\ Applying(u)' <=> Applying(u)
                               /\ Updating(u)' <=> Updating(u)
  BY <1>1, OtherCalls
<1>5. CASE ~call[t].ok /\ UNCHANGED <<policies_, superseded, doubtful>>
  <2>1. \A i : StoredTx(i)' = StoredTx(i)
    BY <1>5 DEF StoredTx
  <2>2. TypeInv'
    <3>1. call' = [u \in Threads |-> call'[u]]
      BY <1>1 DEF Step
    <3>2. \A u \in Threads :
       /\ call'[u].pc \in {"idle", "apply", "applied", "remove"}
       /\ call'[u].pc # "idle" => call'[u].id \in PolicyIds
       /\ Applying(u)' => IsPolicy(call'[u].policy) /\ call'[u].op \in {"create", "update"}
       /\ call'[u].pc = "applied" => call'[u].ok \in BOOLEAN
      BY <1>3, <1>4 DEF TypeInv
    <3> QED
      BY <1>1, <1>5, <3>1, <3>2 DEF TypeInv, IsPolicy
  <2>3. MutexInv'
    BY <1>1, <1>2, <1>3, <1>4, <2>1, <1>5 DEF MutexInv, TypeInv
  <2>4. TxInv'
    BY <1>1, <1>3, <1>4, <2>1, <1>5 DEF TxInv
  <2>5. AppliedInv'
    BY <1>1, <1>3, <1>4, <2>1, <1>5 DEF AppliedInv, Enforced
  <2>6. Tx(t) = StoredTx(id)
    BY <1>0, <1>2, <1>5 DEF MutexInv
  <2>7. NoSilentLeak'
    BY <1>1, <1>3, <1>4, <2>1, <1>5, <2>6 DEF NoSilentLeak, Live, StoredTx, Tx
  <2> QED
    BY <2>2, <2>3, <2>4, <2>5, <2>7
<1>6. CASE /\ call[t].ok
           /\ DOMAIN policies_' = DOMAIN policies_ /\ policies_'[id] = call[t].policy
           /\ \A i \in DOMAIN policies_ \ {id} : policies_'[i] = policies_[i]
           /\ policies_' = [i \in DOMAIN policies_' |-> policies_'[i]]
           /\ superseded \subseteq superseded'
           /\ StoredTx(id) \notin {None, Tx(t)} => StoredTx(id) \in superseded'
           /\ doubtful' = doubtful \ {id}
  <2>1. StoredTx(id)' = Tx(t) /\ \A i \in DOMAIN policies_ \ {id} : StoredTx(i)' = StoredTx(i)
    BY <1>6 DEF StoredTx, Tx
  <2>2. TypeInv'
    <3>1. call' = [u \in Threads |-> call'[u]]
      BY <1>1 DEF Step
    <3>2. \A u \in Threads :
       /\ call'[u].pc \in {"idle", "apply", "applied", "remove"}
       /\ call'[u].pc # "idle" => call'[u].id \in PolicyIds
       /\ Applying(u)' => IsPolicy(call'[u].policy) /\ call'[u].op \in {"create", "update"}
       /\ call'[u].pc = "applied" => call'[u].ok \in BOOLEAN
      BY <1>3, <1>4 DEF TypeInv
    <3>3. DOMAIN policies_' \subseteq PolicyIds /\ \A i \in DOMAIN policies_' : IsPolicy(policies_'[i])
      BY <1>2, <1>6 DEF TypeInv
    <3> QED
      BY <1>1, <1>6, <3>1, <3>2, <3>3 DEF TypeInv, IsPolicy
  <2>3. MutexInv'
    BY <1>1, <1>2, <1>3, <1>4, <2>1, <1>6 DEF MutexInv, TypeInv
  <2>4. TxInv'
    BY <1>0, <1>1, <1>2, <1>3, <1>4, <2>1, <1>6 DEF TxInv
  <2>5. AppliedInv'
    <3>1. \A f, x : Enforced(f, x) => Enforced(f, x)'
      BY <1>1 DEF Enforced
    <3> QED
      BY <1>1, <1>3, <1>4, <2>1, <1>6, <3>1 DEF AppliedInv
  <2>6. NoSilentLeak'
    BY <1>1, <1>2, <1>3, <1>4, <2>1, <1>6 DEF NoSilentLeak, Live, StoredTx, Tx
  <2> QED
    BY <2>2, <2>3, <2>4, <2>5, <2>6
<1> QED
  BY <1>1, <1>5, <1>6

\* The end of a deletion: only the session of the one policy is deleted, and that policy
\* is erased or doubtful.
LEMMA RemoveKeeps ==
  ASSUME IInv, NEW t \in Threads, remove_policy(t)
  PROVE  IInv'
<1> USE PolicyAssumption DEF IInv
<1>0. PICK id, a : id = call[t].id /\ a = StoredTx(call[t].id)
  OBVIOUS
<1>1. /\ call[t].pc = "remove" /\ id \in DOMAIN policies_ /\ a \in AppSessions
      /\ Step(t, Idle) /\ policies_mutex_' = None /\ UNCHANGED <<superseded, nameless>>
      /\ \/ /\ pcf'[a] = Deleted /\ pcf' = [b \in AppSessions |-> pcf'[b]]
            /\ \A b \in AppSessions \ {a} : pcf'[b] = pcf[b]
            /\ \/ /\ DOMAIN policies_' = DOMAIN policies_ \ {id}
                  /\ \A i \in DOMAIN policies_ \ {id} : policies_'[i] = policies_[i]
                  /\ policies_' = [i \in DOMAIN policies_' |-> policies_'[i]]
                  /\ doubtful' = doubtful \ {id}
               \/ doubtful' = doubtful \cup {id} /\ UNCHANGED policies_
         \/ UNCHANGED <<pcf, policies_, doubtful>>
  BY <1>0, RemoveStep
<1>2. ~Applying(t) /\ policies_mutex_ = t /\ StoredTx(id) = a
        /\ \A u \in Threads \ {t} : ~Updating(u) /\ call[u].pc # "remove"
  BY <1>0, <1>1 DEF Applying, Updating, MutexInv
<1>3. call'[t].pc = "idle" /\ ~Applying(t)' /\ ~Updating(t)'
  BY <1>1, IdleCall
<1>4. \A u \in Threads \ {t} : /\ call'[u] = call[u] /\ Tx(u)' = Tx(u)
                               /\ Applying(u)' <=> Applying(u)
                               /\ Updating(u)' <=> Updating(u)
  BY <1>1, OtherCalls
<1>5. \A i \in DOMAIN policies_' : i \in DOMAIN policies_ /\ policies_'[i] = policies_[i] /\ StoredTx(i)' = StoredTx(i)
  BY <1>1 DEF StoredTx
<1>6. TypeInv'
  <2>1. call' = [u \in Threads |-> call'[u]]
    BY <1>1 DEF Step
  <2>2. \A u \in Threads :
       /\ call'[u].pc \in {"idle", "apply", "applied", "remove"}
       /\ call'[u].pc # "idle" => call'[u].id \in PolicyIds
       /\ Applying(u)' => IsPolicy(call'[u].policy) /\ call'[u].op \in {"create", "update"}
       /\ call'[u].pc = "applied" => call'[u].ok \in BOOLEAN
    BY <1>3, <1>4 DEF TypeInv
  <2>3. pcf' = [b \in AppSessions |-> pcf'[b]]
          /\ \A b \in AppSessions : pcf'[b] \in {Unused, Deleted} \/ pcf'[b].state = "live"
    BY <1>1 DEF TypeInv
  <2>4. policies_' = [i \in DOMAIN policies_' |-> policies_'[i]] /\ DOMAIN policies_' \subseteq PolicyIds
    BY <1>1 DEF TypeInv
  <2> QED
    BY <1>1, <1>5, <2>1, <2>2, <2>3, <2>4 DEF TypeInv, IsPolicy
<1>7. MutexInv'
  BY <1>1, <1>2, <1>3, <1>4, <1>5 DEF MutexInv, TypeInv
<1>8. pcf'[a] # Unused /\ \A b \in AppSessions : pcf'[b] = Unused => pcf[b] = Unused
  <2>1. pcf[a] # Unused
    BY <1>1, <1>2 DEF TxInv
  <2> QED
    BY <1>1, <2>1 DEF Deleted, Unused
<1>9. TxInv'
  <2>1. \A i \in DOMAIN policies_' : StoredTx(i)' # None => StoredTx(i)' \notin nameless' /\ pcf'[StoredTx(i)'] # Unused
    <3>1. \A i \in DOMAIN policies_ : StoredTx(i) # None => StoredTx(i) \in AppSessions
      BY DEF TypeInv, IsPolicy, StoredTx
    <3> QED
      BY <1>1, <1>5, <1>8, <3>1 DEF TxInv
  <2>2. \A u \in Threads : Applying(u)' /\ Tx(u)' # None => Tx(u)' \notin nameless' /\ pcf'[Tx(u)'] # Unused
    <3>1. \A u \in Threads : Applying(u) /\ Tx(u) # None => Tx(u) \in AppSessions
      BY DEF TypeInv, IsPolicy, Tx
    <3> QED
      BY <1>1, <1>3, <1>4, <1>8, <3>1 DEF TxInv
  <2> QED
    BY <1>1, <1>3, <1>4, <1>5, <1>8, <2>1, <2>2 DEF TxInv
<1>10. AppliedInv'
  <2>1. \A f, x : x # a /\ Enforced(f, x) => Enforced(f, x)'
    <3>1. a \notin nameless
      BY <1>1, <1>2 DEF TxInv
    <3> QED
      BY <1>1, <3>1 DEF Enforced
  <2>2. \A u \in Threads : Applying(u) => Tx(u) # a
    BY <1>1, <1>2 DEF TxInv, Updating
  <2>3. \A u \in Threads : call'[u].pc = "applied" /\ call'[u].policy.state = "active" =>
                             Enforced(call[u].policy.fields, Tx(u))'
    BY <1>3, <1>4, <2>1, <2>2 DEF AppliedInv, Applying
  <2>4. \A i \in DOMAIN policies_ \ {id} : StoredTx(i) # a
    BY <1>1, <1>2 DEF TxInv
  <2>5. \A i \in DOMAIN policies_' \ doubtful' :
          policies_'[i].state = "active" => Enforced(policies_[i].fields, StoredTx(i))'
    <3>1. CASE UNCHANGED <<pcf, policies_, doubtful>>
      BY <1>1, <1>5, <3>1 DEF AppliedInv, Enforced
    <3>2. CASE id \notin DOMAIN policies_' \ doubtful' /\ doubtful \ {id} \subseteq doubtful'
      BY <1>5, <2>1, <2>4, <3>2 DEF AppliedInv
    <3> QED
      BY <1>1, <3>1, <3>2
  <2> QED
    BY <2>3, <2>5 DEF AppliedInv
<1>11. NoSilentLeak'
  <2>1. \A b \in AppSessions : Live(b)' => Live(b)
    BY <1>1 DEF Live, Deleted
  <2>2. \A i \in DOMAIN policies_ : i \in DOMAIN policies_' \/ i = id
    BY <1>1
  <2>3. id \notin DOMAIN policies_' => ~Live(a)'
    BY <1>1 DEF Live, Deleted
  <2>4. \A b \in AppSessions, i \in DOMAIN policies_ : Live(b)' /\ policies_[i].pcf_transaction_id = b =>
          \E j \in DOMAIN policies_' : policies_'[j].pcf_transaction_id = b
    BY <1>2, <1>5, <2>2, <2>3 DEF StoredTx
  <2>5. \A b \in AppSessions, u \in Threads : call[u].pc = "applied" /\ call[u].policy.pcf_transaction_id = b =>
          call'[u].pc = "applied" /\ call'[u].policy.pcf_transaction_id = b
    BY <1>1, <1>4
  <2> QED
    BY <1>1, <2>1, <2>4, <2>5 DEF NoSilentLeak
<1> QED
  BY <1>6, <1>7, <1>9, <1>10, <1>11

-----------------------------------------------------------------------------
(* The theorems *)

\* The invariant holds before the first request.
LEMMA InitInv == Init => IInv
<1> SUFFICES ASSUME Init PROVE IInv
  OBVIOUS
<1> USE PolicyAssumption DEF Init
<1>1. DOMAIN policies_ = {} /\ policies_ = [i \in DOMAIN policies_ |-> policies_[i]]
  OBVIOUS
<1>2. \A t \in Threads : call[t].pc = "idle" /\ ~Applying(t) /\ ~Updating(t)
  BY DEF Idle, Applying, Updating
<1>3. TypeInv
  BY <1>1, <1>2 DEF TypeInv
<1>4. MutexInv /\ TxInv /\ AppliedInv
  BY <1>1, <1>2 DEF MutexInv, TxInv, AppliedInv
<1>5. NoSilentLeak
  BY DEF NoSilentLeak, Live, Unused
<1> QED
  BY <1>3, <1>4, <1>5 DEF IInv

\* Every reachable state satisfies the invariant.
LEMMA Invariant == Spec => []IInv
<1>1. IInv /\ [Next]_vars => IInv'
  <2> SUFFICES ASSUME IInv, [Next]_vars PROVE IInv'
    OBVIOUS
  <2>1. CASE UNCHANGED vars
    <3> USE <2>1 DEF vars
    <3>1. TypeInv'
      BY DEF IInv, TypeInv, IsPolicy, Applying
    <3>2. MutexInv'
      BY DEF IInv, MutexInv, Applying, Updating, Tx, StoredTx
    <3>3. TxInv'
      BY DEF IInv, TxInv, Applying, Tx, StoredTx
    <3>4. AppliedInv'
      BY DEF IInv, AppliedInv, Enforced, Tx, StoredTx
    <3>5. NoSilentLeak'
      BY DEF IInv, NoSilentLeak, Live
    <3> QED
      BY <3>1, <3>2, <3>3, <3>4, <3>5 DEF IInv
  <2>2. CASE Next
    BY <2>2, CreateKeeps, UpdateKeeps, DeleteKeeps, ApplyKeeps, StoreKeeps, FinishKeeps, RemoveKeeps
       DEF Next, handle_qos_request
  <2> QED
    BY <2>1, <2>2
<1> QED
  BY <1>1, InitInv, PTL DEF Spec

\* With no update in progress an active policy is enforced by a live application session
\* made of exactly its fields, after any interleaving of create_policy, update_policy and
\* delete_policy, unless the policy is in doubt (doubtful): an update broke off while it
\* copied a value of the wrong type, or a deletion of it got no answer.
THEOREM ActiveApplied == Spec => []ActiveIsApplied
<1>1. IInv => ActiveIsApplied
  BY DEF IInv, AppliedInv, Enforced, ActiveIsApplied
<1> QED
  BY <1>1, Invariant, PTL

\* apply_policy, update_policy and remove_policy lose track of a live application session
\* only when an update or a policy with the same id replaces it, or its id never arrived.
THEOREM LeaksKnown == Spec => []NoSilentLeak
  BY Invariant, PTL DEF IInv
=============================================================================
