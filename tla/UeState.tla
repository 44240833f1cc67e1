------------------------------ MODULE UeState ------------------------------
(***************************************************************************)
(* UeStateManager: one subscription state per UE, stored under the key     *)
(* string of its best identifier, and secondary indices from SUPI, GPSI    *)
(* and IP address to that string.                                          *)
(*                                                                         *)
(* Every public method holds rw_mtx_ from its first line to its last, so   *)
(* one action is one call; calls of different threads come in any order.   *)
(* The inputs are those QodSessionManager and a source of network          *)
(* notifications can pass.  The three address indices (IPv4, IPv6, IPv6    *)
(* prefix) are written by the same code and are one index here; the vector *)
(* of PDU sessions is a function from their ids.                           *)
(***************************************************************************)
EXTENDS Naturals, FiniteSets

CONSTANTS Supis, Gpsis, Addrs,
          NamingAddrs,   \* the addresses a request names its device by
          PduIds,        \* PDU session ids the network reports
          Qods,          \* QoD session ids
          MaxUes,        \* bound on the states stored at once
          PdusPassed,    \* whether initial_data may hold PDU sessions (in this program: no)
          None

ASSUME UeAssumption ==
  /\ None \notin Supis \cup Gpsis \cup Addrs
  /\ NamingAddrs \subseteq Addrs
  /\ MaxUes \in Nat /\ PdusPassed \in BOOLEAN

VARIABLES
  ue_states_by_key_,
  key_by_supi_, key_by_gpsi_, key_by_addr_

indices == <<key_by_supi_, key_by_gpsi_, key_by_addr_>>
vars == <<ue_states_by_key_, indices>>

-----------------------------------------------------------------------------
(* UeKey, AfUeSubscriptionState, PduSessionData *)

\* get_primary_key: "<type>:<value>".  Removing the last known identifier of a
\* key's type makes the key COMPOSITE, whose fallback yields the same string.
SupiKey(s) == <<"supi", s>>
GpsiKey(g) == <<"gpsi", g>>
AddrKey(a) == <<"ipv4", a>>
SupiKeys == {SupiKey(s) : s \in Supis}
Keys == SupiKeys \cup {GpsiKey(g) : g \in Gpsis} \cup {AddrKey(a) : a \in NamingAddrs}

PduSessionData == [addr : Addrs \cup {None}, qods : SUBSET Qods]

\* "provisional-<key>", the id of the PDU session made up for a state that has none.
DefaultPdu(k) == <<"provisional", k>>
AllPduIds == PduIds \cup {DefaultPdu(k) : k \in Keys}
PduMaps == UNION {[I -> PduSessionData] : I \in SUBSET AllPduIds}

AfUeSubscriptionState ==
  [key : Keys, supi : Supis \cup {None}, gpsi : Gpsis \cup {None},
   known : SUBSET (Gpsis \cup NamingAddrs), pdus : PduMaps]

ASSUME NoneAssumption == None \notin AfUeSubscriptionState

NoPdus == [p \in {} |-> None]

\* The constructor from a key makes a PROVISIONAL state, the one from a SUPI a
\* RESOLVED one.
Provisional(k) == [key |-> k, supi |-> None, gpsi |-> None, known |-> {}, pdus |-> NoPdus]
Resolved(s)    == [Provisional(SupiKey(s)) EXCEPT !.supi = s]

resolution_state(u) == IF u.supi = None THEN "PROVISIONAL" ELSE "RESOLVED"

\* Faulty variant: the state keeps its old key.
resolve_supi_keeps_key(u, s) == IF u.supi = None THEN [u EXCEPT !.supi = s] ELSE u

\* A state that has a SUPI keeps it.
resolve_supi(u, s) ==
  IF u.supi = None THEN [u EXCEPT !.supi = s, !.key = SupiKey(s)] ELSE u

add_known_identifier(u, ids)   == [u EXCEPT !.known = @ \cup ids]
remove_known_identifier(u, id) == [u EXCEPT !.known = @ \ {id}]

Associate(u, p, q)    == [u EXCEPT !.pdus[p].qods = @ \cup {q}]
Dissociate(u, P, q)   ==
  [u EXCEPT !.pdus = [p \in DOMAIN u.pdus |->
     IF p \in P THEN [u.pdus[p] EXCEPT !.qods = @ \ {q}] ELSE u.pdus[p]]]

-----------------------------------------------------------------------------
(* The indices *)

Put(f, D, v) == [x \in DOMAIN f \cup D |-> IF x \in D THEN v ELSE f[x]]
Drop(f, D)   == [x \in DOMAIN f \ D |-> f[x]]
Field(v)     == {v} \ {None}

AddrsOf(u) == UNION {Field(u.pdus[p].addr) : p \in DOMAIN u.pdus}

\* Every entry of the UE's identifiers goes, also one that points to another UE.
remove_ue_indices(ix, u) ==
  [supi |-> Drop(ix.supi, Field(u.supi)),
   gpsi |-> Drop(ix.gpsi, Field(u.gpsi)),
   addr |-> Drop(ix.addr, AddrsOf(u))]

add_ue_indices(ix, u) ==
  [supi |-> Put(ix.supi, Field(u.supi), u.key),
   gpsi |-> Put(ix.gpsi, Field(u.gpsi), u.key),
   addr |-> Put(ix.addr, AddrsOf(u), u.key)]

add_pdu_session_indices(ix, k, pdu) == [ix EXCEPT !.addr = Put(@, Field(pdu.addr), k)]

\* Only entries that point to this UE go.
remove_pdu_session_indices(ix, k, pdu) ==
  [ix EXCEPT !.addr = Drop(@, {a \in Field(pdu.addr) \cap DOMAIN @ : @[a] = k})]

Indices == [supi |-> key_by_supi_, gpsi |-> key_by_gpsi_, addr |-> key_by_addr_]

SetIndices(ix) ==
  /\ key_by_supi_' = ix.supi
  /\ key_by_gpsi_' = ix.gpsi
  /\ key_by_addr_' = ix.addr

Stored == DOMAIN ue_states_by_key_
Room(k) == k \in Stored \/ Cardinality(Stored) < MaxUes
Write(k, u) == ue_states_by_key_' = Put(ue_states_by_key_, {k}, u)

-----------------------------------------------------------------------------
(* State management *)

\* A notification carries the whole state of a UE with a SUPI.
update_ue_state(u) ==
  /\ Room(u.key)
  /\ Write(u.key, u)
  /\ SetIndices(add_ue_indices(
       IF u.key \in Stored THEN remove_ue_indices(Indices, ue_states_by_key_[u.key]) ELSE Indices, u))

OnePdu(p, a) == [i \in {p} |-> [addr |-> a, qods |-> {}]]

\* The only caller, create_or_update_ue_state of QodSessionManager, passes no PDU
\* sessions; the operation would take them.
InitialPdus ==
  {NoPdus} \cup (IF PdusPassed THEN {OnePdu(p, a) : p \in PduIds, a \in Addrs} ELSE {})

\* The data QodSessionManager makes of a session's device: resolved with a
\* SUPI, else provisional.  The device names the identifier that is its key
\* and, next to a SUPI, perhaps a phone number.
DeviceData(k) ==
  CASE k[1] = "supi" -> {[Resolved(k[2]) EXCEPT !.gpsi = g, !.known = Field(g)] : g \in Gpsis \cup {None}}
    [] k[1] = "gpsi" -> {[Provisional(k) EXCEPT !.gpsi = k[2], !.known = {k[2]}]}
    [] OTHER         -> {[Provisional(k) EXCEPT !.known = {k[2]}]}
InitialData(k) == {[d EXCEPT !.pdus = P] : d \in DeviceData(k), P \in InitialPdus}

\* Entries of the second map replace those of the first.
MergePdus(old, new) ==
  [p \in DOMAIN old \cup DOMAIN new |-> IF p \in DOMAIN new THEN new[p] ELSE old[p]]

\* An existing state gets the GPSI and the PDU sessions without their index entries,
\* and a PDU session that is replaced leaves its entries behind; its identifiers and
\* its resolution stay as they are.
create_or_update_provisional_ue_state(k, initial_data) ==
  \/ /\ k \in Stored
     /\ Write(k, [ue_states_by_key_[k] EXCEPT
                    !.gpsi = IF initial_data.gpsi = None THEN @ ELSE initial_data.gpsi,
                    !.pdus = MergePdus(@, initial_data.pdus)])
     /\ UNCHANGED indices
  \/ /\ k \notin Stored /\ Room(k)
     /\ Write(k, initial_data)
     /\ SetIndices(add_ue_indices(Indices, initial_data))

\* What promotion does to a state that is not under the SUPI's key yet.
Promote(k, s) ==
  LET old == ue_states_by_key_[k]
      new == resolve_supi(old, s)
  IN  /\ ue_states_by_key_' = Put(Drop(ue_states_by_key_, {k}), {SupiKey(s)}, new)
      /\ SetIndices(add_ue_indices(remove_ue_indices(Indices, old), new))

\* current_key is a device's key without SUPI or the SUPI's own key.  When both
\* states exist merge_ue_states is called with rw_mtx_ held: locking it again
\* throws and nothing changes.
promote_ue_state_to_resolved(k, s) ==
  /\ k \in (Keys \ SupiKeys) \cup {SupiKey(s)}
  /\ k \in Stored
  /\ \/ /\ k = SupiKey(s)
        /\ Write(k, resolve_supi(ue_states_by_key_[k], s))
        /\ UNCHANGED indices
     \/ k # SupiKey(s) /\ SupiKey(s) \notin Stored /\ Promote(k, s)
     \/ k # SupiKey(s) /\ SupiKey(s) \in Stored /\ UNCHANGED vars

Merged(primary, secondary) ==
  [add_known_identifier(primary, secondary.known) EXCEPT !.pdus = MergePdus(secondary.pdus, @)]

\* Faulty variant: the PDU sessions of the secondary state are not moved.
merge_ue_states_without_pdus(k, l) ==
  /\ k # l /\ {k, l} \subseteq Stored
  /\ LET primary == ue_states_by_key_[k]   secondary == ue_states_by_key_[l]
         merged  == add_known_identifier(primary, secondary.known)
     IN  /\ ue_states_by_key_' = Put(Drop(ue_states_by_key_, {l}), {k}, merged)
         /\ SetIndices(add_ue_indices(
              remove_ue_indices(remove_ue_indices(Indices, primary), secondary), merged))

\* QodSessionManager never merges a state with itself.  A PDU session that
\* both have stays as the primary state has it.
merge_ue_states(k, l) ==
  /\ k # l /\ {k, l} \subseteq Stored
  /\ LET primary == ue_states_by_key_[k]   secondary == ue_states_by_key_[l]
         merged  == Merged(primary, secondary)
     IN  /\ ue_states_by_key_' = Put(Drop(ue_states_by_key_, {l}), {k}, merged)
         /\ SetIndices(add_ue_indices(
              remove_ue_indices(remove_ue_indices(Indices, primary), secondary), merged))

remove_ue_state(k) ==
  /\ k \in Stored
  /\ ue_states_by_key_' = Drop(ue_states_by_key_, {k})
  /\ SetIndices(remove_ue_indices(Indices, ue_states_by_key_[k]))

\* Ages are left out: any provisional states may be older than max_age.
cleanup_expired_provisional_states(old) ==
  /\ old \subseteq {k \in Stored : resolution_state(ue_states_by_key_[k]) = "PROVISIONAL"}
  /\ old # {}
  /\ ue_states_by_key_' = Drop(ue_states_by_key_, old)
  /\ key_by_supi_' = key_by_supi_
  /\ key_by_gpsi_' = Drop(key_by_gpsi_, UNION {Field(ue_states_by_key_[k].gpsi) : k \in old})
  /\ key_by_addr_' = Drop(key_by_addr_, UNION {AddrsOf(ue_states_by_key_[k]) : k \in old})

-----------------------------------------------------------------------------
(* Updates of one UE *)

update_ue_gpsi(k, g) ==
  /\ k \in Stored
  /\ Write(k, [ue_states_by_key_[k] EXCEPT !.gpsi = g])
  /\ key_by_gpsi_' = Put(Drop(key_by_gpsi_, Field(ue_states_by_key_[k].gpsi)), {g}, k)
  /\ UNCHANGED <<key_by_supi_, key_by_addr_>>

\* Location, mobility, policy, ProSe, time synchronisation, coverage and
\* throughput: a field no other operation reads.
UpdateField(k) == k \in Stored /\ UNCHANGED vars

\* Faulty variant: the entries of the replaced PDU session stay.
add_or_update_pdu_session_over(k, p, pdu) ==
  /\ k \in Stored
  /\ Write(k, [ue_states_by_key_[k] EXCEPT !.pdus = Put(@, {p}, pdu)])
  /\ SetIndices(add_pdu_session_indices(Indices, k, pdu))

\* The stored PDU session is replaced, its active_qod_session_ids too.
add_or_update_pdu_session(k, p, pdu) ==
  /\ k \in Stored
  /\ LET u  == ue_states_by_key_[k]
         ix == IF p \in DOMAIN u.pdus THEN remove_pdu_session_indices(Indices, k, u.pdus[p]) ELSE Indices
     IN  /\ Write(k, [u EXCEPT !.pdus = Put(@, {p}, pdu)])
         /\ SetIndices(add_pdu_session_indices(ix, k, pdu))

\* The event that is published with a SUPI has no subscriber.
remove_pdu_session(k, p) ==
  /\ k \in Stored /\ p \in DOMAIN ue_states_by_key_[k].pdus
  /\ Write(k, [ue_states_by_key_[k] EXCEPT !.pdus = Drop(@, {p})])
  /\ SetIndices(remove_pdu_session_indices(Indices, k, ue_states_by_key_[k].pdus[p]))

add_qod_session_to_pdu_session(k, p, q) ==
  /\ k \in Stored /\ p \in DOMAIN ue_states_by_key_[k].pdus
  /\ Write(k, Associate(ue_states_by_key_[k], p, q))
  /\ UNCHANGED indices

remove_qod_session_from_pdu_session(k, p, q) ==
  /\ k \in Stored /\ p \in DOMAIN ue_states_by_key_[k].pdus
  /\ Write(k, Dissociate(ue_states_by_key_[k], {p}, q))
  /\ UNCHANGED indices

\* Without a PDU session id: into the first PDU session (any here), or into a
\* made-up one; a UE that is not known gets a provisional state, whatever its key.
add_qod_session_to_ue(k, q) ==
  LET u == IF k \in Stored THEN ue_states_by_key_[k] ELSE Provisional(k)
      v == IF DOMAIN u.pdus # {} THEN u
           ELSE [u EXCEPT !.pdus = Put(@, {DefaultPdu(k)}, [addr |-> None, qods |-> {}])]
  IN  /\ Room(k)
      /\ \E p \in DOMAIN v.pdus : Write(k, Associate(v, p, q))
      /\ UNCHANGED indices

remove_qod_session_from_ue(k, q) ==
  /\ k \in Stored
  /\ LET u == ue_states_by_key_[k] IN Write(k, Dissociate(u, DOMAIN u.pdus, q))
  /\ UNCHANGED indices

remove_non_primary_ue_identifier(k, id) ==
  /\ k \in Stored /\ id \in ue_states_by_key_[k].known
  /\ LET u == remove_known_identifier(ue_states_by_key_[k], id)
     IN  /\ Write(k, u)
         /\ SetIndices(add_ue_indices(remove_ue_indices(Indices, u), u))

-----------------------------------------------------------------------------
(* Lookups.  "throws" is the std::system_error of a second lock of rw_mtx_ *)
(* by the thread that holds it exclusively.                                *)

get_ue_state_by_key(k) == IF k \in Stored THEN ue_states_by_key_[k] ELSE None

get_ue_state_by_supi(s) ==
  IF s \in DOMAIN key_by_supi_ THEN get_ue_state_by_key(key_by_supi_[s]) ELSE None

\* The key that the index holds is not used.
get_ue_state_by_gpsi(g) ==
  IF g \in DOMAIN key_by_gpsi_ THEN get_ue_state_by_key(GpsiKey(g)) ELSE None

\* Also get_ue_state_by_ipv6_addr and get_ue_state_by_ipv6_prefix.
get_ue_state_by_ipv4(a) == IF a \in DOMAIN key_by_addr_ THEN "throws" ELSE None

get_ue_state_by_pdu_session_id(p) ==
  {ue_states_by_key_[k] : k \in {l \in Stored : p \in DOMAIN ue_states_by_key_[l].pdus}}

get_pdu_sessions_for_qod_session(q) ==
  UNION {{p \in DOMAIN ue_states_by_key_[k].pdus : q \in ue_states_by_key_[k].pdus[p].qods} :
           k \in Stored}

-----------------------------------------------------------------------------
Init ==
  /\ ue_states_by_key_ = [k \in {} |-> None]
  /\ key_by_supi_ = [s \in {} |-> None]
  /\ key_by_gpsi_ = [g \in {} |-> None]
  /\ key_by_addr_ = [a \in {} |-> None]

\* What the network reports: a SUPI, perhaps a GPSI, and a PDU session.
Report(s, g, p, a) ==
  [Resolved(s) EXCEPT !.gpsi = g, !.pdus = OnePdu(p, a)]
Reported ==
  {Report(s, g, p, a) : s \in Supis, g \in Gpsis \cup {None}, p \in PduIds, a \in Addrs}

\* What create_or_update_ue_state makes of a device's address and one session.
NewPdus == {[addr |-> a, qods |-> {q}] : a \in Addrs, q \in Qods}

Identity ==
  \/ \E u \in Reported : update_ue_state(u)
  \/ \E k \in Keys : \E d \in InitialData(k) : create_or_update_provisional_ue_state(k, d)
  \/ \E k \in Keys, s \in Supis : promote_ue_state_to_resolved(k, s)
  \/ \E k, l \in Keys : merge_ue_states(k, l)
  \/ \E k \in Keys : remove_ue_state(k)
  \/ \E old \in SUBSET Stored : cleanup_expired_provisional_states(old)
  \/ \E k \in Keys, id \in Gpsis \cup NamingAddrs : remove_non_primary_ue_identifier(k, id)

Contents ==
  \/ \E k \in Keys, g \in Gpsis : update_ue_gpsi(k, g)
  \/ \E k \in Keys : UpdateField(k)
  \/ \E k \in Keys, p \in PduIds, pdu \in NewPdus : add_or_update_pdu_session(k, p, pdu)
  \/ \E k \in Keys, p \in AllPduIds : remove_pdu_session(k, p)
  \/ \E k \in Keys, p \in AllPduIds, q \in Qods :
        add_qod_session_to_pdu_session(k, p, q) \/ remove_qod_session_from_pdu_session(k, p, q)
  \/ \E k \in Keys, q \in Qods : add_qod_session_to_ue(k, q) \/ remove_qod_session_from_ue(k, q)

Next == Identity \/ Contents

Spec == Init /\ [][Next]_vars

-----------------------------------------------------------------------------
(* Properties *)

\* A state is stored under the key it carries, and a state with a SUPI under
\* that SUPI's key, through creation, promotion, merging and every update: two
\* states never claim one SUPI.
OneStatePerSupi ==
  \A k \in Stored :
    /\ ue_states_by_key_[k].key = k
    /\ ue_states_by_key_[k].supi # None => k = SupiKey(ue_states_by_key_[k].supi)

\* No entry of the SUPI or address index dangles: it leads to a stored state that
\* has this SUPI, or a PDU session with this address, although remove_ue_indices
\* and remove_pdu_session_indices follow different rules.  It rests on the caller of
\* create_or_update_provisional_ue_state, whose data has no PDU sessions: with PdusPassed
\* the address of a PDU session that it replaces stays in the index.
IndexSound ==
  /\ \A s \in DOMAIN key_by_supi_ :
       get_ue_state_by_supi(s) # None /\ get_ue_state_by_supi(s).supi = s
  /\ \A a \in DOMAIN key_by_addr_ :
       key_by_addr_[a] \in Stored /\ a \in AddrsOf(ue_states_by_key_[key_by_addr_[a]])

\* Promotion keeps every PDU session and its QoD sessions; a merge keeps every PDU
\* session, the made-up ones included (promote_ue_state_to_resolved, merge_ue_states).
IdentityChangeKeepsSessions ==
  [][/\ \A k \in Keys, s \in Supis : promote_ue_state_to_resolved(k, s) =>
          \A q \in Qods : get_pdu_sessions_for_qod_session(q)' = get_pdu_sessions_for_qod_session(q)
     /\ \A k, l \in Keys : merge_ue_states(k, l) =>
          \A p \in AllPduIds : get_ue_state_by_pdu_session_id(p) # {} =>
                              get_ue_state_by_pdu_session_id(p)' # {}]_vars

\* "Retrieves a UE's state by its GPSI" and "by one of its associated IPv4
\* Addresses": a lookup by an indexed identifier gives a state.
LookupsFind ==
  /\ \A g \in DOMAIN key_by_gpsi_ : get_ue_state_by_gpsi(g) # None
  /\ \A a \in DOMAIN key_by_addr_ : get_ue_state_by_ipv4(a) \notin {None, "throws"}
=============================================================================
