-------------------------- MODULE UeState_proofs --------------------------
(***************************************************************************)
(* Proofs about UeState, for any sets of identifiers, PDU sessions and QoD *)
(* sessions and any number of states.                                      *)
(***************************************************************************)
EXTENDS UeState, TLAPS

-----------------------------------------------------------------------------
(* The inductive invariant *)

\* Every stored state is one, and the entries of the SUPI index are SUPIs.
TypeInv ==
  /\ Stored \subseteq Keys
  /\ \A k \in Stored : ue_states_by_key_[k] \in AfUeSubscriptionState
  /\ DOMAIN key_by_supi_ \subseteq Supis

\* Index entries lead to the state that has the identifier.
EntryInv ==
  /\ \A s \in DOMAIN key_by_supi_ :
       key_by_supi_[s] \in Stored /\ ue_states_by_key_[key_by_supi_[s]].supi = s
  /\ \A a \in DOMAIN key_by_addr_ :
       key_by_addr_[a] \in Stored /\ a \in AddrsOf(ue_states_by_key_[key_by_addr_[a]])

IInv == TypeInv /\ OneStatePerSupi /\ EntryInv

-----------------------------------------------------------------------------
(* The operators *)

\* What writing into a map does.
LEMMA PutFacts ==
  ASSUME NEW f, NEW D, NEW v
  PROVE  /\ DOMAIN Put(f, D, v) = DOMAIN f \cup D
         /\ \A x \in DOMAIN f \cup D : Put(f, D, v)[x] = IF x \in D THEN v ELSE f[x]
  BY DEF Put

\* The keys of two SUPIs differ, and differ from the keys made of a GPSI or an address.
LEMMA KeyFacts ==
  /\ \A s \in Supis : SupiKey(s) \in Keys /\ SupiKey(s) \in SupiKeys
  /\ \A s, r : SupiKey(s) = SupiKey(r) => s = r
  BY DEF Keys, SupiKeys, SupiKey

\* A PDU map is a function to PDU sessions.
LEMMA PduMapFacts ==
  \A P : P \in PduMaps <=> /\ DOMAIN P \subseteq AllPduIds
                           /\ P \in [DOMAIN P -> PduSessionData]
<1> SUFFICES ASSUME NEW P
             PROVE  P \in PduMaps <=> /\ DOMAIN P \subseteq AllPduIds
                                      /\ P \in [DOMAIN P -> PduSessionData]
  OBVIOUS
<1>1. ASSUME P \in PduMaps
      PROVE  DOMAIN P \subseteq AllPduIds /\ P \in [DOMAIN P -> PduSessionData]
  <2>1. PICK I \in SUBSET (AllPduIds) : P \in [I -> PduSessionData]
    BY <1>1 DEF PduMaps
  <2> QED
    BY <2>1
<1>2. ASSUME DOMAIN P \subseteq AllPduIds, P \in [DOMAIN P -> PduSessionData]
      PROVE  P \in PduMaps
  BY <1>2 DEF PduMaps
<1> QED
  BY <1>1, <1>2

\* The fields of a state.
LEMMA StateFacts ==
  ASSUME NEW u \in AfUeSubscriptionState
  PROVE  /\ u.key \in Keys /\ u.supi \in Supis \cup {None} /\ u.gpsi \in Gpsis \cup {None}
         /\ u.known \in SUBSET (Gpsis \cup NamingAddrs) /\ u.pdus \in PduMaps
         /\ u = [key |-> u.key, supi |-> u.supi, gpsi |-> u.gpsi, known |-> u.known, pdus |-> u.pdus]
  BY DEF AfUeSubscriptionState

\* A state keeps its key, its SUPI and its addresses, whatever becomes of its GPSI and its
\* known identifiers.
LEMMA GpsiFacts ==
  ASSUME NEW u \in AfUeSubscriptionState, NEW g \in Gpsis \cup {None}
  PROVE  LET v == [u EXCEPT !.gpsi = g]
         IN  v \in AfUeSubscriptionState /\ v.key = u.key /\ v.supi = u.supi /\ v.pdus = u.pdus
  BY DEF AfUeSubscriptionState

\* A state that gets a SUPI keeps its PDU sessions.
LEMMA ResolveFacts ==
  ASSUME NEW u \in AfUeSubscriptionState, NEW s \in Supis
  PROVE  LET v == resolve_supi(u, s)
         IN  /\ v \in AfUeSubscriptionState /\ v.pdus = u.pdus
             /\ v.key = IF u.supi = None THEN SupiKey(s) ELSE u.key
             /\ v.supi = IF u.supi = None THEN s ELSE u.supi
  BY KeyFacts, UeAssumption DEF AfUeSubscriptionState, resolve_supi

\* The addresses of a state are those of its PDU sessions.
LEMMA AddrFacts ==
  ASSUME NEW u
  PROVE  \A a : a \in AddrsOf(u) <=> \E p \in DOMAIN u.pdus : a # None /\ u.pdus[p].addr = a
  BY DEF AddrsOf, Field

\* The constructor from a key.
LEMMA ProvisionalFacts ==
  ASSUME NEW k \in Keys
  PROVE  /\ Provisional(k) \in AfUeSubscriptionState /\ Provisional(k).key = k
         /\ Provisional(k).supi = None /\ Provisional(k).pdus = NoPdus
<1>1. NoPdus \in PduMaps
  BY PduMapFacts DEF NoPdus
<1> QED
  BY <1>1 DEF Provisional, AfUeSubscriptionState

\* The constructor from a SUPI.
LEMMA ResolvedFacts ==
  ASSUME NEW s \in Supis
  PROVE  /\ Resolved(s) \in AfUeSubscriptionState /\ Resolved(s).key = SupiKey(s)
         /\ Resolved(s).supi = s /\ Resolved(s).pdus = NoPdus
  BY ProvisionalFacts, KeyFacts DEF Resolved, AfUeSubscriptionState

\* The data of a session's device carries the device's key, and a SUPI only with its key.
LEMMA DeviceFacts ==
  ASSUME NEW k \in Keys, NEW d \in DeviceData(k)
  PROVE  /\ d \in AfUeSubscriptionState /\ d.key = k
         /\ d.supi # None => k = SupiKey(d.supi)
<1>1. CASE k \in SupiKeys
  <2>1. PICK s \in Supis : k = SupiKey(s)
    BY <1>1 DEF SupiKeys
  <2>2. PICK g \in Gpsis \cup {None} : d = [Resolved(s) EXCEPT !.gpsi = g, !.known = Field(g)]
    BY <2>1 DEF DeviceData, SupiKey
  <2>3. Resolved(s) \in AfUeSubscriptionState /\ Resolved(s).key = k /\ Resolved(s).supi = s
    BY <2>1, ResolvedFacts
  <2>4. d = [key |-> k, supi |-> s, gpsi |-> g, known |-> Field(g), pdus |-> Resolved(s).pdus]
    BY <2>2, <2>3 DEF AfUeSubscriptionState
  <2>5. Field(g) \in SUBSET (Gpsis \cup NamingAddrs)
    BY DEF Field
  <2> QED
    BY <2>1, <2>3, <2>4, <2>5 DEF AfUeSubscriptionState
<1>2. ASSUME NEW g \in Gpsis, k = GpsiKey(g)
      PROVE  d \in AfUeSubscriptionState /\ d.key = k /\ d.supi = None
  <2>1. d = [Provisional(k) EXCEPT !.gpsi = g, !.known = {g}]
    BY <1>2 DEF DeviceData, GpsiKey
  <2>2. d = [key |-> k, supi |-> None, gpsi |-> g, known |-> {g}, pdus |-> Provisional(k).pdus]
    BY <2>1 DEF Provisional
  <2> QED
    BY <2>2, ProvisionalFacts DEF AfUeSubscriptionState
<1>3. ASSUME NEW a \in NamingAddrs, k = AddrKey(a)
      PROVE  d \in AfUeSubscriptionState /\ d.key = k /\ d.supi = None
  <2>1. d = [Provisional(k) EXCEPT !.known = {a}]
    BY <1>3 DEF DeviceData, AddrKey
  <2> QED
    BY <2>1, ProvisionalFacts DEF AfUeSubscriptionState
<1> QED
  BY <1>1, <1>2, <1>3 DEF Keys

\* A state keeps its key and its SUPI when its PDU sessions change.
LEMMA PdusFacts ==
  ASSUME NEW u \in AfUeSubscriptionState, NEW P \in PduMaps
  PROVE  LET v == [u EXCEPT !.pdus = P]
         IN  v \in AfUeSubscriptionState /\ v.key = u.key /\ v.supi = u.supi /\ v.pdus = P
  BY DEF AfUeSubscriptionState

\* What QodSessionManager passes: the data of the device, and no PDU sessions.
LEMMA InitialFacts ==
  ASSUME ~PdusPassed, NEW k \in Keys, NEW d \in InitialData(k)
  PROVE  /\ d \in AfUeSubscriptionState /\ d.key = k /\ d.pdus = NoPdus
         /\ d.supi # None => k = SupiKey(d.supi)
<1>1. PICK c \in DeviceData(k), P \in InitialPdus : d = [c EXCEPT !.pdus = P]
  BY DEF InitialData
<1>2. P = NoPdus
  BY DEF InitialPdus
<1>2a. NoPdus \in PduMaps
  BY PduMapFacts DEF NoPdus
<1>3. c \in AfUeSubscriptionState /\ c.key = k /\ (c.supi # None => k = SupiKey(c.supi))
  BY DeviceFacts
<1> QED
  BY <1>1, <1>2, <1>2a, <1>3, PdusFacts

\* What the network reports is a state under its SUPI's key.
LEMMA ReportedFacts ==
  ASSUME NEW u \in Reported
  PROVE  u \in AfUeSubscriptionState /\ u.supi \in Supis /\ u.key = SupiKey(u.supi)
<1>0. PICK s \in Supis, g \in Gpsis \cup {None}, p \in PduIds, a \in Addrs : u = Report(s, g, p, a)
  BY SMT DEF Reported
<1> DEFINE P == [i \in {p} |-> [addr |-> a, qods |-> {}]]
<1>1. P \in PduMaps
  <2>1. DOMAIN P = {p} /\ P \in [DOMAIN P -> PduSessionData]
    BY DEF PduSessionData
  <2> QED
    BY <2>1, PduMapFacts DEF AllPduIds
<1>2. u = [key |-> SupiKey(s), supi |-> s, gpsi |-> g, known |-> {}, pdus |-> P]
  BY <1>0 DEF Report, OnePdu, Resolved, Provisional
<1> QED
  BY <1>1, <1>2, KeyFacts DEF AfUeSubscriptionState

\* A PDU session is added or replaced.
LEMMA PutPduFacts ==
  ASSUME NEW P \in PduMaps, NEW p \in AllPduIds, NEW d \in PduSessionData
  PROVE  Put(P, {p}, d) \in PduMaps
  BY PduMapFacts DEF Put

\* PDU sessions are removed.
LEMMA DropPduFacts ==
  ASSUME NEW P \in PduMaps, NEW D
  PROVE  Drop(P, D) \in PduMaps
  BY PduMapFacts DEF Drop

\* Associating a QoD session with a PDU session changes no identifier.
LEMMA AssociateFacts ==
  ASSUME NEW u \in AfUeSubscriptionState, NEW p \in DOMAIN u.pdus, NEW q \in Qods
  PROVE  LET v == Associate(u, p, q)
         IN  v \in AfUeSubscriptionState /\ v.key = u.key /\ v.supi = u.supi /\ AddrsOf(v) = AddrsOf(u)
<1> DEFINE P == [u.pdus EXCEPT ![p].qods = @ \cup {q}]
<1>1. u.pdus \in [DOMAIN u.pdus -> PduSessionData] /\ DOMAIN u.pdus \subseteq AllPduIds
  BY StateFacts, PduMapFacts
<1>2. /\ DOMAIN P = DOMAIN u.pdus
      /\ P = [u.pdus EXCEPT ![p] = [addr |-> u.pdus[p].addr, qods |-> u.pdus[p].qods \cup {q}]]
  <2>1. u.pdus[p] \in PduSessionData
    BY <1>1
  <2>2. [u.pdus[p] EXCEPT !.qods = @ \cup {q}] = [addr |-> u.pdus[p].addr, qods |-> u.pdus[p].qods \cup {q}]
    BY <2>1 DEF PduSessionData
  <2>3. P = [u.pdus EXCEPT ![p] = [u.pdus[p] EXCEPT !.qods = @ \cup {q}]]
    OBVIOUS
  <2> QED
    BY <1>1, <2>2, <2>3
<1>3. \A r \in DOMAIN P : P[r].addr = u.pdus[r].addr /\ P[r] \in PduSessionData
  BY <1>1, <1>2 DEF PduSessionData
<1>4. P \in PduMaps
  BY <1>1, <1>2, <1>3, PduMapFacts
<1>5. Associate(u, p, q) = [u EXCEPT !.pdus = P]
  BY DEF Associate, AfUeSubscriptionState
<1> HIDE DEF P
<1>6. AddrsOf([u EXCEPT !.pdus = P]) = AddrsOf(u)
  BY <1>2, <1>3, <1>4, PdusFacts DEF AddrsOf
<1> QED
  BY <1>4, <1>5, <1>6, PdusFacts

\* Nor does dissociating one from any of the PDU sessions.
LEMMA DissociateFacts ==
  ASSUME NEW u \in AfUeSubscriptionState, NEW D, NEW q \in Qods
  PROVE  LET v == Dissociate(u, D, q)
         IN  v \in AfUeSubscriptionState /\ v.key = u.key /\ v.supi = u.supi /\ AddrsOf(v) = AddrsOf(u)
<1> DEFINE P == [p \in DOMAIN u.pdus |-> IF p \in D THEN [u.pdus[p] EXCEPT !.qods = @ \ {q}] ELSE u.pdus[p]]
<1>1. u.pdus \in [DOMAIN u.pdus -> PduSessionData] /\ DOMAIN u.pdus \subseteq AllPduIds
  BY StateFacts, PduMapFacts
<1>2. DOMAIN P = DOMAIN u.pdus
  OBVIOUS
<1>3. \A r \in DOMAIN P : P[r].addr = u.pdus[r].addr /\ P[r] \in PduSessionData
  BY <1>1 DEF PduSessionData
<1>4. P \in PduMaps
  BY <1>1, <1>2, <1>3, PduMapFacts
<1>5. Dissociate(u, D, q) = [u EXCEPT !.pdus = P]
  BY DEF Dissociate
<1> HIDE DEF P
<1>6. AddrsOf([u EXCEPT !.pdus = P]) = AddrsOf(u)
  BY <1>2, <1>3, <1>4, PdusFacts DEF AddrsOf
<1> QED
  BY <1>4, <1>5, <1>6, PdusFacts

\* A merged state has the identity of the primary one and the PDU sessions of both.
LEMMA MergedFacts ==
  ASSUME NEW u \in AfUeSubscriptionState, NEW v \in AfUeSubscriptionState
  PROVE  LET m == Merged(u, v)
         IN  /\ m \in AfUeSubscriptionState /\ m.key = u.key /\ m.supi = u.supi
             /\ DOMAIN m.pdus = DOMAIN u.pdus \cup DOMAIN v.pdus
<1> DEFINE w == add_known_identifier(u, v.known)
           P == [p \in DOMAIN v.pdus \cup DOMAIN w.pdus |-> IF p \in DOMAIN w.pdus THEN w.pdus[p] ELSE v.pdus[p]]
<1>1. w \in AfUeSubscriptionState /\ w.key = u.key /\ w.supi = u.supi /\ w.pdus = u.pdus
  BY DEF AfUeSubscriptionState, add_known_identifier
<1> HIDE DEF w
<1>2. P \in PduMaps /\ DOMAIN P = DOMAIN u.pdus \cup DOMAIN v.pdus
  BY <1>1, StateFacts, PduMapFacts
<1>3. Merged(u, v) = [w EXCEPT !.pdus = P]
  BY DEF Merged, MergePdus, w
<1> HIDE DEF P
<1> QED
  BY <1>1, <1>2, <1>3, PdusFacts

-----------------------------------------------------------------------------
(* What keeps the invariant *)

\* Writing one state leaves the others as they are.
LEMMA WriteFacts ==
  ASSUME NEW k, NEW v, Write(k, v)
  PROVE  /\ Stored' = Stored \cup {k} /\ ue_states_by_key_'[k] = v
         /\ \A l \in Stored' \ {k} : l \in Stored /\ ue_states_by_key_'[l] = ue_states_by_key_[l]
<1>1. Stored' = DOMAIN ue_states_by_key_' /\ Stored = DOMAIN ue_states_by_key_
  BY DEF Stored
<1>2. ue_states_by_key_' = Put(ue_states_by_key_, {k}, v)
  BY DEF Write
<1> DEFINE S == ue_states_by_key_  T == ue_states_by_key_'
<1>3. DOMAIN T = DOMAIN S \cup {k} /\ \A x \in DOMAIN S \cup {k} : T[x] = IF x \in {k} THEN v ELSE S[x]
  BY <1>2, PutFacts, Zenon
<1> QED
  BY <1>1, <1>3

\* A state moves to another key.
LEMMA MovedStates ==
  ASSUME NEW o, NEW k, NEW v, ue_states_by_key_' = Put(Drop(ue_states_by_key_, {o}), {k}, v)
  PROVE  /\ Stored' = (Stored \ {o}) \cup {k} /\ ue_states_by_key_'[k] = v
         /\ \A l \in Stored' \ {k} : ue_states_by_key_'[l] = ue_states_by_key_[l]
<1> DEFINE f == ue_states_by_key_  g == ue_states_by_key_'
<1>1. Stored' = DOMAIN g /\ Stored = DOMAIN f
  BY DEF Stored
<1>2. g = Put(Drop(f, {o}), {k}, v)
  OBVIOUS
<1>3. /\ DOMAIN g = (DOMAIN f \ {o}) \cup {k} /\ g[k] = v
      /\ \A l \in DOMAIN g \ {k} : l \in DOMAIN f /\ g[l] = f[l]
  BY <1>2 DEF Put, Drop
<1> QED
  BY <1>1, <1>3

\* Stored states are erased.
LEMMA ErasedStates ==
  ASSUME NEW D, ue_states_by_key_' = Drop(ue_states_by_key_, D)
  PROVE  Stored' = Stored \ D /\ \A l \in Stored' : ue_states_by_key_'[l] = ue_states_by_key_[l]
<1>1. Stored' = DOMAIN ue_states_by_key_' /\ Stored = DOMAIN ue_states_by_key_
  BY DEF Stored
<1> QED
  BY <1>1 DEF Drop

\* A step that changes nothing.
LEMMA StutterKeeps ==
  ASSUME IInv, UNCHANGED vars
  PROVE  IInv'
  BY DEF IInv, TypeInv, OneStatePerSupi, EntryInv, AddrsOf, Stored, vars, indices

\* The state at k becomes v, states may go, and every index entry leads to k and v has the
\* identifier, or is an old one that leads to a state that stays as it is.
LEMMA ReindexKeeps ==
  ASSUME IInv,
         NEW k \in Keys, NEW v \in AfUeSubscriptionState,
         v.key = k, v.supi # None => k = SupiKey(v.supi),
         Stored' \subseteq Stored \cup {k}, k \in Stored', ue_states_by_key_'[k] = v,
         \A l \in Stored' \ {k} : ue_states_by_key_'[l] = ue_states_by_key_[l],
         \A s \in DOMAIN key_by_supi_' :
           \/ s \in Supis /\ key_by_supi_'[s] = k /\ v.supi = s
           \/ /\ s \in DOMAIN key_by_supi_ /\ key_by_supi_'[s] = key_by_supi_[s]
              /\ key_by_supi_[s] \in Stored' \ {k},
         \A a \in DOMAIN key_by_addr_' :
           \/ key_by_addr_'[a] = k /\ a \in AddrsOf(v)
           \/ /\ a \in DOMAIN key_by_addr_ /\ key_by_addr_'[a] = key_by_addr_[a]
              /\ key_by_addr_[a] \in Stored' \ {k}
  PROVE  IInv'
<1> DEFINE S == ue_states_by_key_  T == ue_states_by_key_'
<1>1. Stored' \subseteq Keys /\ \A l \in Stored' : T[l] \in AfUeSubscriptionState
  BY DEF IInv, TypeInv, Stored
<1>2. DOMAIN key_by_supi_' \subseteq Supis
  BY DEF IInv, TypeInv
<1>3. TypeInv'
  BY <1>1, <1>2 DEF TypeInv, Stored
<1>4. \A l \in Stored' : T[l].key = l /\ (T[l].supi # None => l = SupiKey(T[l].supi))
  BY DEF IInv, OneStatePerSupi, Stored
<1>5. OneStatePerSupi'
  BY <1>4 DEF OneStatePerSupi, Stored
<1>6. \A s \in DOMAIN key_by_supi_' : key_by_supi_'[s] \in Stored' /\ T[key_by_supi_'[s]].supi = s
  BY DEF IInv, EntryInv
<1>7. \A a \in DOMAIN key_by_addr_' : key_by_addr_'[a] \in Stored' /\ a \in AddrsOf(T[key_by_addr_'[a]])
  BY DEF IInv, EntryInv
<1>8. EntryInv'
  BY <1>6, <1>7 DEF EntryInv, Stored, AddrsOf
<1> QED
  BY <1>3, <1>5, <1>8 DEF IInv

\* States go, with every index entry that leads to one of them.
LEMMA RemovalKeeps ==
  ASSUME IInv,
         Stored' \subseteq Stored,
         \A l \in Stored' : ue_states_by_key_'[l] = ue_states_by_key_[l],
         \A s \in DOMAIN key_by_supi_' :
           /\ s \in DOMAIN key_by_supi_ /\ key_by_supi_'[s] = key_by_supi_[s]
           /\ key_by_supi_[s] \in Stored',
         \A a \in DOMAIN key_by_addr_' :
           /\ a \in DOMAIN key_by_addr_ /\ key_by_addr_'[a] = key_by_addr_[a]
           /\ key_by_addr_[a] \in Stored'
  PROVE  IInv'
<1> DEFINE T == ue_states_by_key_'
<1>1. TypeInv'
  BY DEF IInv, TypeInv, Stored
<1>2. OneStatePerSupi'
  BY DEF IInv, OneStatePerSupi, Stored
<1>3. \A s \in DOMAIN key_by_supi_' : key_by_supi_'[s] \in Stored' /\ T[key_by_supi_'[s]].supi = s
  BY DEF IInv, EntryInv
<1>4. \A a \in DOMAIN key_by_addr_' : key_by_addr_'[a] \in Stored' /\ a \in AddrsOf(T[key_by_addr_'[a]])
  BY DEF IInv, EntryInv
<1>5. EntryInv'
  BY <1>3, <1>4 DEF EntryInv, Stored, AddrsOf
<1> QED
  BY <1>1, <1>2, <1>5 DEF IInv

\* One state changes under its key, with the same SUPI; its address entries stay correct.
LEMMA ContentsKeeps ==
  ASSUME IInv,
         NEW k \in Stored, NEW v \in AfUeSubscriptionState,
         v.key = k, v.supi = ue_states_by_key_[k].supi,
         Write(k, v), key_by_supi_' = key_by_supi_,
         \A a \in DOMAIN key_by_addr_' :
           \/ key_by_addr_'[a] = k /\ a \in AddrsOf(v)
           \/ /\ a \in DOMAIN key_by_addr_ /\ key_by_addr_'[a] = key_by_addr_[a]
              /\ key_by_addr_[a] # k
  PROVE  IInv'
<1>1. k \in Keys /\ (v.supi # None => k = SupiKey(v.supi))
  BY DEF IInv, TypeInv, OneStatePerSupi
<1>2. /\ Stored' = Stored /\ ue_states_by_key_'[k] = v
      /\ \A l \in Stored' \ {k} : ue_states_by_key_'[l] = ue_states_by_key_[l]
  BY WriteFacts
<1>3. \A s \in DOMAIN key_by_supi_' :
        \/ s \in Supis /\ key_by_supi_'[s] = k /\ v.supi = s
        \/ /\ s \in DOMAIN key_by_supi_ /\ key_by_supi_'[s] = key_by_supi_[s]
           /\ key_by_supi_[s] \in Stored' \ {k}
  BY <1>2 DEF IInv, TypeInv, EntryInv
<1>4. \A a \in DOMAIN key_by_addr_' :
        \/ key_by_addr_'[a] = k /\ a \in AddrsOf(v)
        \/ /\ a \in DOMAIN key_by_addr_ /\ key_by_addr_'[a] = key_by_addr_[a]
           /\ key_by_addr_[a] \in Stored' \ {k}
  BY <1>2 DEF IInv, EntryInv
<1> QED
  BY <1>1, <1>2, <1>3, <1>4, ReindexKeeps

\* The same when the state keeps its addresses and no address entry changes.
LEMMA SameAddressesKeep ==
  ASSUME IInv,
         NEW k \in Stored, NEW v \in AfUeSubscriptionState,
         v.key = k, v.supi = ue_states_by_key_[k].supi, AddrsOf(v) = AddrsOf(ue_states_by_key_[k]),
         Write(k, v), key_by_supi_' = key_by_supi_, key_by_addr_' = key_by_addr_
  PROVE  IInv'
<1>1. \A a \in DOMAIN key_by_addr_' :
        \/ key_by_addr_'[a] = k /\ a \in AddrsOf(v)
        \/ /\ a \in DOMAIN key_by_addr_ /\ key_by_addr_'[a] = key_by_addr_[a]
           /\ key_by_addr_[a] # k
  BY DEF IInv, EntryInv
<1> QED
  BY <1>1, ContentsKeeps

\* The states at R go or are replaced, with the entries of their identifiers, and v is
\* written at k with the entries of its own.
LEMMA ReplacementKeeps ==
  ASSUME IInv,
         NEW R \in SUBSET Stored, NEW k \in Keys, NEW v \in AfUeSubscriptionState,
         v.key = k, v.supi # None => k = SupiKey(v.supi),
         k \in Stored => k \in R,
         Stored' = (Stored \ R) \cup {k}, ue_states_by_key_'[k] = v,
         \A l \in Stored' \ {k} : ue_states_by_key_'[l] = ue_states_by_key_[l],
         \A s \in DOMAIN key_by_supi_' :
           \/ s \in Field(v.supi) /\ key_by_supi_'[s] = k
           \/ /\ s \in DOMAIN key_by_supi_ /\ key_by_supi_'[s] = key_by_supi_[s]
              /\ \A l \in R : s \notin Field(ue_states_by_key_[l].supi),
         \A a \in DOMAIN key_by_addr_' :
           \/ a \in AddrsOf(v) /\ key_by_addr_'[a] = k
           \/ /\ a \in DOMAIN key_by_addr_ /\ key_by_addr_'[a] = key_by_addr_[a]
              /\ \A l \in R : a \notin AddrsOf(ue_states_by_key_[l])
  PROVE  IInv'
<1>1. \A s \in DOMAIN key_by_supi_' :
        \/ s \in Supis /\ key_by_supi_'[s] = k /\ v.supi = s
        \/ /\ s \in DOMAIN key_by_supi_ /\ key_by_supi_'[s] = key_by_supi_[s]
           /\ key_by_supi_[s] \in Stored' \ {k}
  <2> SUFFICES ASSUME NEW s \in DOMAIN key_by_supi_'
               PROVE  \/ s \in Supis /\ key_by_supi_'[s] = k /\ v.supi = s
                      \/ /\ s \in DOMAIN key_by_supi_ /\ key_by_supi_'[s] = key_by_supi_[s]
                         /\ key_by_supi_[s] \in Stored' \ {k}
    OBVIOUS
  <2>1. CASE s \in Field(v.supi) /\ key_by_supi_'[s] = k
    BY <2>1, StateFacts DEF Field
  <2>2. CASE /\ s \in DOMAIN key_by_supi_ /\ key_by_supi_'[s] = key_by_supi_[s]
             /\ \A l \in R : s \notin Field(ue_states_by_key_[l].supi)
    <3>1. /\ key_by_supi_[s] \in Stored /\ ue_states_by_key_[key_by_supi_[s]].supi = s
          /\ s \in Supis
      BY <2>2 DEF IInv, EntryInv, TypeInv
    <3>2. s # None
      BY <3>1, UeAssumption
    <3>3. key_by_supi_[s] \notin R
      BY <2>2, <3>1, <3>2 DEF Field
    <3> QED
      BY <2>2, <3>1, <3>3
  <2> QED
    BY <2>1, <2>2
<1>2. \A a \in DOMAIN key_by_addr_' :
        \/ key_by_addr_'[a] = k /\ a \in AddrsOf(v)
        \/ /\ a \in DOMAIN key_by_addr_ /\ key_by_addr_'[a] = key_by_addr_[a]
           /\ key_by_addr_[a] \in Stored' \ {k}
  BY DEF IInv, EntryInv
<1> QED
  BY <1>1, <1>2, ReindexKeeps

-----------------------------------------------------------------------------
(* The indices after an operation *)

\* The entries of a map after erasing some and writing others.
LEMMA EntryFacts ==
  ASSUME NEW f, NEW D, NEW E, NEW v, NEW g, g = Put(Drop(f, D), E, v)
  PROVE  \A x \in DOMAIN g : \/ x \in E /\ g[x] = v
                             \/ x \in DOMAIN f /\ g[x] = f[x] /\ x \notin D
  BY DEF Put, Drop

\* add_ue_indices on the indices themselves.
LEMMA AddFacts ==
  ASSUME NEW u, SetIndices(add_ue_indices(Indices, u))
  PROVE  /\ \A s \in DOMAIN key_by_supi_' :
              \/ s \in Field(u.supi) /\ key_by_supi_'[s] = u.key
              \/ s \in DOMAIN key_by_supi_ /\ key_by_supi_'[s] = key_by_supi_[s]
         /\ \A a \in DOMAIN key_by_addr_' :
              \/ a \in AddrsOf(u) /\ key_by_addr_'[a] = u.key
              \/ a \in DOMAIN key_by_addr_ /\ key_by_addr_'[a] = key_by_addr_[a]
<1>1. /\ key_by_supi_' = Put(key_by_supi_, Field(u.supi), u.key)
      /\ key_by_addr_' = Put(key_by_addr_, AddrsOf(u), u.key)
  BY DEF SetIndices, add_ue_indices, Indices
<1>2. ASSUME NEW f, NEW E, NEW g, g = Put(f, E, u.key)
      PROVE  \A x \in DOMAIN g : \/ x \in E /\ g[x] = u.key
                                 \/ x \in DOMAIN f /\ g[x] = f[x]
  BY <1>2 DEF Put
<1> QED
  BY <1>1, <1>2

\* remove_ue_indices for one state, then add_ue_indices.
LEMMA MoveFacts ==
  ASSUME NEW old, NEW u, SetIndices(add_ue_indices(remove_ue_indices(Indices, old), u))
  PROVE  /\ \A s \in DOMAIN key_by_supi_' :
              \/ s \in Field(u.supi) /\ key_by_supi_'[s] = u.key
              \/ /\ s \in DOMAIN key_by_supi_ /\ key_by_supi_'[s] = key_by_supi_[s]
                 /\ s \notin Field(old.supi)
         /\ \A a \in DOMAIN key_by_addr_' :
              \/ a \in AddrsOf(u) /\ key_by_addr_'[a] = u.key
              \/ /\ a \in DOMAIN key_by_addr_ /\ key_by_addr_'[a] = key_by_addr_[a]
                 /\ a \notin AddrsOf(old)
<1>1. /\ key_by_supi_' = Put(Drop(key_by_supi_, Field(old.supi)), Field(u.supi), u.key)
      /\ key_by_addr_' = Put(Drop(key_by_addr_, AddrsOf(old)), AddrsOf(u), u.key)
  BY DEF SetIndices, add_ue_indices, remove_ue_indices, Indices
<1> QED
  BY <1>1, EntryFacts

\* remove_ue_indices for two states, then add_ue_indices.
LEMMA MergeFacts ==
  ASSUME NEW x, NEW y, NEW u,
         SetIndices(add_ue_indices(remove_ue_indices(remove_ue_indices(Indices, x), y), u))
  PROVE  /\ \A s \in DOMAIN key_by_supi_' :
              \/ s \in Field(u.supi) /\ key_by_supi_'[s] = u.key
              \/ /\ s \in DOMAIN key_by_supi_ /\ key_by_supi_'[s] = key_by_supi_[s]
                 /\ s \notin Field(x.supi) /\ s \notin Field(y.supi)
         /\ \A a \in DOMAIN key_by_addr_' :
              \/ a \in AddrsOf(u) /\ key_by_addr_'[a] = u.key
              \/ /\ a \in DOMAIN key_by_addr_ /\ key_by_addr_'[a] = key_by_addr_[a]
                 /\ a \notin AddrsOf(x) /\ a \notin AddrsOf(y)
<1>1. /\ key_by_supi_' = Put(Drop(Drop(key_by_supi_, Field(x.supi)), Field(y.supi)), Field(u.supi), u.key)
      /\ key_by_addr_' = Put(Drop(Drop(key_by_addr_, AddrsOf(x)), AddrsOf(y)), AddrsOf(u), u.key)
  BY DEF SetIndices, add_ue_indices, remove_ue_indices, Indices
<1>2. ASSUME NEW f, NEW D, NEW E, NEW F, NEW g, g = Put(Drop(Drop(f, D), E), F, u.key)
      PROVE  \A z \in DOMAIN g : \/ z \in F /\ g[z] = u.key
                                 \/ z \in DOMAIN f /\ g[z] = f[z] /\ z \notin D /\ z \notin E
  BY <1>2 DEF Put, Drop
<1> QED
  BY <1>1, <1>2

\* A state is written where none was, with its entries.
LEMMA AddKeeps ==
  ASSUME IInv, NEW k \in Keys, NEW v \in AfUeSubscriptionState,
         v.key = k, v.supi # None => k = SupiKey(v.supi), k \notin Stored,
         Write(k, v), SetIndices(add_ue_indices(Indices, v))
  PROVE  IInv'
<1>1. PICK R \in SUBSET Stored : R = {}
  OBVIOUS
<1>2. /\ Stored' = (Stored \ R) \cup {k} /\ ue_states_by_key_'[k] = v
      /\ \A l \in Stored' \ {k} : ue_states_by_key_'[l] = ue_states_by_key_[l]
  BY <1>1, WriteFacts
<1>3. \A s \in DOMAIN key_by_supi_' :
        \/ s \in Field(v.supi) /\ key_by_supi_'[s] = k
        \/ /\ s \in DOMAIN key_by_supi_ /\ key_by_supi_'[s] = key_by_supi_[s]
           /\ \A x \in R : s \notin Field(ue_states_by_key_[x].supi)
  BY <1>1, AddFacts
<1>4. \A a \in DOMAIN key_by_addr_' :
        \/ a \in AddrsOf(v) /\ key_by_addr_'[a] = k
        \/ /\ a \in DOMAIN key_by_addr_ /\ key_by_addr_'[a] = key_by_addr_[a]
           /\ \A x \in R : a \notin AddrsOf(ue_states_by_key_[x])
  BY <1>1, AddFacts
<1> QED
  BY <1>2, <1>3, <1>4, ReplacementKeeps

\* The state at o goes with its entries, and v is written with its own.
LEMMA MoveKeeps ==
  ASSUME IInv, NEW o \in Stored, NEW k \in Keys, NEW v \in AfUeSubscriptionState,
         v.key = k, v.supi # None => k = SupiKey(v.supi), k \in Stored => k = o,
         Stored' = (Stored \ {o}) \cup {k}, ue_states_by_key_'[k] = v,
         \A l \in Stored' \ {k} : ue_states_by_key_'[l] = ue_states_by_key_[l],
         SetIndices(add_ue_indices(remove_ue_indices(Indices, ue_states_by_key_[o]), v))
  PROVE  IInv'
<1>1. PICK R \in SUBSET Stored : R = {o}
  OBVIOUS
<1>2. Stored' = (Stored \ R) \cup {k} /\ (k \in Stored => k \in R)
  BY <1>1
<1>3. \A s \in DOMAIN key_by_supi_' :
        \/ s \in Field(v.supi) /\ key_by_supi_'[s] = k
        \/ /\ s \in DOMAIN key_by_supi_ /\ key_by_supi_'[s] = key_by_supi_[s]
           /\ \A x \in R : s \notin Field(ue_states_by_key_[x].supi)
  BY <1>1, MoveFacts
<1>4. \A a \in DOMAIN key_by_addr_' :
        \/ a \in AddrsOf(v) /\ key_by_addr_'[a] = k
        \/ /\ a \in DOMAIN key_by_addr_ /\ key_by_addr_'[a] = key_by_addr_[a]
           /\ \A x \in R : a \notin AddrsOf(ue_states_by_key_[x])
  BY <1>1, MoveFacts
<1> QED
  BY <1>2, <1>3, <1>4, ReplacementKeeps

-----------------------------------------------------------------------------
(* The operations that change identity *)

\* update_ue_state.
LEMMA UpdateKeeps ==
  ASSUME IInv, NEW u \in Reported, update_ue_state(u)
  PROVE  IInv'
<1>1. u \in AfUeSubscriptionState /\ u.supi \in Supis /\ u.key = SupiKey(u.supi) /\ u.key \in Keys
  BY ReportedFacts, StateFacts
<1>2. /\ Stored' = Stored \cup {u.key} /\ ue_states_by_key_'[u.key] = u
      /\ \A l \in Stored' \ {u.key} : ue_states_by_key_'[l] = ue_states_by_key_[l]
  BY WriteFacts DEF update_ue_state
<1>3. CASE u.key \in Stored
  <2>1. SetIndices(add_ue_indices(remove_ue_indices(Indices, ue_states_by_key_[u.key]), u))
    BY <1>3 DEF update_ue_state
  <2>2. Stored' = (Stored \ {u.key}) \cup {u.key}
    BY <1>2, <1>3
  <2> QED
    BY <1>1, <1>2, <1>3, <2>1, <2>2, MoveKeeps
<1>4. CASE u.key \notin Stored
  <2>1. Write(u.key, u) /\ SetIndices(add_ue_indices(Indices, u))
    BY <1>4 DEF update_ue_state
  <2> QED
    BY <1>1, <1>4, <2>1, AddKeeps
<1> QED
  BY <1>3, <1>4

\* create_or_update_provisional_ue_state.
LEMMA CreateKeeps ==
  ASSUME ~PdusPassed, IInv, NEW k \in Keys, NEW d \in InitialData(k),
         create_or_update_provisional_ue_state(k, d)
  PROVE  IInv'
<1>0. /\ d \in AfUeSubscriptionState /\ d.key = k /\ d.pdus = NoPdus
      /\ d.supi # None => k = SupiKey(d.supi)
  BY InitialFacts
<1>1. CASE k \in Stored
  <2> DEFINE u == ue_states_by_key_[k]
             g == IF d.gpsi = None THEN u.gpsi ELSE d.gpsi
             v == [u EXCEPT !.gpsi = g]
  <2>1. u \in AfUeSubscriptionState /\ u.key = k
    BY <1>1 DEF IInv, TypeInv, OneStatePerSupi
  <2>2. g \in Gpsis \cup {None}
    BY <1>0, <2>1, StateFacts
  <2> DEFINE w == [u EXCEPT !.gpsi = g, !.pdus = MergePdus(u.pdus, d.pdus)]
  <2>a. MergePdus(u.pdus, d.pdus) = u.pdus
    BY <1>0, <2>1, StateFacts, PduMapFacts DEF MergePdus, NoPdus
  <2>b. w = v
    BY <2>1, <2>a DEF AfUeSubscriptionState
  <2>3. Write(k, v) /\ UNCHANGED indices
    BY <1>1, <2>b DEF create_or_update_provisional_ue_state
  <2>4. v \in AfUeSubscriptionState /\ v.key = k /\ v.supi = u.supi /\ v.pdus = u.pdus
    BY <2>1, <2>2, GpsiFacts
  <2>5. AddrsOf(v) = AddrsOf(u)
    BY <2>4 DEF AddrsOf
  <2> HIDE DEF v
  <2> QED
    BY <1>1, <2>3, <2>4, <2>5, SameAddressesKeep DEF indices
<1>2. CASE k \notin Stored
  <2>1. Write(k, d) /\ SetIndices(add_ue_indices(Indices, d))
    BY <1>2 DEF create_or_update_provisional_ue_state
  <2> QED
    BY <1>0, <1>2, <2>1, AddKeeps
<1> QED
  BY <1>1, <1>2

\* promote_ue_state_to_resolved.  A state not under a SUPI's key has no SUPI yet, so it gets
\* this one and its key.
LEMMA PromoteKeeps ==
  ASSUME IInv, NEW k \in Keys, NEW s \in Supis, promote_ue_state_to_resolved(k, s)
  PROVE  IInv'
<1> DEFINE u == ue_states_by_key_[k]
           v == resolve_supi(u, s)
<1>1. k \in Stored /\ u \in AfUeSubscriptionState /\ u.key = k /\ (u.supi # None => k = SupiKey(u.supi))
  BY DEF promote_ue_state_to_resolved, IInv, TypeInv, OneStatePerSupi
<1>2. /\ v \in AfUeSubscriptionState /\ v.pdus = u.pdus
      /\ v.key = IF u.supi = None THEN SupiKey(s) ELSE u.key
      /\ v.supi = IF u.supi = None THEN s ELSE u.supi
  BY <1>1, ResolveFacts
<1>3. AddrsOf(v) = AddrsOf(u)
  BY <1>2 DEF AddrsOf
<1> HIDE DEF v
<1>4. CASE k = SupiKey(s)
  <2>1. Write(k, v) /\ UNCHANGED indices
    BY <1>4 DEF promote_ue_state_to_resolved, v
  <2>2. /\ Stored' = Stored /\ ue_states_by_key_'[k] = v
        /\ \A l \in Stored' \ {k} : ue_states_by_key_'[l] = ue_states_by_key_[l]
    BY <1>1, <2>1, WriteFacts
  <2>3. v.key = k /\ (v.supi # None => k = SupiKey(v.supi))
    BY <1>1, <1>2, <1>4
  <2>4. \A r \in DOMAIN key_by_supi_' :
          \/ r \in Supis /\ key_by_supi_'[r] = k /\ v.supi = r
          \/ /\ r \in DOMAIN key_by_supi_ /\ key_by_supi_'[r] = key_by_supi_[r]
             /\ key_by_supi_[r] \in Stored' \ {k}
    <3> SUFFICES ASSUME NEW r \in DOMAIN key_by_supi_, key_by_supi_[r] = k
                 PROVE  r \in Supis /\ v.supi = r
      BY <2>1, <2>2 DEF indices, IInv, EntryInv
    <3>1. u.supi = r /\ r \in Supis
      BY DEF IInv, EntryInv, TypeInv
    <3> QED
      BY <3>1, <1>2, UeAssumption
  <2>5. \A a \in DOMAIN key_by_addr_' :
          \/ key_by_addr_'[a] = k /\ a \in AddrsOf(v)
          \/ /\ a \in DOMAIN key_by_addr_ /\ key_by_addr_'[a] = key_by_addr_[a]
             /\ key_by_addr_[a] \in Stored' \ {k}
    BY <1>3, <2>1, <2>2 DEF indices, IInv, EntryInv
  <2>6. Stored' \subseteq Stored \cup {k} /\ k \in Stored' /\ v \in AfUeSubscriptionState
    BY <1>1, <1>2, <2>2
  <2> QED
    BY <2>2, <2>3, <2>4, <2>5, <2>6, ReindexKeeps
<1>5. CASE k # SupiKey(s) /\ SupiKey(s) \notin Stored
  <2>1. Promote(k, s)
    BY <1>5 DEF promote_ue_state_to_resolved
  <2>2. u.supi = None
    <3>1. k \notin SupiKeys
      BY <1>5, KeyFacts DEF promote_ue_state_to_resolved
    <3> QED
      BY <1>1, <3>1, KeyFacts, StateFacts
  <2>3. v.key = SupiKey(s) /\ v.supi = s /\ SupiKey(s) \in Keys
    BY <1>2, <2>2, KeyFacts
  <2>4. ue_states_by_key_' = Put(Drop(ue_states_by_key_, {k}), {SupiKey(s)}, v)
    BY <2>1 DEF Promote, v
  <2>5. SetIndices(add_ue_indices(remove_ue_indices(Indices, u), v))
    BY <2>1 DEF Promote, v
  <2>6. /\ Stored' = (Stored \ {k}) \cup {SupiKey(s)} /\ ue_states_by_key_'[SupiKey(s)] = v
        /\ \A l \in Stored' \ {SupiKey(s)} : ue_states_by_key_'[l] = ue_states_by_key_[l]
    BY <2>4, MovedStates
  <2> QED
    BY <1>1, <1>2, <1>5, <2>3, <2>5, <2>6, MoveKeeps
<1>6. CASE k # SupiKey(s) /\ SupiKey(s) \in Stored
  <2>1. UNCHANGED vars
    BY <1>6 DEF promote_ue_state_to_resolved
  <2> QED
    BY <2>1, StutterKeeps
<1> QED
  BY <1>4, <1>5, <1>6

\* merge_ue_states.
LEMMA MergeKeeps ==
  ASSUME IInv, NEW k \in Keys, NEW l \in Keys, merge_ue_states(k, l)
  PROVE  IInv'
<1> DEFINE primary == ue_states_by_key_[k]  secondary == ue_states_by_key_[l]
           v == Merged(primary, secondary)
<1>1. /\ k # l /\ k \in Stored /\ l \in Stored
      /\ ue_states_by_key_' = Put(Drop(ue_states_by_key_, {l}), {k}, v)
      /\ SetIndices(add_ue_indices(remove_ue_indices(remove_ue_indices(Indices, primary), secondary), v))
  BY DEF merge_ue_states
<1>2. /\ primary \in AfUeSubscriptionState /\ secondary \in AfUeSubscriptionState
      /\ primary.key = k /\ (primary.supi # None => k = SupiKey(primary.supi))
  BY <1>1 DEF IInv, TypeInv, OneStatePerSupi
<1>3. v \in AfUeSubscriptionState /\ v.key = k /\ v.supi = primary.supi
  BY <1>2, MergedFacts
<1> HIDE DEF v
<1>4. PICK R \in SUBSET Stored : R = {k, l}
  BY <1>1
<1>5. /\ Stored' = (Stored \ R) \cup {k} /\ ue_states_by_key_'[k] = v
      /\ \A m \in Stored' \ {k} : ue_states_by_key_'[m] = ue_states_by_key_[m]
  <2>1. /\ Stored' = (Stored \ {l}) \cup {k} /\ ue_states_by_key_'[k] = v
        /\ \A m \in Stored' \ {k} : ue_states_by_key_'[m] = ue_states_by_key_[m]
    BY <1>1, MovedStates
  <2> QED
    BY <1>1, <1>4, <2>1
<1>6. \A s \in DOMAIN key_by_supi_' :
        \/ s \in Field(v.supi) /\ key_by_supi_'[s] = k
        \/ /\ s \in DOMAIN key_by_supi_ /\ key_by_supi_'[s] = key_by_supi_[s]
           /\ \A x \in R : s \notin Field(ue_states_by_key_[x].supi)
  BY <1>1, <1>3, <1>4, MergeFacts
<1>7. \A a \in DOMAIN key_by_addr_' :
        \/ a \in AddrsOf(v) /\ key_by_addr_'[a] = k
        \/ /\ a \in DOMAIN key_by_addr_ /\ key_by_addr_'[a] = key_by_addr_[a]
           /\ \A x \in R : a \notin AddrsOf(ue_states_by_key_[x])
  BY <1>1, <1>3, <1>4, MergeFacts
<1>8. k \in R /\ (v.supi # None => k = SupiKey(v.supi))
  BY <1>2, <1>3, <1>4
<1> QED
  BY <1>3, <1>5, <1>6, <1>7, <1>8, ReplacementKeeps

\* remove_ue_state.
LEMMA RemoveKeeps ==
  ASSUME IInv, NEW k \in Keys, remove_ue_state(k)
  PROVE  IInv'
<1> DEFINE u == ue_states_by_key_[k]
<1>1. /\ k \in Stored /\ ue_states_by_key_' = Drop(ue_states_by_key_, {k})
      /\ key_by_supi_' = Drop(key_by_supi_, Field(u.supi))
      /\ key_by_addr_' = Drop(key_by_addr_, AddrsOf(u))
  BY DEF remove_ue_state, SetIndices, remove_ue_indices, Indices
<1>2. Stored' = Stored \ {k} /\ \A l \in Stored' : ue_states_by_key_'[l] = ue_states_by_key_[l]
  BY <1>1, ErasedStates
<1>3. \A s \in DOMAIN key_by_supi_' :
        /\ s \in DOMAIN key_by_supi_ /\ key_by_supi_'[s] = key_by_supi_[s]
        /\ key_by_supi_[s] \in Stored'
  <2> SUFFICES ASSUME NEW s \in DOMAIN key_by_supi_'
               PROVE  /\ s \in DOMAIN key_by_supi_ /\ key_by_supi_'[s] = key_by_supi_[s]
                      /\ key_by_supi_[s] \in Stored'
    OBVIOUS
  <2>1. s \in DOMAIN key_by_supi_ /\ key_by_supi_'[s] = key_by_supi_[s] /\ s \notin Field(u.supi)
    BY <1>1 DEF Drop
  <2>2. s \in Supis /\ key_by_supi_[s] \in Stored /\ ue_states_by_key_[key_by_supi_[s]].supi = s
    BY <2>1 DEF IInv, EntryInv, TypeInv
  <2>3. key_by_supi_[s] # k
    BY <2>1, <2>2, UeAssumption DEF Field
  <2> QED
    BY <1>2, <2>1, <2>2, <2>3
<1>4. \A a \in DOMAIN key_by_addr_' :
        /\ a \in DOMAIN key_by_addr_ /\ key_by_addr_'[a] = key_by_addr_[a]
        /\ key_by_addr_[a] \in Stored'
  <2>1. \A a \in DOMAIN key_by_addr_' :
          a \in DOMAIN key_by_addr_ /\ a \notin AddrsOf(u) /\ key_by_addr_'[a] = key_by_addr_[a]
    BY <1>1 DEF Drop
  <2> QED
    BY <1>2, <2>1 DEF IInv, EntryInv
<1> QED
  BY <1>2, <1>3, <1>4, RemovalKeeps

\* cleanup_expired_provisional_states: a provisional state has no SUPI, so no SUPI entry
\* leads to it.
LEMMA CleanupKeeps ==
  ASSUME IInv, NEW old, cleanup_expired_provisional_states(old)
  PROVE  IInv'
<1>1. /\ \A k \in old : k \in Stored /\ ue_states_by_key_[k].supi = None
      /\ ue_states_by_key_' = Drop(ue_states_by_key_, old) /\ key_by_supi_' = key_by_supi_
      /\ key_by_addr_' = Drop(key_by_addr_, UNION {AddrsOf(ue_states_by_key_[k]) : k \in old})
  BY DEF cleanup_expired_provisional_states, resolution_state
<1>2. Stored' = Stored \ old /\ \A l \in Stored' : ue_states_by_key_'[l] = ue_states_by_key_[l]
  BY <1>1, ErasedStates
<1>3. \A s \in DOMAIN key_by_supi_' :
        /\ s \in DOMAIN key_by_supi_ /\ key_by_supi_'[s] = key_by_supi_[s]
        /\ key_by_supi_[s] \in Stored'
  BY <1>1, <1>2, UeAssumption DEF IInv, EntryInv, TypeInv
<1>4. \A a \in DOMAIN key_by_addr_' :
        /\ a \in DOMAIN key_by_addr_ /\ key_by_addr_'[a] = key_by_addr_[a]
        /\ key_by_addr_[a] \in Stored'
  <2> DEFINE D == UNION {AddrsOf(ue_states_by_key_[k]) : k \in old}
  <2>1. \A k \in old : AddrsOf(ue_states_by_key_[k]) \subseteq D
    OBVIOUS
  <2> HIDE DEF D
  <2>2. \A a \in DOMAIN key_by_addr_' :
          a \in DOMAIN key_by_addr_ /\ a \notin D /\ key_by_addr_'[a] = key_by_addr_[a]
    BY <1>1 DEF Drop, D
  <2> QED
    BY <1>2, <2>1, <2>2 DEF IInv, EntryInv
<1> QED
  BY <1>2, <1>3, <1>4, RemovalKeeps

\* remove_non_primary_ue_identifier.
LEMMA RemoveIdentifierKeeps ==
  ASSUME IInv, NEW k \in Keys, NEW id, remove_non_primary_ue_identifier(k, id)
  PROVE  IInv'
<1> DEFINE u == ue_states_by_key_[k]
           v == remove_known_identifier(u, id)
<1>1. k \in Stored /\ Write(k, v) /\ SetIndices(add_ue_indices(remove_ue_indices(Indices, v), v))
  BY DEF remove_non_primary_ue_identifier
<1>2. u \in AfUeSubscriptionState /\ u.key = k /\ (u.supi # None => k = SupiKey(u.supi))
  BY <1>1 DEF IInv, TypeInv, OneStatePerSupi
<1>3. v \in AfUeSubscriptionState /\ v.key = k /\ v.supi = u.supi /\ v.pdus = u.pdus
  BY <1>2 DEF remove_known_identifier, AfUeSubscriptionState
<1>4. AddrsOf(v) = AddrsOf(u)
  BY <1>3 DEF AddrsOf
<1> HIDE DEF v
<1>5. PICK R \in SUBSET Stored : R = {k}
  BY <1>1
<1>6. /\ Stored' = (Stored \ R) \cup {k} /\ ue_states_by_key_'[k] = v
      /\ \A l \in Stored' \ {k} : ue_states_by_key_'[l] = ue_states_by_key_[l]
  BY <1>1, <1>5, WriteFacts
<1>7. \A s \in DOMAIN key_by_supi_' :
        \/ s \in Field(v.supi) /\ key_by_supi_'[s] = k
        \/ /\ s \in DOMAIN key_by_supi_ /\ key_by_supi_'[s] = key_by_supi_[s]
           /\ \A x \in R : s \notin Field(ue_states_by_key_[x].supi)
  BY <1>1, <1>3, <1>5, MoveFacts
<1>8. \A a \in DOMAIN key_by_addr_' :
        \/ a \in AddrsOf(v) /\ key_by_addr_'[a] = k
        \/ /\ a \in DOMAIN key_by_addr_ /\ key_by_addr_'[a] = key_by_addr_[a]
           /\ \A x \in R : a \notin AddrsOf(ue_states_by_key_[x])
  BY <1>1, <1>3, <1>4, <1>5, MoveFacts
<1>9. k \in R /\ (v.supi # None => k = SupiKey(v.supi))
  BY <1>2, <1>3, <1>5
<1> QED
  BY <1>3, <1>6, <1>7, <1>8, <1>9, ReplacementKeeps

-----------------------------------------------------------------------------
(* The operations that change the contents of one state *)

\* update_ue_gpsi.
LEMMA GpsiKeeps ==
  ASSUME IInv, NEW k \in Keys, NEW g \in Gpsis, update_ue_gpsi(k, g)
  PROVE  IInv'
<1> DEFINE u == ue_states_by_key_[k]
           v == [u EXCEPT !.gpsi = g]
<1>1. k \in Stored /\ Write(k, v) /\ key_by_supi_' = key_by_supi_ /\ key_by_addr_' = key_by_addr_
  BY DEF update_ue_gpsi
<1>2. u \in AfUeSubscriptionState /\ u.key = k
  BY <1>1 DEF IInv, TypeInv, OneStatePerSupi
<1>3. v \in AfUeSubscriptionState /\ v.key = k /\ v.supi = u.supi /\ v.pdus = u.pdus
  BY <1>2, GpsiFacts
<1>4. AddrsOf(v) = AddrsOf(u)
  BY <1>3 DEF AddrsOf
<1> HIDE DEF v
<1> QED
  BY <1>1, <1>3, <1>4, SameAddressesKeep

\* add_or_update_pdu_session: an address of the replaced PDU session keeps its entry only
\* when another PDU session of this state has it, or another state the entry.
LEMMA AddPduKeeps ==
  ASSUME IInv, NEW k \in Keys, NEW p \in PduIds, NEW pdu \in NewPdus, add_or_update_pdu_session(k, p, pdu)
  PROVE  IInv'
<1> DEFINE u == ue_states_by_key_[k]
           P == Put(u.pdus, {p}, pdu)
           v == [u EXCEPT !.pdus = P]
<1>1. k \in Stored /\ Write(k, v)
  BY DEF add_or_update_pdu_session
<1>2. u \in AfUeSubscriptionState /\ u.key = k
  BY <1>1 DEF IInv, TypeInv, OneStatePerSupi
<1>3. pdu \in PduSessionData
  BY DEF NewPdus, PduSessionData
<1>4. P \in PduMaps
  BY <1>2, <1>3, StateFacts, PutPduFacts DEF AllPduIds
<1>5. /\ DOMAIN P = DOMAIN u.pdus \cup {p} /\ P[p] = pdu
      /\ \A r \in DOMAIN u.pdus : r # p => P[r] = u.pdus[r]
  BY DEF Put
<1> HIDE DEF P
<1>6. v \in AfUeSubscriptionState /\ v.key = k /\ v.supi = u.supi /\ v.pdus = P
  BY <1>2, <1>4, PdusFacts
<1> HIDE DEF v
<1>7. /\ key_by_supi_' = key_by_supi_
      /\ \A a \in DOMAIN key_by_addr_' :
           \/ a \in Field(pdu.addr) /\ key_by_addr_'[a] = k
           \/ /\ a \in DOMAIN key_by_addr_ /\ key_by_addr_'[a] = key_by_addr_[a]
              /\ p \in DOMAIN u.pdus => ~(a \in Field(u.pdus[p].addr) /\ key_by_addr_[a] = k)
  <2>1. CASE p \in DOMAIN u.pdus
    <3>1. SetIndices(add_pdu_session_indices(remove_pdu_session_indices(Indices, k, u.pdus[p]), k, pdu))
      BY <2>1 DEF add_or_update_pdu_session
    <3>2. /\ key_by_supi_' = key_by_supi_
          /\ key_by_addr_' = Put(Drop(key_by_addr_, {a \in Field(u.pdus[p].addr) \cap DOMAIN key_by_addr_ :
                                                       key_by_addr_[a] = k}), Field(pdu.addr), k)
      BY <3>1 DEF SetIndices, add_pdu_session_indices, remove_pdu_session_indices, Indices
    <3> QED
      BY <3>2, EntryFacts
  <2>2. CASE p \notin DOMAIN u.pdus
    <3>1. SetIndices(add_pdu_session_indices(Indices, k, pdu))
      BY <2>2 DEF add_or_update_pdu_session
    <3>2. key_by_supi_' = key_by_supi_ /\ key_by_addr_' = Put(key_by_addr_, Field(pdu.addr), k)
      BY <3>1 DEF SetIndices, add_pdu_session_indices, Indices
    <3> QED
      BY <2>2, <3>2 DEF Put
  <2> QED
    BY <2>1, <2>2
<1>8. ASSUME NEW a \in DOMAIN key_by_addr_'
      PROVE  \/ key_by_addr_'[a] = k /\ a \in AddrsOf(v)
             \/ /\ a \in DOMAIN key_by_addr_ /\ key_by_addr_'[a] = key_by_addr_[a]
                /\ key_by_addr_[a] # k
  <2>1. CASE a \in Field(pdu.addr) /\ key_by_addr_'[a] = k
    BY <2>1, <1>5, <1>6, AddrFacts DEF Field
  <2>2. CASE /\ a \in DOMAIN key_by_addr_ /\ key_by_addr_'[a] = key_by_addr_[a]
             /\ p \in DOMAIN u.pdus => ~(a \in Field(u.pdus[p].addr) /\ key_by_addr_[a] = k)
    <3> SUFFICES ASSUME key_by_addr_[a] = k PROVE a \in AddrsOf(v)
      BY <2>2
    <3>1. a \in AddrsOf(u)
      BY <2>2 DEF IInv, EntryInv
    <3>2. PICK r \in DOMAIN u.pdus : a # None /\ u.pdus[r].addr = a
      BY <3>1, AddrFacts
    <3>3. r # p
      BY <2>2, <3>2 DEF Field
    <3> QED
      BY <1>5, <1>6, <3>2, <3>3, AddrFacts
  <2> QED
    BY <1>7, <2>1, <2>2
<1> QED
  BY <1>1, <1>6, <1>7, <1>8, ContentsKeeps

\* remove_pdu_session.
LEMMA RemovePduKeeps ==
  ASSUME IInv, NEW k \in Keys, NEW p, remove_pdu_session(k, p)
  PROVE  IInv'
<1> DEFINE u == ue_states_by_key_[k]
           P == Drop(u.pdus, {p})
           v == [u EXCEPT !.pdus = P]
<1>1. k \in Stored /\ p \in DOMAIN u.pdus /\ Write(k, v)
  BY DEF remove_pdu_session
<1>2. u \in AfUeSubscriptionState /\ u.key = k
  BY <1>1 DEF IInv, TypeInv, OneStatePerSupi
<1>3. P \in PduMaps
  BY <1>2, StateFacts, DropPduFacts
<1>4. DOMAIN P = DOMAIN u.pdus \ {p} /\ \A r \in DOMAIN P : P[r] = u.pdus[r]
  BY DEF Drop
<1> HIDE DEF P
<1>5. v \in AfUeSubscriptionState /\ v.key = k /\ v.supi = u.supi /\ v.pdus = P
  BY <1>2, <1>3, PdusFacts
<1> HIDE DEF v
<1>6. /\ key_by_supi_' = key_by_supi_
      /\ key_by_addr_' = Drop(key_by_addr_, {a \in Field(u.pdus[p].addr) \cap DOMAIN key_by_addr_ : key_by_addr_[a] = k})
  BY DEF remove_pdu_session, SetIndices, remove_pdu_session_indices, Indices
<1>7. \A a \in DOMAIN key_by_addr_' :
        /\ a \in DOMAIN key_by_addr_ /\ key_by_addr_'[a] = key_by_addr_[a]
        /\ ~(a \in Field(u.pdus[p].addr) /\ key_by_addr_[a] = k)
  BY <1>6 DEF Drop
<1>8. ASSUME NEW a \in DOMAIN key_by_addr_'
      PROVE  \/ key_by_addr_'[a] = k /\ a \in AddrsOf(v)
             \/ /\ a \in DOMAIN key_by_addr_ /\ key_by_addr_'[a] = key_by_addr_[a]
                /\ key_by_addr_[a] # k
  <2> SUFFICES ASSUME key_by_addr_[a] = k PROVE a \in AddrsOf(v)
    BY <1>7
  <2>1. a \in AddrsOf(u)
    BY <1>7 DEF IInv, EntryInv
  <2>2. PICK r \in DOMAIN u.pdus : a # None /\ u.pdus[r].addr = a
    BY <2>1, AddrFacts
  <2>3. r # p
    BY <1>7, <2>2 DEF Field
  <2> QED
    BY <1>4, <1>5, <2>2, <2>3, AddrFacts
<1> QED
  BY <1>1, <1>5, <1>6, <1>8, ContentsKeeps

\* add_qod_session_to_pdu_session and remove_qod_session_from_pdu_session.
LEMMA QodPduKeeps ==
  ASSUME IInv, NEW k \in Keys, NEW p, NEW q \in Qods,
         add_qod_session_to_pdu_session(k, p, q) \/ remove_qod_session_from_pdu_session(k, p, q)
  PROVE  IInv'
<1> DEFINE u == ue_states_by_key_[k]
<1>1. k \in Stored /\ p \in DOMAIN u.pdus /\ UNCHANGED indices
  BY DEF add_qod_session_to_pdu_session, remove_qod_session_from_pdu_session
<1>2. u \in AfUeSubscriptionState /\ u.key = k
  BY <1>1 DEF IInv, TypeInv, OneStatePerSupi
<1>3. \E v \in AfUeSubscriptionState :
        v.key = k /\ v.supi = u.supi /\ AddrsOf(v) = AddrsOf(u) /\ Write(k, v)
  BY <1>1, <1>2, AssociateFacts, DissociateFacts
     DEF add_qod_session_to_pdu_session, remove_qod_session_from_pdu_session
<1> QED
  BY <1>1, <1>3, SameAddressesKeep DEF indices

\* remove_qod_session_from_ue.
LEMMA RemoveQodKeeps ==
  ASSUME IInv, NEW k \in Keys, NEW q \in Qods, remove_qod_session_from_ue(k, q)
  PROVE  IInv'
<1> DEFINE u == ue_states_by_key_[k]
           v == Dissociate(u, DOMAIN u.pdus, q)
<1>1. k \in Stored /\ Write(k, v) /\ UNCHANGED indices
  BY DEF remove_qod_session_from_ue
<1>2. u \in AfUeSubscriptionState /\ u.key = k
  BY <1>1 DEF IInv, TypeInv, OneStatePerSupi
<1>3. v \in AfUeSubscriptionState /\ v.key = k /\ v.supi = u.supi /\ AddrsOf(v) = AddrsOf(u)
  BY <1>2, DissociateFacts
<1> HIDE DEF v
<1> QED
  BY <1>1, <1>3, SameAddressesKeep DEF indices

\* add_qod_session_to_ue: the state may be new, and the PDU session a made-up one without
\* address.
LEMMA AddQodKeeps ==
  ASSUME IInv, NEW k \in Keys, NEW q \in Qods, add_qod_session_to_ue(k, q)
  PROVE  IInv'
<1> DEFINE u == IF k \in Stored THEN ue_states_by_key_[k] ELSE Provisional(k)
           made == [addr |-> None, qods |-> {}]
           w == [u EXCEPT !.pdus = Put(u.pdus, {DefaultPdu(k)}, made)]
           v == IF DOMAIN u.pdus # {} THEN u ELSE w
<1>1. UNCHANGED indices /\ \E p \in DOMAIN v.pdus : Write(k, Associate(v, p, q))
  BY DEF add_qod_session_to_ue
<1>2. u \in AfUeSubscriptionState /\ u.key = k /\ (u.supi # None => k = SupiKey(u.supi))
  BY ProvisionalFacts DEF IInv, TypeInv, OneStatePerSupi
<1>3. made \in PduSessionData
  BY DEF PduSessionData
<1>4. Put(u.pdus, {DefaultPdu(k)}, made) \in PduMaps
  BY <1>2, <1>3, StateFacts, PutPduFacts DEF AllPduIds
<1>5. v \in AfUeSubscriptionState /\ v.key = k /\ v.supi = u.supi /\ AddrsOf(u) \subseteq AddrsOf(v)
  <2>1. w \in AfUeSubscriptionState /\ w.key = k /\ w.supi = u.supi
    BY <1>2, <1>4, PdusFacts
  <2>2. DOMAIN u.pdus = {} => AddrsOf(u) = {}
    BY DEF AddrsOf
  <2> HIDE DEF w
  <2> QED
    BY <1>2, <2>1, <2>2
<1>6. k \in Stored => u = ue_states_by_key_[k]
  OBVIOUS
<1> HIDE DEF u, v
<1>7. PICK x \in AfUeSubscriptionState :
        x.key = k /\ x.supi = u.supi /\ AddrsOf(u) \subseteq AddrsOf(x) /\ Write(k, x)
  BY <1>1, <1>5, AssociateFacts
<1>8. /\ Stored' = Stored \cup {k} /\ ue_states_by_key_'[k] = x
      /\ \A l \in Stored' \ {k} : ue_states_by_key_'[l] = ue_states_by_key_[l]
  BY <1>7, WriteFacts
<1>9. \A s \in DOMAIN key_by_supi_' :
         \/ s \in Supis /\ key_by_supi_'[s] = k /\ x.supi = s
         \/ /\ s \in DOMAIN key_by_supi_ /\ key_by_supi_'[s] = key_by_supi_[s]
            /\ key_by_supi_[s] \in Stored' \ {k}
  BY <1>1, <1>6, <1>7, <1>8 DEF IInv, EntryInv, TypeInv, indices
<1>10. \A a \in DOMAIN key_by_addr_' :
         \/ key_by_addr_'[a] = k /\ a \in AddrsOf(x)
         \/ /\ a \in DOMAIN key_by_addr_ /\ key_by_addr_'[a] = key_by_addr_[a]
            /\ key_by_addr_[a] \in Stored' \ {k}
  BY <1>1, <1>6, <1>7, <1>8 DEF IInv, EntryInv, indices
<1>11. Stored' \subseteq Stored \cup {k} /\ k \in Stored' /\ (x.supi # None => k = SupiKey(x.supi))
  BY <1>2, <1>7, <1>8
<1> QED
  BY <1>7, <1>8, <1>9, <1>10, <1>11, ReindexKeeps

-----------------------------------------------------------------------------
(* The theorems *)

\* No state is stored and no index has an entry at the start.
LEMMA InitInv == Init => IInv
<1> SUFFICES ASSUME Init PROVE IInv
  OBVIOUS
<1>1. Stored = {} /\ DOMAIN key_by_supi_ = {} /\ DOMAIN key_by_addr_ = {}
  BY DEF Init, Stored
<1> QED
  BY <1>1 DEF IInv, TypeInv, OneStatePerSupi, EntryInv

\* Every operation keeps the invariant.
LEMMA NextInv ==
  ASSUME ~PdusPassed
  PROVE  IInv /\ [Next]_vars => IInv'
<1> SUFFICES ASSUME IInv, [Next]_vars PROVE IInv'
  OBVIOUS
<1>1. CASE Identity
  BY <1>1, UpdateKeeps, CreateKeeps, PromoteKeeps, MergeKeeps, RemoveKeeps, CleanupKeeps,
     RemoveIdentifierKeeps DEF Identity
<1>2. CASE Contents
  <2>1. CASE \E k \in Keys : UpdateField(k)
    BY <2>1, StutterKeeps DEF UpdateField
  <2> QED
    BY <1>2, <2>1, GpsiKeeps, AddPduKeeps, RemovePduKeeps, QodPduKeeps, RemoveQodKeeps, AddQodKeeps
       DEF Contents
<1>3. CASE UNCHANGED vars
  BY <1>3, StutterKeeps
<1> QED
  BY <1>1, <1>2, <1>3 DEF Next

\* The invariant holds in every reachable state.
LEMMA Invariance ==
  ASSUME ~PdusPassed
  PROVE  Spec => []IInv
  BY InitInv, NextInv, PTL DEF Spec

\* Through creation, promotion, merging and every update, in any order, a state is stored
\* under the key it carries and a state with a SUPI under that SUPI's key.
THEOREM SupiUnique ==
  ASSUME ~PdusPassed
  PROVE  Spec => []OneStatePerSupi
<1>1. IInv => OneStatePerSupi
  BY DEF IInv
<1> QED
  BY <1>1, Invariance, PTL

\* No entry of the SUPI or address index dangles, whatever the calls of UeStateManager, as
\* long as create_or_update_provisional_ue_state is passed no PDU sessions, as by its caller.
THEOREM IndicesSound ==
  ASSUME ~PdusPassed
  PROVE  Spec => []IndexSound
<1>1. IInv => IndexSound
  <2> SUFFICES ASSUME IInv PROVE IndexSound
    OBVIOUS
  <2>1. ASSUME NEW s \in DOMAIN key_by_supi_
        PROVE  get_ue_state_by_supi(s) # None /\ get_ue_state_by_supi(s).supi = s
    <3>1. /\ get_ue_state_by_supi(s) = ue_states_by_key_[key_by_supi_[s]]
          /\ key_by_supi_[s] \in Stored /\ ue_states_by_key_[key_by_supi_[s]].supi = s
      BY DEF IInv, EntryInv, get_ue_state_by_supi, get_ue_state_by_key
    <3>2. get_ue_state_by_supi(s) \in AfUeSubscriptionState
      BY <3>1 DEF IInv, TypeInv
    <3> QED
      BY <3>1, <3>2, NoneAssumption
  <2>2. \A a \in DOMAIN key_by_addr_ :
          key_by_addr_[a] \in Stored /\ a \in AddrsOf(ue_states_by_key_[key_by_addr_[a]])
    BY DEF IInv, EntryInv
  <2> QED
    BY <2>1, <2>2 DEF IndexSound
<1> QED
  BY <1>1, Invariance, PTL

\* A promotion leaves every QoD session with the PDU sessions it had.
LEMMA PromotionKeepsQods ==
  ASSUME IInv, NEW k \in Keys, NEW s \in Supis, promote_ue_state_to_resolved(k, s), NEW q \in Qods
  PROVE  get_pdu_sessions_for_qod_session(q)' = get_pdu_sessions_for_qod_session(q)
<1> DEFINE S == ue_states_by_key_  T == ue_states_by_key_'
           v == resolve_supi(S[k], s)
<1>1. k \in Stored /\ S[k] \in AfUeSubscriptionState
  BY DEF promote_ue_state_to_resolved, IInv, TypeInv
<1>2. v.pdus = S[k].pdus
  BY <1>1, ResolveFacts
<1> HIDE DEF v
<1>3. \/ /\ Stored' = (Stored \ {k}) \cup {SupiKey(s)} /\ T[SupiKey(s)] = v
         /\ k = SupiKey(s) \/ SupiKey(s) \notin Stored
         /\ \A l \in Stored' \ {SupiKey(s)} : T[l] = S[l]
      \/ T = S
  <2>1. CASE k = SupiKey(s)
    <3>1. Write(k, v)
      BY <2>1 DEF promote_ue_state_to_resolved, v
    <3> QED
      BY <1>1, <2>1, <3>1, WriteFacts
  <2>2. CASE k # SupiKey(s) /\ SupiKey(s) \notin Stored
    <3>1. T = Put(Drop(S, {k}), {SupiKey(s)}, v)
      BY <2>2 DEF promote_ue_state_to_resolved, Promote, v
    <3> QED
      BY <2>2, <3>1, MovedStates
  <2>3. CASE k # SupiKey(s) /\ SupiKey(s) \in Stored
    BY <2>3 DEF promote_ue_state_to_resolved, vars
  <2> QED
    BY <2>1, <2>2, <2>3
<1>4. \A p : p \in get_pdu_sessions_for_qod_session(q)
               <=> \E l \in Stored : p \in DOMAIN S[l].pdus /\ q \in S[l].pdus[p].qods
  BY DEF get_pdu_sessions_for_qod_session
<1>5. \A p : p \in get_pdu_sessions_for_qod_session(q)'
               <=> \E l \in Stored' : p \in DOMAIN T[l].pdus /\ q \in T[l].pdus[p].qods
  BY DEF get_pdu_sessions_for_qod_session, Stored
<1>6. \A p : p \in get_pdu_sessions_for_qod_session(q)' <=> p \in get_pdu_sessions_for_qod_session(q)
  BY <1>1, <1>2, <1>3, <1>4, <1>5 DEF Stored
<1> QED
  BY <1>6

\* A merge leaves every PDU session with a state.
LEMMA MergeKeepsPdus ==
  ASSUME IInv, NEW k \in Keys, NEW l \in Keys, merge_ue_states(k, l), NEW p \in AllPduIds,
         get_ue_state_by_pdu_session_id(p) # {}
  PROVE  get_ue_state_by_pdu_session_id(p)' # {}
<1> DEFINE S == ue_states_by_key_  T == ue_states_by_key_'
           v == Merged(S[k], S[l])
<1>1. /\ k # l /\ k \in Stored /\ l \in Stored /\ T = Put(Drop(S, {l}), {k}, v)
      /\ S[k] \in AfUeSubscriptionState /\ S[l] \in AfUeSubscriptionState
  BY DEF merge_ue_states, IInv, TypeInv
<1>2. DOMAIN v.pdus = DOMAIN S[k].pdus \cup DOMAIN S[l].pdus
  BY <1>1, MergedFacts
<1> HIDE DEF v
<1>3. Stored' = (Stored \ {l}) \cup {k} /\ T[k] = v /\ \A m \in Stored' \ {k} : T[m] = S[m]
  BY <1>1, MovedStates
<1>4. PICK m \in Stored : p \in DOMAIN S[m].pdus
  BY DEF get_ue_state_by_pdu_session_id
<1>5. \E n \in Stored' : p \in DOMAIN T[n].pdus
  BY <1>1, <1>2, <1>3, <1>4
<1> QED
  BY <1>5 DEF get_ue_state_by_pdu_session_id, Stored

\* A change of a UE's identity loses no session: promotion keeps every PDU session and its QoD
\* sessions, a merge every PDU session.
THEOREM IdentityChange ==
  ASSUME ~PdusPassed
  PROVE  Spec => IdentityChangeKeepsSessions
<1>1. IInv => [/\ \A k \in Keys, s \in Supis : promote_ue_state_to_resolved(k, s) =>
                    \A q \in Qods : get_pdu_sessions_for_qod_session(q)' = get_pdu_sessions_for_qod_session(q)
               /\ \A k, l \in Keys : merge_ue_states(k, l) =>
                    \A p \in AllPduIds : get_ue_state_by_pdu_session_id(p) # {} =>
                                        get_ue_state_by_pdu_session_id(p)' # {}]_vars
  BY PromotionKeepsQods, MergeKeepsPdus
<1> QED
  BY <1>1, Invariance, PTL DEF IdentityChangeKeepsSessions
=============================================================================
