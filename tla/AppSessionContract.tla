------------------------- MODULE AppSessionContract -------------------------
(***************************************************************************)
(* What the southbound side promises AF core about app sessions, seen from *)
(* outside: an app session is established for one QoD session, a QoD       *)
(* session is granted at most one, one of its own, and only what was       *)
(* granted is ever released on request.                                    *)
(***************************************************************************)
CONSTANTS Qods, PcfIds, None

VARIABLES
  phase,    \* per app session: "unused", "live", "released", "terminated"
  owner,    \* the QoD session it was established for
  granted   \* the app session each QoD session was told about

vars == <<phase, owner, granted>>

Init ==
  /\ phase = [p \in PcfIds |-> "unused"]
  /\ owner = [p \in PcfIds |-> None]
  /\ granted = [q \in Qods |-> None]

Establish(q, p) ==
  /\ phase[p] = "unused"
  /\ \A o \in PcfIds : owner[o] # q
  /\ phase' = [phase EXCEPT ![p] = "live"]
  /\ owner' = [owner EXCEPT ![p] = q]
  /\ UNCHANGED granted

Grant(q, p) ==
  /\ owner[p] = q /\ granted[q] = None
  /\ granted' = [granted EXCEPT ![q] = p]
  /\ UNCHANGED <<phase, owner>>

Release(q) ==
  /\ granted[q] # None
  /\ phase[granted[q]] = "live"
  /\ phase' = [phase EXCEPT ![granted[q]] = "released"]
  /\ UNCHANGED <<owner, granted>>

Terminate(p) ==
  /\ phase[p] = "live"
  /\ phase' = [phase EXCEPT ![p] = "terminated"]
  /\ UNCHANGED <<owner, granted>>

Next ==
  \/ \E q \in Qods, p \in PcfIds : Establish(q, p) \/ Grant(q, p)
  \/ \E q \in Qods : Release(q)
  \/ \E p \in PcfIds : Terminate(p)

Spec == Init /\ [][Next]_vars
=============================================================================
