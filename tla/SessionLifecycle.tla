-------------------------- MODULE SessionLifecycle --------------------------
(***************************************************************************)
(* What AF core promises about a QoD session: it is requested once, is     *)
(* then granted or refused, a granted session ends only after its QoS is   *)
(* no longer enforced in the network, and a session that is over never     *)
(* changes again before it is forgotten.                                   *)
(***************************************************************************)
CONSTANT Sessions

VARIABLES
  status,    \* the status of each session
  enforced   \* the granted sessions whose QoS the PCF enforces

vars == <<status, enforced>>

Init ==
  /\ status = [s \in Sessions |-> "none"]
  /\ enforced = {}

Become(s, from, to) == status[s] = from /\ status' = [status EXCEPT ![s] = to]

Request(s) == Become(s, "none", "REQUESTED") /\ UNCHANGED enforced
Grant(s)   == Become(s, "REQUESTED", "AVAILABLE") /\ enforced' = enforced \cup {s}
Refuse(s)  == Become(s, "REQUESTED", "UNAVAILABLE") /\ UNCHANGED enforced
Release(s) == s \in enforced /\ enforced' = enforced \ {s} /\ UNCHANGED status
End(s)     == s \notin enforced /\ Become(s, "AVAILABLE", "UNAVAILABLE") /\ UNCHANGED enforced

\* The TTL has passed: the AF keeps no record of the session.
Forget(s) ==
  /\ Become(s, "AVAILABLE", "gone") \/ Become(s, "UNAVAILABLE", "gone")
  /\ enforced' = enforced \ {s}

\* The session manager stops and drops every record.
Shutdown ==
  /\ status' = [s \in Sessions |-> IF status[s] = "none" THEN "none" ELSE "gone"]
  /\ enforced' = {}

Next ==
  \/ \E s \in Sessions : Request(s) \/ Grant(s) \/ Refuse(s) \/ Release(s) \/ End(s) \/ Forget(s)
  \/ Shutdown

Spec == Init /\ [][Next]_vars
=============================================================================
