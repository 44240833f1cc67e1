------------------------------ MODULE MCPolicy ------------------------------
\* Model values for Policy.  The bodies: a valid policy, one with both bandwidths,
\* one of another direction whose guaranteed bandwidth exceeds that maximum,
\* and one that is broken off after the subject.
EXTENDS Policy, TLC
CONSTANTS t1, t2, p1, p2, a1, a2
MCThreads == {t1, t2}
MCPolicyIds == {p1, p2}
MCAppSessions == {a1, a2}
MCPolicyData ==
  {[subject |-> "ue1"],
   [subject |-> "ue1", guaranteed_bandwidth |-> 1, maximum_bandwidth |-> 2],
   [flow_direction |-> "uplink", guaranteed_bandwidth |-> 3],
   [subject |-> "ue2", qos_reference |-> Mistyped]}
Symmetry == Permutations(MCThreads) \cup Permutations(MCPolicyIds) \cup Permutations(MCAppSessions)
=============================================================================
