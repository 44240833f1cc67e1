SPECIFICATION Spec
CONSTANTS
  t1 = t1
  t2 = t2
  p1 = p1
  p2 = p2
  a1 = a1
  a2 = a2
  Threads <- MCThreads
  PolicyIds <- MCPolicyIds
  AppSessions <- MCAppSessions
  PolicyData <- MCPolicyData
  Mistyped = Mistyped
  
  None = None
SYMMETRY Symmetry
INVARIANTS ActiveIsApplied NoSilentLeak
