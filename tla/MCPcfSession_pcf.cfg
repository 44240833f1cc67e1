SPECIFICATION Spec
CONSTANTS
  Threads = {t1, t2}
  Qods = {q1, q2, q3}
  PcfIds = {p1, p2, p3}
  None = None
INVARIANTS GrantedIsMapped LiveIsReachable ConfirmedReleased
PROPERTIES ReleasedForOwner Implements
CHECK_DEADLOCK FALSE
