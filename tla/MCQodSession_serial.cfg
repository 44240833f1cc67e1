\* One API thread and the cleanup thread over two sessions of one known UE.
SPECIFICATION Spec
CONSTANTS
  Null = Null  d1 = d1  u1 = u1  Anonymous = Anonymous
  Threads = {t1}
  SessionIds = {s1, s2}
  PcfIds = {p1, p2}
  Consumers = {Anonymous, c1}
  Devices = {d1}
  Servers = {srv}
  Supis = {u1}
  Resolutions <- MaybeKnown
  Sinks = {FALSE}
  Durations = {1}
  Extensions = {1}
  MinDuration = 1
  MaxDuration = 2
  Ttl = 1
  Garbage <- StaleReads
  MaxTime = 2
  Operations = {"create", "delete", "extend"}
  MayStop = TRUE
  RacyIds = FALSE
INVARIANTS AnonymousNeverConflict
PROPERTY ImplementsLifecycle
CHECK_DEADLOCK FALSE
