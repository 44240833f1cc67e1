\* A delete overlaps the creation of the same session.
SPECIFICATION Spec
CONSTANTS
  Null = Null  d1 = d1  u1 = u1  Anonymous = Anonymous
  Threads = {t1, t2}
  SessionIds = {s1}
  PcfIds = {p1}
  Consumers = {c1}
  Devices = {d1}
  Servers = {srv}
  Supis = {u1}
  Resolutions <- Unresolved
  Sinks = {TRUE}
  Durations = {1}
  Extensions = {1}
  MinDuration = 1
  MaxDuration = 2
  Ttl = 1
  Garbage <- StaleReads
  MaxTime = 2
  Operations = {"create", "delete"}
  MayStop = FALSE
  RacyIds = FALSE
PROPERTY DeletedIsFinal
CHECK_DEADLOCK FALSE
