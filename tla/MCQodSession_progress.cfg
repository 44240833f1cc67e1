\*\* Two API threads, fairly scheduled, and a fair cleanup thread.
SPECIFICATION FairSpec
CONSTANTS
  Null = Null  d1 = d1  u1 = u1  Anonymous = Anonymous
  Threads = {t1, t2}
  SessionIds = {s1}
  PcfIds = {p1}
  Consumers = {c1}
  Devices = {d1}
  Servers = {srv}
  Supis = {u1}
  Resolutions <- Unresolved
  Sinks = {FALSE}
  Durations = {1}
  Extensions = {1}
  MinDuration = 1
  MaxDuration = 2
  Ttl = 1
  Garbage <- StaleReads
  MaxTime = 3
  Operations = {"create", "delete", "extend"}
  MayStop = FALSE
  RacyIds = FALSE
PROPERTIES RequestedSettles ExpiredIsForgotten
CHECK_DEADLOCK FALSE
