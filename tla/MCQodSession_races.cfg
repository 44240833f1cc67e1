\* Three API threads and the cleanup thread over one session; the manager may stop.
SPECIFICATION Spec
CONSTANTS
  Null = Null  d1 = d1  u1 = u1  Anonymous = Anonymous
  Threads = {t1, t2, t3}
  SessionIds = {s1}
  PcfIds = {p1}
  Consumers = {c1}
  Devices = {d1}
  Servers = {srv}
  Supis = {u1}
  Resolutions <- Known
  Sinks = {TRUE}
  Durations = {0, 1, 3}
  Extensions = {1}
  MinDuration = 1
  MaxDuration = 2
  Ttl = 1
  Garbage <- StaleReads
  MaxTime = 2
  Operations = {"create", "delete", "extend"}
  MayStop = TRUE
  RacyIds = FALSE
SYMMETRY Symmetry
INVARIANTS TypeOK SupiIndexExact AvailableIsBacked UnavailableIsReleased DeletedToldAfterAvailable
PROPERTY RemovedStaysRemoved
CHECK_DEADLOCK FALSE
