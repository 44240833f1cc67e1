\* Two handlers that may fail to start, two signals, a start that may throw.
SPECIFICATION FairSpec
CONSTANTS
  h1 = h1  h2 = h2
  Handlers = {h1, h2}
  MaxSignals = 2
  MayThrow = TRUE
INVARIANTS TypeOK NoUseAfterReset OneShutdown StoppedIsQuiet
PROPERTY ShutdownCompletes
CHECK_DEADLOCK FALSE
