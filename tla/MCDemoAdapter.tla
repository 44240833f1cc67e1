--------------------------- MODULE MCDemoAdapter ---------------------------
\* Model values for DemoAdapter.
EXTENDS DemoAdapter
CONSTANTS s1, s2, i1, i2
MCStreams == {s1, s2}
MCSessionIds == {i1, i2}
\* Each value of an option meets each value of the others.
Config(b, t, n) == [bundled |-> b, transport |-> t, iterations |-> n]
MCConfigs == {Config(FALSE, "grpc", -1), Config(TRUE, "http", -1), Config(TRUE, "grpc", 1), Config(FALSE, "http", 1)}
=============================================================================
