------------------------- MODULE MCBundledRuntime -------------------------
(* Small instances of BundledRuntime. *)
EXTENDS BundledRuntime, TLC

CONSTANTS h1, h2
=============================================================================
