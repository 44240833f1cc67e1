---------------------------- MODULE MCPcfSession ----------------------------
(* Model-checking instance of PcfSession. *)
EXTENDS PcfSession
=============================================================================
