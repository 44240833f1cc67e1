----------------------------- MODULE MCUeState -----------------------------
(* Small instances of UeState. *)
EXTENDS UeState, FiniteSetsExt

CONSTANT MaxPdus   \* bound on the PDU sessions of all states from which TLC goes on

\* A merge of two states with a PDU session each is a step from within the bound.
FewPdus == MapThenSumSet(LAMBDA k : Cardinality(DOMAIN ue_states_by_key_[k].pdus), Stored) <= MaxPdus
=============================================================================
