--------------------------- MODULE MCQodSession ---------------------------
(* Small instances of QodSession. *)
EXTENDS QodSession, TLC

CONSTANTS d1, u1

\* What resolve_device answers: in this program no SUPI, or one provisioned by others.
Unresolved == {Null}
Known      == {u1}
MaybeKnown == {Null, u1}

\* An unset time_point reads as a moment long past or far ahead.
StaleReads  == {-10, 10}

\* Threads, session ids and app session ids are interchangeable.
Symmetry == Permutations(Threads) \cup Permutations(SessionIds) \cup Permutations(PcfIds)
=============================================================================
