------------------------- MODULE MCQodNotification -------------------------
(* Small instances of QodNotification. *)
EXTENDS QodNotification, TLC

CONSTANTS n1, n2, n3, s1

AllOfOne == n1 :> s1 @@ n2 :> s1 @@ n3 :> s1

\* The worker threads are interchangeable.
Symmetry == Permutations(Workers)
=============================================================================
