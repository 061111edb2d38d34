--------------------------- MODULE MCWorldCommit ---------------------------
(* WorldCommit on small instances. *)
EXTENDS WorldCommit, TLC

(* Sessions, keys and operation lists are interchangeable. *)
Symmetry ==
    Permutations(Session) \cup Permutations(Key) \cup Permutations(Ops)
=============================================================================
