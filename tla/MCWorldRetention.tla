-------------------------- MODULE MCWorldRetention --------------------------
(* WorldRetention on small instances. *)
EXTENDS WorldRetention, TLC

(* Sessions are interchangeable. *)
Symmetry == Permutations(Session)
=============================================================================
