----------------------------- MODULE MCWorldGC -----------------------------
(* WorldGC on small instances. *)
EXTENDS WorldGC, TLC

(* Sessions and nodes are interchangeable. *)
Symmetry == Permutations(Session) \cup Permutations(Node)
=============================================================================
