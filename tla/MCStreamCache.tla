---------------------------- MODULE MCStreamCache ----------------------------
(* Bounds for checking StreamCache: see the README for why they are enough. *)
EXTENDS StreamCache, TLC

CONSTANTS p1, p2, p3, k1, k2, k3  \* model values: tasks and keys

\* Tasks run the same program on keys that are only compared.
TaskSymmetry == Permutations(Callers) \cup Permutations(Keys)
=============================================================================
