----------------------------- MODULE MCApiClient ----------------------------
(* Bounds for checking ApiClient: see the README for why they are enough. *)
EXTENDS ApiClient

CONSTANTS d1, d2, c1, c2, c3  \* model values: daemons and tasks

\* Two tasks of one daemon, and one of another.
Homes == [c \in Callers |-> IF c = c3 THEN d2 ELSE d1]
=============================================================================
