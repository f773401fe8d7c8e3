------------------------------ MODULE MCDualDeck ------------------------------
(* Instances of DualDeck for TLC: two volumes, silence and full. *)
EXTENDS DualDeck
=============================================================================
