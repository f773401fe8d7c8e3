---------------------------- MODULE MCQueueUpkeep ----------------------------
(* Bounds for checking QueueUpkeep: see the README for why they are enough. *)
EXTENDS QueueUpkeep
=============================================================================
