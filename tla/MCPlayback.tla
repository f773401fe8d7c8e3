------------------------------ MODULE MCPlayback ------------------------------
(* Bounds for checking Playback: see the README for why they are enough. *)
EXTENDS Playback, TLC

CONSTANTS c1, c2  \* model values

\* Every command that awaits something, and those that act on the queue or toggle.
AllCommands == {"startingQueue", "skipping", "editing", "playingIndex",
                "toggling", "seeking"}
QueueCommands == AllCommands \ {"seeking"}

\* The clients run the same program and are never compared.
ClientSymmetry == Permutations(Clients)
=============================================================================
