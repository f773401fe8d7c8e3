----------------------------- MODULE MCLauncher -----------------------------
(* Bounds for checking Launcher: see the README for why they are enough. *)
EXTENDS Launcher

CONSTANTS l1, l2, d0, d1, d2  \* model values: launchers and daemons
=============================================================================
