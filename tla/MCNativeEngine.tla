---------------------------- MODULE MCNativeEngine ----------------------------
(* Bounds for checking NativeEngine: see the README for why they are enough. *)
EXTENDS NativeEngine
=============================================================================
