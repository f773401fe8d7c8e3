------------------------------ MODULE MCDownloads ------------------------------
(* A track of three units, fetched two at a time when its length is not       *)
(* declared.                                                                  *)
EXTENDS Downloads

MCSize == [t \in Tracks |-> 3]

=============================================================================
