---------------------------- MODULE LatestRequest ----------------------------
(***************************************************************************)
(* What the playback coordinator promises about its numbered requests, with *)
(* no mention of clients, tasks, locks or audio.                            *)
(*                                                                         *)
(* Requests get increasing numbers.  At most one of them is open, and it is *)
(* always the newest.  A request becomes the displayed track only while it  *)
(* is open, and it is open once: a superseded or withdrawn request is never *)
(* displayed afterwards.                                                    *)
(***************************************************************************)
EXTENDS Integers

CONSTANT MaxRequests  \* bound on the request counter (u64 in the code)

VARIABLES
  issued,   \* number of the newest request
  open,     \* the request still being worked on, 0 when there is none
  shown     \* the request whose track is displayed, 0 when there is none

vars == <<issued, open, shown>>

Init ==
  /\ issued = 0
  /\ open = 0
  /\ shown = 0

\* A new request supersedes whatever was open.
Issue ==
  /\ issued < MaxRequests
  /\ issued' = issued + 1
  /\ open' = issued + 1
  /\ UNCHANGED shown

\* The open request is called off without a successor.
Withdraw ==
  /\ issued < MaxRequests
  /\ issued' = issued + 1
  /\ open' = 0
  /\ UNCHANGED shown

\* The open request is finished: its track is displayed, or it has failed.
Settle ==
  /\ open # 0
  /\ open' = 0
  /\ shown' \in {shown, open}
  /\ UNCHANGED issued

Next == Issue \/ Withdraw \/ Settle

Spec == Init /\ [][Next]_vars
=============================================================================
