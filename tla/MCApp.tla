-------------------------------- MODULE MCApp --------------------------------
(* Bounds for checking App: see the README for why they are enough. *)
EXTENDS App, TLC

CONSTANTS t1, t2, q1  \* model values: tracks and a query

\* A query with two results, and a queue of both tracks.
Answers == q1 :> <<t1, t2>>
SomeQueues == {<<t1, t2>>}

\* Asked for one of them, the service may play the other.
Answered == t1 :> {t1, t2} @@ t2 :> {t2}
=============================================================================
