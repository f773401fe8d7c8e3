---------------------------- MODULE AudioBackend ----------------------------
(***************************************************************************)
(* What the coordinator relies on of the backend it plays through (the      *)
(* AudioBackend trait, zerobeat-audio/src/backend.rs, as the dual deck      *)
(* carries it out), with no mention of two decks, gains, slots, threads or  *)
(* generations.                                                            *)
(*                                                                         *)
(* There is one deck to look at, the one telemetry, play, pause and seek    *)
(* are about, and a fade towards it, which runs, or is dead: a transition   *)
(* that was taken back has left it without a thread.  A track is heard only *)
(* after it was loaded and played, a pause ends a fade, and only a          *)
(* transition begins one.                                                  *)
(***************************************************************************)

VARIABLES
  mode,  \* what the deck does: stopped, loaded, playing, paused, ended, failed
  fade   \* none, running, dead

vars == <<mode, fade>>

Init == mode = "stopped" /\ fade = "none"

\* Where stop and load leave a deck, and each step on their way.
Fresh == {"stopped", "loaded", "failed"}

\* stop, and load, which stops first: nothing is left of a fade.
Replace ==
  /\ mode' \in Fresh
  /\ fade' = "none"

\* A transition during a fade loads the deck the fade leads to, and its thread
\* ends.
Retake ==
  /\ fade # "none"
  /\ mode' \in Fresh
  /\ fade' = "dead"

\* play: a deck without a track can only fail.
Play ==
  /\ mode' \in IF mode = "stopped" THEN {"failed"} ELSE {"playing", "failed"}
  /\ UNCHANGED fade

\* A transition that was not superseded: its deck, which was started, is the
\* one that is looked at from now on.
FadeIn ==
  /\ \/ fade = "none" /\ mode' \in {"playing", "ended", "failed"}
     \/ fade = "dead" /\ UNCHANGED mode
  /\ fade' = "running"

Pause ==
  /\ mode' = IF mode = "playing" THEN "paused" ELSE mode
  /\ fade' = "none"

\* Only a track that plays goes on playing at another position.
Seek ==
  /\ mode # "stopped"
  /\ mode' \in {IF mode = "playing" THEN "playing" ELSE "loaded", "failed"}
  /\ UNCHANGED fade

FadeEnds ==
  /\ fade = "running"
  /\ fade' = "none"
  /\ UNCHANGED mode

TrackEnds ==
  /\ mode = "playing"
  /\ mode' = "ended"
  /\ UNCHANGED fade

Fails ==
  /\ mode \in {"loaded", "playing", "paused"}
  /\ mode' = "failed"
  /\ UNCHANGED fade

Next ==
  \/ Replace \/ Retake \/ Play \/ FadeIn \/ Pause \/ Seek
  \/ FadeEnds \/ TrackEnds \/ Fails

Spec == Init /\ [][Next]_vars
=============================================================================
