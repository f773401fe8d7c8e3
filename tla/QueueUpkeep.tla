----------------------------- MODULE QueueUpkeep -----------------------------
(***************************************************************************)
(* What the tick of the daemon does for the queue without being asked: it   *)
(* loads more tracks into an endless queue and starts the next track at the *)
(* end of the current one (zerobeat-daemon/src/server.rs).  The service may *)
(* refuse or fail, and the markers decide when it is called again.          *)
(*                                                                         *)
(* A session, its revision and the position in it are one number here: the  *)
(* service raises the revision with every change, as the queue of the       *)
(* daemon's tests does, and a replaced session is a revision that forgets   *)
(* the markers.  The commands about the queue wait for its lock, which a    *)
(* tick holds; a start that is under way, a pause and a seek do not.  How   *)
(* starts interleave is the subject of Playback.                            *)
(***************************************************************************)
EXTENDS Naturals, FiniteSetsExt

CONSTANTS
  None,         \* no marker
  MaxVisible,   \* MAX_VISIBLE_QUEUE
  MaxAttempts,  \* failed calls after which the daemon gives up: 6
  MaxDelay,     \* the longest wait between two calls, in seconds: 8
  MaxUpcoming,  \* bound: tracks behind the current one
  MaxRevision   \* bound: revisions of the queue

ASSUME QueueUpkeepAssumption ==
  /\ MaxVisible \in Nat \ {0} /\ MaxAttempts \in Nat \ {0}
  /\ MaxDelay \in Nat \ {0} /\ MaxUpcoming \in Nat /\ MaxRevision \in Nat \ {0}
  /\ \A n \in 1 .. MaxAttempts : 2 ^ (n - 1) \in Nat

Sounds == {"playing", "near", "ended"}

\* What the markers and a tick remember, each with the revision it is about.
Fulls == [revision : Nat, count : Nat]
Backoffs == [revision : Nat, wait : Nat]
Markers == [revision : Nat, attempts : Nat, terminal : BOOLEAN, wait : Nat]
Ticks == [revision : Nat, sound : Sounds]

ASSUME NoneAssumption ==
  None \notin Fulls \cup Backoffs \cup Markers \cup Ticks

VARIABLES
  service,  \* the service's queue: its revision and the tracks to come
  held,     \* queue_session and queue_endless
  shown,    \* the length of the displayed queue
  pending,  \* pending_transition
  able,     \* the display says Playing, and no error
  sound,    \* the telemetry: the track is playing, near its end, or ended
  full,     \* queue_refill_marker
  backoff,  \* queue_refill_backoff
  marker,   \* auto_advance_marker
  tick,     \* what the tick has read, while one is under way
  moved,    \* history: the track was started or sought during this tick
  fails,    \* history: failed calls for the next track of this queue
  after,    \* history: calls among them from a terminal failure on
  dry       \* history: answers without a new track for this queue

markers == <<full, backoff, marker>>
history == <<fails, after, dry>>
vars == <<service, held, shown, pending, able, sound, markers, tick, moved,
          history>>

Visible(n) == Min({n, MaxVisible})

\* The wait after the n-th failed call in a row.
Delay(n) == Min({2 ^ (n - 1), MaxDelay})

Init ==
  /\ service = [revision |-> 1, upcoming |-> 0]
  /\ held = [revision |-> 1, endless |-> FALSE]
  /\ shown = 0
  /\ pending = FALSE
  /\ able = FALSE
  /\ sound = "playing"
  /\ full = None /\ backoff = None /\ marker = None
  /\ tick = None
  /\ moved = FALSE
  /\ fails = 0 /\ after = 0 /\ dry = 0

\* Another queue: what was counted for the last one is forgotten.
Another == fails' = 0 /\ after' = 0 /\ dry' = 0

\* What the service may make of its queue: tracks change with the revision.
Changed ==
  [revision : service.revision + 1 .. MaxRevision, upcoming : 0 .. MaxUpcoming]

\* clear_queue_refill_markers, clear_auto_advance_marker
Forget == full' = None /\ backoff' = None /\ marker' = None

\* accept_queue_session, of an answer that is not that of a refill.
Accept(s) ==
  /\ service' = s
  /\ held' = [held EXCEPT !.revision = s.revision]
  /\ IF s.revision > held.revision THEN Forget ELSE UNCHANGED markers

----------------------------------------------------------------------------
(* The first half of a tick: more tracks for an endless queue. *)

\* refill_allowed: nothing changed since the service had no more to give.
Blocked == full # None /\ full.revision = held.revision /\ full.count = shown

\* The last call failed a moment ago.
BacksOff ==
  backoff # None /\ backoff.revision = held.revision /\ backoff.wait > 0

WantsRefill == ~pending /\ held.endless /\ shown < MaxVisible

\* record_refill_result
RefillResult(s) ==
  full' = IF Visible(s.upcoming) > shown \/ Visible(s.upcoming) >= MaxVisible
          THEN None
          ELSE [revision |-> s.revision, count |-> Visible(s.upcoming)]

\* load_more_queue succeeds, and its answer is displayed, longer or not.  The
\* markers survive the new revision.
Refilled(s) ==
  /\ service' = s
  /\ held' = [held EXCEPT !.revision = s.revision]
  /\ shown' = Visible(s.upcoming)
  /\ backoff' = IF backoff # None /\ backoff.revision = held.revision
                THEN None ELSE backoff
  /\ RefillResult(s)
  /\ dry' = IF shown' > shown THEN 0 ELSE Min({dry + 1, 2})
  /\ IF s.revision = held.revision THEN UNCHANGED <<fails, after>>
     ELSE fails' = 0 /\ after' = 0

\* record_refill_error; the marker of an earlier failure was just removed.
RefillFailed ==
  /\ full' = None
  /\ backoff' = [revision |-> held.revision, wait |-> Delay(1)]
  /\ UNCHANGED <<service, held, shown, history>>

Refill ==
  /\ tick = None
  /\ tick' = [revision |-> held.revision, sound |-> sound]
  /\ moved' = FALSE
  /\ UNCHANGED <<pending, able, sound, marker>>
  /\ \/ /\ ~WantsRefill \/ Blocked
        /\ UNCHANGED <<service, held, shown, full, backoff, history>>
     \/ /\ WantsRefill /\ ~Blocked /\ BacksOff
        /\ full' = None
        /\ UNCHANGED <<service, held, shown, backoff, history>>
     \/ /\ WantsRefill /\ ~Blocked /\ ~BacksOff
        /\ RefillFailed \/ \E s \in {service} \cup Changed : Refilled(s)

----------------------------------------------------------------------------
(* The second half: the next track.  The telemetry and the revision are     *)
(* those read at the start of the tick, whatever was sought since.           *)

\* For a mutant: nothing is near an end.
ShouldAdvanceEarly == ~pending /\ able /\ (tick.sound = "ended" \/ shown > 0)

ShouldAdvance ==
  /\ ~pending /\ able
  /\ \/ tick.sound = "ended"
     \/ tick.sound = "near" /\ shown > 0

SameQueue == marker # None /\ marker.revision = tick.revision

\* For a mutant: a queue whose call failed is not called for again.
AdvanceAllowedOnce == ~SameQueue

\* auto_advance_allowed
AdvanceAllowed == SameQueue => ~marker.terminal /\ marker.wait = 0

\* For a mutant: failures in a row are not counted.
RecordFirst(terminal) ==
  marker' = [revision |-> tick.revision, attempts |-> 1,
             terminal |-> terminal, wait |-> Delay(1)]

\* record_auto_advance_error
Record(terminal) ==
  LET n == IF SameQueue THEN marker.attempts + 1 ELSE 1 IN
  marker' = [revision |-> tick.revision, attempts |-> n,
             terminal |-> terminal \/ n >= MaxAttempts, wait |-> Delay(n)]

GaveUp ==
  /\ marker # None /\ marker.terminal
  /\ marker.revision = held.revision

\* The next track, or under repeat One the current one again, is being started.
Advanced ==
  /\ \E s \in Changed :
       /\ s.upcoming \in {service.upcoming - 1, service.upcoming}
       /\ Accept(s)
  /\ marker' = None
  /\ pending' = TRUE
  /\ Another
  /\ UNCHANGED able

\* The service fails, or has no other track and answers with the current one,
\* which is terminal and not accepted.
AdvanceFailed ==
  /\ \E terminal \in BOOLEAN :
       /\ Record(terminal)
       /\ \/ UNCHANGED service
          \/ /\ terminal
             /\ service' \in Changed
             /\ service'.upcoming = service.upcoming
       /\ after' = IF after > 0 THEN 2
                   ELSE IF terminal /\ tick.revision = held.revision THEN 1
                   ELSE 0
  /\ fails' = Min({fails + 1, MaxAttempts + 2})
  /\ UNCHANGED <<held, full, backoff, pending, able, dry>>

\* The audio fails, or a command has its lock, when the service has answered:
\* the answer is not looked at, and the service is ahead.
AdvanceInVain ==
  /\ \/ service' \in {service} \cup Changed /\ able' = FALSE
     \/ service' \in Changed /\ able' = able
  /\ UNCHANGED <<held, markers, pending, history>>

EndTick ==
  /\ tick # None
  /\ tick' = None
  /\ moved' = FALSE
  /\ UNCHANGED <<shown, sound>>

Advance ==
  /\ EndTick
  /\ ShouldAdvance /\ AdvanceAllowed
  /\ Advanced \/ AdvanceFailed \/ AdvanceInVain

Rest ==
  /\ EndTick
  /\ ~(ShouldAdvance /\ AdvanceAllowed)
  /\ UNCHANGED <<service, held, markers, pending, able, history>>

----------------------------------------------------------------------------
(* Everything else. *)

\* A track is chosen: start_queue and replace_queue_session.
Play ==
  /\ tick = None
  /\ \E s \in Changed, endless \in BOOLEAN :
       /\ service' = s
       /\ held' = [revision |-> s.revision, endless |-> endless]
  /\ Forget
  /\ pending' = TRUE
  /\ Another
  /\ UNCHANGED <<shown, able, sound, tick, moved>>

\* Next and previous, also during a start.
Skip ==
  /\ tick = None
  /\ \E s \in Changed : Accept(s)
  /\ pending' = TRUE
  /\ Another
  /\ UNCHANGED <<shown, able, sound, tick, moved>>

\* Shuffle, repeat, add, remove and clear; or the service has done it and the
\* answer is lost, which is displayed as an error.
Edit ==
  /\ tick = None /\ ~pending
  /\ \/ /\ \E s \in Changed :
             Accept(s) /\ shown' = Visible(s.upcoming)
        /\ Another
        /\ UNCHANGED able
     \/ /\ service' \in {service} \cup Changed
        /\ able' = FALSE
        /\ UNCHANGED <<held, shown, markers, history>>
  /\ UNCHANGED <<pending, sound, tick, moved>>

\* The track that was started plays, and its queue is displayed.
Started ==
  /\ pending
  /\ pending' = FALSE
  /\ able' = TRUE
  /\ sound' = "playing"
  /\ moved' = (tick # None)
  /\ shown' = Visible(service.upcoming)
  /\ dry' = 0
  /\ UNCHANGED <<service, held, markers, tick, fails, after>>

\* It does not: the error is displayed over the queue as it was.
StartFailed ==
  /\ pending
  /\ pending' = FALSE
  /\ able' = FALSE
  /\ UNCHANGED <<service, held, shown, sound, markers, tick, moved, history>>

\* Pause and resume; the audio may fail, and an error may go.
Toggle ==
  /\ able' = ~able
  /\ UNCHANGED <<service, held, shown, pending, sound, markers, tick, moved,
                 history>>

\* The track plays on, but not while its successor is being loaded.
PlayOn ==
  /\ able
  /\ \/ sound = "playing" /\ sound' \in {"near", "ended"}
     \/ sound = "near" /\ sound' = "ended"
  /\ UNCHANGED <<service, held, shown, pending, able, markers, tick, moved,
                 history>>

\* SeekRelative and seek_to need the audio only, which no tick holds while it
\* waits for the service.  A seek that fails is displayed as an error.
Seek ==
  /\ \/ sound' \in Sounds /\ moved' = (tick # None) /\ able' = able
     \/ able' = FALSE /\ UNCHANGED <<sound, moved>>
  /\ UNCHANGED <<service, held, shown, pending, markers, tick, history>>

Shorter(m) == [m EXCEPT !.wait = IF @ > 0 THEN @ - 1 ELSE 0]

Waiting(m) == m # None /\ m.wait > 0

Second ==
  /\ Waiting(backoff) \/ Waiting(marker)
  /\ backoff' = IF Waiting(backoff) THEN Shorter(backoff) ELSE backoff
  /\ marker' = IF Waiting(marker) THEN Shorter(marker) ELSE marker
  /\ UNCHANGED <<service, held, shown, pending, able, sound, full, tick, moved,
                 history>>

Next ==
  \/ Refill \/ Advance \/ Rest
  \/ Play \/ Skip \/ Edit \/ Started \/ StartFailed \/ Toggle \/ PlayOn
  \/ Seek \/ Second

Spec == Init /\ [][Next]_vars

\* The loop of the daemon ticks, every request to the service has a timeout,
\* and time passes.  A start need not end.
FairSpec ==
  /\ Spec
  /\ WF_vars(Refill) /\ WF_vars(Advance \/ Rest)
  /\ WF_vars(Second)

----------------------------------------------------------------------------
\* A service that fails is not called for ever, whatever else the tick and the
\* clock do: for one queue, MaxAttempts calls for the next track and one more,
\* if it was made in the tick whose refill changed the revision; none after a
\* failure that trying again cannot mend, but for one in such a tick; and once
\* the service had no more tracks to give, no call for more.
CallsAreBounded ==
  /\ fails <= MaxAttempts + 1
  /\ after <= 1
  /\ dry <= 1

\* No track is left by itself before its end is near, except one that was
\* started, or sought back, while the tick that leaves it was under way: that
\* tick acts on what it read of the audio before it waited for the service.
AdvancesAtEnd ==
  [][pending' /\ ~pending /\ tick # None => sound # "playing" \/ moved]_vars

\* A track that has ended is followed by another, or the daemon gives up for
\* this queue, or the user or an error gets in the way.
EndIsActedOn ==
  (sound = "ended" /\ able /\ ~pending) ~>
    (sound # "ended" \/ ~able \/ pending \/ GaveUp)
=============================================================================
