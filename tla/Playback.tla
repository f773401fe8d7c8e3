------------------------------- MODULE Playback -------------------------------
(***************************************************************************)
(* The daemon's PlaybackCoordinator (zerobeat-daemon/src/server.rs): client *)
(* commands, the playback task each accepted request spawns, the blocking   *)
(* audio worker inside that task, and the 250 ms telemetry tick, all        *)
(* interleaved at the points where the code awaits or changes lock.         *)
(*                                                                         *)
(* Granularity.  A critical section of the snapshot mutex `state` has no    *)
(* await inside and is one action.  `queue_mutation` is held across the     *)
(* calls to the music service, so it is the variable `mutation`.  The audio *)
(* mutex is held by a playback task across several backend calls, between   *)
(* which the task rereads the generation, so it is the variable             *)
(* `audioLock`; the other users of it take and release it in one step.      *)
(*                                                                         *)
(* Data.  A track is identified with the request that asked for it: current *)
(* is the request whose track is displayed, 0 when there is none.  A queue  *)
(* session is its id and its revision.  The music service is external: each *)
(* call may fail or answer with any revision, older ones included.          *)
(*                                                                         *)
(* Audio.  The backend is the DualDeck of the native engine.  What is kept   *)
(* of it is the deck that telemetry, seek and `failed` look at (the incoming *)
(* one during a fade, else the active one) and the fade: the fade thread     *)
(* runs, or it is dead because a later transition took its generation and    *)
(* was then abandoned, which leaves the incoming deck in place.  Volumes,    *)
(* which never fail on the native engine, are left out.                      *)
(***************************************************************************)
EXTENDS Integers, FiniteSets

CONSTANTS
  Clients,      \* connected TUI clients, each running one command at a time
  Ticker,       \* the telemetry tick of DaemonServer::run
  Nobody,       \* the holder of a free lock
  Sent,         \* the commands clients send, named by what they await
  MaxRequests,  \* bound on request_id
  MaxRevision   \* bound on the revisions the music service answers with

ASSUME ActorsAssumption ==
  /\ Ticker \notin Clients
  /\ Nobody \notin Clients \cup {Ticker}

ASSUME BoundsAssumption ==
  /\ MaxRequests \in Nat
  /\ MaxRevision \in Nat \ {0}

Requests == 1 .. MaxRequests

NoSession == [id |-> 0, rev |-> 0]
Revisions == 1 .. MaxRevision
Session   == [id : Nat, rev : Nat]

Statuses == {"Idle", "Resolving", "Buffering", "Playing", "Paused", "Failed"}

\* Where a playback task is: not spawned, resolving its stream, waiting for
\* the audio mutex, inside the audio worker, back with an outcome, over.
Stages == {"none", "resolving", "admitted", "loading", "starting",
           "confirming", "finished", "done"}

Starts   == {"replace", "crossfade"}
Outcomes == {"none", "ok", "okFailed", "err", "stale"}
Modes    == {"stopped", "loaded", "playing", "paused", "ended", "failed"}
Fades    == {"none", "running", "dead"}

\* Where a client command is: the awaits a command can be suspended in.
ClientSteps == {"idle", "startingQueue", "skipping", "reporting", "editing",
                "playingIndex", "toggling", "toggled", "toggleFailed"}

TickSteps == {"idle", "failing", "observed", "refilling",
              "deciding", "advancing"}

VARIABLES
  requestId,   \* snapshot.playback.request_id
  generation,  \* the atomic the audio worker compares with its request
  pending,     \* pending_transition: 0, or the request being carried out
  status,      \* snapshot.playback.status
  current,     \* the request whose track is snapshot.playback.current
  error,       \* whether snapshot.playback.error is set
  session,     \* queue_session
  projection,  \* queue_projection, and the queue displayed with it
  mutation,    \* holder of queue_mutation
  audioLock,   \* the request whose task holds the audio mutex, or 0
  audio,       \* what the audio backend is doing, and for which request
  stage,       \* stage of every request's playback task
  start,       \* how the task starts its track (PlaybackStart)
  carried,     \* the queue session the task was spawned with
  outcome,     \* PlaybackRun of the audio worker
  step,        \* where every client is in its command
  read,        \* what the command read before its await: start or status
  tick,        \* where the telemetry tick is
  ended        \* telemetry.ended, as the tick read it

snapshotVars == <<requestId, generation, pending, status, current, error>>
queueVars    == <<session, projection, mutation>>
audioVars    == <<audioLock, audio>>
taskVars     == <<stage, start, carried, outcome>>
clientVars   == <<step, read>>
tickVars     == <<tick, ended>>

vars == <<snapshotVars, queueVars, audioVars, taskVars, clientVars, tickVars>>

-----------------------------------------------------------------------------
(* The daemon adopts the service's active session before it serves anyone. *)
Init ==
  /\ requestId = 0 /\ generation = 0 /\ pending = 0
  /\ status = "Idle" /\ current = 0 /\ error = FALSE
  /\ \/ session = NoSession
     \/ session = [id |-> 1, rev |-> 1]
  /\ projection = session
  /\ mutation = Nobody
  /\ audioLock = 0
  /\ audio = [owner |-> 0, mode |-> "stopped", fade |-> "none"]
  /\ stage   = [r \in Requests |-> "none"]
  /\ start   = [r \in Requests |-> "replace"]
  /\ carried = [r \in Requests |-> NoSession]
  /\ outcome = [r \in Requests |-> "none"]
  /\ step = [c \in Clients |-> "idle"]
  /\ read = [c \in Clients |-> "replace"]
  /\ tick = "idle" /\ ended = FALSE

-----------------------------------------------------------------------------
(* Pieces of the handlers. *)

\* set_playback_error and queue_error_snapshot: a failure is displayed, and
\* becomes the status only when nothing was playing before.
ShowError ==
  /\ error' = TRUE
  /\ status' = IF current = 0 THEN "Failed" ELSE status
  /\ UNCHANGED <<requestId, generation, pending, current>>

\* clear_pending_transition: a compare-exchange, so that a task clears its own
\* request and never a newer one.
ClearPending(r) == pending' = IF pending = r THEN 0 ELSE pending

\* Mutant: any revision is accepted.
AcceptsAny(reply) == TRUE

\* accept_queue_session's test: an older revision than the one held is refused.
\* It also refuses another session than the one held: replies are about the
\* session they were asked for, which is held until start_queue answers.
Accepts(reply) == session = NoSession \/ reply.rev >= session.rev

\* A reply of the service about the session held.
Replies == {[id |-> session.id, rev |-> v] : v \in Revisions}

\* A started track fades over an audible one and replaces anything else.
StartFor(st) == IF st \in {"Playing", "Paused"} THEN "crossfade" ELSE "replace"

\* prepare_track, the session it was accepted with, and spawn_playback.
Launch(how, s) ==
  LET r == requestId + 1 IN
  /\ requestId < MaxRequests
  /\ requestId' = r
  /\ generation' = r
  /\ pending' = r
  /\ error' = IF current = 0 THEN FALSE ELSE error
  /\ status' = IF current = 0 THEN "Resolving" ELSE status
  /\ session' = s
  /\ stage' = [stage EXCEPT ![r] = "resolving"]
  /\ start' = [start EXCEPT ![r] = how]
  /\ carried' = [carried EXCEPT ![r] = s]
  /\ UNCHANGED <<current, projection, outcome>>

\* The command of c answers its client; c held queue_mutation if release.
Answer(c, release) ==
  /\ step' = [step EXCEPT ![c] = "idle"]
  /\ mutation' = IF release THEN Nobody ELSE mutation
  /\ read' = [read EXCEPT ![c] = "replace"]

\* The command of c takes queue_mutation and awaits the service in step s.
Await(c, s, remembered) ==
  /\ s \in Sent
  /\ step[c] = "idle"
  /\ mutation = Nobody
  /\ mutation' = c
  /\ step' = [step EXCEPT ![c] = s]
  /\ read' = [read EXCEPT ![c] = remembered]

-----------------------------------------------------------------------------
(* PlaySelected and PlayTrack. *)

\* Mutant: PlayTrack without queue_mutation.
BeginPlayUnlocked(c) ==
  /\ step[c] = "idle"
  /\ step' = [step EXCEPT ![c] = "startingQueue"]
  /\ read' = [read EXCEPT ![c] = StartFor(status)]
  /\ UNCHANGED <<snapshotVars, queueVars, audioVars, taskVars, tickVars>>

BeginPlay(c) ==
  /\ Await(c, "startingQueue", StartFor(status))
  /\ UNCHANGED <<snapshotVars, session, projection, audioVars, taskVars,
                 tickVars>>

\* start_queue answers with a new session, which replaces the one held.
StartedQueue(c) ==
  /\ step[c] = "startingQueue"
  /\ Launch(read[c], [id |-> session.id + 1, rev |-> 1])
  /\ Answer(c, TRUE)
  /\ UNCHANGED <<audioVars, tickVars>>

\* start_queue fails: Failed is displayed whatever is playing.
StartQueueFails(c) ==
  /\ step[c] = "startingQueue"
  /\ error' = TRUE
  /\ status' = "Failed"
  /\ Answer(c, TRUE)
  /\ UNCHANGED <<requestId, generation, pending, current, session,
                 projection, audioVars, taskVars, tickVars>>

-----------------------------------------------------------------------------
(* NextTrack and PreviousTrack: allowed while a transition is pending. *)

BeginSkip(c) ==
  /\ session # NoSession
  /\ Await(c, "skipping", "replace")
  /\ UNCHANGED <<snapshotVars, session, projection, audioVars, taskVars,
                 tickVars>>

Skipped(c) ==
  /\ step[c] = "skipping"
  /\ \E reply \in Replies :
       /\ Accepts(reply)
       /\ Launch(StartFor(status), reply)
  /\ Answer(c, TRUE)
  /\ UNCHANGED <<audioVars, tickVars>>

\* accept_queue_session refuses an older revision: nothing happens.
SkipRefused(c) ==
  /\ step[c] = "skipping"
  /\ \E reply \in Replies : ~Accepts(reply)
  /\ Answer(c, TRUE)
  /\ UNCHANGED <<snapshotVars, session, projection, audioVars, taskVars,
                 tickVars>>

\* The reply has no current track.
SkipToNothing(c) ==
  /\ step[c] = "skipping"
  /\ ShowError
  /\ Answer(c, TRUE)
  /\ UNCHANGED <<session, projection, audioVars, taskVars, tickVars>>

\* The service refuses the skip: the request in progress is called off, and
\* the error is displayed in a second critical section.
SkipFails(c) ==
  /\ step[c] = "skipping"
  /\ requestId < MaxRequests
  /\ requestId' = requestId + 1
  /\ generation' = requestId + 1
  /\ ClearPending(requestId)
  /\ step' = [step EXCEPT ![c] = "reporting"]
  /\ UNCHANGED <<status, current, error, queueVars, audioVars, taskVars, read,
                 tickVars>>

\* Mutant: the failed skip is not displayed.
SkipFailureSwallowed(c) ==
  /\ step[c] = "reporting"
  /\ Answer(c, TRUE)
  /\ UNCHANGED <<snapshotVars, session, projection, audioVars, taskVars,
                 tickVars>>

ReportSkipFailure(c) ==
  /\ step[c] = "reporting"
  /\ ShowError
  /\ Answer(c, TRUE)
  /\ UNCHANGED <<session, projection, audioVars, taskVars, tickVars>>

-----------------------------------------------------------------------------
(* Queue edits: QueueSelected, QueueTrack, ToggleShuffle, CycleRepeat,      *)
(* ClearQueue, and RemoveQueueIndex, which also needs a fresh projection.   *)
(* The test of pending_transition before the lock and the one under it are  *)
(* RefuseWhilePending, at either moment.                                    *)

RefuseWhilePending(c) ==
  /\ step[c] = "idle"
  /\ pending # 0
  /\ ShowError
  /\ UNCHANGED <<queueVars, audioVars, taskVars, clientVars, tickVars>>

\* Every queue command but PlaySelected and PlayTrack needs a session.
RefuseWithoutSession(c) ==
  /\ step[c] = "idle"
  /\ mutation = Nobody
  /\ session = NoSession
  /\ ShowError
  /\ UNCHANGED <<queueVars, audioVars, taskVars, clientVars, tickVars>>

\* visible_backend_index finds nothing: the projection is of another session
\* or revision, or shorter than the index.
RefuseIndex(c) ==
  /\ step[c] = "idle"
  /\ mutation = Nobody
  /\ session # NoSession
  /\ ShowError
  /\ UNCHANGED <<queueVars, audioVars, taskVars, clientVars, tickVars>>

BeginEdit(c) ==
  /\ pending = 0
  /\ session # NoSession
  /\ Await(c, "editing", "replace")
  /\ UNCHANGED <<snapshotVars, session, projection, audioVars, taskVars,
                 tickVars>>

Edited(c) ==
  /\ step[c] = "editing"
  /\ \E reply \in Replies :
       IF Accepts(reply)
       THEN session' = reply /\ projection' = reply
       ELSE UNCHANGED <<session, projection>>
  /\ Answer(c, TRUE)
  /\ UNCHANGED <<snapshotVars, audioVars, taskVars, tickVars>>

EditFails(c) ==
  /\ step[c] = "editing"
  /\ ShowError
  /\ Answer(c, TRUE)
  /\ UNCHANGED <<session, projection, audioVars, taskVars, tickVars>>

-----------------------------------------------------------------------------
(* PlayQueueIndex: a queue edit that launches a track. *)

BeginPlayIndex(c) ==
  /\ pending = 0
  /\ session # NoSession
  /\ projection = session
  /\ Await(c, "playingIndex", "replace")
  /\ UNCHANGED <<snapshotVars, session, projection, audioVars, taskVars,
                 tickVars>>

PlayedIndex(c) ==
  /\ step[c] = "playingIndex"
  /\ \E reply \in Replies : Accepts(reply) /\ Launch("crossfade", reply)
  /\ Answer(c, TRUE)
  /\ UNCHANGED <<audioVars, tickVars>>

PlayIndexRefused(c) ==
  /\ step[c] = "playingIndex"
  /\ \E reply \in Replies : ~Accepts(reply)
  /\ Answer(c, TRUE)
  /\ UNCHANGED <<snapshotVars, session, projection, audioVars, taskVars,
                 tickVars>>

\* The service refuses, or its reply has no current track.
PlayIndexFails(c) ==
  /\ step[c] = "playingIndex"
  /\ ShowError
  /\ Answer(c, TRUE)
  /\ UNCHANGED <<session, projection, audioVars, taskVars, tickVars>>

-----------------------------------------------------------------------------
(* TogglePlayback reads the status, awaits the audio mutex on a blocking    *)
(* thread, and writes the status that follows from the one it read.         *)

ReadToggle(c) ==
  /\ "toggling" \in Sent
  /\ step[c] = "idle"
  /\ status \in {"Playing", "Paused"}
  /\ step' = [step EXCEPT ![c] = "toggling"]
  /\ read' = [read EXCEPT ![c] = status]
  /\ UNCHANGED <<snapshotVars, queueVars, audioVars, taskVars, tickVars>>

\* pause ends a fade on its incoming deck, and silences it if it is audible.
Paused == [audio EXCEPT !.fade = "none",
                        !.mode = IF @ = "playing" THEN "paused" ELSE @]

\* play starts any deck that was loaded, an ended one from its beginning.
Resumed == [audio EXCEPT !.mode = "playing"]

Broken == [audio EXCEPT !.mode = "failed"]

ToggleAudio(c) ==
  /\ step[c] = "toggling"
  /\ audioLock = 0
  /\ \/ read[c] = "Playing" /\ audio' = Paused
     \/ read[c] = "Paused" /\ audio.mode # "stopped" /\ audio' = Resumed
  /\ step' = [step EXCEPT ![c] = "toggled"]
  /\ UNCHANGED <<snapshotVars, queueVars, audioLock, taskVars, read, tickVars>>

\* A deck that cannot be played is in error from then on, a stopped one too.
ToggleAudioFails(c) ==
  /\ step[c] = "toggling"
  /\ audioLock = 0
  /\ audio' \in IF read[c] = "Paused" THEN {audio, Broken} ELSE {audio}
  /\ step' = [step EXCEPT ![c] = "toggleFailed"]
  /\ UNCHANGED <<snapshotVars, queueVars, audioLock, taskVars, read, tickVars>>

Toggled(c) ==
  /\ step[c] = "toggled"
  /\ status' = IF read[c] = "Playing" THEN "Paused" ELSE "Playing"
  /\ Answer(c, FALSE)
  /\ UNCHANGED <<requestId, generation, pending, current, error, session,
                 projection, audioVars, taskVars, tickVars>>

ToggleFailed(c) ==
  /\ step[c] = "toggleFailed"
  /\ ShowError
  /\ Answer(c, FALSE)
  /\ UNCHANGED <<session, projection, audioVars, taskVars, tickVars>>

\* SeekTo and SeekRelative restart the decoder: only a playing deck goes on
\* playing, any other that was loaded is ready again.
Sought ==
  CASE audio.mode = "stopped" -> {audio}
    [] audio.mode = "playing" -> {audio, Broken}
    [] OTHER -> {[audio EXCEPT !.mode = "loaded"], Broken}

Seek(c) ==
  /\ "seeking" \in Sent
  /\ step[c] = "idle"
  /\ audioLock = 0
  /\ audio' \in Sought
  /\ UNCHANGED <<snapshotVars, queueVars, audioLock, taskVars, clientVars,
                 tickVars>>

\* SeekTo, SeekRelative, SetVolume and ToggleMute display their failure.
AdjustFails(c) ==
  /\ step[c] = "idle"
  /\ audioLock = 0
  /\ ShowError
  /\ UNCHANGED <<queueVars, audioVars, taskVars, clientVars, tickVars>>

\* ToggleLike, DownloadTrack and SetCrossfadeSeconds touch the playback only
\* when the database fails, and then its error alone.
StorageFails(c) ==
  /\ step[c] = "idle"
  /\ error' = TRUE
  /\ UNCHANGED <<requestId, generation, pending, status, current, queueVars,
                 audioVars, taskVars, clientVars, tickVars>>

Client(c) ==
  \/ BeginPlay(c) \/ StartedQueue(c) \/ StartQueueFails(c)
  \/ BeginSkip(c) \/ Skipped(c) \/ SkipRefused(c)
  \/ SkipToNothing(c) \/ SkipFails(c) \/ ReportSkipFailure(c)
  \/ RefuseWhilePending(c) \/ RefuseWithoutSession(c) \/ RefuseIndex(c)
  \/ BeginEdit(c) \/ Edited(c) \/ EditFails(c)
  \/ BeginPlayIndex(c) \/ PlayedIndex(c) \/ PlayIndexRefused(c)
  \/ PlayIndexFails(c)
  \/ ReadToggle(c) \/ ToggleAudio(c) \/ ToggleAudioFails(c) \/ Toggled(c)
  \/ ToggleFailed(c) \/ Seek(c) \/ AdjustFails(c) \/ StorageFails(c)

-----------------------------------------------------------------------------
(* The playback task of request r. *)

\* The task returns; what it carried goes with it.
Retire(r) ==
  /\ stage' = [stage EXCEPT ![r] = "done"]
  /\ start' = [start EXCEPT ![r] = "replace"]
  /\ carried' = [carried EXCEPT ![r] = NoSession]
  /\ outcome' = [outcome EXCEPT ![r] = "none"]

\* The task ends without a trace: its request is no longer the newest, or its
\* worker found the generation changed.
Superseded(r) ==
  /\ requestId # r \/ outcome[r] = "stale"
  /\ ClearPending(r)
  /\ Retire(r)
  /\ UNCHANGED <<requestId, generation, status, current, error, projection>>

\* Mutant: a failed request stays pending.
FailRequestStaysPending(r) ==
  /\ requestId = r
  /\ error' = TRUE
  /\ status' = IF current = 0 THEN "Failed" ELSE status
  /\ Retire(r)
  /\ UNCHANGED <<requestId, generation, pending, current, projection>>

\* Mutant: a failed request is not displayed.
FailRequestSilently(r) ==
  /\ requestId = r
  /\ ClearPending(r)
  /\ Retire(r)
  /\ UNCHANGED <<requestId, generation, status, current, error, projection>>

\* finish_playback_error, and the commit of a failed start.
FailRequest(r) ==
  /\ requestId = r
  /\ ClearPending(r)
  /\ error' = TRUE
  /\ status' = IF current = 0 THEN "Failed" ELSE status
  /\ Retire(r)
  /\ UNCHANGED <<requestId, generation, current, projection>>

\* The stream is resolved (or local); only the newest request goes on.
Resolved(r) ==
  /\ stage[r] = "resolving"
  /\ \/ Superseded(r)
     \/ /\ requestId = r
        /\ status' = IF current = 0 THEN "Buffering" ELSE status
        /\ stage' = [stage EXCEPT ![r] = "admitted"]
        /\ UNCHANGED <<requestId, generation, pending, current, error,
                       projection, start, carried, outcome>>
  /\ UNCHANGED <<session, mutation, audioVars, clientVars, tickVars>>

\* finish_playback_error does nothing at all for a superseded request.
ResolveFails(r) ==
  /\ stage[r] = "resolving"
  /\ \/ FailRequest(r)
     \/ /\ requestId # r
        /\ Retire(r)
        /\ UNCHANGED <<snapshotVars, projection>>
  /\ UNCHANGED <<session, mutation, audioVars, clientVars, tickVars>>

\* The audio worker of r gives the audio mutex back with outcome o.
Return(r, o) ==
  /\ audioLock' = 0
  /\ outcome' = [outcome EXCEPT ![r] = o]
  /\ stage' = [stage EXCEPT ![r] = "finished"]

\* Mutant: the closure compares nothing.
AlwaysContinue(r) == TRUE

\* The worker's test that its request has not been superseded.
ShouldContinue(r) == generation = r

\* The worker gets the audio mutex; a superseded one gives it back untouched.
Admit(r) ==
  /\ stage[r] = "admitted"
  /\ audioLock = 0
  /\ \/ /\ ~ShouldContinue(r)
        /\ Return(r, "stale")
     \/ /\ ShouldContinue(r)
        /\ audioLock' = r
        /\ stage' = [stage EXCEPT ![r] = "loading"]
        /\ UNCHANGED outcome
  /\ UNCHANGED <<snapshotVars, queueVars, audio, start, carried, clientVars,
                 tickVars>>

\* Whether the start of r takes the deck that is looked at.  A replacement
\* does.  A crossfade takes the other deck, unless a fade has not ended: then
\* it takes the incoming deck again, and the fade is dead.
TakesDeck(r) == start[r] = "replace" \/ audio.fade # "none"

Deck(r, m) ==
  [owner |-> r, mode |-> m,
   fade |-> IF start[r] = "replace" THEN "none" ELSE "dead"]

\* The deck is stopped and loaded.  Superseded requests return before either.
Load(r) ==
  /\ stage[r] = "loading"
  /\ \/ /\ ~ShouldContinue(r)
        /\ Return(r, "ok")
        /\ UNCHANGED audio
     \/ /\ ShouldContinue(r)
        /\ audio' = IF TakesDeck(r) THEN Deck(r, "loaded") ELSE audio
        /\ stage' = [stage EXCEPT ![r] = "starting"]
        /\ UNCHANGED <<audioLock, outcome>>
     \/ /\ ShouldContinue(r)
        /\ audio' \in IF TakesDeck(r)
                      THEN {Deck(r, "stopped"), Deck(r, "failed")} ELSE {audio}
        /\ Return(r, "err")
  /\ UNCHANGED <<snapshotVars, queueVars, start, carried, clientVars, tickVars>>

\* A superseded request stops what it loaded, and its worker has succeeded.
StopAndReturn(r) ==
  /\ ~ShouldContinue(r)
  /\ audio' = IF TakesDeck(r) THEN [audio EXCEPT !.mode = "stopped"] ELSE audio
  /\ Return(r, "ok")

Play(r) ==
  /\ stage[r] = "starting"
  /\ \/ StopAndReturn(r)
     \/ /\ ShouldContinue(r)
        /\ audio' = IF TakesDeck(r) THEN [audio EXCEPT !.mode = "playing"]
                    ELSE audio
        /\ stage' = [stage EXCEPT ![r] = "confirming"]
        /\ UNCHANGED <<audioLock, outcome>>
     \/ /\ ShouldContinue(r)
        /\ Return(r, "err")
        /\ UNCHANGED audio
  /\ UNCHANGED <<snapshotVars, queueVars, start, carried, clientVars, tickVars>>

\* The deck of r, the moment its fade begins.
FadingIn(r) ==
  IF TakesDeck(r) THEN {[audio EXCEPT !.fade = "running"]}
  ELSE [owner : {r}, mode : {"playing", "ended", "failed"}, fade : {"running"}]

\* The last look at the generation.  After it the new track is what is heard or
\* fades in, and the worker reads whether it has already failed before it gives
\* the mutex back.
Confirm(r) ==
  /\ stage[r] = "confirming"
  /\ \/ StopAndReturn(r)
     \/ /\ ShouldContinue(r)
        /\ audio' \in IF start[r] = "replace" THEN {audio} ELSE FadingIn(r)
        /\ Return(r, IF audio'.mode = "failed" THEN "okFailed" ELSE "ok")
  /\ UNCHANGED <<snapshotVars, queueVars, start, carried, clientVars, tickVars>>

\* Mutant: the commit does not compare request_id.
CommitUnguarded(r) ==
  /\ outcome[r] \in {"ok", "okFailed"}
  /\ projection' = carried[r]
  /\ current' = r
  /\ status' = "Playing"
  /\ error' = FALSE
  /\ ClearPending(r)
  /\ Retire(r)
  /\ UNCHANGED <<requestId, generation>>

\* Mutant: the queue of the request is not displayed.
CommitWithoutProjection(r) ==
  /\ requestId = r
  /\ outcome[r] \in {"ok", "okFailed"}
  /\ current' = r
  /\ status' = "Playing"
  /\ error' = FALSE
  /\ ClearPending(r)
  /\ Retire(r)
  /\ UNCHANGED <<requestId, generation, projection>>

\* commit_playback_success: the queue of the request and its track are
\* displayed together.
CommitSuccess(r) ==
  /\ requestId = r
  /\ outcome[r] \in {"ok", "okFailed"}
  /\ projection' = carried[r]
  /\ current' = r
  /\ status' = IF outcome[r] = "ok" THEN "Playing" ELSE "Failed"
  /\ error' = (outcome[r] = "okFailed")
  /\ ClearPending(r)
  /\ Retire(r)
  /\ UNCHANGED <<requestId, generation>>

CommitFailure(r) ==
  /\ outcome[r] = "err"
  /\ FailRequest(r)

Commit(r) ==
  /\ stage[r] = "finished"
  /\ Superseded(r) \/ CommitSuccess(r) \/ CommitFailure(r)
  /\ UNCHANGED <<session, mutation, audioVars, clientVars, tickVars>>

Task(r) ==
  \/ Resolved(r) \/ ResolveFails(r) \/ Admit(r)
  \/ Load(r) \/ Play(r) \/ Confirm(r) \/ Commit(r)

-----------------------------------------------------------------------------
(* refresh_playback_telemetry, the tick.  Refill and auto-advance markers    *)
(* and backoffs, the length of the queue and the position in the track are   *)
(* abstracted to a choice: each only withholds a call.                       *)

\* try_lock of the audio mutex: the tick is skipped when it is held.
ObserveAudio ==
  /\ tick = "idle"
  /\ audioLock = 0
  /\ tick' = IF audio.mode = "failed" THEN "failing" ELSE "observed"
  /\ ended' = (audio.mode = "ended")
  /\ UNCHANGED <<snapshotVars, queueVars, audioVars, taskVars, clientVars>>

\* commit_playback_observation of a failed backend.
CommitAudioFailure ==
  /\ tick = "failing"
  /\ IF status \in {"Playing", "Paused"}
     THEN status' = "Failed" /\ error' = TRUE
     ELSE UNCHANGED <<status, error>>
  /\ tick' = "idle"
  /\ UNCHANGED <<requestId, generation, pending, current, queueVars, audioVars,
                 taskVars, clientVars, ended>>

\* try_lock of queue_mutation; the tick is skipped when it is held, and without
\* a session there is only telemetry to write.  An endless queue that runs short
\* is refilled, but not during a transition.
LockQueue ==
  /\ tick = "observed"
  /\ \/ /\ mutation = Nobody
        /\ session # NoSession
        /\ mutation' = Ticker
        /\ \/ tick' = "deciding"
           \/ pending = 0 /\ tick' = "refilling"
        /\ UNCHANGED ended
     \/ /\ mutation # Nobody \/ session = NoSession
        /\ tick' = "idle"
        /\ ended' = FALSE
        /\ UNCHANGED mutation
  /\ UNCHANGED <<snapshotVars, session, projection, audioVars, taskVars,
                 clientVars>>

\* load_more_queue answers, with a session that may be refused, or fails.
Refilled ==
  /\ tick = "refilling"
  /\ \/ \E reply \in Replies :
          Accepts(reply) /\ session' = reply /\ projection' = reply
     \/ UNCHANGED <<session, projection>>
  /\ tick' = "deciding"
  /\ UNCHANGED <<snapshotVars, mutation, audioVars, taskVars, clientVars, ended>>

\* audio_failure_pending: a held mutex counts as a failure.
AudioFailurePending == audioLock # 0 \/ audio.mode = "failed"

EndTick ==
  /\ tick' = "idle"
  /\ mutation' = Nobody
  /\ ended' = FALSE

\* What the tick requires before it looks for the end of the track, reached or
\* within the crossfade: no failure, no transition, a track playing.
MayAdvance ==
  /\ ~AudioFailurePending
  /\ pending = 0
  /\ status = "Playing"
  /\ ~error

DecideAdvance ==
  /\ tick = "deciding"
  /\ MayAdvance
  /\ tick' = "advancing"
  /\ UNCHANGED <<snapshotVars, queueVars, audioVars, taskVars, clientVars, ended>>

DecideNothing ==
  /\ tick = "deciding"
  /\ EndTick
  /\ UNCHANGED <<snapshotVars, session, projection, audioVars, taskVars,
                 clientVars>>

\* next_queue answers with the next track.
AutoAdvance ==
  /\ tick = "advancing"
  /\ ~AudioFailurePending
  /\ \E reply \in Replies :
       /\ Accepts(reply)
       /\ Launch(IF ended THEN "replace" ELSE "crossfade", reply)
  /\ EndTick
  /\ UNCHANGED <<audioVars, clientVars>>

\* next_queue fails, is refused, stays at the tail of the queue, or answers
\* when the audio has failed: the session held is not touched.
AdvanceNowhere ==
  /\ tick = "advancing"
  /\ EndTick
  /\ UNCHANGED <<snapshotVars, session, projection, audioVars, taskVars,
                 clientVars>>

Tick ==
  \/ ObserveAudio \/ CommitAudioFailure \/ LockQueue
  \/ Refilled \/ DecideAdvance \/ DecideNothing \/ AutoAdvance
  \/ AdvanceNowhere

-----------------------------------------------------------------------------
(* The audio backend on its own: fades and tracks end, and engines fail. *)

\* The fade thread stops the outgoing deck; the incoming one is now active.
FadeEnds ==
  /\ audio.fade = "running"
  /\ audio' = [audio EXCEPT !.fade = "none"]
  /\ UNCHANGED <<snapshotVars, queueVars, audioLock, taskVars, clientVars,
                 tickVars>>

AudioEnds ==
  /\ audio.mode = "playing"
  /\ audio' = [audio EXCEPT !.mode = "ended"]
  /\ UNCHANGED <<snapshotVars, queueVars, audioLock, taskVars, clientVars,
                 tickVars>>

AudioFails ==
  /\ audio.mode \in {"loaded", "playing", "paused"}
  /\ audio' = [audio EXCEPT !.mode = "failed"]
  /\ UNCHANGED <<snapshotVars, queueVars, audioLock, taskVars, clientVars,
                 tickVars>>

Next ==
  \/ \E c \in Clients : Client(c)
  \/ \E r \in Requests : Task(r)
  \/ Tick
  \/ FadeEnds \/ AudioEnds \/ AudioFails

Spec == Init /\ [][Next]_vars

\* What the task of r does once its stream is resolved.
Works(r) == stage[r] # "resolving" /\ Task(r)

\* A spawned task is polled by the runtime until it returns, and its blocking
\* section gets a thread.  The resolution of its stream need not return: it may
\* have joined a flight that was over (StreamCache).  A handler that has its
\* answer from the service runs to its end.  Clients, the service and the audio
\* engine owe nothing.
Fairness ==
  /\ \A r \in Requests : WF_vars(Works(r))
  /\ \A c \in Clients : WF_vars(ReportSkipFailure(c))

FairSpec == Spec /\ Fairness

-----------------------------------------------------------------------------
(* Properties. *)

SnapshotTypes ==
  /\ requestId \in 0 .. MaxRequests
  /\ generation \in 0 .. MaxRequests
  /\ pending \in 0 .. MaxRequests
  /\ status \in Statuses
  /\ current \in 0 .. MaxRequests
  /\ error \in BOOLEAN

QueueTypes ==
  /\ session \in Session
  /\ projection \in Session
  /\ mutation \in Clients \cup {Ticker, Nobody}

AudioTypes ==
  /\ audioLock \in 0 .. MaxRequests
  /\ audio \in [owner : 0 .. MaxRequests, mode : Modes, fade : Fades]

TaskTypes ==
  /\ stage \in [Requests -> Stages]
  /\ start \in [Requests -> Starts]
  /\ carried \in [Requests -> Session]
  /\ outcome \in [Requests -> Outcomes]

Toggling == {"toggling", "toggled", "toggleFailed"}

ClientTypes ==
  /\ step \in [Clients -> ClientSteps]
  /\ read \in [Clients -> Starts \cup {"Playing", "Paused"}]
  /\ \A c \in Clients : read[c] \in IF step[c] \in Toggling
                                    THEN {"Playing", "Paused"} ELSE Starts

TickTypes ==
  /\ tick \in TickSteps
  /\ ended \in BOOLEAN

\* Every variable has its type.
TypeOK ==
  /\ SnapshotTypes /\ QueueTypes /\ AudioTypes
  /\ TaskTypes /\ ClientTypes /\ TickTypes

Live(r) == r \in Requests /\ stage[r] \notin {"none", "done"}

\* A transition that is pending is the newest request and somebody is still
\* carrying it out.  A pending transition nobody works on would refuse every
\* queue command, refill and auto-advance from then on.
PendingHasWorker == pending # 0 => pending = requestId /\ Live(pending)

\* Nothing that edits the queue is under way while a transition is pending:
\* the test of pending_transition under queue_mutation still holds when the
\* service answers, seconds later, because only holders of queue_mutation
\* launch a request.
EditsExcludeTransitions ==
  pending # 0 =>
    /\ \A c \in Clients : step[c] \notin {"editing", "playingIndex"}
    /\ tick \notin {"refilling", "advancing"}

\* The newest request, while it is carried out, carries the session the
\* daemon holds: what its commit displays is the queue later commands act on.
NewestCarriesSession == Live(requestId) => carried[requestId] = session

\* The session belongs to the transition while there is one: no edit overlaps
\* it, and its commit displays the queue that later commands act on.
TransitionsOwnSession == EditsExcludeTransitions /\ NewestCarriesSession

\* The queue displayed is the one held, or the reason is visible: a transition
\* is pending, an error is displayed or about to be.
StaleQueueIsExplained ==
  projection # session =>
    \/ pending # 0
    \/ error
    \/ \E c \in Clients : step[c] = "reporting"

\* The displayed track was loaded by the audio backend, and what the backend
\* holds instead of it was asked for later.
ShownWasLoaded == current <= audio.owner

\* When the backend holds another track than the one displayed, the request
\* for it is still being carried out, or was overtaken, or its failure is
\* displayed.
AudioAheadIsExplained ==
  audio.owner # current =>
    Live(audio.owner) \/ audio.owner < requestId \/ error

\* Display and audio name one track, or the audio is ahead for a reason.
DisplayMatchesAudio == ShownWasLoaded /\ AudioAheadIsExplained

\* The backend never returns to the track of an older request: a worker of a
\* superseded request may stop the audio but not start its own track.
AudioNeverGoesBack == [][audio.owner' >= audio.owner]_vars

\* The queue on display never falls back to an older revision of its session.
ProjectionNeverRegresses ==
  [][projection'.id = projection.id => projection'.rev >= projection.rev]_vars

\* The coordinator is the request protocol of LatestRequest: a superseded or
\* called-off request is never displayed, and each settles once.
Latest == INSTANCE LatestRequest
            WITH issued <- requestId, open <- pending, shown <- current
ImplementsLatestRequest == Latest!Spec

\* All that happens to the audio is what the backend promises: the coordinator
\* assumes nothing of the deck it looks at that the dual deck does not do.
Backend == INSTANCE AudioBackend WITH mode <- audio.mode, fade <- audio.fade
AudioIsTheBackends == Backend!Spec

\* A transition whose stream was resolved ends, whatever overtakes it, and
\* however long an older one goes on resolving.
TransitionsSettle ==
  \A r \in Requests :
    (pending = r /\ stage[r] # "resolving") ~> pending # r

\* Before the first track, the display does not stay at Resolving or Buffering
\* but for a stream that is being resolved.
Waiting == status \in {"Resolving", "Buffering"}
Resolving == pending # 0 /\ stage[pending] = "resolving"
WaitingEnds == (Waiting /\ ~Resolving) ~> (~Waiting \/ Resolving)

\* Neither a transition nor a display that waits for one goes on for ever, but
\* for a stream that is never resolved.
NobodyWaitsForever == TransitionsSettle /\ WaitingEnds

-----------------------------------------------------------------------------
(* Why the safety properties hold: what every step keeps. *)

\* Who holds queue_mutation, and why nobody else can be in those steps.
Holding     == {"startingQueue", "skipping", "reporting", "editing",
                "playingIndex"}
TickHolding == {"refilling", "deciding", "advancing"}

HoldersHold ==
  /\ \A c \in Clients : step[c] \in Holding => mutation = c
  /\ tick \in TickHolding => mutation = Ticker

\* pending_transition is the newest request exactly while its task is alive;
\* the atomic and the snapshot agree; a stale worker is a superseded one.
RequestsCoherent ==
  /\ generation = requestId
  /\ pending = IF Live(requestId) THEN requestId ELSE 0
  /\ \A r \in Requests : r > requestId => stage[r] = "none"
  /\ \A r \in Requests : outcome[r] = "stale" => r < requestId

\* The queue on display is the one held or an older one.
ProjectionBehind ==
  /\ projection.id <= session.id
  /\ projection.id = session.id => projection.rev <= session.rev

\* The newest request, once it has taken the deck and not failed, owns it.
NewestOwnsDeck ==
  /\ audio.owner <= requestId
  /\ \A r \in Requests :
       r = requestId =>
         /\ stage[r] \in {"starting", "confirming"} /\ TakesDeck(r)
              => audio.owner = r
         /\ stage[r] = "finished" /\ outcome[r] \in {"ok", "okFailed"}
              => audio.owner = r

\* The worker that loads or starts a track holds the audio mutex, so it finds
\* the deck as it left it: a replacement no fade, a crossfade none that runs,
\* and a track on the deck it has taken.
WorkersHoldAudio ==
  \A r \in Requests :
    stage[r] \in {"loading", "starting", "confirming"} => audioLock = r

DeckAsLeft ==
  \A r \in Requests :
    stage[r] \in {"starting", "confirming"} =>
      /\ audio.fade \in IF start[r] = "replace" THEN {"none"}
                        ELSE {"none", "dead"}
      /\ TakesDeck(r) => audio.mode # "stopped"

=============================================================================
