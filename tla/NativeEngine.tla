----------------------------- MODULE NativeEngine -----------------------------
(***************************************************************************)
(* The native engine (zerobeat-audio/native/zb_audio_engine.cpp): its       *)
(* control calls, the decode worker, the output callback of the device and  *)
(* the cancellation of a load, which share the state, the ring buffer and a *)
(* few atomics.                                                             *)
(*                                                                         *)
(* Granularity.  Control calls are serialised (control_mutex, and the owner *)
(* of a NativeEngine is unique); `control` is the step a call is at.  What  *)
(* a call does while there is no worker and no callback is one step.  The   *)
(* worker and the callback are a step per access to what they share.        *)
(*                                                                         *)
(* Data.  Audio is counted in units; a stream has Length of them.  Seeking  *)
(* is exact and a known duration is the true one.  The timeouts of the      *)
(* prebuffer may come at any poll.  The generated tone, the filter, the     *)
(* concealment of underruns and the spectrum are left out.                  *)
(***************************************************************************)
EXTENDS Integers

CONSTANTS
  Length,      \* units of the stream
  Capacity,    \* of the ring buffer
  Prebuffer,   \* units the prebuffer waits for
  PrebufferMin, \* units an engine that failed may still play
  MaxCalls,    \* bound on the control calls
  MaxCancels   \* bound on the cancellations

ASSUME EngineAssumption ==
  /\ Length \in Nat \ {0}
  /\ Capacity \in Nat \ {0}
  /\ Prebuffer \in 1 .. Capacity
  /\ PrebufferMin \in 1 .. Prebuffer
  /\ MaxCalls \in Nat
  /\ MaxCancels \in Nat

States == {"idle", "buffering", "ready", "playing", "paused", "ended", "error"}

VARIABLES
  state,
  open,          \* using_ring_buffer, with a source
  ring,          \* units in the ring buffer
  cursor,        \* cursor_frames
  decoded,       \* decoded_frames
  decodeStop, decodeEof, decodeFailed,
  requested,     \* zb_decode_cancel::generation
  taken,         \* decode_cancel_generation
  device,
  control, op,   \* the control call and the step it is at
  wasPlaying,    \* read by a seek
  worker,        \* where the decode worker is: "none" once it is joined
  flushing,      \* it has read the last packet, and empties the decoder
  callback,      \* where the output callback is
  seen,          \* its copy of the cursor
  calls          \* control calls so far

controlVars == <<control, op, wasPlaying, calls>>
streamVars == <<open, decodeStop, requested, taken, device>>
workerVars == <<worker, flushing>>
callbackVars == <<callback, seen>>
vars == <<state, ring, cursor, decoded, decodeEof, decodeFailed, streamVars,
          controlVars, workerVars, callbackVars>>

Init ==
  /\ state = "idle" /\ open = FALSE /\ ring = 0 /\ cursor = 0 /\ decoded = 0
  /\ decodeStop = FALSE /\ decodeEof = FALSE /\ decodeFailed = FALSE
  /\ requested = 0 /\ taken = 0
  /\ device = "none"
  /\ control = "idle" /\ op = "stop" /\ wasPlaying = FALSE /\ calls = 0
  /\ worker = "none" /\ flushing = FALSE
  /\ callback = "idle" /\ seen = 0

\* decode_requested: the worker is told to stop, or its load is cancelled.
Called == decodeStop \/ requested # taken

-----------------------------------------------------------------------------
(* Control calls. *)

Begin(o, step) ==
  /\ control = "idle"
  /\ calls < MaxCalls
  /\ calls' = calls + 1
  /\ op' = o
  /\ control' = step

\* Only a load takes the cancel generation, and before the old worker is joined.
BeginOpen ==
  /\ Begin("open", "halting")
  /\ taken' = requested
  /\ UNCHANGED <<state, open, ring, cursor, decoded, decodeStop, decodeEof,
                 decodeFailed, requested, device, wasPlaying, workerVars,
                 callbackVars>>

BeginStop ==
  /\ Begin("stop", "halting")
  /\ UNCHANGED <<state, ring, cursor, decoded, decodeEof, decodeFailed,
                 streamVars, wasPlaying, workerVars, callbackVars>>

BeginSeek ==
  /\ open
  /\ Begin("seek", "halting")
  /\ wasPlaying' = (state = "playing")
  /\ UNCHANGED <<state, ring, cursor, decoded, decodeEof, decodeFailed,
                 streamVars, workerVars, callbackVars>>

\* The state is looked at before the lock, and not again under it.
BeginPause ==
  /\ state = "playing"
  /\ Begin("pause", "halting")
  /\ UNCHANGED <<state, ring, cursor, decoded, decodeEof, decodeFailed,
                 streamVars, wasPlaying, workerVars, callbackVars>>

\* An engine that failed with enough audio in its buffer may still play it.
Playable ==
  \/ state \in {"ready", "paused"}
  \/ state = "error" /\ decodeFailed /\ open /\ ring >= PrebufferMin

BeginPlay ==
  /\ \/ state = "ended" /\ Begin("restart", "halting")
     \/ Playable /\ Begin("play", "launching")
  /\ UNCHANGED <<state, ring, cursor, decoded, decodeEof, decodeFailed,
                 streamVars, wasPlaying, workerVars, callbackVars>>

\* play called before audio is ready.
PlayRefused ==
  /\ state \in {"idle", "buffering"} \/ (state = "error" /\ ~decodeFailed)
  /\ Begin("play", "idle")
  /\ state' = "error"
  /\ decodeFailed' = TRUE
  /\ UNCHANGED <<ring, cursor, decoded, decodeEof, streamVars, wasPlaying,
                 workerVars, callbackVars>>

\* ma_device_stop: no callback starts from now on.
Halt ==
  /\ control = "halting"
  /\ device' = IF device = "started" THEN "stopped" ELSE device
  /\ control' = "halted"
  /\ UNCHANGED <<state, open, ring, cursor, decoded, decodeStop, decodeEof,
                 decodeFailed, requested, taken, op, wasPlaying, calls,
                 workerVars, callbackVars>>

\* Mutant: the device is told to stop, and its callback not waited for.
HaltedTooEarly ==
  /\ control = "halted"
  /\ IF op = "pause"
     THEN /\ state' = "paused"
          /\ control' = "idle"
          /\ UNCHANGED <<decodeStop, device>>
     ELSE /\ device' = IF op \in {"open", "stop"} THEN "none" ELSE device
          /\ decodeStop' = TRUE
          /\ control' = "joining"
          /\ UNCHANGED state
  /\ UNCHANGED <<open, ring, cursor, decoded, decodeEof, decodeFailed,
                 requested, taken, op, wasPlaying, calls, workerVars,
                 callbackVars>>

\* It returns when the callback has.  A pause is over then; the other calls go
\* on to stop_decode_thread.
Halted ==
  /\ control = "halted"
  /\ callback = "idle"
  /\ IF op = "pause"
     THEN /\ state' = "paused"
          /\ control' = "idle"
          /\ UNCHANGED <<decodeStop, device>>
     ELSE /\ device' = IF op \in {"open", "stop"} THEN "none" ELSE device
          /\ decodeStop' = TRUE
          /\ control' = "joining"
          /\ UNCHANGED state
  /\ UNCHANGED <<open, ring, cursor, decoded, decodeEof, decodeFailed,
                 requested, taken, op, wasPlaying, calls, workerVars,
                 callbackVars>>

Join ==
  /\ control = "joining"
  /\ worker \in {"none", "returned"}
  /\ worker' = "none"
  /\ control' = "resetting"
  /\ UNCHANGED <<state, ring, cursor, decoded, decodeEof, decodeFailed,
                 streamVars, op, wasPlaying, calls, flushing,
                 callbackVars>>

\* The stream from unit t on, before its worker starts.
Rewind(t) ==
  /\ ring' = 0
  /\ cursor' = t
  /\ decoded' = t
  /\ decodeStop' = FALSE
  /\ decodeEof' = FALSE

ResetToIdle ==
  /\ control = "resetting"
  /\ op = "stop"
  /\ Rewind(0)
  /\ decodeFailed' = FALSE
  /\ open' = FALSE
  /\ state' = "idle"
  /\ control' = "idle"
  /\ UNCHANGED <<requested, taken, device, op, wasPlaying, calls, workerVars,
                 callbackVars>>

Targets == IF op = "seek" THEN 0 .. Length ELSE {0}

\* start_decode_worker, after the ring buffer was made anew or emptied.
StartWorker ==
  /\ control = "resetting"
  /\ op # "stop"
  /\ \E t \in Targets : Rewind(t)
  /\ decodeFailed' = FALSE
  /\ open' = TRUE
  /\ state' = "buffering"
  /\ worker' = "reading"
  /\ flushing' = FALSE
  /\ control' = "prebuffering"
  /\ UNCHANGED <<requested, taken, device, op, wasPlaying, calls,
                 callbackVars>>

\* There is no memory for the ring buffer, or no thread.
StartFails ==
  /\ control = "resetting"
  /\ op # "stop"
  /\ \E t \in Targets : Rewind(t)
  /\ decodeFailed' = TRUE
  /\ open' \in IF op = "open" THEN BOOLEAN ELSE {open}
  /\ state' = "error"
  /\ control' = "idle"
  /\ UNCHANGED <<requested, taken, device, op, wasPlaying, calls, workerVars,
                 callbackVars>>

-----------------------------------------------------------------------------
(* A poll of wait_for_prebuffer. *)

Failed == decodeFailed \/ state = "error"

Enough ==
  ring >= (IF Length < Prebuffer THEN Length ELSE Prebuffer) \/ decodeEof

\* Cancelled, or out of time: the worker is joined first.
PollGivesUp ==
  /\ control = "prebuffering"
  /\ decodeStop' = TRUE
  /\ control' = "abandoning"
  /\ UNCHANGED <<state, open, ring, cursor, decoded, decodeEof, decodeFailed,
                 requested, taken, device, op, wasPlaying, calls, workerVars,
                 callbackVars>>

Abandoned ==
  /\ control = "abandoning"
  /\ worker \in {"none", "returned"}
  /\ worker' = "none"
  /\ decodeFailed' = TRUE
  /\ state' = "error"
  /\ control' = "idle"
  /\ UNCHANGED <<ring, cursor, decoded, decodeEof, streamVars, op, wasPlaying,
                 calls, flushing, callbackVars>>

\* The call returns; it is the worker that makes the state "error".
PollFails ==
  /\ control = "prebuffering"
  /\ ~Called /\ Failed
  /\ control' = "idle"
  /\ UNCHANGED <<state, ring, cursor, decoded, decodeEof, decodeFailed,
                 streamVars, op, wasPlaying, calls, workerVars, callbackVars>>

\* Enough is buffered; after a while, anything decoded is enough, or a target
\* that is not the beginning.
PollReturns ==
  /\ control = "prebuffering"
  /\ ~Called /\ ~Failed
  /\ Enough \/ decoded > 0
  /\ control' = "settling"
  /\ UNCHANGED <<state, ring, cursor, decoded, decodeEof, decodeFailed,
                 streamVars, op, wasPlaying, calls, workerVars, callbackVars>>

\* The state is written whatever the worker made of it since the last poll.
Settle ==
  /\ control = "settling"
  /\ \/ /\ op = "open" \/ (op = "seek" /\ ~wasPlaying)
        /\ state' = "ready"
        /\ control' = "idle"
     \/ /\ op = "seek" /\ wasPlaying
        /\ state' = "playing"
        /\ control' = "starting"
     \/ /\ op = "restart"
        /\ control' = "launching"
        /\ UNCHANGED state
  /\ UNCHANGED <<ring, cursor, decoded, decodeEof, decodeFailed, streamVars,
                 op, wasPlaying, calls, workerVars, callbackVars>>

DeviceFails ==
  /\ control = "starting" \/ (control = "launching" /\ device = "none")
  /\ state' = "error"
  /\ decodeFailed' = TRUE
  /\ control' = "idle"
  /\ UNCHANGED <<ring, cursor, decoded, decodeEof, streamVars, op, wasPlaying,
                 calls, workerVars, callbackVars>>

Launch ==
  /\ control = "launching"
  /\ device' = IF device = "none" THEN "stopped" ELSE device
  /\ state' = "playing"
  /\ control' = "starting"
  /\ UNCHANGED <<open, ring, cursor, decoded, decodeStop, decodeEof,
                 decodeFailed, requested, taken, op, wasPlaying, calls,
                 workerVars, callbackVars>>

StartDevice ==
  /\ control = "starting"
  /\ device' = "started"
  /\ control' = "idle"
  /\ UNCHANGED <<state, open, ring, cursor, decoded, decodeStop, decodeEof,
                 decodeFailed, requested, taken, op, wasPlaying, calls,
                 workerVars, callbackVars>>

\* What a call does once it has begun.
Proceed ==
  \/ Halt \/ Halted \/ Join \/ ResetToIdle \/ StartWorker \/ StartFails
  \/ PollGivesUp \/ Abandoned \/ PollFails \/ PollReturns
  \/ Settle \/ DeviceFails \/ Launch \/ StartDevice

Call ==
  BeginOpen \/ BeginStop \/ BeginSeek \/ BeginPause \/ BeginPlay \/ PlayRefused

\* zb_decode_cancel_request, from any thread at any time.
Cancel ==
  /\ requested < MaxCancels
  /\ requested' = requested + 1
  /\ UNCHANGED <<state, open, ring, cursor, decoded, decodeStop, decodeEof,
                 decodeFailed, taken, device, controlVars, workerVars,
                 callbackVars>>

-----------------------------------------------------------------------------
(* The decode worker. *)

workerFrame == <<flushing, cursor, streamVars, controlVars, callbackVars>>

\* The head of the loop over the packets, or of the one over the frames that are
\* left in the decoder.  The second ends as if the stream had.
Ask ==
  /\ worker = "asking"
  /\ worker' = IF ~Called THEN "reading"
               ELSE IF flushing THEN "ending" ELSE "returned"
  /\ UNCHANGED <<state, ring, decoded, decodeEof, decodeFailed, workerFrame>>

\* av_read_frame: a packet, the last one, or an error.  An error is not one when
\* the worker was called meanwhile; some errors of opening do not ask.  Then the
\* decoder: a frame, none, or an error.
Read ==
  /\ worker = "reading"
  /\ \/ decoded < Length /\ worker' = "writing" /\ UNCHANGED flushing
     \/ ~flushing /\ ~Called /\ flushing' = TRUE /\ worker' = "asking"
     \/ flushing /\ decoded = Length /\ worker' = "ending" /\ UNCHANGED flushing
     \/ ~flushing /\ Called /\ worker' = "returned" /\ UNCHANGED flushing
     \/ worker' = "failing" /\ UNCHANGED flushing
  /\ UNCHANGED <<state, ring, decoded, decodeEof, decodeFailed, cursor,
                 streamVars, controlVars, callbackVars>>

\* Mutant: a worker that waits for room in the ring buffer does not look whether
\* it is called.
WriteDeaf ==
  /\ worker = "writing"
  /\ ring < Capacity
  /\ ring' = ring + 1
  /\ worker' = "written"
  /\ UNCHANGED <<state, decoded, decodeEof, decodeFailed, workerFrame>>

\* write_interleaved_to_ring: it waits for room unless it is called.
Write ==
  /\ worker = "writing"
  /\ \/ Called /\ worker' = "asking" /\ UNCHANGED ring
     \/ ~Called /\ ring < Capacity /\ ring' = ring + 1 /\ worker' = "written"
  /\ UNCHANGED <<state, decoded, decodeEof, decodeFailed, workerFrame>>

Count ==
  /\ worker = "written"
  /\ decoded' = decoded + 1
  /\ worker' = "asking"
  /\ UNCHANGED <<state, ring, decodeEof, decodeFailed, workerFrame>>

EndOfStream ==
  /\ worker = "ending"
  /\ decodeEof' = TRUE
  /\ worker' = "returned"
  /\ UNCHANGED <<state, ring, decoded, decodeFailed, workerFrame>>

\* set_error: the flag, a look at the state, one at the ring buffer, the state.
Fail ==
  /\ worker = "failing"
  /\ decodeFailed' = TRUE
  /\ worker' = "looking"
  /\ UNCHANGED <<state, ring, decoded, decodeEof, workerFrame>>

Look ==
  /\ worker = "looking"
  /\ worker' = IF state \in {"playing", "paused"} THEN "weighing"
               ELSE "condemning"
  /\ UNCHANGED <<state, ring, decoded, decodeEof, decodeFailed, workerFrame>>

Weigh ==
  /\ worker = "weighing"
  /\ worker' = IF ring > 0 THEN "returned" ELSE "condemning"
  /\ UNCHANGED <<state, ring, decoded, decodeEof, decodeFailed, workerFrame>>

Condemn ==
  /\ worker = "condemning"
  /\ state' = "error"
  /\ worker' = "returned"
  /\ UNCHANGED <<flushing, ring, decoded, decodeEof, decodeFailed,
                 workerFrame>>

Worker ==
  \/ Ask \/ Read \/ Write \/ Count \/ EndOfStream
  \/ Fail \/ Look \/ Weigh \/ Condemn

-----------------------------------------------------------------------------
(* The output callback. *)

callbackFrame == <<decoded, decodeEof, decodeFailed, streamVars, controlVars,
                   workerVars>>

\* Silence unless the state is "playing".
Render ==
  /\ callback = "idle"
  /\ device = "started"
  /\ state = "playing"
  /\ seen' = cursor
  /\ callback' = "rendering"
  /\ UNCHANGED <<state, ring, cursor, callbackFrame>>

\* Mutant: an empty ring buffer is read too.
ConsumeBlindly ==
  /\ callback = "rendering"
  /\ ring' = ring - 1
  /\ seen' = seen + 1
  /\ callback' = "rendered"
  /\ UNCHANGED <<state, cursor, callbackFrame>>

Consume ==
  /\ callback = "rendering"
  /\ \/ ring > 0 /\ ring' = ring - 1 /\ seen' = seen + 1
     \/ ring = 0 /\ UNCHANGED <<ring, seen>>
  /\ callback' = "rendered"
  /\ UNCHANGED <<state, cursor, callbackFrame>>

StoreCursor ==
  /\ callback = "rendered"
  /\ cursor' = seen
  /\ callback' = "judging"
  /\ UNCHANGED <<state, ring, seen, callbackFrame>>

\* Mutant: an empty ring buffer is the end of the track.
JudgeByRing ==
  /\ callback = "judging"
  /\ callback' = IF ring > 0 THEN "idle"
                 ELSE IF decodeFailed THEN "broken" ELSE "over"
  /\ UNCHANGED <<state, ring, cursor, seen, callbackFrame>>

\* Mutant: only the end of the stream is looked at.
JudgeByEnd ==
  /\ callback = "judging"
  /\ callback' = IF decodeEof /\ ring = 0 THEN "over" ELSE "idle"
  /\ UNCHANGED <<state, ring, cursor, seen, callbackFrame>>

\* The track is over, or its worker has failed, and everything was heard.
Judge ==
  /\ callback = "judging"
  /\ callback' = IF ring > 0 THEN "idle"
                 ELSE IF decodeEof THEN "over"
                 ELSE IF decodeFailed THEN "broken" ELSE "idle"
  /\ UNCHANGED <<state, ring, cursor, seen, callbackFrame>>

StoreState ==
  /\ callback \in {"over", "broken"}
  /\ state' = IF callback = "over" THEN "ended" ELSE "error"
  /\ callback' = "idle"
  /\ UNCHANGED <<ring, cursor, seen, callbackFrame>>

Callback == Render \/ Consume \/ StoreCursor \/ Judge \/ StoreState

-----------------------------------------------------------------------------
Next == Call \/ Proceed \/ Cancel \/ Worker \/ Callback

Spec == Init /\ [][Next]_vars

\* A call runs, HTTP reads time out or are interrupted, so the worker does, and
\* the device calls back while it is started.
FairSpec == Spec /\ WF_vars(Proceed) /\ WF_vars(Worker) /\ WF_vars(Callback)

-----------------------------------------------------------------------------
(* Properties. *)

FlagsOK ==
  /\ open \in BOOLEAN /\ wasPlaying \in BOOLEAN /\ flushing \in BOOLEAN
  /\ decodeStop \in BOOLEAN /\ decodeEof \in BOOLEAN /\ decodeFailed \in BOOLEAN

RangesOK ==
  /\ state \in States
  /\ ring \in 0 .. Capacity
  /\ cursor \in 0 .. Length
  /\ decoded \in 0 .. Length
  /\ requested \in 0 .. MaxCancels
  /\ taken \in 0 .. requested
  /\ device \in {"none", "stopped", "started"}
  /\ control \in {"idle", "halting", "halted", "joining", "resetting",
                  "prebuffering", "abandoning", "settling", "launching",
                  "starting"}
  /\ op \in {"open", "stop", "seek", "pause", "restart", "play"}
  /\ worker \in {"none", "asking", "reading", "writing", "written", "ending",
                 "failing", "looking", "weighing", "condemning", "returned"}
  /\ callback \in {"idle", "rendering", "rendered", "judging", "over", "broken"}
  /\ seen \in 0 .. Length
  /\ calls \in 0 .. MaxCalls

\* Every variable has its type: the ring buffer never holds more than it can, and
\* no position is past the end of the stream.
TypeOK == FlagsOK /\ RangesOK

\* The position that is displayed is that of the unit heard last: nothing that
\* was decoded is lost or heard twice, and no callback of before a seek moves
\* the position after it.
PositionExact ==
  callback = "idle" /\ worker # "written" => cursor + ring = decoded

\* A track ends when all of it was heard, never in an underrun; one whose load
\* was called off while the decoder was emptied may end before.
EndedIsWhole ==
  control = "idle" /\ state = "ended"
    => decodeEof /\ (cursor = Length \/ Called)

\* An engine that no call works on is not left buffering, which the daemon would
\* wait on: the worker that failed is about to say so.
BufferingHasCause ==
  control = "idle" /\ state = "buffering"
    => worker \in {"looking", "condemning"}

\* What the daemon is told between two calls is so: an ended track was heard to
\* its end, and one that buffers is about to go on.
StateIsTrue == EndedIsWhole /\ BufferingHasCause

\* Every control call returns: none waits for a worker that waits for room in
\* the ring buffer, or for a callback that does not come.
CallsReturn == control # "idle" ~> control = "idle"

\* A track that plays does not play silence for ever: it ends, fails or is
\* stopped, unless its decoding was cancelled.
PlayingEnds == state = "playing" ~> state # "playing" \/ requested # taken

-----------------------------------------------------------------------------
(* Why the safety properties hold: what every step keeps. *)

\* Between the stop of the device and its start no callback runs, and the stream
\* is rewound without a worker.
Quiet ==
  control \in {"joining", "resetting", "prebuffering", "abandoning", "settling"}

Alone ==
  /\ control = "halted" \/ Quiet => device # "started"
  /\ Quiet => callback = "idle"
  /\ control = "resetting" => worker = "none"

\* The position as the callback sees it, and the units that were made.
Heard == IF callback \in {"rendering", "rendered"} THEN seen ELSE cursor
Made == IF worker = "written" THEN decoded + 1 ELSE decoded

\* Every unit that was made was heard or is in the ring buffer.
Conserved ==
  /\ Heard + ring = Made
  /\ worker \in {"writing", "written"} => decoded < Length

\* The worker was called, or is about to be.
Interrupted == Called \/ (op = "open" /\ control \in {"halting", "halted"})

\* The end of the stream is where the worker says it is.
EndKnown ==
  /\ worker = "ending" \/ decodeEof => decoded = Length \/ Interrupted
  /\ decodeEof => worker \in {"none", "returned"}

\* The callback ends a track with nothing left to hear.
EndHeard ==
  /\ callback = "over" => decodeEof /\ ring = 0
  /\ state = "ended" => decodeEof /\ ring = 0 /\ callback = "idle"

BufferingEnds ==
  state = "buffering" =>
    /\ decodeFailed => worker \in {"looking", "condemning"}
    /\ \/ control \in {"prebuffering", "abandoning", "settling", "launching"}
       \/ worker \in {"looking", "condemning"}

IInv ==
  /\ TypeOK /\ Alone /\ Conserved /\ EndKnown /\ EndHeard /\ BufferingEnds

=============================================================================
