-------------------------- MODULE NativeEngineProofs --------------------------
(***************************************************************************)
(* Proofs about NativeEngine, for a stream of any length, a ring buffer of  *)
(* any capacity and any number of calls: the inductive invariant IInv,      *)
(* action by action, and what follows from it.                              *)
(***************************************************************************)
EXTENDS NativeEngine, TLAPS

-----------------------------------------------------------------------------
(* The inductive invariant. *)

\* Nothing is open, so nothing is buffered and nothing runs.
LEMMA InitInvariant ==
  ASSUME Init
  PROVE  IInv
<1>1. FlagsOK
  BY DEF Init, FlagsOK
<1>2. RangesOK
  BY EngineAssumption DEF Init, RangesOK, States, EngineAssumption
<1>3. Alone /\ Conserved
  BY DEF Init, Alone, Quiet, Conserved, Heard, Made
<1>4. EndKnown /\ EndHeard /\ BufferingEnds
  BY DEF Init, EndKnown, Interrupted, Called, EndHeard, BufferingEnds
<1> QED BY <1>1, <1>2, <1>3, <1>4 DEF IInv, TypeOK

\* A control call that begins disturbs nothing but what marks its steps.
LEMMA CallsKeep ==
  ASSUME IInv, Call
  PROVE  IInv'
<1>1. CASE BeginOpen
  <2>1. TypeOK' /\ Alone'
    BY <1>1, EngineAssumption DEF IInv, BeginOpen, TypeOK, FlagsOK, RangesOK,
       Alone, Begin, callbackVars, workerVars, Quiet, States, EngineAssumption
  <2>2. Conserved' /\ EndKnown'
    BY <1>1 DEF IInv, BeginOpen, Conserved, EndKnown, Begin, callbackVars,
       workerVars, Heard, Made, Interrupted, Called
  <2>3. EndHeard' /\ BufferingEnds'
    BY <1>1 DEF IInv, BeginOpen, EndHeard, BufferingEnds, Begin, callbackVars,
       workerVars
  <2> QED BY <2>1, <2>2, <2>3 DEF IInv
<1>2. CASE BeginStop
  <2>1. TypeOK' /\ Alone'
    BY <1>2, EngineAssumption DEF IInv, BeginStop, TypeOK, FlagsOK, RangesOK,
       Alone, Begin, streamVars, callbackVars, workerVars, Quiet, States,
       EngineAssumption
  <2>2. Conserved' /\ EndKnown'
    BY <1>2 DEF IInv, BeginStop, Conserved, EndKnown, Begin, streamVars,
       callbackVars, workerVars, Heard, Made, Interrupted, Called
  <2>3. EndHeard' /\ BufferingEnds'
    BY <1>2 DEF IInv, BeginStop, EndHeard, BufferingEnds, Begin, streamVars,
       callbackVars, workerVars
  <2> QED BY <2>1, <2>2, <2>3 DEF IInv
<1>3. CASE BeginSeek
  <2>1. TypeOK' /\ Alone'
    BY <1>3, EngineAssumption DEF IInv, BeginSeek, TypeOK, FlagsOK, RangesOK,
       Alone, Begin, streamVars, callbackVars, workerVars, Quiet, States,
       EngineAssumption
  <2>2. Conserved' /\ EndKnown'
    BY <1>3 DEF IInv, BeginSeek, Conserved, EndKnown, Begin, streamVars,
       callbackVars, workerVars, Heard, Made, Interrupted, Called
  <2>3. EndHeard' /\ BufferingEnds'
    BY <1>3 DEF IInv, BeginSeek, EndHeard, BufferingEnds, Begin, streamVars,
       callbackVars, workerVars
  <2> QED BY <2>1, <2>2, <2>3 DEF IInv
<1>4. CASE BeginPause
  <2>1. TypeOK' /\ Alone'
    BY <1>4, EngineAssumption DEF IInv, BeginPause, TypeOK, FlagsOK, RangesOK,
       Alone, Begin, streamVars, callbackVars, workerVars, Quiet, States,
       EngineAssumption
  <2>2. Conserved' /\ EndKnown'
    BY <1>4 DEF IInv, BeginPause, Conserved, EndKnown, Begin, streamVars,
       callbackVars, workerVars, Heard, Made, Interrupted, Called
  <2>3. EndHeard' /\ BufferingEnds'
    BY <1>4 DEF IInv, BeginPause, EndHeard, BufferingEnds, Begin, streamVars,
       callbackVars, workerVars
  <2> QED BY <2>1, <2>2, <2>3 DEF IInv
<1>5. CASE BeginPlay
  <2>1. TypeOK' /\ Alone'
    BY <1>5, EngineAssumption DEF IInv, BeginPlay, TypeOK, FlagsOK, RangesOK,
       Alone, Begin, Playable, streamVars, callbackVars, workerVars, Quiet,
       States, EngineAssumption
  <2>2. Conserved' /\ EndKnown'
    BY <1>5 DEF IInv, BeginPlay, Conserved, EndKnown, Begin, Playable,
       streamVars, callbackVars, workerVars, Heard, Made, Interrupted, Called
  <2>3. EndHeard' /\ BufferingEnds'
    BY <1>5 DEF IInv, BeginPlay, EndHeard, BufferingEnds, Begin, Playable,
       streamVars, callbackVars, workerVars
  <2> QED BY <2>1, <2>2, <2>3 DEF IInv
<1>6. CASE PlayRefused
  <2>1. TypeOK' /\ Alone'
    BY <1>6, EngineAssumption DEF IInv, PlayRefused, TypeOK, FlagsOK,
       RangesOK, Alone, Begin, streamVars, callbackVars, workerVars, Quiet,
       States, EngineAssumption
  <2>2. Conserved' /\ EndKnown'
    BY <1>6 DEF IInv, PlayRefused, Conserved, EndKnown, Begin, streamVars,
       callbackVars, workerVars, Heard, Made, Interrupted, Called
  <2>3. EndHeard' /\ BufferingEnds'
    BY <1>6 DEF IInv, PlayRefused, EndHeard, BufferingEnds, Begin, streamVars,
       callbackVars, workerVars
  <2> QED BY <2>1, <2>2, <2>3 DEF IInv
<1> QED BY <1>1, <1>2, <1>3, <1>4, <1>5, <1>6 DEF Call

\* The steps of a call: the stream is rewound when the callback and the worker
\* are gone.
LEMMA ProceedKeeps ==
  ASSUME IInv, Proceed
  PROVE  IInv'
<1>1. CASE Halt
  <2>1. TypeOK' /\ Alone'
    BY <1>1 DEF IInv, Halt, TypeOK, FlagsOK, RangesOK, Alone, callbackVars,
       workerVars, Quiet, States
  <2>2. Conserved' /\ EndKnown'
    BY <1>1 DEF IInv, Halt, Conserved, EndKnown, callbackVars, workerVars,
       Heard, Made, Interrupted, Called
  <2>3. EndHeard' /\ BufferingEnds'
    BY <1>1 DEF IInv, Halt, EndHeard, BufferingEnds, callbackVars, workerVars
  <2> QED BY <2>1, <2>2, <2>3 DEF IInv
<1>2. CASE Halted
  <2>1. FlagsOK'
    BY <1>2 DEF IInv, Halted, TypeOK, FlagsOK, callbackVars, workerVars
  <2>2. RangesOK'
    BY <1>2, EngineAssumption DEF IInv, Halted, TypeOK, FlagsOK, RangesOK,
       callbackVars, workerVars, States, EngineAssumption
  <2>3. Alone'
    BY <1>2 DEF IInv, Halted, Alone, callbackVars, workerVars, Quiet
  <2>4. Conserved' /\ EndKnown'
    BY <1>2 DEF IInv, Halted, Conserved, EndKnown, callbackVars, workerVars,
       Heard, Made, Interrupted, Called
  <2>5. EndHeard' /\ BufferingEnds'
    BY <1>2 DEF IInv, Halted, EndHeard, BufferingEnds, callbackVars,
       workerVars
  <2> QED BY <2>1, <2>2, <2>3, <2>4, <2>5 DEF IInv, TypeOK
<1>3. CASE Join
  <2>1. TypeOK' /\ Alone'
    BY <1>3 DEF IInv, Join, TypeOK, FlagsOK, RangesOK, Alone, streamVars,
       callbackVars, Quiet, States
  <2>2. Conserved' /\ EndKnown'
    BY <1>3 DEF IInv, Join, Conserved, EndKnown, streamVars, callbackVars,
       Heard, Made, Interrupted, Called
  <2>3. EndHeard' /\ BufferingEnds'
    BY <1>3 DEF IInv, Join, EndHeard, BufferingEnds, streamVars, callbackVars
  <2> QED BY <2>1, <2>2, <2>3 DEF IInv
<1>4. CASE ResetToIdle
  <2>1. FlagsOK'
    BY <1>4 DEF IInv, ResetToIdle, TypeOK, FlagsOK, Rewind, callbackVars,
       workerVars
  <2>2. RangesOK'
    BY <1>4, EngineAssumption DEF IInv, ResetToIdle, TypeOK, FlagsOK,
       RangesOK, Rewind, callbackVars, workerVars, States, EngineAssumption
  <2>3. Alone'
    BY <1>4 DEF IInv, ResetToIdle, Alone, Rewind, callbackVars, workerVars,
       Quiet
  <2>4. Conserved' /\ EndKnown'
    BY <1>4 DEF IInv, ResetToIdle, Conserved, EndKnown, Alone, Rewind,
       callbackVars, workerVars, Heard, Made, Interrupted, Quiet, Called
  <2>5. EndHeard' /\ BufferingEnds'
    BY <1>4 DEF IInv, ResetToIdle, EndHeard, BufferingEnds, Alone, Rewind,
       callbackVars, workerVars, Quiet
  <2> QED BY <2>1, <2>2, <2>3, <2>4, <2>5 DEF IInv, TypeOK
<1>5. CASE StartWorker
  <2>1. FlagsOK'
    BY <1>5 DEF IInv, StartWorker, TypeOK, FlagsOK, Rewind, callbackVars
  <2>2. RangesOK'
    BY <1>5, EngineAssumption DEF IInv, StartWorker, TypeOK, FlagsOK,
       RangesOK, Rewind, Targets, callbackVars, States, EngineAssumption
  <2>3. Alone'
    BY <1>5 DEF IInv, StartWorker, Alone, Rewind, Targets, callbackVars, Quiet
  <2>4. Conserved' /\ EndKnown'
    BY <1>5 DEF IInv, StartWorker, Conserved, EndKnown, Alone, Rewind,
       Targets, callbackVars, Heard, Made, Interrupted, Quiet, Called
  <2>5. EndHeard' /\ BufferingEnds'
    BY <1>5 DEF IInv, StartWorker, EndHeard, BufferingEnds, Alone, Rewind,
       Targets, callbackVars, Quiet
  <2> QED BY <2>1, <2>2, <2>3, <2>4, <2>5 DEF IInv, TypeOK
<1>6. CASE StartFails
  <2>1. FlagsOK'
    BY <1>6 DEF IInv, StartFails, TypeOK, FlagsOK, Rewind, callbackVars,
       workerVars
  <2>2. RangesOK'
    BY <1>6, EngineAssumption DEF IInv, StartFails, TypeOK, FlagsOK, RangesOK,
       Rewind, Targets, callbackVars, workerVars, States, EngineAssumption
  <2>3. Alone'
    BY <1>6 DEF IInv, StartFails, Alone, Rewind, Targets, callbackVars,
       workerVars, Quiet
  <2>4. Conserved' /\ EndKnown'
    BY <1>6 DEF IInv, StartFails, Conserved, EndKnown, Alone, Rewind, Targets,
       callbackVars, workerVars, Heard, Made, Interrupted, Quiet, Called
  <2>5. EndHeard' /\ BufferingEnds'
    BY <1>6 DEF IInv, StartFails, EndHeard, BufferingEnds, Alone, Rewind,
       Targets, callbackVars, workerVars, Quiet
  <2> QED BY <2>1, <2>2, <2>3, <2>4, <2>5 DEF IInv, TypeOK
<1>7. CASE PollGivesUp
  <2>1. TypeOK' /\ Alone'
    BY <1>7 DEF IInv, PollGivesUp, TypeOK, FlagsOK, RangesOK, Alone,
       callbackVars, workerVars, Quiet, States
  <2>2. Conserved' /\ EndKnown'
    BY <1>7 DEF IInv, PollGivesUp, Conserved, EndKnown, callbackVars,
       workerVars, Heard, Made, Interrupted, Called
  <2>3. EndHeard' /\ BufferingEnds'
    BY <1>7 DEF IInv, PollGivesUp, EndHeard, BufferingEnds, callbackVars,
       workerVars
  <2> QED BY <2>1, <2>2, <2>3 DEF IInv
<1>8. CASE Abandoned
  <2>1. TypeOK' /\ Alone'
    BY <1>8 DEF IInv, Abandoned, TypeOK, FlagsOK, RangesOK, Alone, streamVars,
       callbackVars, Quiet, States
  <2>2. Conserved' /\ EndKnown'
    BY <1>8 DEF IInv, Abandoned, Conserved, EndKnown, streamVars,
       callbackVars, Heard, Made, Interrupted, Called
  <2>3. EndHeard' /\ BufferingEnds'
    BY <1>8 DEF IInv, Abandoned, EndHeard, BufferingEnds, streamVars,
       callbackVars
  <2> QED BY <2>1, <2>2, <2>3 DEF IInv
<1>9. CASE PollFails
  <2>1. TypeOK' /\ Alone'
    BY <1>9 DEF IInv, PollFails, TypeOK, FlagsOK, RangesOK, Alone, Called,
       Failed, streamVars, callbackVars, workerVars, Quiet, States
  <2>2. Conserved' /\ EndKnown'
    BY <1>9 DEF IInv, PollFails, Conserved, EndKnown, Called, Failed,
       streamVars, callbackVars, workerVars, Heard, Made, Interrupted
  <2>3. EndHeard' /\ BufferingEnds'
    BY <1>9 DEF IInv, PollFails, EndHeard, BufferingEnds, Called, Failed,
       streamVars, callbackVars, workerVars
  <2> QED BY <2>1, <2>2, <2>3 DEF IInv
<1>10. CASE PollReturns
  <2>1. TypeOK' /\ Alone'
    BY <1>10 DEF IInv, PollReturns, TypeOK, FlagsOK, RangesOK, Alone, Called,
       Failed, Enough, streamVars, callbackVars, workerVars, Quiet, States
  <2>2. Conserved' /\ EndKnown'
    BY <1>10 DEF IInv, PollReturns, Conserved, EndKnown, Called, Failed,
       Enough, streamVars, callbackVars, workerVars, Heard, Made, Interrupted
  <2>3. EndHeard' /\ BufferingEnds'
    BY <1>10 DEF IInv, PollReturns, EndHeard, BufferingEnds, Called, Failed,
       Enough, streamVars, callbackVars, workerVars
  <2> QED BY <2>1, <2>2, <2>3 DEF IInv
<1>11. CASE Settle
  <2>1. TypeOK' /\ Alone'
    BY <1>11 DEF IInv, Settle, TypeOK, FlagsOK, RangesOK, Alone, streamVars,
       callbackVars, workerVars, Quiet, States
  <2>2. Conserved' /\ EndKnown'
    BY <1>11 DEF IInv, Settle, Conserved, EndKnown, streamVars, callbackVars,
       workerVars, Heard, Made, Interrupted, Called
  <2>3. EndHeard' /\ BufferingEnds'
    BY <1>11 DEF IInv, Settle, EndHeard, BufferingEnds, streamVars,
       callbackVars, workerVars
  <2> QED BY <2>1, <2>2, <2>3 DEF IInv
<1>12. CASE DeviceFails
  <2>1. TypeOK' /\ Alone'
    BY <1>12 DEF IInv, DeviceFails, TypeOK, FlagsOK, RangesOK, Alone,
       streamVars, callbackVars, workerVars, Quiet, States
  <2>2. Conserved' /\ EndKnown'
    BY <1>12 DEF IInv, DeviceFails, Conserved, EndKnown, streamVars,
       callbackVars, workerVars, Heard, Made, Interrupted, Called
  <2>3. EndHeard' /\ BufferingEnds'
    BY <1>12 DEF IInv, DeviceFails, EndHeard, BufferingEnds, streamVars,
       callbackVars, workerVars
  <2> QED BY <2>1, <2>2, <2>3 DEF IInv
<1>13. CASE Launch
  <2>1. TypeOK' /\ Alone'
    BY <1>13 DEF IInv, Launch, TypeOK, FlagsOK, RangesOK, Alone, callbackVars,
       workerVars, Quiet, States
  <2>2. Conserved' /\ EndKnown'
    BY <1>13 DEF IInv, Launch, Conserved, EndKnown, callbackVars, workerVars,
       Heard, Made, Interrupted, Called
  <2>3. EndHeard' /\ BufferingEnds'
    BY <1>13 DEF IInv, Launch, EndHeard, BufferingEnds, callbackVars,
       workerVars
  <2> QED BY <2>1, <2>2, <2>3 DEF IInv
<1>14. CASE StartDevice
  <2>1. TypeOK' /\ Alone'
    BY <1>14 DEF IInv, StartDevice, TypeOK, FlagsOK, RangesOK, Alone,
       callbackVars, workerVars, Quiet, States
  <2>2. Conserved' /\ EndKnown'
    BY <1>14 DEF IInv, StartDevice, Conserved, EndKnown, callbackVars,
       workerVars, Heard, Made, Interrupted, Called
  <2>3. EndHeard' /\ BufferingEnds'
    BY <1>14 DEF IInv, StartDevice, EndHeard, BufferingEnds, callbackVars,
       workerVars
  <2> QED BY <2>1, <2>2, <2>3 DEF IInv
<1> QED BY <1>1, <1>2, <1>3, <1>4, <1>5, <1>6, <1>7, <1>8, <1>9, <1>10, <1>11,
       <1>12, <1>13, <1>14 DEF Proceed

\* The worker fills the ring buffer before it counts, and a worker that fails
\* says so.
LEMMA WorkerKeeps ==
  ASSUME IInv, Worker
  PROVE  IInv'
<1>1. CASE Ask
  <2>1. TypeOK' /\ Alone'
    BY <1>1 DEF IInv, Ask, TypeOK, FlagsOK, RangesOK, Alone, Called,
       workerFrame, Quiet, controlVars, streamVars, callbackVars, States
  <2>2. Conserved' /\ EndKnown'
    BY <1>1 DEF IInv, Ask, Conserved, EndKnown, Called, workerFrame, Heard,
       Made, Interrupted, controlVars, streamVars, callbackVars
  <2>3. EndHeard' /\ BufferingEnds'
    BY <1>1 DEF IInv, Ask, EndHeard, BufferingEnds, Called, workerFrame,
       controlVars, streamVars, callbackVars
  <2> QED BY <2>1, <2>2, <2>3 DEF IInv
<1>2. CASE Read
  <2>1. FlagsOK'
    BY <1>2 DEF IInv, Read, TypeOK, FlagsOK, Called, controlVars, streamVars,
       callbackVars
  <2>2. RangesOK'
    BY <1>2, EngineAssumption DEF IInv, Read, TypeOK, FlagsOK, RangesOK,
       Called, controlVars, streamVars, callbackVars, States, EngineAssumption
  <2>3. Alone'
    BY <1>2 DEF IInv, Read, Alone, Called, controlVars, streamVars,
       callbackVars, Quiet
  <2>4. Conserved' /\ EndKnown'
    BY <1>2 DEF IInv, Read, Conserved, EndKnown, Called, controlVars,
       streamVars, callbackVars, Heard, Made, Interrupted
  <2>5. EndHeard' /\ BufferingEnds'
    BY <1>2 DEF IInv, Read, EndHeard, BufferingEnds, Called, controlVars,
       streamVars, callbackVars
  <2> QED BY <2>1, <2>2, <2>3, <2>4, <2>5 DEF IInv, TypeOK
<1>3. CASE Write
  <2>1. TypeOK' /\ Alone'
    BY <1>3, EngineAssumption DEF IInv, Write, TypeOK, FlagsOK, RangesOK,
       Alone, Called, workerFrame, Quiet, controlVars, streamVars,
       callbackVars, States, EngineAssumption
  <2>2. Conserved' /\ EndKnown'
    BY <1>3 DEF IInv, Write, Conserved, EndKnown, TypeOK, FlagsOK, RangesOK,
       Called, workerFrame, Heard, Made, Interrupted, controlVars, streamVars,
       callbackVars, States
  <2>3. EndHeard' /\ BufferingEnds'
    BY <1>3 DEF IInv, Write, EndHeard, BufferingEnds, EndKnown, Called,
       workerFrame, Interrupted, controlVars, streamVars, callbackVars
  <2> QED BY <2>1, <2>2, <2>3 DEF IInv
<1>4. CASE Count
  <2>1. TypeOK' /\ Alone'
    BY <1>4, EngineAssumption DEF IInv, Count, TypeOK, FlagsOK, RangesOK,
       Alone, Conserved, workerFrame, Quiet, Heard, Made, controlVars,
       streamVars, callbackVars, States, EngineAssumption
  <2>2. Conserved' /\ EndKnown'
    BY <1>4 DEF IInv, Count, Conserved, EndKnown, workerFrame, Heard, Made,
       Interrupted, controlVars, streamVars, callbackVars, Called
  <2>3. EndHeard' /\ BufferingEnds'
    BY <1>4 DEF IInv, Count, EndHeard, BufferingEnds, workerFrame,
       controlVars, streamVars, callbackVars
  <2> QED BY <2>1, <2>2, <2>3 DEF IInv
<1>5. CASE EndOfStream
  <2>1. TypeOK' /\ Alone'
    BY <1>5 DEF IInv, EndOfStream, TypeOK, FlagsOK, RangesOK, Alone,
       workerFrame, Quiet, controlVars, streamVars, callbackVars, States
  <2>2. Conserved' /\ EndKnown'
    BY <1>5 DEF IInv, EndOfStream, Conserved, EndKnown, workerFrame, Heard,
       Made, Interrupted, controlVars, streamVars, callbackVars, Called
  <2>3. EndHeard' /\ BufferingEnds'
    BY <1>5 DEF IInv, EndOfStream, EndHeard, BufferingEnds, workerFrame,
       controlVars, streamVars, callbackVars
  <2> QED BY <2>1, <2>2, <2>3 DEF IInv
<1>6. CASE Fail
  <2>1. TypeOK' /\ Alone'
    BY <1>6 DEF IInv, Fail, TypeOK, FlagsOK, RangesOK, Alone, workerFrame,
       Quiet, controlVars, streamVars, callbackVars, States
  <2>2. Conserved' /\ EndKnown'
    BY <1>6 DEF IInv, Fail, Conserved, EndKnown, workerFrame, Heard, Made,
       Interrupted, controlVars, streamVars, callbackVars, Called
  <2>3. EndHeard' /\ BufferingEnds'
    BY <1>6 DEF IInv, Fail, EndHeard, BufferingEnds, workerFrame, controlVars,
       streamVars, callbackVars
  <2> QED BY <2>1, <2>2, <2>3 DEF IInv
<1>7. CASE Look
  <2>1. TypeOK' /\ Alone'
    BY <1>7 DEF IInv, Look, TypeOK, FlagsOK, RangesOK, Alone, workerFrame,
       Quiet, controlVars, streamVars, callbackVars, States
  <2>2. Conserved' /\ EndKnown'
    BY <1>7 DEF IInv, Look, Conserved, EndKnown, workerFrame, Heard, Made,
       Interrupted, controlVars, streamVars, callbackVars, Called
  <2>3. EndHeard' /\ BufferingEnds'
    BY <1>7 DEF IInv, Look, EndHeard, BufferingEnds, workerFrame, controlVars,
       streamVars, callbackVars
  <2> QED BY <2>1, <2>2, <2>3 DEF IInv
<1>8. CASE Weigh
  <2>1. TypeOK' /\ Alone'
    BY <1>8 DEF IInv, Weigh, TypeOK, FlagsOK, RangesOK, Alone, workerFrame,
       Quiet, controlVars, streamVars, callbackVars, States
  <2>2. Conserved' /\ EndKnown'
    BY <1>8 DEF IInv, Weigh, Conserved, EndKnown, workerFrame, Heard, Made,
       Interrupted, controlVars, streamVars, callbackVars, Called
  <2>3. EndHeard' /\ BufferingEnds'
    BY <1>8 DEF IInv, Weigh, EndHeard, BufferingEnds, workerFrame,
       controlVars, streamVars, callbackVars
  <2> QED BY <2>1, <2>2, <2>3 DEF IInv
<1>9. CASE Condemn
  <2>1. TypeOK' /\ Alone'
    BY <1>9 DEF IInv, Condemn, TypeOK, FlagsOK, RangesOK, Alone, workerFrame,
       Quiet, controlVars, streamVars, callbackVars, States
  <2>2. Conserved' /\ EndKnown'
    BY <1>9 DEF IInv, Condemn, Conserved, EndKnown, workerFrame, Heard, Made,
       Interrupted, controlVars, streamVars, callbackVars, Called
  <2>3. EndHeard' /\ BufferingEnds'
    BY <1>9 DEF IInv, Condemn, EndHeard, BufferingEnds, workerFrame,
       controlVars, streamVars, callbackVars
  <2> QED BY <2>1, <2>2, <2>3 DEF IInv
<1> QED BY <1>1, <1>2, <1>3, <1>4, <1>5, <1>6, <1>7, <1>8, <1>9 DEF Worker

\* The callback stores a position that what it read accounts for, and ends a
\* track that is over.
LEMMA CallbackKeeps ==
  ASSUME IInv, Callback
  PROVE  IInv'
<1>1. CASE Render
  <2>1. TypeOK' /\ Alone'
    BY <1>1 DEF IInv, Render, TypeOK, FlagsOK, RangesOK, Alone, callbackFrame,
       Quiet, controlVars, streamVars, workerVars, States
  <2>2. Conserved' /\ EndKnown'
    BY <1>1 DEF IInv, Render, Conserved, EndKnown, callbackFrame, Heard, Made,
       Interrupted, controlVars, streamVars, workerVars, Called
  <2>3. EndHeard' /\ BufferingEnds'
    BY <1>1 DEF IInv, Render, EndHeard, BufferingEnds, callbackFrame,
       controlVars, streamVars, workerVars
  <2> QED BY <2>1, <2>2, <2>3 DEF IInv
<1>2. CASE Consume
  <2>1. TypeOK' /\ Alone'
    BY <1>2, EngineAssumption DEF IInv, Consume, TypeOK, FlagsOK, RangesOK,
       Alone, Conserved, callbackFrame, Quiet, Heard, Made, controlVars,
       streamVars, workerVars, States, EngineAssumption
  <2>2. Conserved' /\ EndKnown'
    BY <1>2 DEF IInv, Consume, Conserved, EndKnown, TypeOK, FlagsOK, RangesOK,
       callbackFrame, Heard, Made, Interrupted, controlVars, streamVars,
       workerVars, Called, States
  <2>3. EndHeard' /\ BufferingEnds'
    BY <1>2 DEF IInv, Consume, EndHeard, BufferingEnds, callbackFrame,
       controlVars, streamVars, workerVars
  <2> QED BY <2>1, <2>2, <2>3 DEF IInv
<1>3. CASE StoreCursor
  <2>1. TypeOK' /\ Alone'
    BY <1>3 DEF IInv, StoreCursor, TypeOK, FlagsOK, RangesOK, Alone,
       callbackFrame, Quiet, controlVars, streamVars, workerVars, States
  <2>2. Conserved' /\ EndKnown'
    BY <1>3 DEF IInv, StoreCursor, Conserved, EndKnown, callbackFrame, Heard,
       Made, Interrupted, controlVars, streamVars, workerVars, Called
  <2>3. EndHeard' /\ BufferingEnds'
    BY <1>3 DEF IInv, StoreCursor, EndHeard, BufferingEnds, callbackFrame,
       controlVars, streamVars, workerVars
  <2> QED BY <2>1, <2>2, <2>3 DEF IInv
<1>4. CASE Judge
  <2>1. TypeOK' /\ Alone'
    BY <1>4 DEF IInv, Judge, TypeOK, FlagsOK, RangesOK, Alone, callbackFrame,
       Quiet, controlVars, streamVars, workerVars, States
  <2>2. Conserved' /\ EndKnown'
    BY <1>4 DEF IInv, Judge, Conserved, EndKnown, callbackFrame, Heard, Made,
       Interrupted, controlVars, streamVars, workerVars, Called
  <2>3. EndHeard' /\ BufferingEnds'
    BY <1>4 DEF IInv, Judge, EndHeard, BufferingEnds, TypeOK, FlagsOK,
       RangesOK, callbackFrame, controlVars, streamVars, workerVars, States
  <2> QED BY <2>1, <2>2, <2>3 DEF IInv
<1>5. CASE StoreState
  <2>1. TypeOK' /\ Alone'
    BY <1>5 DEF IInv, StoreState, TypeOK, FlagsOK, RangesOK, Alone,
       callbackFrame, Quiet, controlVars, streamVars, workerVars, States
  <2>2. Conserved' /\ EndKnown'
    BY <1>5 DEF IInv, StoreState, Conserved, EndKnown, callbackFrame, Heard,
       Made, Interrupted, controlVars, streamVars, workerVars, Called
  <2>3. EndHeard' /\ BufferingEnds'
    BY <1>5 DEF IInv, StoreState, EndHeard, BufferingEnds, callbackFrame,
       controlVars, streamVars, workerVars
  <2> QED BY <2>1, <2>2, <2>3 DEF IInv
<1> QED BY <1>1, <1>2, <1>3, <1>4, <1>5 DEF Callback

\* A cancellation is only a number that is no longer the one that was taken.
LEMMA CancelKeeps ==
  ASSUME IInv, Cancel
  PROVE  IInv'
<1>1. FlagsOK'
  BY DEF IInv, TypeOK, FlagsOK, Cancel, controlVars, workerVars, callbackVars
<1>2. RangesOK'
  BY EngineAssumption
     DEF IInv, TypeOK, RangesOK, Cancel, controlVars, workerVars, callbackVars,
         EngineAssumption
<1>3. Alone' /\ Conserved'
  BY DEF IInv, Alone, Quiet, Conserved, Heard, Made, Cancel, controlVars,
         workerVars, callbackVars
<1>4. requested' # taken'
  BY EngineAssumption
     DEF IInv, TypeOK, RangesOK, Cancel, EngineAssumption
<1>5. EndKnown'
  BY <1>4
     DEF IInv, EndKnown, Interrupted, Called, Cancel, controlVars, workerVars,
         callbackVars
<1>6. EndHeard' /\ BufferingEnds'
  BY DEF IInv, EndHeard, BufferingEnds, Cancel, controlVars, workerVars,
         callbackVars
<1> QED BY <1>1, <1>2, <1>3, <1>5, <1>6 DEF IInv, TypeOK

\* Every step keeps the invariant.
LEMMA StepInvariant ==
  ASSUME IInv, [Next]_vars
  PROVE  IInv'
<1>1. CASE Next
  BY <1>1, CallsKeep, ProceedKeeps, CancelKeeps, WorkerKeeps, CallbackKeeps
     DEF Next
<1>2. CASE UNCHANGED vars
  BY <1>2
     DEF vars, streamVars, controlVars, workerVars, callbackVars, IInv, TypeOK,
         FlagsOK, RangesOK, Alone, Quiet, Conserved, Heard, Made, EndKnown,
         Interrupted, Called, EndHeard, BufferingEnds
<1> QED BY <1>1, <1>2

\* The invariant holds in every state the engine reaches.
THEOREM Invariance == Spec => []IInv
<1>1. Init => IInv
  BY InitInvariant
<1>2. IInv /\ [Next]_vars => IInv'
  BY StepInvariant
<1> QED BY <1>1, <1>2, PTL DEF Spec

-----------------------------------------------------------------------------
(* What follows. *)

\* The ring buffer never holds more than it can and no position is past the end
\* of the stream, whatever calls, worker and callback do.
THEOREM TypeCorrect == Spec => []TypeOK
<1>1. IInv => TypeOK
  BY DEF IInv
<1> QED BY <1>1, Invariance, PTL

\* The position (zb_engine_get_position_ms) is that of the unit heard last:
\* audio is neither lost nor heard twice, across seeks and restarts too.
THEOREM PositionIsHeard == Spec => []PositionExact
<1>1. IInv => PositionExact
  BY DEF IInv, Conserved, Heard, Made, PositionExact
<1> QED BY <1>1, Invariance, PTL

\* A track that is reported as ended was heard to its end, unless its load was
\* called off: the end that the callback sees is never an underrun.
THEOREM TracksEndWhole == Spec => []EndedIsWhole
<1>1. ASSUME IInv
      PROVE  EndedIsWhole
  <2> SUFFICES ASSUME control = "idle", state = "ended"
               PROVE  decodeEof /\ (cursor = Length \/ Called)
    BY DEF EndedIsWhole
  <2>1. decodeEof /\ ring = 0 /\ callback = "idle"
    BY <1>1 DEF IInv, EndHeard
  <2>2. worker # "written" /\ (decoded = Length \/ Called)
    BY <1>1, <2>1 DEF IInv, EndKnown, Interrupted
  <2>3. cursor = decoded
    BY <1>1, <2>1, <2>2
       DEF IInv, TypeOK, RangesOK, Conserved, Heard, Made
  <2> QED BY <2>1, <2>2, <2>3
<1> QED BY <1>1, Invariance, PTL

\* An engine that no call works on is buffering only for the moment in which its
\* worker, which has failed, is about to say so.
THEOREM BufferingIsExplained == Spec => []BufferingHasCause
<1>1. IInv => BufferingHasCause
  BY DEF IInv, BufferingEnds, BufferingHasCause
<1> QED BY <1>1, Invariance, PTL

\* An ended track was heard, and one that buffers is about to go on.
THEOREM StateHolds == Spec => []StateIsTrue
BY TracksEndWhole, BufferingIsExplained, PTL DEF StateIsTrue
=============================================================================
