---------------------------- MODULE PlaybackProofs ----------------------------
(***************************************************************************)
(* Proofs about the playback coordinator, for any set of clients and any    *)
(* bounds on requests and revisions.                                        *)
(*                                                                         *)
(* The argument.  Only three kinds of step touch the request variables: a   *)
(* launch, a withdrawal, and a step of a playback task (RequestSteps), and  *)
(* a task either moves on or retires and clears pending_transition if that  *)
(* is still its own (TaskMoves).  So pending_transition is the newest       *)
(* request exactly while its task is alive (RequestsCoherent).  Since only  *)
(* a holder of queue_mutation launches, and editors look at                 *)
(* pending_transition once they hold it, no edit overlaps a transition      *)
(* (LocksNext), and so the session held is the one the newest request was   *)
(* launched with (NewestCarriesNext): its commit displays the queue that is *)
(* held, and the display only moves forward (ProjectionNext).  On the audio *)
(* side a worker touches the deck only while the generation is its request  *)
(* (WorkerOwns), so the deck belongs to ever newer requests (DeckNext) and  *)
(* the request that is committed owns it (CommitOwns).                      *)
(***************************************************************************)
EXTENDS Playback, TLAPS

(***************************************************************************)
(* Types.                                                                  *)
(***************************************************************************)

\* The coordinator starts with every variable in its type.
LEMMA TypeOKInit == Init => TypeOK
<1> SUFFICES ASSUME Init PROVE TypeOK
  OBVIOUS
<1> USE BoundsAssumption DEF BoundsAssumption, Init
<1>1. SnapshotTypes
  <2>1. error \in BOOLEAN
    OBVIOUS
  <2>2. status \in Statuses
    BY DEF Statuses
  <2>3. QED
    BY <2>1, <2>2 DEF SnapshotTypes
<1>2. QueueTypes
  BY DEF QueueTypes, Session, NoSession
<1>3. AudioTypes
  BY DEF AudioTypes, Modes, Fades
<1>4. TaskTypes
  BY DEF TaskTypes, Stages, Starts, Outcomes, Session, NoSession
<1>5. ClientTypes /\ TickTypes
  BY DEF ClientTypes, TickTypes, ClientSteps, Starts, Toggling, TickSteps
<1>6. QED
  BY <1>1, <1>2, <1>3, <1>4, <1>5 DEF TypeOK

\* What the service answers is a session.
LEMMA RepliesAreSessions == TypeOK => Replies \subseteq Session
  BY BoundsAssumption
  DEF BoundsAssumption, TypeOK, QueueTypes, Replies, Revisions, Session

\* Launching a request keeps the types of everything it assigns.
LEMMA LaunchTypes ==
  ASSUME TypeOK, NEW how \in Starts, NEW s \in Session, Launch(how, s)
  PROVE  /\ SnapshotTypes' /\ TaskTypes'
         /\ session' \in Session /\ projection' \in Session
<1> USE BoundsAssumption DEF BoundsAssumption, TypeOK
<1>1. /\ requestId' \in 0 .. MaxRequests
      /\ generation' \in 0 .. MaxRequests
      /\ pending' \in 0 .. MaxRequests
  BY DEF Launch, SnapshotTypes
<1>2. status' \in Statuses
  BY DEF Launch, SnapshotTypes, Statuses
<1>3. error' \in BOOLEAN
  BY DEF Launch, SnapshotTypes
<1>4. current' \in 0 .. MaxRequests
  BY DEF Launch, SnapshotTypes
<1>5. SnapshotTypes'
  BY <1>1, <1>2, <1>3, <1>4 DEF SnapshotTypes
<1>6. requestId + 1 \in Requests
  BY DEF Launch, SnapshotTypes, Requests
<1>7. TaskTypes'
  BY <1>6 DEF Launch, TaskTypes, Stages
<1>8. session' \in Session /\ projection' \in Session
  BY DEF Launch, QueueTypes
<1>9. QED
  BY <1>5, <1>7, <1>8

\* So does retiring one.
LEMMA RetireTypes ==
  ASSUME TypeOK, NEW r \in Requests, Retire(r)
  PROVE  TaskTypes'
  BY DEF TypeOK, TaskTypes, Retire, Stages, Starts, Outcomes, Session,
         NoSession

\* And failing one.
LEMMA FailTypes ==
  ASSUME TypeOK, NEW r \in Requests, FailRequest(r)
  PROVE  SnapshotTypes' /\ TaskTypes' /\ projection' \in Session
<1>1. TaskTypes'
  BY RetireTypes DEF FailRequest
<1>2. projection' \in Session
  BY DEF FailRequest, TypeOK, QueueTypes
<1>3. pending' \in 0 .. MaxRequests
  BY BoundsAssumption
  DEF BoundsAssumption, FailRequest, ClearPending, TypeOK, SnapshotTypes
<1>4. status' \in Statuses
  BY DEF FailRequest, TypeOK, SnapshotTypes, Statuses
<1>5. SnapshotTypes'
  BY <1>3, <1>4 DEF FailRequest, TypeOK, SnapshotTypes
<1>6. QED
  BY <1>1, <1>2, <1>5

\* And dropping a superseded one.
LEMMA SupersededTypes ==
  ASSUME TypeOK, NEW r \in Requests, Superseded(r)
  PROVE  SnapshotTypes' /\ TaskTypes' /\ projection' \in Session
<1>1. TaskTypes'
  BY RetireTypes DEF Superseded
<1>2. projection' \in Session
  BY DEF Superseded, TypeOK, QueueTypes
<1>3. pending' \in 0 .. MaxRequests
  BY BoundsAssumption
  DEF BoundsAssumption, Superseded, ClearPending, TypeOK, SnapshotTypes
<1>4. SnapshotTypes'
  BY <1>3 DEF Superseded, TypeOK, SnapshotTypes
<1>5. QED
  BY <1>1, <1>2, <1>4

\* The backend has a type whatever a task does to it.
LEMMA WorkerTypes ==
  ASSUME TypeOK, NEW r \in Requests, Load(r) \/ Play(r) \/ Confirm(r)
  PROVE  AudioTypes'
<1> USE BoundsAssumption
    DEF BoundsAssumption, TypeOK, AudioTypes, Requests, Return, TakesDeck
<1>1. CASE Load(r)
  <2>1. \A m \in Modes :
          Deck(r, m) \in [owner : 0 .. MaxRequests, mode : Modes, fade : Fades]
    BY DEF Deck, Fades
  <2>2. audio' \in [owner : 0 .. MaxRequests, mode : Modes, fade : Fades]
    BY <1>1, <2>1 DEF Load, Modes
  <2>3. QED
    BY <1>1, <2>2 DEF Load
<1>2. CASE Play(r)
  BY <1>2 DEF Play, StopAndReturn, Modes
<1>3. CASE Confirm(r)
  <2>1. \A x \in FadingIn(r) :
          x \in [owner : 0 .. MaxRequests, mode : Modes, fade : Fades]
    BY DEF FadingIn, Modes, Fades
  <2>2. audio' \in [owner : 0 .. MaxRequests, mode : Modes, fade : Fades]
    BY <1>3, <2>1 DEF Confirm, StopAndReturn, Modes
  <2>3. QED
    BY <1>3, <2>2 DEF Confirm, StopAndReturn
<1>4. QED
  BY <1>1, <1>2, <1>3

\* Every handler, task step, tick step and engine event keeps the types.
LEMMA TypeOKNext == TypeOK /\ [Next]_vars => TypeOK'
<1> SUFFICES ASSUME TypeOK, [Next]_vars PROVE TypeOK'
  OBVIOUS
<1> USE BoundsAssumption
    DEF BoundsAssumption, TypeOK, SnapshotTypes, QueueTypes, AudioTypes,
        TaskTypes, ClientTypes, TickTypes, snapshotVars, queueVars, audioVars,
        taskVars, clientVars, tickVars,
        Toggling
<1>1. ASSUME NEW c \in Clients, Client(c) PROVE TypeOK'
  <2>1. CASE BeginPlay(c)
    BY <2>1 DEF BeginPlay, Await, StartFor, ClientSteps, Starts
  <2>2. CASE StartedQueue(c)
    <3>1. read[c] \in Starts
      BY <2>2 DEF StartedQueue
    <3>2. [id |-> session.id + 1, rev |-> 1] \in Session
      BY DEF Session
    <3>3. SnapshotTypes' /\ TaskTypes' /\ session' \in Session
                         /\ projection' \in Session
      BY <2>2, <3>1, <3>2, LaunchTypes DEF StartedQueue
    <3>4. QED
      BY <2>2, <3>3 DEF StartedQueue, Answer, Starts, ClientSteps
  <2>3. CASE StartQueueFails(c)
    BY <2>3 DEF StartQueueFails, Answer, Statuses, Starts, ClientSteps
  <2>4. CASE BeginSkip(c)
    BY <2>4 DEF BeginSkip, Await, Starts, ClientSteps
  <2>5. CASE Skipped(c)
    <3>1. PICK reply \in Replies : Launch(StartFor(status), reply)
      BY <2>5 DEF Skipped
    <3>2. SnapshotTypes' /\ TaskTypes' /\ session' \in Session
                         /\ projection' \in Session
      BY <3>1, RepliesAreSessions, LaunchTypes DEF Starts, StartFor
    <3>3. QED
      BY <2>5, <3>2 DEF Skipped, Answer, Starts, ClientSteps
  <2>6. CASE SkipRefused(c)
    BY <2>6 DEF SkipRefused, Answer, Starts, ClientSteps
  <2>7. CASE SkipToNothing(c)
    BY <2>7 DEF SkipToNothing, ShowError, Answer, Statuses, Starts,
      ClientSteps
  <2>8. CASE SkipFails(c)
    BY <2>8 DEF SkipFails, ClearPending, ClientSteps
  <2>9. CASE ReportSkipFailure(c)
    BY <2>9 DEF ReportSkipFailure, ShowError, Answer, Statuses, Starts,
      ClientSteps
  <2>10. CASE RefuseWhilePending(c)
    BY <2>10 DEF RefuseWhilePending, ShowError, Statuses
  <2>11. CASE RefuseWithoutSession(c)
    BY <2>11 DEF RefuseWithoutSession, ShowError, Statuses
  <2>12. CASE RefuseIndex(c)
    BY <2>12 DEF RefuseIndex, ShowError, Statuses
  <2>13. CASE BeginEdit(c)
    BY <2>13 DEF BeginEdit, Await, Starts, ClientSteps
  <2>14. CASE Edited(c)
    BY <2>14 DEF Edited, Replies, Answer, Session, Revisions, Starts,
      ClientSteps
  <2>15. CASE EditFails(c)
    BY <2>15 DEF EditFails, ShowError, Answer, Statuses, Starts, ClientSteps
  <2>16. CASE BeginPlayIndex(c)
    BY <2>16 DEF BeginPlayIndex, Await, Starts, ClientSteps
  <2>17. CASE PlayedIndex(c)
    <3>1. PICK reply \in Replies : Launch("crossfade", reply)
      BY <2>17 DEF PlayedIndex
    <3>2. SnapshotTypes' /\ TaskTypes' /\ session' \in Session
                         /\ projection' \in Session
      BY <3>1, RepliesAreSessions, LaunchTypes DEF Starts
    <3>3. QED
      BY <2>17, <3>2 DEF PlayedIndex, Answer, Starts, ClientSteps
  <2>18. CASE PlayIndexRefused(c)
    BY <2>18 DEF PlayIndexRefused, Answer, Starts, ClientSteps
  <2>19. CASE PlayIndexFails(c)
    BY <2>19 DEF PlayIndexFails, ShowError, Answer, Statuses, Starts,
      ClientSteps
  <2>20. CASE ReadToggle(c)
    BY <2>20 DEF ReadToggle, Starts, ClientSteps
  <2>21. CASE ToggleAudio(c)
    BY <2>21 DEF ToggleAudio, Paused, Resumed, Modes, Fades, ClientSteps
  <2>22. CASE ToggleAudioFails(c)
    BY <2>22 DEF ToggleAudioFails, Broken, Modes, Fades, ClientSteps
  <2>23. CASE Toggled(c)
    BY <2>23 DEF Toggled, Answer, Statuses, Starts, ClientSteps
  <2>24. CASE ToggleFailed(c)
    BY <2>24 DEF ToggleFailed, ShowError, Answer, Statuses, Starts,
      ClientSteps
  <2>25. CASE AdjustFails(c)
    BY <2>25 DEF AdjustFails, ShowError, Statuses
  <2>26. CASE StorageFails(c)
    BY <2>26 DEF StorageFails
  <2>27. CASE Seek(c)
    BY <2>27 DEF Seek, Sought, Broken, Modes, Fades
  <2>28. QED
    BY <1>1, <2>1, <2>2, <2>3, <2>4, <2>5, <2>6, <2>7, <2>8, <2>9, <2>10,
      <2>11, <2>12, <2>13, <2>14, <2>15, <2>16, <2>17, <2>18, <2>19, <2>20,
      <2>21, <2>22, <2>23, <2>24, <2>25, <2>26, <2>27 DEF Client
<1>2. ASSUME NEW r \in Requests, Task(r) PROVE TypeOK'
  <2>1. CASE Resolved(r)
    <3>1. CASE Superseded(r)
      BY <2>1, <3>1, SupersededTypes DEF Resolved
    <3>2. CASE ~Superseded(r)
      BY <2>1, <3>2 DEF Resolved, Stages, Statuses
    <3>3. QED
      BY <3>1, <3>2
  <2>2. CASE ResolveFails(r)
    <3>1. CASE FailRequest(r)
      BY <2>2, <3>1, FailTypes DEF ResolveFails
    <3>2. CASE ~FailRequest(r)
      BY <2>2, <3>2, RetireTypes DEF ResolveFails
    <3>3. QED
      BY <3>1, <3>2
  <2>3. CASE Admit(r)
    <3>1. CASE ShouldContinue(r)
      BY <2>3, <3>1 DEF Admit, Requests, Stages
    <3>2. CASE ~ShouldContinue(r)
      BY <2>3, <3>2 DEF Admit, Return, Stages, Outcomes
    <3>3. QED
      BY <3>1, <3>2
  <2>4. CASE Load(r)
    <3>1. AudioTypes'
      BY <2>4, WorkerTypes
    <3>2. TaskTypes'
      BY <2>4 DEF Load, Return, Stages, Outcomes
    <3>3. QED
      BY <2>4, <3>1, <3>2 DEF Load
  <2>5. CASE Play(r)
    <3>1. AudioTypes'
      BY <2>5, WorkerTypes
    <3>2. TaskTypes'
      BY <2>5 DEF Play, StopAndReturn, Return, Stages, Outcomes
    <3>3. QED
      BY <2>5, <3>1, <3>2 DEF Play
  <2>6. CASE Confirm(r)
    <3>1. AudioTypes'
      BY <2>6, WorkerTypes
    <3>2. TaskTypes'
      BY <2>6 DEF Confirm, StopAndReturn, Return, Stages, Outcomes
    <3>3. QED
      BY <2>6, <3>1, <3>2 DEF Confirm
  <2>7. CASE Commit(r)
    <3>1. CASE Superseded(r)
      BY <2>7, <3>1, SupersededTypes DEF Commit
    <3>2. CASE CommitSuccess(r)
      <4>1. TaskTypes'
        BY <3>2, RetireTypes DEF CommitSuccess
      <4>2. SnapshotTypes'
        BY <3>2 DEF CommitSuccess, ClearPending, Requests, Statuses
      <4>3. projection' \in Session
        BY <3>2 DEF CommitSuccess
      <4>4. QED
        BY <2>7, <4>1, <4>2, <4>3 DEF Commit
    <3>3. CASE CommitFailure(r)
      BY <2>7, <3>3, FailTypes DEF Commit, CommitFailure
    <3>4. QED
      BY <2>7, <3>1, <3>2, <3>3 DEF Commit
  <2>8. QED
    BY <1>2, <2>1, <2>2, <2>3, <2>4, <2>5, <2>6, <2>7 DEF Task
<1>3. ASSUME Tick PROVE TypeOK'
  <2>1. CASE ObserveAudio
    BY <2>1 DEF ObserveAudio, TickSteps
  <2>2. CASE CommitAudioFailure
    BY <2>2 DEF CommitAudioFailure, Statuses, TickSteps
  <2>3. CASE LockQueue
    BY <2>3 DEF LockQueue, TickSteps
  <2>4. CASE Refilled
    BY <2>4 DEF Refilled, Replies, Session, Revisions, TickSteps
  <2>5. CASE DecideAdvance
    BY <2>5 DEF DecideAdvance, TickSteps
  <2>6. CASE DecideNothing
    BY <2>6 DEF DecideNothing, EndTick, TickSteps
  <2>7. CASE AutoAdvance
    <3>1. PICK reply \in Replies :
            Launch(IF ended THEN "replace" ELSE "crossfade", reply)
      BY <2>7 DEF AutoAdvance
    <3>2. SnapshotTypes' /\ TaskTypes' /\ session' \in Session
                         /\ projection' \in Session
      BY <3>1, RepliesAreSessions, LaunchTypes DEF Starts
    <3>3. QED
      BY <2>7, <3>2 DEF AutoAdvance, EndTick, TickSteps
  <2>8. CASE AdvanceNowhere
    BY <2>8 DEF AdvanceNowhere, EndTick, TickSteps
  <2>9. QED
    BY <1>3, <2>1, <2>2, <2>3, <2>4, <2>5, <2>6, <2>7, <2>8 DEF Tick
<1>4. CASE FadeEnds
  BY <1>4 DEF FadeEnds, Fades
<1>5. CASE AudioEnds
  BY <1>5 DEF AudioEnds, Modes
<1>6. CASE AudioFails
  BY <1>6 DEF AudioFails, Modes
<1>7. CASE UNCHANGED vars
  BY <1>7 DEF vars
<1>8. QED
  BY <1>1, <1>2, <1>3, <1>4, <1>5, <1>6, <1>7 DEF Next
(***************************************************************************)
(* Requests.  Only launching, withdrawing and carrying out a request touch *)
(* the request variables.                                                  *)
(***************************************************************************)

\* The commands that launch a request do so with a session of the service.
LEMMA LaunchingCommands ==
  ASSUME TypeOK, NEW c \in Clients,
         StartedQueue(c) \/ Skipped(c) \/ PlayedIndex(c)
  PROVE  \E how \in Starts, s \in Session : Launch(how, s)
<1>1. CASE StartedQueue(c)
  <2>1. read[c] \in Starts
    BY <1>1 DEF StartedQueue, TypeOK, ClientTypes, Toggling
  <2>2. [id |-> session.id + 1, rev |-> 1] \in Session
    BY DEF TypeOK, QueueTypes, Session
  <2>3. QED
    BY <1>1, <2>1, <2>2 DEF StartedQueue
<1>2. CASE Skipped(c)
  <2>1. StartFor(status) \in Starts
    BY DEF StartFor, Starts
  <2>2. PICK reply \in Replies : Launch(StartFor(status), reply)
    BY <1>2 DEF Skipped
  <2>3. QED
    BY <2>1, <2>2, RepliesAreSessions
<1>3. CASE PlayedIndex(c)
  <2>1. PICK reply \in Replies : Launch("crossfade", reply)
    BY <1>3 DEF PlayedIndex
  <2>2. QED
    BY <2>1, RepliesAreSessions DEF Starts
<1>4. QED
  BY <1>1, <1>2, <1>3

\* The four ways a step can treat the request variables.
LEMMA RequestSteps ==
  ASSUME TypeOK, [Next]_vars
  PROVE  \/ \E how \in Starts, s \in Session : Launch(how, s)
         \/ \E c \in Clients : SkipFails(c)
         \/ \E r \in Requests : Task(r)
         \/ UNCHANGED <<requestId, generation, pending, taskVars>>
<1> DEFINE Goal ==
      \/ \E how \in Starts, s \in Session : Launch(how, s)
      \/ \E c \in Clients : SkipFails(c)
      \/ \E r \in Requests : Task(r)
      \/ UNCHANGED <<requestId, generation, pending, taskVars>>
<1>1. ASSUME NEW c \in Clients, Client(c) PROVE Goal
  <2>1. CASE StartedQueue(c) \/ Skipped(c) \/ PlayedIndex(c)
    BY <2>1, LaunchingCommands
  <2>2. CASE SkipFails(c)
    BY <2>2
  <2>3. CASE ~(StartedQueue(c) \/ Skipped(c) \/ PlayedIndex(c) \/ SkipFails(c))
    <3>1. UNCHANGED <<requestId, generation, pending, taskVars>>
      BY <1>1, <2>3 DEF Client, BeginPlay, StartQueueFails, BeginSkip,
        SkipRefused, SkipToNothing, ShowError, ReportSkipFailure,
        RefuseWhilePending, RefuseWithoutSession, RefuseIndex, BeginEdit,
        Edited, EditFails, BeginPlayIndex, PlayIndexRefused, PlayIndexFails,
        ReadToggle, ToggleAudio, ToggleAudioFails, Toggled, ToggleFailed,
        Seek, AdjustFails, StorageFails, snapshotVars
    <3>2. QED
      BY <3>1
  <2>4. QED
    BY <2>1, <2>2, <2>3
<1>2. ASSUME Tick PROVE Goal
  <2>1. CASE AutoAdvance
    <3>1. PICK reply \in Replies :
            Launch(IF ended THEN "replace" ELSE "crossfade", reply)
      BY <2>1 DEF AutoAdvance
    <3>2. QED
      BY <3>1, RepliesAreSessions DEF Starts
  <2>2. CASE ~AutoAdvance
    BY <1>2, <2>2
    DEF Tick, ObserveAudio, CommitAudioFailure, LockQueue, Refilled,
        DecideAdvance, DecideNothing, AdvanceNowhere, snapshotVars
  <2>3. QED
    BY <2>1, <2>2
<1>3. CASE FadeEnds \/ AudioEnds \/ AudioFails \/ UNCHANGED vars
  BY <1>3 DEF FadeEnds, AudioEnds, AudioFails, vars, snapshotVars
<1>4. QED
  BY <1>1, <1>2, <1>3 DEF Next

\* What a task does to the request variables: it moves on, or it retires and
\* clears pending_transition if that is still its own.
LEMMA TaskMoves ==
  ASSUME TypeOK, NEW r \in Requests, Task(r)
  PROVE  /\ UNCHANGED <<requestId, generation>>
         /\ Live(r)
         /\ \/ /\ UNCHANGED pending
               /\ stage' = [stage EXCEPT ![r] = stage'[r]]
               /\ stage'[r] \notin {"none", "done"}
            \/ /\ ClearPending(r) \/ (UNCHANGED pending /\ requestId # r)
               /\ stage' = [stage EXCEPT ![r] = "done"]
<1> USE DEF TypeOK, TaskTypes, Live
<1>1. CASE Resolved(r)
  <2>1. CASE Superseded(r)
    BY <1>1, <2>1 DEF Resolved, Superseded, Retire
  <2>2. CASE ~Superseded(r)
    BY <1>1, <2>2 DEF Resolved
  <2>3. QED
    BY <2>1, <2>2
<1>2. CASE ResolveFails(r)
  <2>1. CASE FailRequest(r)
    BY <1>2, <2>1 DEF ResolveFails, FailRequest, Retire
  <2>2. CASE ~FailRequest(r)
    BY <1>2, <2>2 DEF ResolveFails, Retire, snapshotVars
  <2>3. QED
    BY <2>1, <2>2
<1>3. CASE Admit(r)
  BY <1>3 DEF Admit, Return, snapshotVars
<1>4. CASE Load(r)
  BY <1>4 DEF Load, Return, snapshotVars
<1>5. CASE Play(r)
  BY <1>5 DEF Play, StopAndReturn, Return, snapshotVars
<1>6. CASE Confirm(r)
  BY <1>6 DEF Confirm, StopAndReturn, Return, snapshotVars
<1>7. CASE Commit(r)
  <2>1. CASE Superseded(r)
    BY <1>7, <2>1 DEF Commit, Superseded, Retire
  <2>2. CASE CommitSuccess(r)
    BY <1>7, <2>2 DEF Commit, CommitSuccess, Retire
  <2>3. CASE CommitFailure(r)
    BY <1>7, <2>3 DEF Commit, CommitFailure, FailRequest, Retire
  <2>4. QED
    BY <1>7, <2>1, <2>2, <2>3 DEF Commit
<1>8. QED
  BY <1>1, <1>2, <1>3, <1>4, <1>5, <1>6, <1>7 DEF Task

\* A worker is stale only when the generation is no longer its request.
LEMMA TaskOutcome ==
  ASSUME TypeOK, NEW r \in Requests, Task(r)
  PROVE  /\ \A q \in Requests : q # r => outcome'[q] = outcome[q]
         /\ outcome'[r] = "stale" => outcome[r] = "stale" \/ generation # r
<1> USE DEF TypeOK, TaskTypes
<1>1. CASE Resolved(r)
  BY <1>1 DEF Resolved, Superseded, Retire
<1>2. CASE ResolveFails(r)
  BY <1>2 DEF ResolveFails, FailRequest, Retire
<1>3. CASE Admit(r)
  BY <1>3 DEF Admit, Return, ShouldContinue
<1>4. CASE Load(r)
  BY <1>4 DEF Load, Return
<1>5. CASE Play(r)
  BY <1>5 DEF Play, StopAndReturn, Return
<1>6. CASE Confirm(r)
  <2>1. outcome' = outcome \/ Return(r, "ok") \/ Return(r, "okFailed")
    BY <1>6 DEF Confirm, StopAndReturn
  <2>2. QED
    BY <2>1 DEF Return
<1>7. CASE Commit(r)
  <2>1. Retire(r)
    BY <1>7 DEF Commit, Superseded, CommitSuccess, CommitFailure, FailRequest
  <2>2. QED
    BY <2>1 DEF Retire
<1>8. QED
  BY <1>1, <1>2, <1>3, <1>4, <1>5, <1>6, <1>7 DEF Task

\* Before any request nothing is pending and no task exists.
LEMMA RequestsCoherentInit == Init => RequestsCoherent
  BY BoundsAssumption
  DEF BoundsAssumption, Init, RequestsCoherent, Live, Requests

\* Launch, withdrawal and retirement keep pending_transition, the generation
\* and the tasks in agreement.
LEMMA RequestsCoherentNext ==
  TypeOK /\ RequestsCoherent /\ [Next]_vars => RequestsCoherent'
<1> SUFFICES ASSUME TypeOK, RequestsCoherent, [Next]_vars
             PROVE  RequestsCoherent'
  OBVIOUS
<1> USE BoundsAssumption
    DEF BoundsAssumption, TypeOK, SnapshotTypes, TaskTypes, RequestsCoherent,
        Requests, Live
<1>1. ASSUME NEW how \in Starts, NEW s \in Session, Launch(how, s)
      PROVE  RequestsCoherent'
  BY <1>1 DEF Launch
<1>2. ASSUME NEW c \in Clients, SkipFails(c) PROVE RequestsCoherent'
  BY <1>2 DEF SkipFails, ClearPending, taskVars
<1>3. ASSUME NEW r \in Requests, Task(r) PROVE RequestsCoherent'
  <2>1. generation' = requestId'
    BY <1>3, TaskMoves
  <2>2. pending' = IF Live(requestId)' THEN requestId' ELSE 0
    BY <1>3, TaskMoves DEF ClearPending
  <2>3. \A q \in Requests : q > requestId' => stage'[q] = "none"
    BY <1>3, TaskMoves
  <2>4. \A q \in Requests : outcome'[q] = "stale" => q < requestId'
    BY <1>3, TaskMoves, TaskOutcome
  <2>5. QED
    BY <2>1, <2>2, <2>3, <2>4
<1>4. CASE UNCHANGED <<requestId, generation, pending, taskVars>>
  BY <1>4 DEF taskVars
<1>5. QED
  BY <1>1, <1>2, <1>3, <1>4, RequestSteps

(***************************************************************************)
(* queue_mutation.                                                         *)
(***************************************************************************)

\* Nobody holds queue_mutation at the start.
LEMMA HoldersHoldInit == Init => HoldersHold /\ EditsExcludeTransitions
  BY DEF Init, HoldersHold, Holding, TickHolding, EditsExcludeTransitions

\* Tasks and the backend take no part in the locking of the queue.
LEMMA TaskLocks ==
  ASSUME NEW r \in Requests, Task(r)
  PROVE  UNCHANGED <<mutation, step, tick>>
  BY DEF Task, Resolved, ResolveFails, Admit, Load, Play, Confirm, Commit,
         queueVars, clientVars, tickVars

\* Whoever is inside an edit or a skip holds queue_mutation, so a transition
\* is launched by no one else while an edit is awaiting the service.
LEMMA LocksNext ==
  TypeOK /\ RequestsCoherent /\ HoldersHold /\ EditsExcludeTransitions
    /\ [Next]_vars => HoldersHold' /\ EditsExcludeTransitions'
<1> SUFFICES ASSUME TypeOK, RequestsCoherent, HoldersHold,
                    EditsExcludeTransitions, [Next]_vars
             PROVE  HoldersHold' /\ EditsExcludeTransitions'
  OBVIOUS
<1> USE ActorsAssumption
    DEF ActorsAssumption, TypeOK, QueueTypes, ClientTypes, HoldersHold,
        Holding, TickHolding, EditsExcludeTransitions, snapshotVars,
        queueVars, clientVars, tickVars
<1>1. ASSUME NEW c \in Clients, Client(c)
      PROVE  HoldersHold' /\ EditsExcludeTransitions'
  <2>1. CASE BeginPlay(c)
    BY <2>1 DEF BeginPlay, Await
  <2>2. CASE StartedQueue(c)
    BY <2>2 DEF StartedQueue, Launch, Answer
  <2>3. CASE StartQueueFails(c)
    BY <2>3 DEF StartQueueFails, Answer
  <2>4. CASE BeginSkip(c)
    BY <2>4 DEF BeginSkip, Await
  <2>5. CASE Skipped(c)
    BY <2>5 DEF Skipped, Launch, Answer
  <2>6. CASE SkipRefused(c)
    BY <2>6 DEF SkipRefused, Answer
  <2>7. CASE SkipToNothing(c)
    BY <2>7 DEF SkipToNothing, ShowError, Answer
  <2>8. CASE SkipFails(c)
    BY <2>8 DEF SkipFails, ClearPending
  <2>9. CASE ReportSkipFailure(c)
    BY <2>9 DEF ReportSkipFailure, ShowError, Answer
  <2>10. CASE RefuseWhilePending(c)
    BY <2>10 DEF RefuseWhilePending, ShowError
  <2>11. CASE RefuseWithoutSession(c)
    BY <2>11 DEF RefuseWithoutSession, ShowError
  <2>12. CASE RefuseIndex(c)
    BY <2>12 DEF RefuseIndex, ShowError
  <2>13. CASE BeginEdit(c)
    BY <2>13 DEF BeginEdit, Await
  <2>14. CASE Edited(c)
    BY <2>14 DEF Edited, Answer
  <2>15. CASE EditFails(c)
    BY <2>15 DEF EditFails, ShowError, Answer
  <2>16. CASE BeginPlayIndex(c)
    BY <2>16 DEF BeginPlayIndex, Await
  <2>17. CASE PlayedIndex(c)
    BY <2>17 DEF PlayedIndex, Launch, Answer
  <2>18. CASE PlayIndexRefused(c)
    BY <2>18 DEF PlayIndexRefused, Answer
  <2>19. CASE PlayIndexFails(c)
    BY <2>19 DEF PlayIndexFails, ShowError, Answer
  <2>20. CASE ReadToggle(c)
    BY <2>20 DEF ReadToggle
  <2>21. CASE ToggleAudio(c)
    BY <2>21 DEF ToggleAudio
  <2>22. CASE ToggleAudioFails(c)
    BY <2>22 DEF ToggleAudioFails
  <2>23. CASE Toggled(c)
    BY <2>23 DEF Toggled, Answer
  <2>24. CASE ToggleFailed(c)
    BY <2>24 DEF ToggleFailed, ShowError, Answer
  <2>25. CASE AdjustFails(c)
    BY <2>25 DEF AdjustFails, ShowError
  <2>26. CASE StorageFails(c)
    BY <2>26 DEF StorageFails
  <2>27. CASE Seek(c)
    BY <2>27 DEF Seek
  <2>28. QED
    BY <1>1, <2>1, <2>2, <2>3, <2>4, <2>5, <2>6, <2>7, <2>8, <2>9, <2>10,
      <2>11, <2>12, <2>13, <2>14, <2>15, <2>16, <2>17, <2>18, <2>19, <2>20,
      <2>21, <2>22, <2>23, <2>24, <2>25, <2>26, <2>27 DEF Client
<1>2. ASSUME NEW r \in Requests, Task(r)
      PROVE  HoldersHold' /\ EditsExcludeTransitions'
  <2>1. pending' # 0 => pending # 0
    BY <1>2, TaskMoves DEF ClearPending
  <2>2. QED
    BY <1>2, <2>1, TaskLocks
<1>3. ASSUME Tick PROVE HoldersHold' /\ EditsExcludeTransitions'
  <2>1. CASE ObserveAudio
    BY <2>1 DEF ObserveAudio
  <2>2. CASE CommitAudioFailure
    BY <2>2 DEF CommitAudioFailure
  <2>3. CASE LockQueue
    BY <2>3 DEF LockQueue
  <2>4. CASE Refilled
    BY <2>4 DEF Refilled
  <2>5. CASE DecideAdvance
    BY <2>5 DEF DecideAdvance, MayAdvance
  <2>6. CASE DecideNothing
    BY <2>6 DEF DecideNothing, EndTick
  <2>7. CASE AutoAdvance
    BY <2>7 DEF AutoAdvance, Launch, EndTick
  <2>8. CASE AdvanceNowhere
    BY <2>8 DEF AdvanceNowhere, EndTick
  <2>9. QED
    BY <1>3, <2>1, <2>2, <2>3, <2>4, <2>5, <2>6, <2>7, <2>8 DEF Tick
<1>4. CASE FadeEnds \/ AudioEnds \/ AudioFails \/ UNCHANGED vars
  BY <1>4 DEF FadeEnds, AudioEnds, AudioFails, vars
<1>5. QED
  BY <1>1, <1>2, <1>3, <1>4 DEF Next

(***************************************************************************)
(* Sessions.  The session held never goes back, and only a launch, an edit *)
(* or a refill changes it; the projection follows it, or a commit shows the *)
(* session its request was launched with.                                  *)
(***************************************************************************)

\* s is a later session than the one held, or a later revision of it.
Follows(s) == \/ s.id > session.id
              \/ s.id = session.id /\ s.rev >= session.rev

\* A later session is held and displayed, with no transition pending.
Adopted ==
  /\ \E s \in Session : Follows(s) /\ session' = s /\ projection' = s
  /\ pending = 0
  /\ UNCHANGED <<requestId, generation, pending, taskVars>>

\* An accepted reply of the service follows the session held.
LEMMA AcceptedFollows ==
  ASSUME TypeOK, NEW reply \in Replies, Accepts(reply)
  PROVE  reply \in Session /\ Follows(reply)
<1>1. reply \in Session /\ reply.id = session.id
  BY RepliesAreSessions DEF Replies
<1>2. QED
  BY <1>1 DEF TypeOK, QueueTypes, Session, NoSession, Accepts, Follows

\* The four ways a step can treat queue_session and queue_projection.
LEMMA SessionSteps ==
  ASSUME TypeOK, EditsExcludeTransitions, [Next]_vars
  PROVE  \/ \E how \in Starts, s \in Session : Launch(how, s) /\ Follows(s)
         \/ Adopted
         \/ \E r \in Requests : Commit(r) /\ CommitSuccess(r)
         \/ UNCHANGED <<session, projection>>
<1> DEFINE Goal ==
      \/ \E how \in Starts, s \in Session : Launch(how, s) /\ Follows(s)
      \/ Adopted
      \/ \E r \in Requests : Commit(r) /\ CommitSuccess(r)
      \/ UNCHANGED <<session, projection>>
<1>1. ASSUME NEW c \in Clients, Client(c) PROVE Goal
  <2>1. CASE StartedQueue(c)
    <3>1. read[c] \in Starts
      BY <2>1 DEF StartedQueue, TypeOK, ClientTypes, Toggling
    <3> DEFINE new == [id |-> session.id + 1, rev |-> 1]
    <3>2. new \in Session /\ Follows(new)
      BY DEF TypeOK, QueueTypes, Session, Follows
    <3>3. Launch(read[c], new)
      BY <2>1 DEF StartedQueue
    <3>4. QED
      BY <3>1, <3>2, <3>3
  <2>2. CASE Skipped(c)
    <3>1. StartFor(status) \in Starts
      BY DEF StartFor, Starts
    <3>2. PICK reply \in Replies :
            Accepts(reply) /\ Launch(StartFor(status), reply)
      BY <2>2 DEF Skipped
    <3>3. QED
      BY <3>1, <3>2, AcceptedFollows
  <2>3. CASE PlayedIndex(c)
    <3>1. PICK reply \in Replies : Accepts(reply) /\ Launch("crossfade", reply)
      BY <2>3 DEF PlayedIndex
    <3>2. QED
      BY <3>1, AcceptedFollows DEF Starts
  <2>4. CASE Edited(c)
    <3>1. PICK reply \in Replies :
            IF Accepts(reply) THEN session' = reply /\ projection' = reply
            ELSE UNCHANGED <<session, projection>>
      BY <2>4 DEF Edited
    <3>2. pending = 0
      BY <2>4 DEF Edited, EditsExcludeTransitions
    <3>3. UNCHANGED <<requestId, generation, pending, taskVars>>
      BY <2>4 DEF Edited, snapshotVars
    <3>4. CASE Accepts(reply)
      BY <3>1, <3>2, <3>3, <3>4, AcceptedFollows DEF Adopted
    <3>5. CASE ~Accepts(reply)
      BY <3>1, <3>5
    <3>6. QED
      BY <3>4, <3>5
  <2>5. CASE ~(StartedQueue(c) \/ Skipped(c) \/ PlayedIndex(c) \/ Edited(c))
    <3>1. UNCHANGED <<session, projection>>
      BY <1>1, <2>5 DEF Client, BeginPlay, StartQueueFails, BeginSkip,
        SkipRefused, SkipToNothing, SkipFails, ReportSkipFailure,
        RefuseWhilePending, RefuseWithoutSession, RefuseIndex, BeginEdit,
        EditFails, BeginPlayIndex, PlayIndexRefused, PlayIndexFails,
        ReadToggle, ToggleAudio, ToggleAudioFails, Toggled, ToggleFailed,
        Seek, AdjustFails, StorageFails, Await, queueVars
    <3>2. QED
      BY <3>1
  <2>6. QED
    BY <2>1, <2>2, <2>3, <2>4, <2>5
<1>2. ASSUME NEW r \in Requests, Task(r) PROVE Goal
  <2>1. CASE Commit(r) /\ CommitSuccess(r)
    BY <2>1
  <2>2. CASE Commit(r) /\ ~CommitSuccess(r)
    BY <2>2 DEF Commit, Superseded, CommitFailure, FailRequest
  <2>3. CASE ~Commit(r)
    BY <1>2, <2>3
    DEF Task, Resolved, ResolveFails, Superseded, FailRequest, Admit, Load,
        Play, Confirm, queueVars
  <2>4. QED
    BY <2>1, <2>2, <2>3
<1>3. ASSUME Tick PROVE Goal
  <2>1. CASE AutoAdvance
    <3>1. PICK reply \in Replies :
            /\ Accepts(reply)
            /\ Launch(IF ended THEN "replace" ELSE "crossfade", reply)
      BY <2>1 DEF AutoAdvance
    <3>2. QED
      BY <3>1, AcceptedFollows DEF Starts
  <2>2. CASE Refilled
    <3>1. pending = 0
      BY <2>2 DEF Refilled, EditsExcludeTransitions
    <3>2. UNCHANGED <<requestId, generation, pending, taskVars>>
      BY <2>2 DEF Refilled, snapshotVars
    <3>3. CASE \E reply \in Replies :
                 Accepts(reply) /\ session' = reply /\ projection' = reply
      BY <3>1, <3>2, <3>3, AcceptedFollows DEF Adopted
    <3>4. QED
      BY <2>2, <3>3 DEF Refilled
  <2>3. CASE ~AutoAdvance /\ ~Refilled
    BY <1>3, <2>3
    DEF Tick, ObserveAudio, CommitAudioFailure, LockQueue, DecideAdvance,
        DecideNothing, AdvanceNowhere, queueVars
  <2>4. QED
    BY <2>1, <2>2, <2>3
<1>4. CASE FadeEnds \/ AudioEnds \/ AudioFails \/ UNCHANGED vars
  BY <1>4 DEF FadeEnds, AudioEnds, AudioFails, vars, queueVars
<1>5. QED
  BY <1>1, <1>2, <1>3, <1>4 DEF Next

\* What a task carries stays with it until it retires.
LEMMA TaskCarries ==
  ASSUME TypeOK, NEW r \in Requests, Task(r)
  PROVE  /\ UNCHANGED session
         /\ \A q \in Requests : q # r => carried'[q] = carried[q]
         /\ stage'[r] # "done" => carried'[r] = carried[r]
<1> USE DEF TypeOK, TaskTypes
<1>1. CASE Resolved(r)
  <2>1. CASE Superseded(r)
    BY <1>1, <2>1 DEF Resolved, Superseded, Retire
  <2>2. CASE ~Superseded(r)
    BY <1>1, <2>2 DEF Resolved
  <2>3. QED
    BY <2>1, <2>2
<1>2. CASE ResolveFails(r)
  BY <1>2 DEF ResolveFails, FailRequest, Retire
<1>3. CASE Admit(r) \/ Load(r) \/ Play(r) \/ Confirm(r)
  BY <1>3 DEF Admit, Load, Play, Confirm, queueVars
<1>4. CASE Commit(r)
  <2>1. Retire(r)
    BY <1>4 DEF Commit, Superseded, CommitSuccess, CommitFailure, FailRequest
  <2>2. QED
    BY <1>4, <2>1 DEF Commit, Retire
<1>5. QED
  BY <1>1, <1>2, <1>3, <1>4 DEF Task

\* The session is replaced only with a launch, which carries it, or while no
\* transition is pending.
LEMMA NewestCarriesNext ==
  TypeOK /\ RequestsCoherent /\ EditsExcludeTransitions
    /\ NewestCarriesSession /\ [Next]_vars => NewestCarriesSession'
<1> SUFFICES ASSUME TypeOK, RequestsCoherent, EditsExcludeTransitions,
                    NewestCarriesSession, [Next]_vars
             PROVE  NewestCarriesSession'
  OBVIOUS
<1> USE BoundsAssumption
    DEF BoundsAssumption, TypeOK, SnapshotTypes, TaskTypes, RequestsCoherent,
        NewestCarriesSession, Requests, Live
<1>1. ASSUME NEW how \in Starts, NEW s \in Session, Launch(how, s)
      PROVE  NewestCarriesSession'
  BY <1>1 DEF Launch
<1>2. ASSUME NEW c \in Clients, SkipFails(c) PROVE NewestCarriesSession'
  BY <1>2 DEF SkipFails, taskVars
<1>3. ASSUME NEW r \in Requests, Task(r) PROVE NewestCarriesSession'
  BY <1>3, TaskMoves, TaskCarries
<1>4. CASE UNCHANGED <<requestId, generation, pending, taskVars>>
  <2>1. CASE Adopted
    BY <1>4, <2>1 DEF Adopted, taskVars
  <2>2. CASE UNCHANGED <<session, projection>>
    BY <1>4, <2>2 DEF taskVars
  <2>3. ASSUME NEW how \in Starts, NEW s \in Session, Launch(how, s)
        PROVE  NewestCarriesSession'
    BY <2>3, <1>1
  <2>4. ASSUME NEW r \in Requests, Commit(r) PROVE NewestCarriesSession'
    BY <2>4, <1>3 DEF Task
  <2>5. QED
    BY <2>1, <2>2, <2>3, <2>4, SessionSteps
<1>5. QED
  BY <1>1, <1>2, <1>3, <1>4, RequestSteps

\* A commit displays the session held; everything else displayed is an
\* accepted reply: the projection stays behind the session and moves forward.
LEMMA ProjectionNext ==
  TypeOK /\ EditsExcludeTransitions /\ NewestCarriesSession
    /\ ProjectionBehind /\ [Next]_vars
    => /\ ProjectionBehind'
       /\ projection'.id = projection.id => projection'.rev >= projection.rev
<1> SUFFICES ASSUME TypeOK, EditsExcludeTransitions, NewestCarriesSession,
                    ProjectionBehind, [Next]_vars
             PROVE  /\ ProjectionBehind'
                    /\ projection'.id = projection.id
                         => projection'.rev >= projection.rev
  OBVIOUS
<1> USE DEF TypeOK, QueueTypes, Session, ProjectionBehind
<1>1. ASSUME NEW how \in Starts, NEW s \in Session, Launch(how, s), Follows(s)
      PROVE  /\ ProjectionBehind'
             /\ projection' = projection
  BY <1>1 DEF Launch, Follows
<1>2. CASE Adopted
  BY <1>2 DEF Adopted, Follows
<1>3. ASSUME NEW r \in Requests, Commit(r), CommitSuccess(r)
      PROVE  projection' = session /\ session' = session
  BY <1>3 DEF Commit, CommitSuccess, NewestCarriesSession, Live
<1>4. CASE UNCHANGED <<session, projection>>
  BY <1>4
<1>5. QED
  BY <1>1, <1>2, <1>3, <1>4, SessionSteps

\* The reasons a stale queue may have are not taken away before it is repaired.
LEMMA StaleQueueNext ==
  TypeOK /\ RequestsCoherent /\ EditsExcludeTransitions
    /\ NewestCarriesSession /\ StaleQueueIsExplained /\ [Next]_vars
    => StaleQueueIsExplained'
<1> SUFFICES ASSUME TypeOK, RequestsCoherent, EditsExcludeTransitions,
                    NewestCarriesSession, StaleQueueIsExplained, [Next]_vars
             PROVE  StaleQueueIsExplained'
  OBVIOUS
<1> USE BoundsAssumption
    DEF BoundsAssumption, TypeOK, SnapshotTypes, ClientTypes,
        StaleQueueIsExplained, snapshotVars, queueVars, clientVars
<1>1. ASSUME NEW c \in Clients, Client(c) PROVE StaleQueueIsExplained'
  <2>1. CASE BeginPlay(c)
    BY <2>1 DEF BeginPlay, Await
  <2>2. CASE StartedQueue(c)
    BY <2>2 DEF StartedQueue, Launch, Answer
  <2>3. CASE StartQueueFails(c)
    BY <2>3 DEF StartQueueFails, Answer
  <2>4. CASE BeginSkip(c)
    BY <2>4 DEF BeginSkip, Await
  <2>5. CASE Skipped(c)
    BY <2>5 DEF Skipped, Launch, Answer
  <2>6. CASE SkipRefused(c)
    BY <2>6 DEF SkipRefused, Answer
  <2>7. CASE SkipToNothing(c)
    BY <2>7 DEF SkipToNothing, ShowError, Answer
  <2>8. CASE SkipFails(c)
    BY <2>8 DEF SkipFails, ClearPending
  <2>9. CASE ReportSkipFailure(c)
    BY <2>9 DEF ReportSkipFailure, ShowError, Answer
  <2>10. CASE RefuseWhilePending(c)
    BY <2>10 DEF RefuseWhilePending, ShowError
  <2>11. CASE RefuseWithoutSession(c)
    BY <2>11 DEF RefuseWithoutSession, ShowError
  <2>12. CASE RefuseIndex(c)
    BY <2>12 DEF RefuseIndex, ShowError
  <2>13. CASE BeginEdit(c)
    BY <2>13 DEF BeginEdit, Await
  <2>14. CASE Edited(c)
    BY <2>14 DEF Edited, Answer
  <2>15. CASE EditFails(c)
    BY <2>15 DEF EditFails, ShowError, Answer
  <2>16. CASE BeginPlayIndex(c)
    BY <2>16 DEF BeginPlayIndex, Await
  <2>17. CASE PlayedIndex(c)
    BY <2>17 DEF PlayedIndex, Launch, Answer
  <2>18. CASE PlayIndexRefused(c)
    BY <2>18 DEF PlayIndexRefused, Answer
  <2>19. CASE PlayIndexFails(c)
    BY <2>19 DEF PlayIndexFails, ShowError, Answer
  <2>20. CASE ReadToggle(c)
    BY <2>20 DEF ReadToggle
  <2>21. CASE ToggleAudio(c)
    BY <2>21 DEF ToggleAudio
  <2>22. CASE ToggleAudioFails(c)
    BY <2>22 DEF ToggleAudioFails
  <2>23. CASE Toggled(c)
    BY <2>23 DEF Toggled, Answer
  <2>24. CASE ToggleFailed(c)
    BY <2>24 DEF ToggleFailed, ShowError, Answer
  <2>25. CASE AdjustFails(c)
    BY <2>25 DEF AdjustFails, ShowError
  <2>26. CASE StorageFails(c)
    BY <2>26 DEF StorageFails
  <2>27. CASE Seek(c)
    BY <2>27 DEF Seek
  <2>28. QED
    BY <1>1, <2>1, <2>2, <2>3, <2>4, <2>5, <2>6, <2>7, <2>8, <2>9, <2>10,
      <2>11, <2>12, <2>13, <2>14, <2>15, <2>16, <2>17, <2>18, <2>19, <2>20,
      <2>21, <2>22, <2>23, <2>24, <2>25, <2>26, <2>27 DEF Client
<1>2. ASSUME NEW r \in Requests, Task(r) PROVE StaleQueueIsExplained'
  <2>1. UNCHANGED <<session, step>>
    BY <1>2, TaskCarries, TaskLocks
  <2>2. CASE UNCHANGED <<pending, projection, error>>
    BY <2>1, <2>2
  <2>3. CASE Superseded(r)
    <3>1. requestId # r
      BY <2>3 DEF Superseded, RequestsCoherent
    <3>2. QED
      BY <2>2, <2>3, <3>1 DEF Superseded, ClearPending, RequestsCoherent
  <2>4. CASE FailRequest(r)
    BY <2>1, <2>4 DEF FailRequest
  <2>5. CASE Resolved(r)
    BY <2>2, <2>3, <2>5 DEF Resolved
  <2>6. CASE ResolveFails(r)
    BY <2>2, <2>4, <2>6 DEF ResolveFails
  <2>7. CASE Admit(r) \/ Load(r) \/ Play(r) \/ Confirm(r)
    BY <2>2, <2>7 DEF Admit, Load, Play, Confirm
  <2>8. CASE Commit(r)
    <3>1. CASE CommitSuccess(r)
      BY <2>1, <2>8, <3>1 DEF Commit, CommitSuccess, NewestCarriesSession, Live
    <3>2. QED
      BY <2>3, <2>4, <2>8, <3>1 DEF Commit, CommitFailure
  <2>9. QED
    BY <1>2, <2>5, <2>6, <2>7, <2>8 DEF Task
<1>3. ASSUME Tick PROVE StaleQueueIsExplained'
  <2>1. CASE ObserveAudio
    BY <2>1 DEF ObserveAudio
  <2>2. CASE CommitAudioFailure
    BY <2>2 DEF CommitAudioFailure
  <2>3. CASE LockQueue
    BY <2>3 DEF LockQueue
  <2>4. CASE Refilled
    BY <2>4 DEF Refilled
  <2>5. CASE DecideAdvance
    BY <2>5 DEF DecideAdvance
  <2>6. CASE DecideNothing
    BY <2>6 DEF DecideNothing, EndTick
  <2>7. CASE AutoAdvance
    BY <2>7 DEF AutoAdvance, Launch, EndTick
  <2>8. CASE AdvanceNowhere
    BY <2>8 DEF AdvanceNowhere, EndTick
  <2>9. QED
    BY <1>3, <2>1, <2>2, <2>3, <2>4, <2>5, <2>6, <2>7, <2>8 DEF Tick
<1>4. CASE FadeEnds \/ AudioEnds \/ AudioFails \/ UNCHANGED vars
  BY <1>4 DEF FadeEnds, AudioEnds, AudioFails, vars
<1>5. QED
  BY <1>1, <1>2, <1>3, <1>4 DEF Next

(***************************************************************************)
(* Audio.                                                                  *)
(***************************************************************************)

\* Only the worker of the newest request gives the deck another owner.
LEMMA AudioSteps ==
  ASSUME TypeOK, [Next]_vars
  PROVE  \/ \E r \in Requests : Task(r)
         \/ /\ audio'.owner = audio.owner
            /\ audio'.fade = "none" \/ audio'.fade = audio.fade
<1> USE DEF TypeOK, AudioTypes, Modes, Fades
<1>1. ASSUME NEW c \in Clients, Client(c)
      PROVE  /\ audio'.owner = audio.owner
             /\ audio'.fade = "none" \/ audio'.fade = audio.fade
  <2>1. CASE ToggleAudio(c) \/ ToggleAudioFails(c) \/ Seek(c)
    BY <2>1 DEF ToggleAudio, ToggleAudioFails, Seek, Paused, Resumed, Sought,
      Broken
  <2>2. CASE ~(ToggleAudio(c) \/ ToggleAudioFails(c) \/ Seek(c))
    <3>1. UNCHANGED audio
      BY <1>1, <2>2 DEF Client, BeginPlay, StartedQueue, StartQueueFails,
        BeginSkip, Skipped, SkipRefused, SkipToNothing, SkipFails,
        ReportSkipFailure, RefuseWhilePending, RefuseWithoutSession,
        RefuseIndex, BeginEdit, Edited, EditFails, BeginPlayIndex,
        PlayedIndex, PlayIndexRefused, PlayIndexFails, ReadToggle,
        Toggled, ToggleFailed, AdjustFails, StorageFails, audioVars
    <3>2. QED
      BY <3>1
  <2>3. QED
    BY <2>1, <2>2
<1>2. CASE Tick
  BY <1>2
  DEF Tick, ObserveAudio, CommitAudioFailure, LockQueue, Refilled,
      DecideAdvance, DecideNothing, AutoAdvance, AdvanceNowhere, audioVars
<1>3. CASE FadeEnds \/ AudioEnds \/ AudioFails \/ UNCHANGED vars
  BY <1>3 DEF FadeEnds, AudioEnds, AudioFails, vars, audioVars
<1>4. QED
  BY <1>1, <1>2, <1>3 DEF Next

\* A worker changes the deck only for the newest request, and then to own it.
LEMMA WorkerOwns ==
  ASSUME TypeOK, NEW r \in Requests, Task(r)
  PROVE  /\ \/ audio'.owner = audio.owner
            \/ audio'.owner = r /\ stage'[r] \notin {"none", "done"}
         /\ \/ audio'.owner = audio.owner /\ audio'.fade = audio.fade
            \/ ShouldContinue(r)
<1> USE DEF TypeOK, AudioTypes, TaskTypes
<1>1. CASE Load(r)
  <2>1. CASE UNCHANGED audio
    BY <2>1
  <2>2. CASE ~UNCHANGED audio
    <3>1. ShouldContinue(r) /\ \E m \in Modes : audio' = Deck(r, m)
      BY <1>1, <2>2 DEF Load, Modes
    <3>2. stage'[r] \in {"starting", "finished"}
      BY <1>1 DEF Load, Return
    <3>3. QED
      BY <3>1, <3>2 DEF Deck
  <2>3. QED
    BY <2>1, <2>2
<1>2. CASE Play(r)
  BY <1>2 DEF Play, StopAndReturn
<1>3. CASE Confirm(r)
  <2>1. stage'[r] = "finished"
    BY <1>3 DEF Confirm, StopAndReturn, Return
  <2>2. CASE ShouldContinue(r)
    BY <1>3, <2>1, <2>2 DEF Confirm, StopAndReturn, FadingIn
  <2>3. CASE ~ShouldContinue(r)
    BY <1>3, <2>3 DEF Confirm, StopAndReturn
  <2>4. QED
    BY <2>2, <2>3
<1>4. CASE Resolved(r) \/ ResolveFails(r) \/ Admit(r) \/ Commit(r)
  BY <1>4 DEF Resolved, ResolveFails, Admit, Commit, audioVars
<1>5. QED
  BY <1>1, <1>2, <1>3, <1>4 DEF Task

\* A task keeps its way of starting until it retires, and touches no other.
LEMMA TaskStarts ==
  ASSUME TypeOK, NEW r \in Requests, Task(r)
  PROVE  /\ \A q \in Requests : q # r => start'[q] = start[q]
         /\ stage'[r] # "done" => start'[r] = start[r]
<1> USE DEF TypeOK, TaskTypes
<1>1. CASE Resolved(r)
  <2>1. CASE Superseded(r)
    BY <1>1, <2>1 DEF Resolved, Superseded, Retire
  <2>2. CASE ~Superseded(r)
    BY <1>1, <2>2 DEF Resolved
  <2>3. QED
    BY <2>1, <2>2
<1>2. CASE ResolveFails(r)
  BY <1>2 DEF ResolveFails, FailRequest, Retire
<1>3. CASE Admit(r) \/ Load(r) \/ Play(r) \/ Confirm(r)
  BY <1>3 DEF Admit, Load, Play, Confirm
<1>4. CASE Commit(r)
  <2>1. Retire(r)
    BY <1>4 DEF Commit, Superseded, CommitSuccess, CommitFailure, FailRequest
  <2>2. QED
    BY <2>1 DEF Retire
<1>5. QED
  BY <1>1, <1>2, <1>3, <1>4 DEF Task

\* The worker of the newest request owns the deck it takes.
LEMMA NewestTaskOwns ==
  ASSUME TypeOK, RequestsCoherent, NewestOwnsDeck,
         NEW r \in Requests, r = requestId, Task(r)
  PROVE  /\ stage'[r] \in {"starting", "confirming"}
              /\ (start'[r] = "replace" \/ audio'.fade # "none")
              => audio'.owner = r
         /\ stage'[r] = "finished" /\ outcome'[r] \in {"ok", "okFailed"}
              => audio'.owner = r
<1> USE DEF TypeOK, AudioTypes, TaskTypes, NewestOwnsDeck, TakesDeck
<1>0. ShouldContinue(r)
  BY DEF ShouldContinue, RequestsCoherent
<1>1. CASE Resolved(r)
  <2>1. stage'[r] \in {"admitted", "done"}
    BY <1>1 DEF Resolved, Superseded, Retire
  <2>2. QED
    BY <2>1
<1>2. CASE ResolveFails(r)
  BY <1>2 DEF ResolveFails, FailRequest, Retire
<1>3. CASE Admit(r)
  BY <1>0, <1>3 DEF Admit
<1>4. CASE Load(r)
  <2>1. CASE stage'[r] = "starting"
    <3>1. audio' = IF TakesDeck(r) THEN Deck(r, "loaded") ELSE audio
      BY <1>0, <1>4, <2>1 DEF Load, Return
    <3>2. start'[r] = start[r]
      BY <1>4 DEF Load
    <3>3. QED
      BY <2>1, <3>1, <3>2 DEF Deck
  <2>2. CASE stage'[r] # "starting"
    BY <1>0, <1>4, <2>2 DEF Load, Return
  <2>3. QED
    BY <2>1, <2>2
<1>5. CASE Play(r)
  BY <1>0, <1>5 DEF Play, StopAndReturn, Return
<1>6. CASE Confirm(r)
  <2>1. audio'.owner = r
    BY <1>0, <1>6 DEF Confirm, StopAndReturn, FadingIn
  <2>2. QED
    BY <2>1
<1>7. CASE Commit(r)
  <2>1. Retire(r)
    BY <1>7 DEF Commit, Superseded, CommitSuccess, CommitFailure, FailRequest
  <2>2. QED
    BY <2>1 DEF Retire
<1>8. QED
  BY <1>1, <1>2, <1>3, <1>4, <1>5, <1>6, <1>7 DEF Task

\* At the start the backend is empty and nothing is displayed.
LEMMA DeckInit ==
  Init => NewestOwnsDeck /\ ShownWasLoaded /\ AudioAheadIsExplained
  BY BoundsAssumption
  DEF BoundsAssumption, Init, NewestOwnsDeck, ShownWasLoaded,
      AudioAheadIsExplained, Requests

\* The deck belongs to the newest request once its worker took it, and passes
\* to newer requests only.
LEMMA DeckNext ==
  TypeOK /\ RequestsCoherent /\ NewestOwnsDeck /\ [Next]_vars
    => NewestOwnsDeck' /\ audio'.owner >= audio.owner
<1> SUFFICES ASSUME TypeOK, RequestsCoherent, NewestOwnsDeck, [Next]_vars
             PROVE  NewestOwnsDeck' /\ audio'.owner >= audio.owner
  OBVIOUS
<1> USE BoundsAssumption
    DEF BoundsAssumption, TypeOK, SnapshotTypes, AudioTypes, TaskTypes,
        NewestOwnsDeck, TakesDeck, Requests
<1>1. ASSUME NEW r \in Requests, Task(r)
      PROVE  NewestOwnsDeck' /\ audio'.owner >= audio.owner
  <2>1. UNCHANGED <<requestId, generation>>
    BY <1>1, TaskMoves
  <2>2. audio'.owner # audio.owner => audio'.owner = r /\ r = requestId
    BY <1>1, WorkerOwns DEF ShouldContinue, RequestsCoherent
  <2>3. audio'.owner <= requestId' /\ audio'.owner >= audio.owner
    BY <2>1, <2>2
  <2>4. CASE r = requestId
    BY <1>1, <2>1, <2>3, <2>4, NewestTaskOwns
  <2>5. CASE r # requestId
    <3>1. audio'.owner = audio.owner /\ audio'.fade = audio.fade
      BY <1>1, <2>5, WorkerOwns DEF ShouldContinue, RequestsCoherent
    <3>2. \A q \in Requests : q # r => /\ stage'[q] = stage[q]
                                      /\ start'[q] = start[q]
                                      /\ outcome'[q] = outcome[q]
      BY <1>1, TaskMoves, TaskStarts, TaskOutcome
    <3>3. QED
      BY <2>1, <2>3, <2>5, <3>1, <3>2
  <2>6. QED
    BY <2>4, <2>5
<1>2. ASSUME /\ audio'.owner = audio.owner
             /\ audio'.fade = "none" \/ audio'.fade = audio.fade
      PROVE  NewestOwnsDeck' /\ audio'.owner >= audio.owner
  <2>1. ASSUME NEW how \in Starts, NEW s \in Session, Launch(how, s)
        PROVE  NewestOwnsDeck'
    BY <1>2, <2>1 DEF Launch
  <2>2. ASSUME NEW c \in Clients, SkipFails(c) PROVE NewestOwnsDeck'
    BY <1>2, <2>2 DEF SkipFails, taskVars, RequestsCoherent
  <2>3. CASE UNCHANGED <<requestId, generation, pending, taskVars>>
    BY <1>2, <2>3 DEF taskVars
  <2>4. QED
    BY <1>1, <1>2, <2>1, <2>2, <2>3, RequestSteps
<1>3. QED
  BY <1>1, <1>2, AudioSteps

\* Only a commit changes the displayed track, and it owns the deck.
LEMMA CurrentSteps ==
  ASSUME [Next]_vars
  PROVE  \/ \E r \in Requests : Commit(r) /\ CommitSuccess(r)
         \/ UNCHANGED current
<1>1. ASSUME NEW c \in Clients, Client(c) PROVE UNCHANGED current
  BY <1>1 DEF Client, BeginPlay, StartedQueue, StartQueueFails, BeginSkip,
    Skipped, SkipRefused, SkipToNothing, SkipFails, ReportSkipFailure,
    RefuseWhilePending, RefuseWithoutSession, RefuseIndex, BeginEdit, Edited,
    EditFails, BeginPlayIndex, PlayedIndex, PlayIndexRefused, PlayIndexFails,
    ReadToggle, ToggleAudio, ToggleAudioFails, Toggled, ToggleFailed,
    Seek, AdjustFails, StorageFails, ShowError, Launch, snapshotVars
<1>2. ASSUME NEW r \in Requests, Task(r)
      PROVE  (Commit(r) /\ CommitSuccess(r)) \/ UNCHANGED current
  BY <1>2
  DEF Task, Resolved, ResolveFails, Superseded, FailRequest, Admit, Load, Play,
      Confirm, Commit, CommitFailure, snapshotVars
<1>3. CASE Tick
  BY <1>3
  DEF Tick, ObserveAudio, CommitAudioFailure, LockQueue, Refilled,
      DecideAdvance, DecideNothing, AutoAdvance, Launch, AdvanceNowhere,
      snapshotVars
<1>4. CASE FadeEnds \/ AudioEnds \/ AudioFails \/ UNCHANGED vars
  BY <1>4 DEF FadeEnds, AudioEnds, AudioFails, vars, snapshotVars
<1>5. QED
  BY <1>1, <1>2, <1>3, <1>4 DEF Next

\* The request that commit_playback_success displays owns the deck.
LEMMA CommitOwns ==
  ASSUME TypeOK, RequestsCoherent, NewestOwnsDeck,
         NEW r \in Requests, Commit(r), CommitSuccess(r)
  PROVE  current' = r /\ audio' = audio /\ audio.owner = r
  BY DEF Commit, CommitSuccess, NewestOwnsDeck, audioVars

\* The displayed track is never newer than the one the backend was given.
LEMMA ShownNext ==
  TypeOK /\ RequestsCoherent /\ NewestOwnsDeck /\ ShownWasLoaded
    /\ [Next]_vars => ShownWasLoaded'
<1> SUFFICES ASSUME TypeOK, RequestsCoherent, NewestOwnsDeck, ShownWasLoaded,
                    [Next]_vars
             PROVE  ShownWasLoaded'
  OBVIOUS
<1> USE DEF TypeOK, SnapshotTypes, AudioTypes, ShownWasLoaded, Requests
<1>1. ASSUME NEW r \in Requests, Commit(r), CommitSuccess(r)
      PROVE  ShownWasLoaded'
  BY <1>1, CommitOwns
<1>2. CASE UNCHANGED current
  <2>1. audio'.owner >= audio.owner /\ audio'.owner \in 0 .. MaxRequests
    BY DeckNext, TypeOKNext
  <2>2. QED
    BY <1>2, <2>1
<1>3. QED
  BY <1>1, <1>2, CurrentSteps

\* An error on display is cleared by a launch or a commit only.
LEMMA ErrorSteps ==
  ASSUME TypeOK, [Next]_vars, error
  PROVE  \/ error'
         \/ \E how \in Starts, s \in Session : Launch(how, s)
         \/ \E r \in Requests : Commit(r) /\ CommitSuccess(r)
<1> DEFINE Goal == \/ error'
                   \/ \E how \in Starts, s \in Session : Launch(how, s)
                   \/ \E r \in Requests : Commit(r) /\ CommitSuccess(r)
<1>1. ASSUME NEW c \in Clients, Client(c) PROVE Goal
  <2>1. CASE StartedQueue(c) \/ Skipped(c) \/ PlayedIndex(c)
    BY <2>1, LaunchingCommands
  <2>2. CASE ~(StartedQueue(c) \/ Skipped(c) \/ PlayedIndex(c))
    <3>1. error'
      BY <1>1, <2>2 DEF Client, BeginPlay, StartQueueFails, BeginSkip,
        SkipRefused, SkipToNothing, SkipFails, ReportSkipFailure,
        RefuseWhilePending, RefuseWithoutSession, RefuseIndex, BeginEdit,
        Edited, EditFails, BeginPlayIndex, PlayIndexRefused, PlayIndexFails,
        ReadToggle, ToggleAudio, ToggleAudioFails, Toggled, ToggleFailed,
        Seek, AdjustFails, StorageFails, ShowError, snapshotVars
    <3>2. QED
      BY <3>1
  <2>3. QED
    BY <2>1, <2>2
<1>2. ASSUME NEW r \in Requests, Task(r) PROVE Goal
  BY <1>2
  DEF Task, Resolved, ResolveFails, Superseded, FailRequest, Admit, Load, Play,
      Confirm, Commit, CommitFailure, snapshotVars
<1>3. ASSUME Tick PROVE Goal
  <2>1. CASE AutoAdvance
    <3>1. PICK reply \in Replies :
            Launch(IF ended THEN "replace" ELSE "crossfade", reply)
      BY <2>1 DEF AutoAdvance
    <3>2. QED
      BY <3>1, RepliesAreSessions DEF Starts
  <2>2. CASE ~AutoAdvance
    <3>1. error'
      BY <1>3, <2>2
      DEF Tick, ObserveAudio, CommitAudioFailure, LockQueue, Refilled,
          DecideAdvance, DecideNothing, AdvanceNowhere, snapshotVars
    <3>2. QED
      BY <3>1
  <2>3. QED
    BY <2>1, <2>2
<1>4. CASE FadeEnds \/ AudioEnds \/ AudioFails \/ UNCHANGED vars
  BY <1>4 DEF FadeEnds, AudioEnds, AudioFails, vars, snapshotVars
<1>5. QED
  BY <1>1, <1>2, <1>3, <1>4 DEF Next

\* A task that ends and displays nothing has failed visibly or was overtaken.
LEMMA TaskEnds ==
  ASSUME TypeOK, RequestsCoherent, NEW r \in Requests, Task(r),
         stage'[r] = "done"
  PROVE  \/ Commit(r) /\ CommitSuccess(r)
         \/ error'
         \/ r # requestId
<1> USE DEF TypeOK, TaskTypes
<1>1. ASSUME Superseded(r) PROVE r # requestId
  BY <1>1 DEF Superseded, RequestsCoherent, SnapshotTypes, Requests
<1>2. ASSUME FailRequest(r) PROVE error'
  BY <1>2 DEF FailRequest
<1>3. CASE Resolved(r)
  BY <1>1, <1>3 DEF Resolved
<1>4. CASE ResolveFails(r)
  BY <1>2, <1>4 DEF ResolveFails
<1>5. CASE Admit(r)
  BY <1>5 DEF Admit, Return
<1>6. CASE Load(r)
  BY <1>6 DEF Load, Return
<1>7. CASE Play(r)
  BY <1>7 DEF Play, StopAndReturn, Return
<1>8. CASE Confirm(r)
  BY <1>8 DEF Confirm, StopAndReturn, Return
<1>9. CASE Commit(r)
  BY <1>1, <1>2, <1>9 DEF Commit, CommitFailure
<1>10. QED
  BY <1>3, <1>4, <1>5, <1>6, <1>7, <1>8, <1>9 DEF Task

\* A backend ahead of the display stays explained until they agree.
LEMMA AheadNext ==
  TypeOK /\ RequestsCoherent /\ NewestOwnsDeck /\ AudioAheadIsExplained
    /\ [Next]_vars => AudioAheadIsExplained'
<1> SUFFICES ASSUME TypeOK, RequestsCoherent, NewestOwnsDeck,
                    AudioAheadIsExplained, [Next]_vars
             PROVE  AudioAheadIsExplained'
  OBVIOUS
<1> USE DEF TypeOK, SnapshotTypes, AudioTypes, TaskTypes, NewestOwnsDeck,
            AudioAheadIsExplained, Requests, Live
<1>1. ASSUME NEW r \in Requests, Commit(r), CommitSuccess(r)
      PROVE  AudioAheadIsExplained'
  BY <1>1, CommitOwns
<1>2. ASSUME NEW how \in Starts, NEW s \in Session, Launch(how, s)
      PROVE  requestId' = requestId + 1
  BY <1>2 DEF Launch
<1>3. ASSUME NEW r \in Requests, Task(r), UNCHANGED current
      PROVE  AudioAheadIsExplained'
  <2>1. UNCHANGED requestId
    BY <1>3, TaskMoves
  <2>2. CASE audio'.owner # audio.owner
    BY <1>3, <2>2, WorkerOwns
  <2>3. CASE audio'.owner = audio.owner
    <3>1. error => \/ error'
                   \/ \E q \in Requests : Commit(q) /\ CommitSuccess(q)
      BY <1>2, <2>1, ErrorSteps
    <3>2. \A q \in Requests : q # r => stage'[q] = stage[q]
      BY <1>3, TaskMoves
    <3>3. stage'[r] # "none"
      BY <1>3, TaskMoves
    <3>4. CASE stage'[r] = "done"
      BY <1>1, <1>3, <2>1, <2>3, <3>1, <3>2, <3>4, TaskEnds
    <3>5. CASE stage'[r] # "done"
      BY <1>1, <1>3, <2>1, <2>3, <3>1, <3>2, <3>3, <3>5
    <3>6. QED
      BY <3>4, <3>5
  <2>4. QED
    BY <2>2, <2>3
<1>4. ASSUME audio'.owner = audio.owner, requestId' = requestId + 1
      PROVE  AudioAheadIsExplained'
  BY <1>4
<1>5. ASSUME audio'.owner = audio.owner, UNCHANGED current,
             UNCHANGED <<requestId, generation, pending, taskVars>>
      PROVE  AudioAheadIsExplained'
  <2>1. error => \/ error'
                 \/ \E q \in Requests : Commit(q) /\ CommitSuccess(q)
    BY <1>2, <1>5, ErrorSteps
  <2>2. QED
    BY <1>1, <1>5, <2>1 DEF taskVars
<1>6. ASSUME NEW r \in Requests, Task(r) PROVE AudioAheadIsExplained'
  BY <1>1, <1>3, <1>6, CurrentSteps
<1>7. ASSUME audio'.owner = audio.owner PROVE AudioAheadIsExplained'
  <2>1. ASSUME NEW c \in Clients, SkipFails(c) PROVE requestId' = requestId + 1
    BY <2>1 DEF SkipFails
  <2>2. CASE UNCHANGED <<requestId, generation, pending, taskVars>>
    BY <1>1, <1>5, <1>7, <2>2, CurrentSteps
  <2>3. QED
    BY <1>2, <1>4, <1>6, <1>7, <2>1, <2>2, RequestSteps
<1>8. QED
  BY <1>6, <1>7, AudioSteps

(***************************************************************************)
(* The inductive invariant and what follows from it.                       *)
(***************************************************************************)

IInv ==
  /\ TypeOK
  /\ RequestsCoherent
  /\ HoldersHold
  /\ EditsExcludeTransitions
  /\ NewestCarriesSession
  /\ ProjectionBehind
  /\ StaleQueueIsExplained
  /\ NewestOwnsDeck
  /\ ShownWasLoaded
  /\ AudioAheadIsExplained

\* The inductive invariant holds initially.
LEMMA IInvInit == Init => IInv
<1> SUFFICES ASSUME Init PROVE IInv
  OBVIOUS
<1>1. NewestCarriesSession
  BY BoundsAssumption
  DEF BoundsAssumption, Init, NewestCarriesSession, Live, Requests
<1>2. ProjectionBehind /\ StaleQueueIsExplained
  BY DEF Init, ProjectionBehind, StaleQueueIsExplained, NoSession
<1>3. QED
  BY <1>1, <1>2, TypeOKInit, RequestsCoherentInit, HoldersHoldInit, DeckInit
  DEF IInv

\* And every step keeps it: one lemma above for each conjunct.
LEMMA IInvNext == IInv /\ [Next]_vars => IInv'
  BY TypeOKNext, RequestsCoherentNext, LocksNext, NewestCarriesNext,
     ProjectionNext, StaleQueueNext, DeckNext, ShownNext, AheadNext
  DEF IInv

\* The inductive invariant holds of every behaviour of the coordinator.
THEOREM Invariance == Spec => []IInv
<1>1. Init => IInv
  BY IInvInit
<1>2. IInv /\ [Next]_vars => IInv'
  BY IInvNext
<1>3. QED
  BY <1>1, <1>2, PTL DEF Spec

\* Every variable of the coordinator keeps its type.
THEOREM TypeCorrect == Spec => []TypeOK
<1>1. IInv => TypeOK
  BY DEF IInv
<1>2. QED
  BY <1>1, Invariance, PTL

\* A pending transition is the newest request and its task is alive: queue
\* commands, refill and auto-advance are never refused on behalf of nobody.
THEOREM PendingIsWorkedOn == Spec => []PendingHasWorker
<1>1. IInv => PendingHasWorker
  BY DEF IInv, RequestsCoherent, PendingHasWorker, Live, Requests, TypeOK,
         SnapshotTypes
<1>2. QED
  BY <1>1, Invariance, PTL

\* No queue edit, refill or advance is awaiting the service while a
\* transition is pending.
THEOREM EditsAreExclusive == Spec => []EditsExcludeTransitions
<1>1. IInv => EditsExcludeTransitions
  BY DEF IInv
<1>2. QED
  BY <1>1, Invariance, PTL

\* The request being carried out was launched with the session now held.
THEOREM NewestIsCurrent == Spec => []NewestCarriesSession
<1>1. IInv => NewestCarriesSession
  BY DEF IInv
<1>2. QED
  BY <1>1, Invariance, PTL

\* A queue displayed that is not the one held has a visible reason.
THEOREM StaleQueuesAreExplained == Spec => []StaleQueueIsExplained
<1>1. IInv => StaleQueueIsExplained
  BY DEF IInv
<1>2. QED
  BY <1>1, Invariance, PTL

\* The displayed track was given to the backend, which holds it or a later one.
THEOREM DisplayFollowsAudio == Spec => []ShownWasLoaded
<1>1. IInv => ShownWasLoaded
  BY DEF IInv
<1>2. QED
  BY <1>1, Invariance, PTL

\* A backend that holds another track than the display has a reason.
THEOREM AudioAheadExplained == Spec => []AudioAheadIsExplained
<1>1. IInv => AudioAheadIsExplained
  BY DEF IInv
<1>2. QED
  BY <1>1, Invariance, PTL

\* Refresh, edit and commit never display an older revision of a session.
THEOREM ProjectionAdvances == Spec => ProjectionNeverRegresses
<1>1. IInv /\ [Next]_vars
        => [projection'.id = projection.id
              => projection'.rev >= projection.rev]_vars
  BY ProjectionNext DEF IInv
<1>2. QED
  BY <1>1, Invariance, PTL DEF Spec, ProjectionNeverRegresses

\* No step hands the deck back to an older request.
THEOREM AudioAdvances == Spec => AudioNeverGoesBack
<1>1. IInv /\ [Next]_vars => [audio.owner' >= audio.owner]_vars
  BY DeckNext DEF IInv
<1>2. QED
  BY <1>1, Invariance, PTL DEF Spec, AudioNeverGoesBack

(***************************************************************************)
(* Refinement.                                                             *)
(***************************************************************************)

\* The initial states of the coordinator are those of the protocol.
LEMMA LatestInit == Init => Latest!Init
  BY DEF Init, Latest!Init

\* A launch issues, a failed skip withdraws, the end of the pending request
\* settles it, and every other step stutters.
LEMMA LatestNext == IInv /\ [Next]_vars => [Latest!Next]_(Latest!vars)
<1> SUFFICES ASSUME IInv, [Next]_vars PROVE [Latest!Next]_(Latest!vars)
  OBVIOUS
<1> USE DEF IInv, TypeOK, SnapshotTypes, TaskTypes, Latest!vars, Latest!Next
<1>1. ASSUME NEW how \in Starts, NEW s \in Session, Launch(how, s)
      PROVE  Latest!Issue
  BY <1>1 DEF Launch, Latest!Issue
<1>2. ASSUME NEW c \in Clients, SkipFails(c) PROVE Latest!Withdraw
  BY <1>2
  DEF SkipFails, ClearPending, Latest!Withdraw, RequestsCoherent
<1>3. ASSUME NEW r \in Requests, Task(r)
      PROVE  Latest!Settle \/ UNCHANGED Latest!vars
  <2>1. UNCHANGED requestId /\ Live(r)
    BY <1>3, TaskMoves
  <2>2. CASE \E q \in Requests : Commit(q) /\ CommitSuccess(q)
    <3>1. PICK q \in Requests : Commit(q) /\ CommitSuccess(q)
      BY <2>2
    <3>2. pending = q /\ q # 0
      BY <3>1 DEF Commit, CommitSuccess, RequestsCoherent, Live, Requests
    <3>3. pending' = 0 /\ current' = q
      BY <3>1, <3>2 DEF CommitSuccess, ClearPending
    <3>4. QED
      BY <2>1, <3>2, <3>3 DEF Latest!Settle
  <2>3. CASE UNCHANGED current
    <3>1. UNCHANGED pending \/ ClearPending(r)
      BY <1>3, TaskMoves
    <3>2. QED
      BY <2>1, <2>3, <3>1 DEF ClearPending, Latest!Settle
  <2>4. QED
    BY <2>2, <2>3, CurrentSteps
<1>4. CASE UNCHANGED <<requestId, generation, pending, taskVars>>
  BY <1>3, <1>4, CurrentSteps DEF Task
<1>5. QED
  BY <1>1, <1>2, <1>3, <1>4, RequestSteps

\* The coordinator implements the request protocol: a superseded or withdrawn
\* request is never displayed, and the open one settles once.
THEOREM RefinesLatestRequest == Spec => ImplementsLatestRequest
<1>1. Init => Latest!Init
  BY LatestInit
<1>2. IInv /\ [Next]_vars => [Latest!Next]_(Latest!vars)
  BY LatestNext
<1>3. QED
  BY <1>1, <1>2, Invariance, PTL DEF Spec, ImplementsLatestRequest, Latest!Spec

\* No edit overlaps a transition, and its commit displays the session held.
THEOREM SessionIsOwned == Spec => []TransitionsOwnSession
BY EditsAreExclusive, NewestIsCurrent, PTL DEF TransitionsOwnSession

\* Display and audio name one track, or the audio is ahead for a reason.
THEOREM DisplayIsHeard == Spec => []DisplayMatchesAudio
BY DisplayFollowsAudio, AudioAheadExplained, PTL DEF DisplayMatchesAudio

(***************************************************************************)
(* The backend.  While a worker loads or starts a track nobody else calls   *)
(* the backend, so what the worker assumes of the deck is what it left.     *)
(***************************************************************************)

AudioStep == Backend!Next \/ UNCHANGED <<audio.mode, audio.fade>>

\* A worker that goes on is where it was, with its way of starting.
WorkersStay ==
  \A r \in Requests :
    stage'[r] \in {"loading", "starting", "confirming"} =>
      stage'[r] = stage[r] /\ start'[r] = start[r]

\* The parts of the backend's promise that workers rest on.
WorkersSafe == WorkersHoldAudio /\ DeckAsLeft

\* A worker does not notice a step that leaves the audio alone.
LEMMA AudioAlone ==
  ASSUME WorkersSafe, WorkersStay, UNCHANGED audioVars
  PROVE  WorkersSafe' /\ AudioStep
BY DEF WorkersSafe, WorkersHoldAudio, DeckAsLeft, WorkersStay, audioVars,
       TakesDeck, AudioStep

\* A launch and every step that leaves the tasks alone keep the workers.
LEMMA WorkersUndisturbed ==
  ASSUME TypeOK,
         \/ \E how \in Starts, s \in Session : Launch(how, s)
         \/ UNCHANGED taskVars
  PROVE  WorkersStay
<1> USE DEF TypeOK, TaskTypes, WorkersStay
<1>1. ASSUME NEW how \in Starts, NEW s \in Session, Launch(how, s)
      PROVE  WorkersStay
  BY <1>1 DEF Launch
<1>2. CASE UNCHANGED taskVars
  BY <1>2 DEF taskVars
<1>3. QED
  BY <1>1, <1>2

\* Toggle and seek take the mutex that no worker holds, and are calls of the
\* backend.
LEMMA CommandCalls ==
  ASSUME TypeOK, WorkersSafe, NEW c \in Clients,
         ToggleAudio(c) \/ ToggleAudioFails(c) \/ Seek(c)
  PROVE  WorkersSafe' /\ AudioStep
<1> USE DEF TypeOK, AudioTypes, Modes, Fades
<1>1. /\ audioLock = 0 /\ UNCHANGED taskVars
      /\ UNCHANGED audioLock
  BY DEF ToggleAudio, ToggleAudioFails, Seek
<1>2. WorkersSafe'
  BY <1>1 DEF WorkersSafe, WorkersHoldAudio, DeckAsLeft, Requests, taskVars
<1>3. CASE ToggleAudio(c)
  <2>1. CASE audio' = Paused
    <3>1. /\ audio'.mode = IF audio.mode = "playing" THEN "paused"
                           ELSE audio.mode
          /\ audio'.fade = "none"
      BY <2>1 DEF Paused
    <3>2. QED
      BY <1>2, <3>1 DEF AudioStep, Backend!Next, Backend!Pause
  <2>2. CASE audio.mode # "stopped" /\ audio' = Resumed
    <3>1. audio'.mode = "playing" /\ audio'.fade = audio.fade
      BY <2>2 DEF Resumed
    <3>2. QED
      BY <1>2, <2>2, <3>1 DEF AudioStep, Backend!Next, Backend!Play
  <2>3. QED
    BY <1>3, <2>1, <2>2 DEF ToggleAudio
<1>4. CASE ToggleAudioFails(c)
  <2>1. audio' = audio \/ (audio'.mode = "failed" /\ audio'.fade = audio.fade)
    BY <1>4 DEF ToggleAudioFails, Broken
  <2>2. QED
    BY <1>2, <2>1 DEF AudioStep, Backend!Next, Backend!Play
<1>5. CASE Seek(c)
  <2>1. \/ audio' = audio
        \/ /\ audio.mode # "stopped" /\ audio'.fade = audio.fade
           /\ audio'.mode \in {IF audio.mode = "playing" THEN "playing"
                               ELSE "loaded", "failed"}
    BY <1>5 DEF Seek, Sought, Broken
  <2>2. QED
    BY <1>2, <2>1 DEF AudioStep, Backend!Next, Backend!Seek
<1>6. QED
  BY <1>3, <1>4, <1>5

\* Fades and tracks that end, and engines that fail, beside a worker.
LEMMA BackendMoves ==
  ASSUME TypeOK, WorkersSafe, FadeEnds \/ AudioEnds \/ AudioFails
  PROVE  WorkersSafe' /\ AudioStep
<1> USE DEF TypeOK, AudioTypes
<1>1. UNCHANGED <<audioLock, taskVars>>
  BY DEF FadeEnds, AudioEnds, AudioFails
<1>2. CASE FadeEnds
  <2>1. /\ audio.fade = "running" /\ audio'.fade = "none"
        /\ audio'.mode = audio.mode
    BY <1>2 DEF FadeEnds
  <2>2. WorkersSafe'
    BY <1>1, <2>1
       DEF WorkersSafe, WorkersHoldAudio, DeckAsLeft, TakesDeck, taskVars
  <2>3. QED
    BY <2>1, <2>2 DEF AudioStep, Backend!Next, Backend!FadeEnds
<1>3. CASE AudioEnds \/ AudioFails
  <2>1. /\ audio'.fade = audio.fade
        /\ \/ audio.mode = "playing" /\ audio'.mode = "ended"
           \/ /\ audio.mode \in {"loaded", "playing", "paused"}
              /\ audio'.mode = "failed"
    BY <1>3 DEF AudioEnds, AudioFails
  <2>2. WorkersSafe'
    BY <1>1, <2>1
       DEF WorkersSafe, WorkersHoldAudio, DeckAsLeft, TakesDeck, taskVars
  <2>3. QED
    BY <2>1, <2>2
       DEF AudioStep, Backend!Next, Backend!TrackEnds, Backend!Fails
<1>4. QED
  BY <1>2, <1>3

\* The worker that holds the mutex is alone: it is all there is to check.
LEMMA OneWorker ==
  ASSUME TypeOK, WorkersSafe, NEW r \in Requests,
         audioLock = 0 \/ audioLock = r,
         stage' = [stage EXCEPT ![r] = stage'[r]],
         stage'[r] \in {"loading", "starting", "confirming"} => audioLock' = r,
         stage'[r] \in {"starting", "confirming"} =>
           /\ audio'.fade \in IF start'[r] = "replace" THEN {"none"}
                              ELSE {"none", "dead"}
           /\ start'[r] = "replace" \/ audio'.fade # "none"
                => audio'.mode # "stopped"
  PROVE  WorkersSafe'
<1>1. \A q \in Requests :
        q # r => stage'[q] \notin {"loading", "starting", "confirming"}
  <2>1. \A q \in Requests : q # r => stage'[q] = stage[q]
    BY DEF TypeOK, TaskTypes
  <2>2. \A q \in Requests :
          stage[q] \in {"loading", "starting", "confirming"} => q = r
    BY BoundsAssumption
    DEF WorkersSafe, WorkersHoldAudio, Requests, BoundsAssumption
  <2>3. QED
    BY <2>1, <2>2
<1>2. QED
  BY <1>1 DEF WorkersSafe, WorkersHoldAudio, DeckAsLeft, TakesDeck

\* A worker calls the backend with its deck as it left it.
LEMMA WorkerCalls ==
  ASSUME TypeOK, WorkersSafe, NEW r \in Requests, Task(r)
  PROVE  WorkersSafe' /\ AudioStep
<1> USE DEF TypeOK, AudioTypes, TaskTypes
<1>0. start[r] \in {"replace", "crossfade"}
  BY DEF Starts
<1>1. /\ stage' = [stage EXCEPT ![r] = stage'[r]]
      /\ stage'[r] # "done" => start'[r] = start[r]
  BY TaskMoves, TaskStarts
<1>2. CASE Resolved(r) \/ ResolveFails(r) \/ Commit(r)
  <2>1. UNCHANGED audioVars
    BY <1>2 DEF Resolved, ResolveFails, Commit
  <2>2. stage'[r] \in {"admitted", "done"}
    BY <1>2 DEF Resolved, ResolveFails, Commit, Superseded, FailRequest,
                CommitSuccess, CommitFailure, Retire
  <2>3. WorkersStay
    BY <1>1, <2>2, TaskStarts DEF WorkersStay
  <2>4. QED
    BY <2>1, <2>3, AudioAlone
<1>3. CASE Admit(r)
  <2>1. /\ audioLock = 0 /\ UNCHANGED audio
        /\ \/ stage'[r] = "finished"
           \/ stage'[r] = "loading" /\ audioLock' = r
    BY <1>3 DEF Admit, Return
  <2>2. WorkersSafe'
    BY <1>1, <2>1, OneWorker
  <2>3. QED
    BY <2>1, <2>2 DEF AudioStep
<1>4. CASE Load(r)
  <2>1. audioLock = r
    BY <1>4 DEF Load, WorkersSafe, WorkersHoldAudio
  <2>2. \/ UNCHANGED audio
        \/ TakesDeck(r) /\ \E m \in {"stopped", "loaded", "failed"} :
                             audio' = Deck(r, m)
    BY <1>4 DEF Load
  <2>3. AudioStep
    <3>1. CASE UNCHANGED audio
      BY <3>1 DEF AudioStep
    <3>2. ASSUME NEW m \in {"stopped", "loaded", "failed"},
                 TakesDeck(r), audio' = Deck(r, m)
          PROVE  AudioStep
      BY <1>0, <3>2
         DEF AudioStep, Deck, TakesDeck, Backend!Next, Backend!Replace,
             Backend!Retake, Backend!Fresh
    <3>3. QED
      BY <2>2, <3>1, <3>2
  <2>4. \/ stage'[r] = "finished"
        \/ /\ stage'[r] = "starting" /\ audioLock' = audioLock
           /\ audio' = IF TakesDeck(r) THEN Deck(r, "loaded") ELSE audio
    BY <1>4 DEF Load, Return
  <2>5. CASE stage'[r] = "finished"
    BY <1>1, <2>1, <2>3, <2>5, OneWorker
  <2>6. CASE stage'[r] = "starting"
    <3>1. /\ audio'.fade \in IF start'[r] = "replace" THEN {"none"}
                             ELSE {"none", "dead"}
          /\ start'[r] = "replace" \/ audio'.fade # "none"
               => audio'.mode # "stopped"
      BY <1>0, <1>1, <2>4, <2>6 DEF Deck, TakesDeck
    <3>2. QED
      BY <1>1, <2>1, <2>3, <2>4, <2>6, <3>1, OneWorker
  <2>7. QED
    BY <2>4, <2>5, <2>6
<1>5. ASSUME StopAndReturn(r), stage[r] \in {"starting", "confirming"}
      PROVE  WorkersSafe' /\ AudioStep
  <2>1. audioLock = r /\ stage'[r] = "finished"
    BY <1>5 DEF StopAndReturn, Return, WorkersSafe, WorkersHoldAudio
  <2>2. WorkersSafe'
    BY <1>1, <2>1, OneWorker
  <2>3. audio.fade \in {"none", "dead"}
    BY <1>5 DEF WorkersSafe, DeckAsLeft
  <2>4. \/ UNCHANGED audio
        \/ audio'.mode = "stopped" /\ audio'.fade = audio.fade
    BY <1>5 DEF StopAndReturn
  <2>5. QED
    BY <2>2, <2>3, <2>4
       DEF AudioStep, Backend!Next, Backend!Replace, Backend!Retake,
           Backend!Fresh
<1>6. CASE Play(r)
  <2>1. stage[r] = "starting" /\ audioLock = r
    BY <1>6 DEF Play, WorkersSafe, WorkersHoldAudio
  <2>2. CASE StopAndReturn(r)
    BY <1>5, <2>1, <2>2
  <2>3. CASE UNCHANGED audio /\ stage'[r] = "finished"
    BY <1>1, <2>1, <2>3, OneWorker DEF AudioStep
  <2>4. CASE /\ audio' = IF TakesDeck(r) THEN [audio EXCEPT !.mode = "playing"]
                         ELSE audio
             /\ stage'[r] = "confirming" /\ audioLock' = audioLock
    <3>1. /\ audio.fade \in IF start[r] = "replace" THEN {"none"}
                            ELSE {"none", "dead"}
          /\ TakesDeck(r) => audio.mode # "stopped"
      BY <2>1 DEF WorkersSafe, DeckAsLeft
    <3>2. /\ audio'.fade = audio.fade
          /\ audio'.mode = IF TakesDeck(r) THEN "playing" ELSE audio.mode
      BY <2>4
    <3>3. WorkersSafe'
      BY <1>1, <2>1, <2>4, <3>1, <3>2, OneWorker DEF TakesDeck
    <3>4. QED
      BY <3>1, <3>2, <3>3 DEF AudioStep, Backend!Next, Backend!Play
  <2>5. QED
    BY <1>6, <2>2, <2>3, <2>4 DEF Play, Return
<1>7. CASE Confirm(r)
  <2>1. stage[r] = "confirming" /\ audioLock = r
    BY <1>7 DEF Confirm, WorkersSafe, WorkersHoldAudio
  <2>2. CASE StopAndReturn(r)
    BY <1>5, <2>1, <2>2
  <2>3. CASE /\ audio' \in IF start[r] = "replace" THEN {audio} ELSE FadingIn(r)
             /\ stage'[r] = "finished"
    <3>1. WorkersSafe'
      BY <1>1, <2>1, <2>3, OneWorker
    <3>2. CASE start[r] = "replace"
      BY <2>3, <3>1, <3>2 DEF AudioStep
    <3>3. CASE start[r] # "replace"
      <4>1. audio.fade \in {"none", "dead"}
        BY <2>1 DEF WorkersSafe, DeckAsLeft
      <4>2. audio' \in FadingIn(r)
        BY <2>3, <3>3
      <4>3. \/ /\ audio.fade = "dead" /\ audio'.mode = audio.mode
               /\ audio'.fade = "running"
            \/ /\ audio.fade = "none" /\ audio'.fade = "running"
               /\ audio'.mode \in {"playing", "ended", "failed"}
        BY <3>3, <4>1, <4>2 DEF FadingIn, TakesDeck
      <4>4. QED
        BY <3>1, <4>3 DEF AudioStep, Backend!Next, Backend!FadeIn
    <3>4. QED
      BY <3>2, <3>3
  <2>4. QED
    BY <1>7, <2>2, <2>3 DEF Confirm, Return
<1>8. QED
  BY <1>2, <1>3, <1>4, <1>6, <1>7 DEF Task

\* Every step of the coordinator leaves the audio alone or is one of the
\* backend's.
LEMMA AudioNext ==
  TypeOK /\ WorkersSafe /\ [Next]_vars => WorkersSafe' /\ AudioStep
<1> SUFFICES ASSUME TypeOK, WorkersSafe, [Next]_vars
             PROVE  WorkersSafe' /\ AudioStep
  OBVIOUS
<1>1. CASE \E c \in Clients : ToggleAudio(c) \/ ToggleAudioFails(c) \/ Seek(c)
  BY <1>1, CommandCalls
<1>2. CASE FadeEnds \/ AudioEnds \/ AudioFails
  BY <1>2, BackendMoves
<1>3. CASE \E r \in Requests : Task(r)
  BY <1>3, WorkerCalls
<1>4. CASE ~(\/ \E c \in Clients :
                  ToggleAudio(c) \/ ToggleAudioFails(c) \/ Seek(c)
             \/ FadeEnds \/ AudioEnds \/ AudioFails
             \/ \E r \in Requests : Task(r))
  <2>1. UNCHANGED audioVars
    <3>1. CASE Tick
      BY <3>1
      DEF Tick, ObserveAudio, CommitAudioFailure, LockQueue, Refilled,
          DecideAdvance, DecideNothing, AutoAdvance, AdvanceNowhere
    <3>2. ASSUME NEW c \in Clients, Client(c) PROVE UNCHANGED audioVars
      BY <1>4, <3>2 DEF Client, BeginPlay, StartedQueue, StartQueueFails,
        BeginSkip, Skipped, SkipRefused, SkipToNothing, SkipFails,
        ReportSkipFailure, RefuseWhilePending, RefuseWithoutSession,
        RefuseIndex, BeginEdit, Edited, EditFails, BeginPlayIndex,
        PlayedIndex, PlayIndexRefused, PlayIndexFails, ReadToggle,
        Toggled, ToggleFailed, AdjustFails, StorageFails
    <3>3. CASE UNCHANGED vars
      BY <3>3 DEF vars
    <3>4. QED
      BY <1>4, <3>1, <3>2, <3>3 DEF Next
  <2>2. \/ \E how \in Starts, s \in Session : Launch(how, s)
        \/ UNCHANGED taskVars
    BY <1>4, RequestSteps DEF SkipFails
  <2>3. QED
    BY <2>1, <2>2, AudioAlone, WorkersUndisturbed
<1>5. QED
  BY <1>1, <1>2, <1>3, <1>4

\* Who loads or starts a track holds the audio mutex.
THEOREM WorkersExclusive == Spec => []WorkersSafe
<1>1. Init => WorkersSafe
  BY DEF Init, WorkersSafe, WorkersHoldAudio, DeckAsLeft
<1>2. TypeOK /\ WorkersSafe /\ [Next]_vars => WorkersSafe'
  BY AudioNext
<1>3. QED
  BY <1>1, <1>2, TypeCorrect, PTL DEF Spec

\* All that happens to the audio, whatever clients, tasks and the tick do, is
\* what AudioBackend promises, which is what the dual deck implements.
THEOREM AudioRefinesBackend == Spec => AudioIsTheBackends
<1>1. Init => Backend!Init
  BY DEF Init, Backend!Init
<1>2. TypeOK /\ WorkersSafe /\ [Next]_vars => [Backend!Next]_(Backend!vars)
  BY AudioNext DEF AudioStep, Backend!vars
<1>3. QED
  BY <1>1, <1>2, TypeCorrect, WorkersExclusive, PTL
  DEF Spec, AudioIsTheBackends, Backend!Spec
=============================================================================
