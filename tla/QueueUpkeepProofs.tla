-------------------------- MODULE QueueUpkeepProofs --------------------------
(***************************************************************************)
(* Proofs about QueueUpkeep, for any display limit, number of attempts,     *)
(* longest wait and bounds.                                                 *)
(*                                                                         *)
(* The argument: revisions only grow, and the markers and the tick are      *)
(* never ahead of the queue.  A marker of the queue at hand has counted     *)
(* every failed call of it but at most one, made in the tick that changed   *)
(* the revision and recorded under the one before.                          *)
(***************************************************************************)
EXTENDS QueueUpkeep, TLAPS

Types ==
  /\ service \in [revision : Nat, upcoming : Nat]
  /\ held \in [revision : Nat, endless : BOOLEAN]
  /\ shown \in Nat
  /\ sound \in Sounds
  /\ full \in Fulls \cup {None}
  /\ backoff \in Backoffs \cup {None}
  /\ marker \in Markers \cup {None}
  /\ tick \in Ticks \cup {None}
  /\ fails \in Nat /\ after \in Nat /\ dry \in Nat

\* Nothing the daemon remembers is of a later revision than it has.
NeverAhead ==
  /\ held.revision <= service.revision
  /\ marker # None => marker.revision <= held.revision
  /\ tick # None => tick.revision <= held.revision

\* What the marker knows of the failed calls for the next track.
FailsCounted ==
  /\ tick # None /\ tick.revision # held.revision => fails = 0
  /\ marker # None => /\ marker.attempts \in 1 .. MaxAttempts
                      /\ marker.attempts = MaxAttempts => marker.terminal
  /\ IF marker # None /\ marker.revision = held.revision
     THEN fails <= marker.attempts + 1
     ELSE fails <= 1

\* After a terminal failure the marker stands in the way.
AfterCounted ==
  /\ after <= 1
  /\ tick # None /\ tick.revision # held.revision => after = 0
  /\ after = 1 => /\ marker # None /\ marker.terminal
                  /\ marker.revision = held.revision

\* After an answer without a new track its marker does, or the display is full.
DryCounted == dry <= 1 /\ (dry = 1 => Blocked \/ shown >= MaxVisible)

\* What a tick read of the end of the track still holds, unless another track
\* was started or the user sought.
TickIsTrue ==
  tick # None => tick.sound = "playing" \/ sound # "playing" \/ moved

Inv ==
  /\ Types /\ NeverAhead /\ FailsCounted /\ AfterCounted /\ DryCounted
  /\ TickIsTrue

----------------------------------------------------------------------------
\* The smaller of two numbers is one of them and not above the other.
LEMMA MinOfTwo ==
  ASSUME NEW a \in Nat, NEW b \in Nat
  PROVE  Min({a, b}) = IF a <= b THEN a ELSE b
<1> DEFINE least == IF a <= b THEN a ELSE b
<1>1. least \in {a, b} /\ \A y \in {a, b} : least <= y
  OBVIOUS
<1>2. \A x \in {a, b} : (\A y \in {a, b} : x <= y) => x = least
  OBVIOUS
<1> HIDE DEF least
<1>3. (CHOOSE x \in {a, b} : \A y \in {a, b} : x <= y) = least
  BY <1>1, <1>2
<1> QED
  BY <1>3 DEF Min, least

LEMMA VisibleIsNat == \A n \in Nat : Visible(n) \in Nat
  BY MinOfTwo, QueueUpkeepAssumption DEF QueueUpkeepAssumption, Visible

LEMMA DelayIsNat == \A n \in 1 .. MaxAttempts : Delay(n) \in Nat
  BY MinOfTwo, QueueUpkeepAssumption DEF QueueUpkeepAssumption, Delay

LEMMA Initially == Init => Inv
<1> SUFFICES ASSUME Init PROVE Inv
  OBVIOUS
<1> USE DEF Init
<1>1. Types
  BY DEF Types, Sounds
<1>2. /\ NeverAhead /\ FailsCounted /\ AfterCounted /\ DryCounted
      /\ TickIsTrue
  BY DEF NeverAhead, FailsCounted, AfterCounted, DryCounted, TickIsTrue
<1> QED
  BY <1>1, <1>2 DEF Inv

\* What the service may answer.
LEMMA ChangedIsLater ==
  ASSUME Types, NEW s \in Changed
  PROVE  /\ s \in [revision : Nat, upcoming : Nat]
         /\ s.revision > service.revision
  BY QueueUpkeepAssumption DEF QueueUpkeepAssumption, Types, Changed

\* An answer that is accepted is of a later revision, and forgets the markers.
LEMMA AcceptForgets ==
  ASSUME Types, NeverAhead, NEW s \in Changed, Accept(s)
  PROVE  /\ service' = s /\ Forget
         /\ held' = [held EXCEPT !.revision = s.revision]
         /\ s.revision > held.revision
<1>1. s.revision > held.revision
  BY ChangedIsLater DEF NeverAhead, Types
<1> QED
  BY <1>1 DEF Accept

\* What is recorded of a failed call.
LEMMA RecordCounts ==
  ASSUME Types, FailsCounted, AdvanceAllowed, tick # None,
         NEW terminal \in BOOLEAN, Record(terminal)
  PROVE  /\ marker' \in Markers
         /\ marker'.revision = tick.revision
         /\ marker'.attempts =
              IF SameQueue THEN marker.attempts + 1 ELSE 1
         /\ marker'.attempts \in 1 .. MaxAttempts
         /\ marker'.attempts = MaxAttempts => marker'.terminal
         /\ terminal => marker'.terminal
<1> DEFINE n == IF SameQueue THEN marker.attempts + 1 ELSE 1
<1>1. n \in 1 .. MaxAttempts
  <2>1. SameQueue => /\ marker \in Markers /\ ~marker.terminal
                     /\ marker.attempts \in 1 .. MaxAttempts
                     /\ marker.attempts # MaxAttempts
    BY DEF SameQueue, AdvanceAllowed, FailsCounted, Types
  <2> QED
    BY <2>1, QueueUpkeepAssumption DEF QueueUpkeepAssumption
<1>2. marker' = [revision |-> tick.revision, attempts |-> n,
                 terminal |-> terminal \/ n >= MaxAttempts,
                 wait |-> Delay(n)]
  BY DEF Record
<1>3. Delay(n) \in Nat /\ tick.revision \in Nat
  BY <1>1, DelayIsNat DEF Types, Ticks
<1> HIDE DEF n
<1>4. (terminal \/ n >= MaxAttempts) \in BOOLEAN
  OBVIOUS
<1>5. n >= MaxAttempts <=> n = MaxAttempts
  BY <1>1, QueueUpkeepAssumption DEF QueueUpkeepAssumption
<1>6. n \in Nat
  BY <1>1, QueueUpkeepAssumption DEF QueueUpkeepAssumption
<1>7. marker' \in Markers
  BY <1>2, <1>3, <1>4, <1>6 DEF Markers
<1>8. /\ marker'.revision = tick.revision /\ marker'.attempts = n
      /\ marker'.terminal = (terminal \/ n >= MaxAttempts)
  BY <1>2
<1> QED
  BY <1>1, <1>5, <1>7, <1>8 DEF n

\* The clock changes what the markers wait for and nothing else of them.
LEMMA SecondsPass ==
  ASSUME Types, Second
  PROVE  /\ backoff' \in Backoffs \cup {None}
         /\ marker' \in Markers \cup {None}
         /\ marker' = None <=> marker = None
         /\ marker # None => /\ marker'.revision = marker.revision
                             /\ marker'.attempts = marker.attempts
                             /\ marker'.terminal = marker.terminal
<1> USE NoneAssumption DEF NoneAssumption
<1>1. ASSUME NEW m \in Markers
      PROVE  /\ Shorter(m) \in Markers
             /\ Shorter(m).revision = m.revision
             /\ Shorter(m).attempts = m.attempts
             /\ Shorter(m).terminal = m.terminal
  BY DEF Shorter, Markers
<1>2. ASSUME NEW b \in Backoffs PROVE Shorter(b) \in Backoffs
  BY DEF Shorter, Backoffs
<1> QED
  BY <1>1, <1>2 DEF Types, Second, Waiting

\* A refill that succeeds: the service's answer and what it leads to.
LEMMA RefilledShape ==
  ASSUME Types, NeverAhead, NEW s \in {service} \cup Changed, Refilled(s)
  PROVE  /\ s \in [revision : Nat, upcoming : Nat]
         /\ s.revision >= service.revision /\ s.revision >= held.revision
         /\ service' = s
         /\ held' = [held EXCEPT !.revision = s.revision]
         /\ shown' \in Nat
         /\ shown' = Visible(s.upcoming)
         /\ full' \in Fulls \cup {None}
         /\ backoff' \in Backoffs \cup {None}
         /\ fails' \in {fails, 0} /\ after' \in {after, 0}
         /\ dry' = IF shown' > shown THEN 0
                   ELSE IF dry + 1 <= 2 THEN dry + 1 ELSE 2
<1>1. s \in [revision : Nat, upcoming : Nat] /\ s.revision >= service.revision
  BY ChangedIsLater DEF Types
<1>2. s.revision >= held.revision
  BY <1>1 DEF Types, NeverAhead
<1>3. /\ service' = s /\ held' = [held EXCEPT !.revision = s.revision]
      /\ shown' = Visible(s.upcoming)
      /\ backoff' \in {backoff, None}
      /\ fails' \in {fails, 0} /\ after' \in {after, 0}
  <2>1. /\ service' = s /\ held' = [held EXCEPT !.revision = s.revision]
        /\ shown' = Visible(s.upcoming)
    BY DEF Refilled
  <2>2. backoff' \in {backoff, None}
    BY DEF Refilled
  <2>3. fails' \in {fails, 0} /\ after' \in {after, 0}
    BY DEF Refilled
  <2> QED
    BY <2>1, <2>2, <2>3
<1>4. shown' \in Nat
  BY <1>1, <1>3, VisibleIsNat
<1>5. full' \in Fulls \cup {None}
  <2>1. full' = None \/
        full' = [revision |-> s.revision, count |-> shown']
    BY <1>3 DEF Refilled, RefillResult
  <2> QED
    BY <1>1, <1>4, <2>1 DEF Fulls
<1>6. dry' = IF shown' > shown THEN 0
             ELSE IF dry + 1 <= 2 THEN dry + 1 ELSE 2
  <2>1. dry \in Nat /\ dry + 1 \in Nat /\ 2 \in Nat
    BY DEF Types
  <2>2. Min({dry + 1, 2}) = IF dry + 1 <= 2 THEN dry + 1 ELSE 2
    BY <2>1, MinOfTwo
  <2>3. dry' = IF shown' > shown THEN 0 ELSE Min({dry + 1, 2})
    BY DEF Refilled
  <2> QED
    BY <2>2, <2>3
<1> QED
  BY <1>1, <1>2, <1>3, <1>4, <1>5, <1>6 DEF Types

\* The types, by action.
LEMMA TypesKept == Inv /\ [Next]_vars => Types'
<1> SUFFICES ASSUME Inv, [Next]_vars PROVE Types'
  OBVIOUS
<1> USE DEF Inv, Types
<1>1. CASE Refill
  <2>1. tick' \in Ticks /\ UNCHANGED <<sound, marker>>
    BY <1>1 DEF Refill, Ticks
  <2>2. CASE UNCHANGED <<service, held, shown, full, backoff, history>>
    BY <2>1, <2>2 DEF history
  <2>3. CASE /\ full' = None
             /\ UNCHANGED <<service, held, shown, backoff, history>>
    BY <2>1, <2>3 DEF history
  <2>4. CASE RefillFailed
    <3>1. 1 \in 1 .. MaxAttempts
      BY QueueUpkeepAssumption DEF QueueUpkeepAssumption
    <3>2. Delay(1) \in Nat
      BY <3>1, DelayIsNat
    <3>3. backoff' \in Backoffs
      BY <2>4, <3>2 DEF RefillFailed, Backoffs
    <3> QED
      BY <2>1, <2>4, <3>3 DEF RefillFailed, history
  <2>5. ASSUME NEW s \in {service} \cup Changed, Refilled(s) PROVE Types'
    BY <2>1, <2>5, RefilledShape
  <2> QED
    BY <1>1, <2>2, <2>3, <2>4, <2>5 DEF Refill
<1>2. CASE Advance /\ Advanced
  <2>1. PICK s \in Changed : Accept(s)
    BY <1>2 DEF Advanced
  <2>2. s \in [revision : Nat, upcoming : Nat]
    BY <2>1, ChangedIsLater
  <2> QED
    BY <1>2, <2>1, <2>2, AcceptForgets
    DEF Advance, Advanced, EndTick, Another, Forget
<1>3. CASE Advance /\ AdvanceFailed
  <2>1. PICK terminal \in BOOLEAN :
          /\ Record(terminal)
          /\ \/ UNCHANGED service
             \/ service' \in Changed
          /\ after' \in {0, 1, 2}
    BY <1>3 DEF AdvanceFailed
  <2>2. marker' \in Markers
    BY <1>3, <2>1, RecordCounts DEF Advance, EndTick
  <2>3. fails' \in Nat
    BY <1>3, MinOfTwo, QueueUpkeepAssumption
    DEF QueueUpkeepAssumption, AdvanceFailed
  <2>4. service' \in [revision : Nat, upcoming : Nat]
    BY <2>1, ChangedIsLater
  <2> QED
    BY <1>3, <2>1, <2>2, <2>3, <2>4 DEF Advance, AdvanceFailed, EndTick
<1>4. CASE Advance /\ AdvanceInVain
  BY <1>4, ChangedIsLater
  DEF Advance, AdvanceInVain, EndTick, markers, history
<1>5. CASE Rest
  BY <1>5 DEF Rest, EndTick, markers, history
<1>6. CASE Play
  BY <1>6, ChangedIsLater DEF Play, Forget, Another
<1>7. CASE Skip
  BY <1>7, ChangedIsLater, AcceptForgets DEF Skip, Forget, Another
<1>8. CASE Edit
  BY <1>8, ChangedIsLater, AcceptForgets, VisibleIsNat
  DEF Edit, Forget, Another, markers, history
<1>9. CASE Started \/ StartFailed \/ Toggle \/ PlayOn \/ Seek
  BY <1>9, VisibleIsNat
  DEF Started, StartFailed, Toggle, PlayOn, Seek, markers, history, Sounds
<1>10. CASE Second
  BY <1>10, SecondsPass DEF Second, history
<1>11. CASE UNCHANGED vars
  BY <1>11 DEF vars, markers, history
<1> QED
  BY <1>1, <1>2, <1>3, <1>4, <1>5, <1>6, <1>7, <1>8, <1>9, <1>10, <1>11
  DEF Next, Advance

\* What remains of the invariant but the answers without a track, by action.
Counted == NeverAhead /\ FailsCounted /\ AfterCounted

LEMMA CountedKept == Inv /\ [Next]_vars => Counted'
<1> SUFFICES ASSUME Inv, [Next]_vars PROVE Counted'
  OBVIOUS
<1> USE QueueUpkeepAssumption, NoneAssumption
    DEF QueueUpkeepAssumption, NoneAssumption, Inv, Types, Counted,
        NeverAhead, FailsCounted, AfterCounted
<1>1. CASE Refill
  <2>1. /\ tick = None /\ tick' \in Ticks /\ tick'.revision = held.revision
        /\ marker' = marker
    BY <1>1 DEF Refill, Ticks
  <2>2. CASE UNCHANGED <<service, held, history>>
    BY <2>1, <2>2 DEF history
  <2>3. ASSUME NEW s \in {service} \cup Changed, Refilled(s) PROVE Counted'
    <3>1. /\ service' = s /\ held'.revision = s.revision
          /\ s.revision \in Nat /\ s.revision >= held.revision
          /\ IF s.revision = held.revision THEN UNCHANGED <<fails, after>>
             ELSE fails' = 0 /\ after' = 0
      BY <2>3, RefilledShape DEF Refilled
    <3> HIDE DEF Types
    <3>2. held.revision \in Nat
      BY DEF Types
    <3>3. marker # None => marker.revision \in Nat
      BY DEF Types, Markers
    <3>4. CASE s.revision = held.revision
      BY <2>1, <3>1, <3>2, <3>3, <3>4
    <3>5. CASE s.revision > held.revision
      BY <2>1, <3>1, <3>2, <3>3, <3>5
    <3> QED
      BY <3>1, <3>2, <3>4, <3>5
  <2> QED
    BY <1>1, <2>2, <2>3 DEF Refill, RefillFailed
<1>2. CASE Advance /\ Advanced
  <2>1. PICK s \in Changed : Accept(s)
    BY <1>2 DEF Advanced
  <2> QED
    BY <1>2, <2>1, AcceptForgets, ChangedIsLater
    DEF Advance, Advanced, EndTick, Another, Forget
<1>3. CASE Advance /\ AdvanceFailed
  <2>1. PICK terminal \in BOOLEAN :
          /\ Record(terminal)
          /\ UNCHANGED service \/ service' \in Changed
          /\ after' = IF after > 0 THEN 2
                      ELSE IF terminal /\ tick.revision = held.revision THEN 1
                      ELSE 0
    BY <1>3 DEF AdvanceFailed
  <2>2. /\ tick \in Ticks /\ tick.revision \in Nat /\ AdvanceAllowed
        /\ tick' = None /\ held' = held
        /\ fails' = Min({fails + 1, MaxAttempts + 2})
    BY <1>3 DEF Advance, EndTick, AdvanceFailed, Ticks
  <2>3. /\ marker' \in Markers /\ marker'.revision = tick.revision
        /\ marker'.attempts = IF SameQueue THEN marker.attempts + 1 ELSE 1
        /\ marker'.attempts \in 1 .. MaxAttempts
        /\ marker'.attempts = MaxAttempts => marker'.terminal
        /\ terminal => marker'.terminal
    BY <2>1, <2>2, RecordCounts
  <2>4. held.revision \in Nat /\ fails \in Nat /\ after \in Nat
    OBVIOUS
  <2>5. marker # None => marker.attempts \in Nat
    BY DEF Markers
  <2>6. held'.revision <= service'.revision
    <3>1. service'.revision \in Nat /\ service'.revision >= service.revision
      BY <2>1, ChangedIsLater
    <3> QED
      BY <2>2, <3>1
  <2>7. fails + 1 <= MaxAttempts + 2
    BY <2>4, <2>5
  <2>8. fails' = fails + 1
    BY <2>2, <2>4, <2>7, MinOfTwo
  <2> HIDE DEF Types
  <2>9. after = 1 /\ tick.revision = held.revision => FALSE
    BY <2>2 DEF AdvanceAllowed, SameQueue
  <2>10. CASE tick.revision = held.revision
    BY <2>1, <2>2, <2>3, <2>4, <2>5, <2>6, <2>8, <2>9, <2>10 DEF SameQueue
  <2>11. CASE tick.revision # held.revision
    BY <2>1, <2>2, <2>3, <2>4, <2>6, <2>8, <2>11
  <2> QED
    BY <2>10, <2>11
<1>4. CASE Advance /\ AdvanceInVain
  BY <1>4, ChangedIsLater
  DEF Advance, AdvanceInVain, EndTick, markers, history
<1>5. CASE Rest
  BY <1>5 DEF Rest, EndTick, markers, history
<1>6. CASE Play
  BY <1>6, ChangedIsLater DEF Play, Forget, Another
<1>7. CASE Skip
  BY <1>7, ChangedIsLater, AcceptForgets DEF Skip, Forget, Another
<1>8. CASE Edit
  BY <1>8, ChangedIsLater, AcceptForgets
  DEF Edit, Forget, Another, markers, history
<1>9. CASE Started \/ StartFailed \/ Toggle \/ PlayOn \/ Seek
  BY <1>9 DEF Started, StartFailed, Toggle, PlayOn, Seek, markers, history
<1>10. CASE Second
  BY <1>10, SecondsPass DEF Second, history
<1>11. CASE UNCHANGED vars
  BY <1>11 DEF vars, markers, history
<1> QED
  BY <1>1, <1>2, <1>3, <1>4, <1>5, <1>6, <1>7, <1>8, <1>9, <1>10, <1>11
  DEF Next, Advance

\* The answers without a track, by action.
LEMMA DryKept == Inv /\ [Next]_vars => DryCounted'
<1> SUFFICES ASSUME Inv, [Next]_vars PROVE DryCounted'
  OBVIOUS
<1> USE QueueUpkeepAssumption, NoneAssumption
    DEF QueueUpkeepAssumption, NoneAssumption, Inv, Types, DryCounted, Blocked
<1>1. CASE Refill
  <2>1. CASE UNCHANGED <<held, shown, full, history>>
    BY <2>1 DEF history
  <2>2. CASE /\ WantsRefill /\ ~Blocked
             /\ UNCHANGED <<shown, history>>
    BY <2>2 DEF WantsRefill, history
  <2>3. ASSUME NEW s \in {service} \cup Changed, Refilled(s),
               WantsRefill, ~Blocked
        PROVE  DryCounted'
    <3>1. dry = 0
      BY <2>3 DEF WantsRefill
    <3>2. /\ held'.revision = s.revision
          /\ s.revision \in Nat /\ shown' \in Nat
          /\ shown' = Visible(s.upcoming)
          /\ dry' = IF shown' > shown THEN 0 ELSE 1
      BY <2>3, <3>1, RefilledShape
    <3>3. full' = IF shown' > shown \/ shown' >= MaxVisible THEN None
                  ELSE [revision |-> s.revision, count |-> shown']
      BY <2>3, <3>2 DEF Refilled, RefillResult
    <3>4. [revision |-> s.revision, count |-> shown'] \in Fulls
      BY <3>2 DEF Fulls
    <3>5. CASE shown' > shown \/ shown' >= MaxVisible
      BY <3>2, <3>5
    <3>6. CASE ~(shown' > shown \/ shown' >= MaxVisible)
      BY <3>2, <3>3, <3>4, <3>6
    <3> QED
      BY <3>5, <3>6
  <2> QED
    BY <1>1, <2>1, <2>2, <2>3 DEF Refill, RefillFailed
<1>2. CASE Advance /\ Advanced
  BY <1>2 DEF Advance, Advanced, Another
<1>3. CASE Advance /\ (AdvanceFailed \/ AdvanceInVain)
  BY <1>3
  DEF Advance, AdvanceFailed, AdvanceInVain, EndTick, markers, history
<1>4. CASE Rest
  BY <1>4 DEF Rest, EndTick, markers, history
<1>5. CASE Play \/ Skip
  BY <1>5 DEF Play, Skip, Another
<1>6. CASE Edit
  BY <1>6 DEF Edit, Another, markers, history
<1>7. CASE Started
  BY <1>7 DEF Started
<1>8. CASE StartFailed \/ Toggle \/ PlayOn \/ Seek
  BY <1>8 DEF StartFailed, Toggle, PlayOn, Seek, markers, history
<1>9. CASE Second
  BY <1>9 DEF Second, history
<1>10. CASE UNCHANGED vars
  BY <1>10 DEF vars, markers, history
<1> QED
  BY <1>1, <1>2, <1>3, <1>4, <1>5, <1>6, <1>7, <1>8, <1>9, <1>10
  DEF Next, Advance

\* What the tick read, by action.
LEMMA TickKept == Inv /\ [Next]_vars => TickIsTrue'
<1> SUFFICES ASSUME Inv, [Next]_vars PROVE TickIsTrue'
  OBVIOUS
<1> USE DEF Inv, TickIsTrue
<1>1. CASE Refill
  BY <1>1 DEF Refill
<1>2. CASE Advance \/ Rest
  BY <1>2 DEF Advance, Rest, EndTick
<1>3. CASE Play \/ Skip \/ Edit
  BY <1>3 DEF Play, Skip, Edit
<1>4. CASE Started \/ Seek
  BY <1>4 DEF Started, Seek
<1>5. CASE StartFailed \/ Toggle \/ PlayOn \/ Second
  BY <1>5 DEF StartFailed, Toggle, PlayOn, Second
<1>6. CASE UNCHANGED vars
  BY <1>6 DEF vars
<1> QED
  BY <1>1, <1>2, <1>3, <1>4, <1>5, <1>6 DEF Next

----------------------------------------------------------------------------
\* In every state reached, the markers have counted what the service refused.
THEOREM Invariance == Spec => []Inv
<1>1. Inv /\ [Next]_vars => Inv'
  BY TypesKept, CountedKept, DryKept, TickKept DEF Inv, Counted
<1> QED
  BY Initially, <1>1, PTL DEF Spec

\* A service that fails is called a bounded number of times for one queue,
\* whatever number of attempts and longest wait are chosen.
THEOREM CallsBounded == Spec => []CallsAreBounded
<1>1. Inv => CallsAreBounded
  BY QueueUpkeepAssumption
  DEF QueueUpkeepAssumption, Inv, Types, FailsCounted, AfterCounted,
      DryCounted, CallsAreBounded
<1> QED
  BY Invariance, <1>1, PTL

\* The daemon leaves a track by itself only near its end or at it, but for one
\* that was started or sought during the tick that leaves it.
THEOREM AdvanceAtEnd == Spec => AdvancesAtEnd
<1>1. ASSUME Inv, [Next]_vars, pending', ~pending, tick # None
      PROVE  sound # "playing" \/ moved
  <2>1. Advance
    BY <1>1 DEF Next, Refill, Rest, EndTick, Play, Skip, Edit, Started,
      StartFailed, Toggle, PlayOn, Seek, Second, vars
  <2>2. tick.sound # "playing"
    BY <2>1 DEF Advance, ShouldAdvance
  <2> QED
    BY <1>1, <2>2 DEF Inv, TickIsTrue
<1>2. Inv /\ [Next]_vars =>
        [pending' /\ ~pending /\ tick # None =>
           sound # "playing" \/ moved]_vars
  BY <1>1
<1> QED
  BY Invariance, <1>2, PTL DEF Spec, AdvancesAtEnd
=============================================================================
