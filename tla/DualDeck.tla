------------------------------- MODULE DualDeck -------------------------------
(***************************************************************************)
(* The dual deck (zerobeat-audio/src/dual_deck.rs) over two native engines: *)
(* load, play, pause, stop, seek, volume and the guarded transition, its    *)
(* fade threads, and the cancellation closure the daemon calls without any  *)
(* lock.                                                                    *)
(*                                                                         *)
(* Granularity.  Callers are serialised by the daemon's audio mutex and     *)
(* every call holds the lock of the decks from its first effect to its      *)
(* last, so a call is one action, except load and transition_to_guarded,    *)
(* which last long enough to be superseded and cancelled: they are a step   *)
(* per look at should_continue and per engine call, `call` says where they  *)
(* are, and the lock is free exactly when it is "none".  The closure reads  *)
(* the slots without the lock, one after the other: a pause, which moves    *)
(* both, is two steps for that reason.  A load replaces a slot before it    *)
(* begins to wait, and the end of a fade moves the two so that either half  *)
(* of it leads to the same deck.                                            *)
(*                                                                         *)
(* Data.  A gain is kept in units of 1/Steps of a volume unit, on a linear  *)
(* curve: like the equal-power curve it gives a different pair of gains for *)
(* every step, all of the volume to one deck at each end.  Volume calls do  *)
(* not fail on a native engine that is not released.  An engine is its      *)
(* state, its decode worker, whether the cancel generation moved since it   *)
(* was opened, and whether it has a source with its buffer, by a load that  *)
(* succeeded ("loaded") or did not ("opened").                              *)
(***************************************************************************)
EXTENDS Integers

CONSTANTS
  Steps,         \* steps of a fade
  MaxVolume,     \* the full volume, the one it starts with
  MaxGeneration  \* bound on the generation, and so on the fade threads

ASSUME DeckAssumption ==
  /\ Steps \in Nat \ {0}
  /\ MaxVolume \in Nat
  /\ MaxGeneration \in Nat

Decks == {0, 1}
None  == 2  \* no incoming deck, and the slot usize::MAX
Fades == 1 .. MaxGeneration

Modes   == {"stopped", "loading", "ready", "playing", "paused", "ended", "error"}
Decodes == {"none", "decoding", "whole", "failed"}
Sources == {"none", "opened", "loaded"}

Volumes == 0 .. MaxVolume

VARIABLES
  deck,          \* decks: the two engines
  active,
  incoming,
  progress,      \* in steps
  volume,
  generation,
  activeSlot,    \* active_slot
  incomingSlot,  \* incoming_slot
  op, call,      \* the call that holds the lock, and how far it is
  superseded,    \* should_continue() is false from now on
  fade,          \* where the fade thread of each generation is
  canceller,     \* where the cancellation closure is
  aim,           \* the slot it has read
  seen           \* history: the load whose deck the slots were for when it
                 \* first read one, as a generation, or 0

cancelVars == <<canceller, aim, seen>>
callVars == <<op, call, superseded>>
vars == <<deck, active, incoming, progress, volume, generation, activeSlot,
          incomingSlot, callVars, fade, cancelVars>>

Init ==
  /\ volume = MaxVolume
  /\ deck = [d \in Decks |-> [mode |-> "stopped", gain |-> MaxVolume * Steps,
                              decode |-> "none", cancelled |-> FALSE,
                              source |-> "none"]]
  /\ active = 0 /\ incoming = None /\ progress = 0
  /\ generation = 0
  /\ activeSlot = 0 /\ incomingSlot = None
  /\ op = "replace" /\ call = "none" /\ superseded = FALSE
  /\ fade = [g \in Fades |-> "none"]
  /\ canceller = "idle" /\ aim = 0 /\ seen = 0

-----------------------------------------------------------------------------
(* The engine calls, on one deck. *)

Stopped(e) == [e EXCEPT !.mode = "stopped", !.decode = "none", !.source = "none"]

Gain(e, g) == [e EXCEPT !.gain = g]

\* A cancelled engine cannot restart its worker: only open takes the cancel
\* generation anew.  A worker that is started may also fail to prebuffer.
Restarted(e, mode) ==
  {[e EXCEPT !.mode = "error", !.decode = "failed"]} \cup
  IF e.cancelled THEN {}
  ELSE {[e EXCEPT !.mode = mode, !.decode = d] : d \in {"decoding", "whole"}}

\* An engine without a source is stopped, or failed before it had one.
Empty(e) == e.mode = "stopped" \/ (e.mode = "error" /\ e.source = "none")

\* zb_engine_play.  A failed engine that has a source may have enough audio in
\* its buffer to play; the output device may fail to start.
Played(e) ==
  CASE e.mode = "playing" -> {e}
    [] e.mode = "ended"   -> Restarted(e, "playing")
    [] Empty(e) -> {[e EXCEPT !.mode = "error", !.decode = "failed"]}
    [] OTHER -> {[e EXCEPT !.mode = "playing"], [e EXCEPT !.mode = "error"]}

Paused(e) == IF e.mode = "playing" THEN [e EXCEPT !.mode = "paused"] ELSE e

\* zb_engine_seek_ms: the worker of a source is started anew at the target.
Sought(e) ==
  CASE Empty(e) -> {e}
    [] e.mode = "playing" -> Restarted(e, "playing")
    [] OTHER -> Restarted(e, "ready")

-----------------------------------------------------------------------------
(* Calls. *)

Looked == IF incoming = None THEN active ELSE incoming

\* The deck a load or a transition puts its track on.
Target == IF op = "replace" THEN active ELSE 1 - active

Unlocked == call = "none"

\* A call has looked at should_continue when it begins; that a newer request
\* comes right after the look is Supersede right after this.
Begins(o) ==
  /\ Unlocked
  /\ generation < MaxGeneration
  /\ generation' = generation + 1
  /\ op' = o
  /\ superseded' = FALSE

\* Mutant: the slot of a fade under way survives the load.
BeginLoadKeepsSlot ==
  /\ Begins("replace")
  /\ deck' = [d \in Decks |-> Stopped(deck[d])]
  /\ incoming' = None
  /\ progress' = 0
  /\ activeSlot' = active
  /\ call' = "opening"
  /\ UNCHANGED <<active, volume, incomingSlot, fade, cancelVars>>

BeginLoad ==
  /\ Begins("replace")
  /\ incomingSlot' = None
  /\ deck' = [d \in Decks |-> Stopped(deck[d])]
  /\ incoming' = None
  /\ progress' = 0
  /\ activeSlot' = active
  /\ call' = "opening"
  /\ UNCHANGED <<active, volume, fade, cancelVars>>

\* The guarded transition, from the look under the lock to the stop of the deck
\* it takes, which is the incoming one of a fade that has not ended.
BeginTransition ==
  /\ Begins("crossfade")
  /\ deck' = [deck EXCEPT ![1 - active] = Stopped(@)]
  /\ call' = "stopped"
  /\ UNCHANGED <<active, incoming, progress, volume, activeSlot, incomingSlot,
                 fade, cancelVars>>

Leave(d) ==
  /\ deck' = d
  /\ call' = "none"

Expose ==
  /\ call = "stopped"
  /\ IF superseded
     THEN Leave(deck) /\ UNCHANGED incomingSlot
     ELSE /\ incomingSlot' = Target
          /\ call' = "opening"
          /\ UNCHANGED deck
  /\ UNCHANGED <<active, incoming, progress, volume, generation, activeSlot,
                 op, superseded, fade, cancelVars>>

\* The engine takes the cancel generation and its worker starts.
Open ==
  /\ call = "opening"
  /\ deck' = [deck EXCEPT ![Target] =
                [@ EXCEPT !.mode = "loading", !.decode = "decoding",
                          !.cancelled = FALSE, !.source = "opened"]]
  /\ call' = "loading"
  /\ UNCHANGED <<active, incoming, progress, volume, generation, activeSlot,
                 incomingSlot, op, superseded, fade, cancelVars>>

\* A load that was cancelled in time fails.  set_volume follows a replacing one.
Loaded ==
  /\ call = "loading"
  /\ ~deck[Target].cancelled
  /\ \E d \in {"decoding", "whole"} :
       LET e == [deck[Target] EXCEPT !.mode = "ready", !.decode = d,
                                     !.source = "loaded"]
       IN IF op = "replace"
          THEN Leave([deck EXCEPT ![Target] = Gain(e, volume * Steps)])
          ELSE /\ deck' = [deck EXCEPT ![Target] = e]
               /\ call' = "loaded"
  /\ UNCHANGED <<active, incoming, progress, volume, generation, activeSlot,
                 incomingSlot, op, superseded, fade, cancelVars>>

\* A load fails on its arguments, or before there is a buffer and a worker, or
\* when the worker fails, is cancelled or does not get on.
LoadFails ==
  /\ \/ call = "opening" /\ Leave(deck)
     \/ /\ call \in {"opening", "loading"}
        /\ Leave([deck EXCEPT ![Target] =
                    [@ EXCEPT !.mode = "error", !.decode = "failed"]])
  /\ incomingSlot' = IF op = "replace" THEN incomingSlot ELSE None
  /\ UNCHANGED <<active, incoming, progress, volume, generation, activeSlot,
                 op, superseded, fade, cancelVars>>

\* A superseded transition hides its deck and stops it.
Abandon ==
  /\ Leave([deck EXCEPT ![Target] = Stopped(@)])
  /\ incomingSlot' = None

\* set_volume(0.0), then play.
StartIncoming ==
  /\ call = "loaded"
  /\ \/ superseded /\ Abandon
     \/ /\ ~superseded
        /\ \E e \in Played(Gain(deck[Target], 0)) :
             IF e.mode = "playing"
             THEN /\ deck' = [deck EXCEPT ![Target] = e]
                  /\ call' = "started"
                  /\ UNCHANGED incomingSlot
             ELSE /\ Leave([deck EXCEPT ![Target] = e])
                  /\ incomingSlot' = None
  /\ UNCHANGED <<active, incoming, progress, volume, generation, activeSlot,
                 op, superseded, fade, cancelVars>>

\* The last look: the new deck is incoming and its fade thread is spawned.
BeginFade ==
  /\ call = "started"
  /\ \/ /\ superseded
        /\ Abandon
        /\ UNCHANGED <<incoming, progress, fade>>
     \/ /\ ~superseded
        /\ incoming' = Target
        /\ progress' = 0
        /\ fade' = [fade EXCEPT ![generation] = "asleep"]
        /\ Leave(deck)
        /\ UNCHANGED incomingSlot
  /\ UNCHANGED <<active, volume, generation, activeSlot, op, superseded,
                 cancelVars>>

Play ==
  /\ Unlocked
  /\ \E e \in Played(deck[Looked]) : deck' = [deck EXCEPT ![Looked] = e]
  /\ UNCHANGED <<active, incoming, progress, volume, generation, activeSlot,
                 incomingSlot, callVars, fade, cancelVars>>

Seek ==
  /\ Unlocked
  /\ \E e \in Sought(deck[Looked]) : deck' = [deck EXCEPT ![Looked] = e]
  /\ UNCHANGED <<active, incoming, progress, volume, generation, activeSlot,
                 incomingSlot, callVars, fade, cancelVars>>

\* The incoming slot goes first.  The generation, which the code moves before
\* it, moves in the second step: only a fade thread could tell, and it cannot
\* do anything without the lock.
BeginPause ==
  /\ Unlocked
  /\ generation < MaxGeneration
  /\ incomingSlot' = None
  /\ call' = "pausing"
  /\ UNCHANGED <<deck, active, incoming, progress, volume, generation,
                 activeSlot, op, superseded, fade, cancelVars>>

\* Mutant: the fade a pause interrupts is not ended.
PauseWithinFade ==
  /\ call = "pausing"
  /\ generation < MaxGeneration
  /\ generation' = generation + 1
  /\ Leave([deck EXCEPT ![Looked] = Paused(@)])
  /\ UNCHANGED <<active, incoming, progress, volume, activeSlot, incomingSlot,
                 op, superseded, fade, cancelVars>>

\* A pause ends the fade: the incoming deck becomes the active one at once.
Pause ==
  /\ call = "pausing"
  /\ generation < MaxGeneration
  /\ generation' = generation + 1
  /\ incoming' = None
  /\ active' = Looked
  /\ activeSlot' = IF incoming = None THEN activeSlot ELSE incoming
  /\ Leave([d \in Decks |->
       IF incoming = None
       THEN IF d = active THEN Paused(deck[d]) ELSE deck[d]
       ELSE IF d = incoming THEN Paused(Gain(deck[d], volume * Steps))
            ELSE Stopped(deck[d])])
  /\ UNCHANGED <<progress, volume, incomingSlot, op, superseded, fade,
                 cancelVars>>

Stop ==
  /\ Unlocked
  /\ generation < MaxGeneration
  /\ generation' = generation + 1
  /\ incomingSlot' = None
  /\ incoming' = None
  /\ progress' = 0
  /\ deck' = [d \in Decks |-> Stopped(deck[d])]
  /\ UNCHANGED <<active, volume, activeSlot, callVars, fade, cancelVars>>

\* CrossfadeCurve::gains at the progress k of the fade, times the volume v.
Faded(v, k) ==
  [deck EXCEPT ![active]   = Gain(@, v * (Steps - k)),
               ![incoming] = Gain(@, v * k)]

\* Mutant: a volume set during a fade is that of the incoming deck only.
SetVolumeOfLooked ==
  /\ Unlocked
  /\ \E v \in Volumes :
       /\ volume' = v
       /\ deck' = [deck EXCEPT ![Looked] = Gain(@, v * Steps)]
  /\ UNCHANGED <<active, incoming, progress, generation, activeSlot,
                 incomingSlot, callVars, fade, cancelVars>>

SetVolume ==
  /\ Unlocked
  /\ \E v \in Volumes :
       /\ volume' = v
       /\ deck' = IF incoming = None
                  THEN [deck EXCEPT ![active] = Gain(@, v * Steps)]
                  ELSE Faded(v, progress)
  /\ UNCHANGED <<active, incoming, progress, generation, activeSlot,
                 incomingSlot, callVars, fade, cancelVars>>

Call ==
  \/ BeginLoad \/ BeginTransition \/ BeginPause
  \/ Play \/ Stop \/ Seek \/ SetVolume

\* What a load, a transition or a pause does once it has begun.
Proceed ==
  \/ Expose \/ Open \/ Loaded \/ LoadFails \/ StartIncoming \/ BeginFade
  \/ Pause

-----------------------------------------------------------------------------
(* The fade thread of generation g.  While it is the newest it alone moves   *)
(* `progress`, so the step it is at is the next one.                         *)

EndFade(g) == fade' = [fade EXCEPT ![g] = "over"]

\* Mutant: a thread that has become old sleeps on.
WakeSleepsOn(g) ==
  /\ fade[g] = "asleep"
  /\ generation = g
  /\ fade' = [fade EXCEPT ![g] = "awake"]
  /\ UNCHANGED <<deck, active, incoming, progress, volume, generation,
                 activeSlot, incomingSlot, callVars, cancelVars>>

\* The look at the generation before the lock is asked for.
Wake(g) ==
  /\ fade[g] = "asleep"
  /\ IF generation = g THEN fade' = [fade EXCEPT ![g] = "awake"] ELSE EndFade(g)
  /\ UNCHANGED <<deck, active, incoming, progress, volume, generation,
                 activeSlot, incomingSlot, callVars, cancelVars>>

\* Mutant: the thread trusts its look before the lock.
CurrentBefore(g) == TRUE

\* The look at the generation under the lock.
Current(g) == generation = g

FadeStep(g) ==
  /\ fade[g] = "awake"
  /\ Unlocked
  /\ \/ /\ ~Current(g)
        /\ EndFade(g)
        /\ UNCHANGED <<deck, progress, incomingSlot>>
     \/ /\ Current(g)
        /\ incoming = None
        /\ incomingSlot' = None
        /\ EndFade(g)
        /\ UNCHANGED <<deck, progress>>
     \/ /\ Current(g)
        /\ incoming # None
        /\ progress < Steps
        /\ deck' = Faded(volume, progress + 1)
        /\ progress' = progress + 1
        /\ fade' = [fade EXCEPT ![g] = IF progress + 1 = Steps THEN "finishing"
                                       ELSE "asleep"]
        /\ UNCHANGED incomingSlot
  /\ UNCHANGED <<active, incoming, volume, generation, activeSlot, callVars,
                 cancelVars>>

\* Mutant: the outgoing deck is faded out and left playing.
FinishWithoutStop(g) ==
  /\ fade[g] = "finishing"
  /\ Unlocked
  /\ EndFade(g)
  /\ IF Current(g) /\ incoming # None
     THEN /\ deck' = [deck EXCEPT ![incoming] = Gain(@, volume * Steps)]
          /\ active' = incoming
          /\ activeSlot' = incoming
          /\ incoming' = None
          /\ progress' = 0
          /\ incomingSlot' = None
     ELSE UNCHANGED <<deck, active, incoming, progress, activeSlot, incomingSlot>>
  /\ UNCHANGED <<volume, generation, callVars, cancelVars>>

Finish(g) ==
  /\ fade[g] = "finishing"
  /\ Unlocked
  /\ EndFade(g)
  /\ IF Current(g) /\ incoming # None
     THEN /\ deck' = [deck EXCEPT ![active] = Stopped(@),
                                  ![incoming] = Gain(@, volume * Steps)]
          /\ active' = incoming
          /\ activeSlot' = incoming
          /\ incoming' = None
          /\ progress' = 0
          /\ incomingSlot' = None
     ELSE UNCHANGED <<deck, active, incoming, progress, activeSlot, incomingSlot>>
  /\ UNCHANGED <<volume, generation, callVars, cancelVars>>

Thread(g) == Wake(g) \/ FadeStep(g) \/ Finish(g)

-----------------------------------------------------------------------------
(* The daemon and the engines, meanwhile. *)

\* cancel_incoming, before the request it makes way for is numbered.
Withdraw ==
  /\ canceller = "idle"
  /\ canceller' = "reading"
  /\ UNCHANGED <<deck, active, incoming, progress, volume, generation,
                 activeSlot, incomingSlot, callVars, fade, aim, seen>>

\* The slots are those of the deck that is being loaded.
Exposed == call \in {"opening", "loading"}

\* The closure reads one slot, and perhaps the other, then cancels that deck.
ReadIncomingSlot ==
  /\ canceller = "reading"
  /\ seen' = IF Exposed THEN generation ELSE 0
  /\ IF incomingSlot \in Decks
     THEN canceller' = "cancelling" /\ aim' = incomingSlot
     ELSE canceller' = "noIncoming" /\ UNCHANGED aim
  /\ UNCHANGED <<deck, active, incoming, progress, volume, generation,
                 activeSlot, incomingSlot, callVars, fade>>

ReadActiveSlot ==
  /\ canceller = "noIncoming"
  /\ canceller' = "cancelling"
  /\ aim' = activeSlot
  /\ UNCHANGED <<deck, active, incoming, progress, volume, generation,
                 activeSlot, incomingSlot, callVars, fade, seen>>

Cancel ==
  /\ canceller = "cancelling"
  /\ deck' = [deck EXCEPT ![aim] = [@ EXCEPT !.cancelled = TRUE]]
  /\ canceller' = "cancelled"
  /\ UNCHANGED <<active, incoming, progress, volume, generation, activeSlot,
                 incomingSlot, callVars, fade, aim, seen>>

\* prepare_track, or the failure of a skip: from now on should_continue is false
\* for the call under way.
Supersede ==
  /\ canceller = "cancelled"
  /\ superseded' = ~Unlocked
  /\ canceller' = "idle"
  /\ aim' = 0 /\ seen' = 0  \* local to the closure
  /\ UNCHANGED <<deck, active, incoming, progress, volume, generation,
                 activeSlot, incomingSlot, op, call, fade>>

\* The worker of deck d reaches the end of the stream, or fails.  A cancelled
\* worker does neither: it returns and leaves the engine as it is.
DecodeEnds(d) ==
  /\ deck[d].mode \in {"ready", "playing", "paused"}
  /\ deck[d].decode = "decoding"
  /\ ~deck[d].cancelled
  /\ \E r \in {"whole", "failed"} : deck' = [deck EXCEPT ![d].decode = r]
  /\ UNCHANGED <<active, incoming, progress, volume, generation, activeSlot,
                 incomingSlot, callVars, fade, cancelVars>>

\* The output callback of deck d finds the buffer empty, or the failure of the
\* worker is the engine's.
DeckEnds(d) ==
  /\ \/ /\ deck[d].mode = "playing"
        /\ deck[d].decode = "whole"
        /\ deck' = [deck EXCEPT ![d].mode = "ended"]
     \/ /\ deck[d].mode \in {"ready", "playing", "paused"}
        /\ deck[d].decode = "failed"
        /\ deck' = [deck EXCEPT ![d].mode = "error"]
  /\ UNCHANGED <<active, incoming, progress, volume, generation, activeSlot,
                 incomingSlot, callVars, fade, cancelVars>>

Next ==
  \/ Call
  \/ Proceed
  \/ \E g \in Fades : Thread(g)
  \/ Withdraw \/ ReadIncomingSlot \/ ReadActiveSlot \/ Cancel \/ Supersede
  \/ \E d \in Decks : DecodeEnds(d) \/ DeckEnds(d)

Spec == Init /\ [][Next]_vars

\* A load ends (the prebuffer has a timeout), and a fade thread wakes up and
\* gets the lock that every call gives back.
FairSpec ==
  /\ Spec
  /\ WF_vars(Proceed)
  /\ \A g \in Fades : SF_vars(Thread(g))

-----------------------------------------------------------------------------
(* Properties. *)

Engines == [mode : Modes, gain : 0 .. MaxVolume * Steps, decode : Decodes,
            cancelled : BOOLEAN, source : Sources]

\* Every variable has its type.
TypeOK ==
  /\ deck \in [Decks -> Engines]
  /\ active \in Decks
  /\ incoming \in Decks \cup {None}
  /\ progress \in 0 .. Steps
  /\ volume \in Volumes
  /\ generation \in 0 .. MaxGeneration
  /\ activeSlot \in Decks
  /\ incomingSlot \in Decks \cup {None}
  /\ op \in {"replace", "crossfade"}
  /\ call \in {"none", "stopped", "opening", "loading", "loaded", "started",
              "pausing"}
  /\ superseded \in BOOLEAN
  /\ fade \in [Fades -> {"none", "asleep", "awake", "finishing", "over"}]
  /\ canceller \in {"idle", "reading", "noIncoming", "cancelling", "cancelled"}
  /\ aim \in Decks
  /\ seen \in 0 .. MaxGeneration

\* Without a fade, what the active deck plays is at the user's volume: no gain
\* of an old fade is left on it.
SettledVolume ==
  /\ Unlocked /\ incoming = None
  /\ deck[active].source = "loaded"
  => deck[active].gain = volume * Steps

FadeRuns ==
  generation \in Fades /\ fade[generation] \in {"asleep", "awake", "finishing"}

\* During a fade both gains are those of its progress, whatever the user does
\* to the volume meanwhile.
GainsFollowProgress ==
  Unlocked /\ incoming # None /\ FadeRuns /\ progress > 0
  => /\ deck[active].gain = volume * (Steps - progress)
     /\ deck[incoming].gain = volume * progress

\* Whatever was done to the volume and to the fade, a gain is what the user set
\* and the progress of the fade make of it.
GainsAreExact == SettledVolume /\ GainsFollowProgress

\* Without a fade one deck is heard.
OneDeckHeard ==
  Unlocked /\ incoming = None => deck[1 - active].mode # "playing"

\* A cancellation that first read a slot while a deck was being loaded, and
\* that comes to cancel while it still is, cancels that deck and no other:
\* neither a slot of the fade before it nor a promotion misleads it.  (One that
\* read before the deck was exposed cancels whatever it read.)
CancelReachesLoad ==
  Exposed /\ canceller = "cancelling" /\ seen = generation => aim = Target

\* A fade thread of an old generation changes nothing: not even one that was
\* between its look at the generation and the lock when it became old.
OldFadesChangeNothing ==
  [][\A g \in Fades :
       g # generation /\ fade'[g] # fade[g] /\ fade[g] # "none"
         => UNCHANGED <<deck, active, incoming, progress, activeSlot,
                        incomingSlot>>]_vars

\* What is seen of the deck that is looked at.
Seen(mode) ==
  CASE mode = "loading" -> "stopped"
    [] mode = "ready" -> "loaded"
    [] mode = "error" -> "failed"
    [] OTHER -> mode

LookedMode == Seen(deck[Looked].mode)

FadeSeen ==
  IF incoming = None THEN "none" ELSE IF FadeRuns THEN "running" ELSE "dead"

\* Two decks, their slots, generations and fade threads are the one deck with
\* its fade that the coordinator plays through: the deck that is looked at
\* never changes but by a transition that was not superseded, and whatever
\* happens to the other deck, a cancellation included, is not seen.
Backend == INSTANCE AudioBackend WITH mode <- LookedMode, fade <- FadeSeen
ImplementsBackend == Backend!Spec

\* Fades end, whatever is done to the decks: a time comes without any fade
\* thread, and as the generations are bounded, it stays so.
FadesEnd == <>[](\A g \in Fades : fade[g] \in {"none", "over"})

-----------------------------------------------------------------------------
(* Why the safety properties hold: what every step keeps. *)

\* The incoming deck is the other one, and only transitions have the stages of
\* a transition.
DecksDiffer ==
  /\ incoming # active
  /\ call \in {"stopped", "loaded", "started"} => op = "crossfade"

\* The deck that is not looked at is heard only between its start and the last
\* look at should_continue.
OtherDeckQuiet ==
  incoming = None /\ call # "started" => deck[1 - active].mode # "playing"

\* The slots follow the decks.
SlotsFollow ==
  /\ activeSlot = active
  /\ Exposed => incomingSlot = IF op = "replace" THEN None ELSE Target

\* What the closure has read goes with the load it first saw.
LooksFollow ==
  /\ seen <= generation
  /\ call = "stopped" => seen < generation
  /\ Exposed /\ seen = generation
       => /\ canceller = "noIncoming" => op = "replace"
          /\ canceller = "cancelling" => aim = Target

ActiveAtVolume ==
  incoming = None /\ deck[active].source = "loaded"
  => deck[active].gain = volume * Steps

\* Threads exist for generations that were reached, and a load or a transition
\* has none yet.
FadesBehind ==
  /\ \A g \in Fades : g > generation => fade[g] = "none"
  /\ call \notin {"none", "pausing"} => ~FadeRuns

FadeGains ==
  incoming # None /\ FadeRuns /\ progress > 0
  => /\ deck[active].gain = volume * (Steps - progress)
     /\ deck[incoming].gain = volume * progress

IInv ==
  /\ TypeOK /\ DecksDiffer /\ OtherDeckQuiet /\ SlotsFollow /\ LooksFollow
  /\ ActiveAtVolume /\ FadesBehind /\ FadeGains

\* Only the deck of the call under way is being loaded, and the deck of a
\* transition that was started may have come to its end.  With IInv this is
\* what the refinement of the backend needs.
StagesShow ==
  /\ \A d \in Decks :
       deck[d].mode = "loading" => call = "loading" /\ d = Target
  /\ call \notin {"none", "pausing"} => generation # 0
  /\ call = "started" => deck[Target].mode \in {"playing", "ended", "error"}

-----------------------------------------------------------------------------
(* What the program says of itself and does not keep. *)

\* With nothing being loaded, the track that is heard goes on being decoded:
\* a request that supersedes nothing cancels nothing.
HeardIsDecoded ==
  Unlocked /\ deck[Looked].mode = "playing" /\ deck[Looked].decode = "decoding"
  => ~deck[Looked].cancelled

=============================================================================
