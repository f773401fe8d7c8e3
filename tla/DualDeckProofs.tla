---------------------------- MODULE DualDeckProofs ----------------------------
(***************************************************************************)
(* Proofs about DualDeck, for any number of steps, volumes and fades: the   *)
(* inductive invariant IInv, action by action, and what follows from it.    *)
(***************************************************************************)
EXTENDS DualDeck, TLAPS

-----------------------------------------------------------------------------
(* Gains and engine calls. *)

\* Full volume bounds every gain the calls compute.
LEMMA GainsBounded ==
  ASSUME NEW v \in Volumes, NEW k \in 0 .. Steps
  PROVE  /\ v * Steps \in 0 .. MaxVolume * Steps
         /\ v * k \in 0 .. MaxVolume * Steps
         /\ v * (Steps - k) \in 0 .. MaxVolume * Steps
<1>1. v \in Nat /\ k \in Nat /\ Steps \in Nat /\ MaxVolume \in Nat
  BY DeckAssumption DEF DeckAssumption, Volumes
<1>2. ASSUME NEW a \in Nat, NEW b \in Nat, a <= MaxVolume, b <= Steps
      PROVE  a * b \in 0 .. MaxVolume * Steps
  <2>1. a * b \in Nat /\ a * Steps \in Nat /\ MaxVolume * Steps \in Nat
    BY <1>1, <1>2
  <2>2. a * b <= a * Steps
    BY <1>1, <1>2
  <2>3. a * Steps <= MaxVolume * Steps
    BY <1>1, <1>2
  <2> QED BY <2>1, <2>2, <2>3
<1> QED BY <1>1, <1>2 DEF Volumes

\* Gains that fades and volume calls set keep an engine's type.
LEMMA GainTypes ==
  ASSUME NEW e \in Engines, NEW g \in 0 .. MaxVolume * Steps
  PROVE  /\ Gain(e, g) \in Engines
         /\ Gain(e, g).gain = g
         /\ Gain(e, g).mode = e.mode
         /\ Gain(e, g).source = e.source
BY DEF Gain, Engines

\* A stopped engine is silent, and keeps its gain.
LEMMA StopTypes ==
  ASSUME NEW e \in Engines
  PROVE  /\ Stopped(e) \in Engines
         /\ Stopped(e).mode = "stopped"
         /\ Stopped(e).source = "none"
BY DEF Stopped, Engines, Modes, Decodes, Sources

\* A pause keeps everything but the mode, and nothing plays after it.
LEMMA PauseTypes ==
  ASSUME NEW e \in Engines
  PROVE  /\ Paused(e) \in Engines
         /\ Paused(e).mode # "playing"
         /\ Paused(e).gain = e.gain
         /\ Paused(e).source = e.source
BY DEF Paused, Engines, Modes

\* Playing and seeking keep the gain of an engine.
LEMMA PlayTypes ==
  ASSUME NEW e \in Engines, NEW f \in Played(e) \cup Sought(e)
  PROVE  /\ f \in Engines
         /\ f.gain = e.gain
         /\ f.source = e.source
<1>1. ASSUME NEW m \in Modes, NEW h \in Restarted(e, m)
      PROVE  h \in Engines /\ h.gain = e.gain /\ h.source = e.source
  <2>1. \/ h = [e EXCEPT !.mode = "error", !.decode = "failed"]
        \/ \E d \in {"decoding", "whole"} : h = [e EXCEPT !.mode = m, !.decode = d]
    BY <1>1 DEF Restarted
  <2>2. CASE h = [e EXCEPT !.mode = "error", !.decode = "failed"]
    BY <2>2 DEF Engines, Modes, Decodes
  <2>3. ASSUME NEW d \in {"decoding", "whole"},
               h = [e EXCEPT !.mode = m, !.decode = d]
        PROVE  h \in Engines /\ h.gain = e.gain /\ h.source = e.source
    BY <2>3 DEF Engines, Modes, Decodes
  <2> QED BY <2>1, <2>2, <2>3
<1>2. CASE f \in Played(e)
  <2>1. CASE e.mode = "playing"
    BY <1>2, <2>1 DEF Played, Empty
  <2>2. CASE e.mode = "ended"
    <3>1. f \in Restarted(e, "playing")
      BY <1>2, <2>2 DEF Played, Empty
    <3> QED BY <1>1, <3>1 DEF Modes
  <2>3. CASE e.mode \notin {"playing", "ended"} /\ Empty(e)
    <3>1. f = [e EXCEPT !.mode = "error", !.decode = "failed"]
      BY <1>2, <2>3 DEF Played, Empty
    <3> QED BY <3>1 DEF Engines, Modes, Decodes
  <2>4. CASE e.mode \notin {"playing", "ended"} /\ ~Empty(e)
    <3>1. f = [e EXCEPT !.mode = "playing"] \/ f = [e EXCEPT !.mode = "error"]
      BY <1>2, <2>4 DEF Played, Empty
    <3> QED BY <3>1 DEF Engines, Modes
  <2> QED BY <2>1, <2>2, <2>3, <2>4
<1>3. CASE f \in Sought(e)
  <2>1. CASE Empty(e)
    BY <1>3, <2>1 DEF Sought, Empty
  <2>2. CASE e.mode = "playing" /\ ~Empty(e)
    BY <1>1, <1>3, <2>2 DEF Sought, Empty, Modes
  <2>3. CASE e.mode # "playing" /\ ~Empty(e)
    BY <1>1, <1>3, <2>3 DEF Sought, Empty, Modes
  <2> QED BY <2>1, <2>2, <2>3
<1> QED BY <1>2, <1>3

\* The gains of a fade.
LEMMA FadedTypes ==
  ASSUME TypeOK, DecksDiffer, incoming # None,
         NEW v \in Volumes, NEW k \in 0 .. Steps
  PROVE  /\ Faded(v, k) \in [Decks -> Engines]
         /\ Faded(v, k)[active].gain = v * (Steps - k)
         /\ Faded(v, k)[incoming].gain = v * k
<1>1. active \in Decks /\ incoming \in Decks /\ active # incoming
  BY DEF TypeOK, DecksDiffer
<1>2. deck[active] \in Engines /\ deck[incoming] \in Engines
  BY <1>1 DEF TypeOK
<1>3. /\ Gain(deck[active], v * (Steps - k)) \in Engines
      /\ Gain(deck[active], v * (Steps - k)).gain = v * (Steps - k)
      /\ Gain(deck[incoming], v * k) \in Engines
      /\ Gain(deck[incoming], v * k).gain = v * k
  BY <1>2, GainsBounded, GainTypes
<1> QED BY <1>1, <1>3 DEF Faded, TypeOK

-----------------------------------------------------------------------------
(* The invariant is inductive. *)

\* It holds at the start.
LEMMA InitInvariant == Init => IInv
<1> SUFFICES ASSUME Init PROVE IInv
  OBVIOUS
<1>1. MaxVolume \in Volumes /\ 0 \in 0 .. Steps
  BY DeckAssumption DEF DeckAssumption, Volumes
<1>2. MaxVolume * Steps \in 0 .. MaxVolume * Steps
  BY <1>1, GainsBounded
<1>3. /\ deck \in [Decks -> Engines]
      /\ \A d \in Decks : /\ deck[d].mode = "stopped"
                          /\ deck[d].gain = MaxVolume * Steps
                          /\ deck[d].source = "none"
  BY <1>2 DEF Init, Engines, Modes, Decodes, Sources
<1>4. TypeOK
  <2>1. /\ active = 0 /\ incoming = None /\ progress = 0 /\ generation = 0
        /\ activeSlot = 0 /\ incomingSlot = None /\ aim = 0 /\ seen = 0
        /\ volume \in Volumes /\ superseded = FALSE
        /\ op = "replace" /\ call = "none" /\ canceller = "idle"
    BY <1>1 DEF Init
  <2>2. fade \in [Fades -> {"none", "asleep", "awake", "finishing", "over"}]
    BY DEF Init
  <2>3. 0 \in Decks /\ 0 \in 0 .. MaxGeneration
    BY DeckAssumption DEF Decks, DeckAssumption
  <2> QED BY <1>1, <1>3, <2>1, <2>2, <2>3 DEF TypeOK
<1>5. DecksDiffer /\ OtherDeckQuiet /\ SlotsFollow /\ ActiveAtVolume
  BY <1>3 DEF Init, DecksDiffer, OtherDeckQuiet, SlotsFollow, Exposed, ActiveAtVolume,
              Decks, None
<1>6. FadesBehind /\ FadeGains
  BY DEF Init, FadesBehind, FadeGains, FadeRuns, None
<1>7. LooksFollow
  BY DEF Init, LooksFollow, Exposed
<1> QED BY <1>4, <1>5, <1>6, <1>7 DEF IInv

\* What a step needs to know of the state it starts from.
LEMMA Ground ==
  ASSUME TypeOK, DecksDiffer
  PROVE  /\ active \in {0, 1} /\ 1 - active \in {0, 1} /\ 1 - active # active
         /\ incoming \in {1 - active, None}
         /\ Looked \in {0, 1} /\ Target \in {0, 1}
         /\ generation \in Nat
         /\ deck[0] \in Engines /\ deck[1] \in Engines
         /\ volume * Steps \in 0 .. MaxVolume * Steps
         /\ 0 \in 0 .. MaxVolume * Steps
BY GainsBounded, DeckAssumption
   DEF TypeOK, DecksDiffer, Decks, None, Looked, Target, DeckAssumption, Volumes

\* What the closure has read stays that of the load it first saw.
LEMMA LooksKeep == IInv /\ [Next]_vars => LooksFollow'
<1> SUFFICES ASSUME IInv, [Next]_vars PROVE LooksFollow'
  OBVIOUS
<1> USE DEF Decks, None
<1>1. TypeOK /\ DecksDiffer /\ SlotsFollow /\ LooksFollow
  BY DEF IInv
<1>2. /\ generation \in Nat /\ seen \in Nat /\ seen <= generation
      /\ Target \in Decks
  BY <1>1, Ground, DeckAssumption DEF TypeOK, LooksFollow, Exposed, DeckAssumption
<1>3. CASE /\ UNCHANGED <<seen, canceller, aim, op, call, generation>>
           /\ call = "none" \/ active' = active
  BY <1>1, <1>3 DEF LooksFollow, Exposed, Target
<1>4. CASE /\ UNCHANGED <<seen, canceller, aim>>
           /\ generation' = generation + 1
  BY <1>2, <1>4 DEF LooksFollow, Exposed
<1>5. CASE /\ UNCHANGED <<seen, canceller, aim, generation>>
           /\ call' \notin {"stopped", "opening", "loading"}
  BY <1>1, <1>5 DEF LooksFollow, Exposed
<1>6. CASE Expose
  BY <1>1, <1>2, <1>6 DEF Expose, Leave, LooksFollow, Exposed, cancelVars
<1>7. CASE Open
  BY <1>1, <1>7 DEF Open, LooksFollow, Exposed, Target, cancelVars
<1>8. CASE ReadIncomingSlot
  <2>1. UNCHANGED <<op, call, generation, active>>
    BY <1>8 DEF ReadIncomingSlot, callVars
  <2>2. Target' = Target /\ Exposed' = Exposed
    BY <2>1 DEF Target, Exposed
  <2>3. CASE Exposed
    <3>1. seen' = generation /\ call # "stopped"
      BY <1>8, <2>3 DEF ReadIncomingSlot, Exposed
    <3>2. incomingSlot = IF op = "replace" THEN None ELSE Target
      BY <1>1, <2>3 DEF SlotsFollow, Exposed
    <3>3. /\ canceller' = "noIncoming" => op = "replace"
          /\ canceller' = "cancelling" => aim' = Target
      BY <1>2, <1>8, <3>2 DEF ReadIncomingSlot
    <3> QED BY <1>2, <2>1, <2>2, <3>1, <3>3 DEF LooksFollow, Exposed
  <2>4. CASE ~Exposed
    BY <1>1, <1>2, <1>8, <2>1, <2>2, <2>4 DEF ReadIncomingSlot, LooksFollow, Exposed
  <2> QED BY <2>3, <2>4
<1>9. CASE ReadActiveSlot
  BY <1>1, <1>9
     DEF ReadActiveSlot, LooksFollow, SlotsFollow, Exposed, Target, callVars
<1>10. CASE Withdraw \/ Cancel \/ Supersede
  BY <1>1, <1>2, <1>10
     DEF Withdraw, Cancel, Supersede, LooksFollow, Exposed, callVars
<1>11. CASE BeginLoad \/ BeginTransition \/ Pause \/ Stop
  BY <1>4, <1>11
     DEF BeginLoad, BeginTransition, Pause, Stop, Begins, cancelVars
<1>12. CASE \/ BeginPause \/ Loaded \/ LoadFails \/ StartIncoming
            \/ BeginFade
  BY <1>5, <1>12
     DEF BeginPause, Loaded, LoadFails, StartIncoming, BeginFade, Abandon,
         Leave, cancelVars
<1>13. CASE \/ Play \/ Seek \/ SetVolume
            \/ \E d \in Decks : DecodeEnds(d) \/ DeckEnds(d)
  BY <1>3, <1>13
     DEF Play, Seek, SetVolume, DecodeEnds, DeckEnds, callVars, cancelVars
<1>14. ASSUME NEW g \in Fades, Thread(g) PROVE LooksFollow'
  BY <1>3, <1>14
     DEF Thread, Wake, FadeStep, Finish, Unlocked, callVars, cancelVars
<1>15. CASE UNCHANGED vars
  BY <1>3, <1>15 DEF vars, callVars, cancelVars
<1> QED
  BY <1>6, <1>7, <1>8, <1>9, <1>10, <1>11, <1>12, <1>13, <1>14, <1>15
     DEF Next, Call, Proceed

\* Starting a load or a transition.
LEMMA BeginKeeps == IInv /\ (BeginLoad \/ BeginTransition) => IInv'
<1> SUFFICES ASSUME IInv, BeginLoad \/ BeginTransition PROVE IInv'
  OBVIOUS
<1> USE DEF Decks, None
<1>0. LooksFollow'
  BY LooksKeep DEF Next, Call, Proceed
<1>1. /\ TypeOK /\ DecksDiffer /\ OtherDeckQuiet /\ SlotsFollow
      /\ ActiveAtVolume /\ FadesBehind /\ FadeGains
  BY DEF IInv
<1>2. \A d \in Decks : /\ Stopped(deck[d]) \in Engines
                       /\ Stopped(deck[d]).mode = "stopped"
                       /\ Stopped(deck[d]).source = "none"
  BY <1>1, Ground, StopTypes
<1>3. generation' \in 0 .. MaxGeneration /\ generation' > generation
  BY <1>1, DeckAssumption
     DEF BeginLoad, BeginTransition, Begins, TypeOK, DeckAssumption
<1>4. FadesBehind' /\ ~FadeRuns'
  <2>1. fade' = fade
    BY DEF BeginLoad, BeginTransition
  <2>2. \A g \in Fades : g >= generation' => fade[g] = "none"
    BY <1>1, <1>3, Ground DEF FadesBehind, Fades
  <2> QED BY <1>3, <2>1, <2>2 DEF FadesBehind, FadeRuns, Fades
<1>5. CASE BeginLoad
  <2>1. TypeOK'
    <3>1. deck' \in [Decks -> Engines]
      BY <1>2, <1>5 DEF BeginLoad
    <3>2. /\ op' \in {"replace", "crossfade"} /\ call' = "opening"
          /\ superseded' \in BOOLEAN /\ progress' = 0
          /\ activeSlot' = active /\ incoming' = None /\ incomingSlot' = None
          /\ UNCHANGED <<active, volume, fade, canceller, aim, seen>>
      BY <1>5 DEF BeginLoad, Begins, cancelVars
    <3> QED BY <1>1, <1>3, <3>1, <3>2, DeckAssumption DEF TypeOK, DeckAssumption
  <2>2. DecksDiffer' /\ OtherDeckQuiet' /\ SlotsFollow' /\ ActiveAtVolume'
    BY <1>1, <1>2, <1>5, Ground
       DEF BeginLoad, Begins, DecksDiffer, OtherDeckQuiet, SlotsFollow, Exposed,
           ActiveAtVolume
  <2> QED BY <1>0, <1>4, <2>1, <2>2 DEF IInv, FadeGains
<1>6. CASE BeginTransition
  <2>1. TypeOK'
    BY <1>1, <1>2, <1>3, <1>6, Ground
       DEF BeginTransition, Begins, TypeOK, cancelVars
  <2>2. DecksDiffer' /\ OtherDeckQuiet' /\ SlotsFollow' /\ ActiveAtVolume'
    BY <1>1, <1>2, <1>6, Ground
       DEF BeginTransition, Begins, TypeOK, DecksDiffer, OtherDeckQuiet,
           SlotsFollow, Exposed, ActiveAtVolume, Unlocked
  <2> QED BY <1>0, <1>4, <2>1, <2>2 DEF IInv, FadeGains
<1> QED BY <1>5, <1>6

\* From the stop of the transition's deck to the end of its load.
LEMMA LoadKeeps == IInv /\ (Expose \/ Open \/ Loaded \/ LoadFails) => IInv'
<1> SUFFICES ASSUME IInv, Expose \/ Open \/ Loaded \/ LoadFails PROVE IInv'
  OBVIOUS
<1> USE DEF Decks, None
<1>0. LooksFollow'
  BY LooksKeep DEF Next, Call, Proceed
<1>1. /\ TypeOK /\ DecksDiffer /\ OtherDeckQuiet /\ SlotsFollow
      /\ ActiveAtVolume /\ FadesBehind /\ FadeGains
  BY DEF IInv
<1>2. FadesBehind' /\ ~FadeRuns'
  BY <1>1 DEF FadesBehind, FadeRuns, Expose, Open, Loaded, LoadFails
<1>3. CASE Expose
  <2>1. TypeOK' /\ DecksDiffer'
    BY <1>1, <1>3, Ground DEF Expose, Leave, TypeOK, DecksDiffer, cancelVars
  <2>2. OtherDeckQuiet' /\ SlotsFollow' /\ ActiveAtVolume'
    BY <1>1, <1>3, Ground
       DEF Expose, Leave, OtherDeckQuiet, DecksDiffer, SlotsFollow, Exposed,
           ActiveAtVolume, Target
  <2> QED BY <1>0, <1>2, <2>1, <2>2 DEF IInv, FadeGains
<1>4. CASE Open
  <2> DEFINE e == [deck[Target] EXCEPT !.mode = "loading", !.decode = "decoding",
                                       !.cancelled = FALSE,
                                       !.source = "opened"]
  <2>1. /\ e \in Engines /\ e.mode = "loading" /\ e.gain = deck[Target].gain
        /\ e.source = "opened"
    BY <1>1, Ground DEF Engines, Modes, Decodes, Sources
  <2>2. deck' = [deck EXCEPT ![Target] = e]
    BY <1>4 DEF Open
  <2> HIDE DEF e
  <2>3. TypeOK' /\ DecksDiffer'
    BY <1>1, <1>4, <2>1, <2>2, Ground DEF Open, TypeOK, DecksDiffer, cancelVars
  <2>4. OtherDeckQuiet' /\ SlotsFollow' /\ ActiveAtVolume'
    BY <1>1, <1>4, <2>1, <2>2, Ground
       DEF Open, TypeOK, OtherDeckQuiet, SlotsFollow, Exposed, ActiveAtVolume, Target
  <2> QED BY <1>0, <1>2, <2>3, <2>4 DEF IInv, FadeGains
<1>5. CASE Loaded
  <2> DEFINE e(d) == [deck[Target] EXCEPT !.mode = "ready", !.decode = d,
                                          !.source = "loaded"]
  <2>1. PICK d \in {"decoding", "whole"} :
          IF op = "replace"
          THEN Leave([deck EXCEPT ![Target] = Gain(e(d), volume * Steps)])
          ELSE deck' = [deck EXCEPT ![Target] = e(d)] /\ call' = "loaded"
    BY <1>5 DEF Loaded
  <2>2. e(d) \in Engines /\ e(d).mode = "ready" /\ e(d).gain = deck[Target].gain
    BY <1>1, Ground DEF Engines, Modes, Decodes, Sources
  <2> HIDE DEF e
  <2>3. /\ Gain(e(d), volume * Steps) \in Engines
        /\ Gain(e(d), volume * Steps).mode = "ready"
        /\ Gain(e(d), volume * Steps).gain = volume * Steps
    BY <1>1, <2>2, Ground, GainTypes
  <2>4. TypeOK' /\ DecksDiffer'
    BY <1>1, <1>5, <2>1, <2>2, <2>3, Ground
       DEF Loaded, Leave, TypeOK, DecksDiffer, cancelVars
  <2>5. OtherDeckQuiet' /\ SlotsFollow' /\ ActiveAtVolume'
    BY <1>1, <1>5, <2>1, <2>2, <2>3, Ground
       DEF Loaded, Leave, TypeOK, OtherDeckQuiet, SlotsFollow, Exposed, ActiveAtVolume,
           Target
  <2> QED BY <1>0, <1>2, <2>4, <2>5 DEF IInv, FadeGains
<1>6. CASE LoadFails
  <2>1. /\ deck' \in [Decks -> Engines]
        /\ \A d \in Decks : /\ deck'[d].gain = deck[d].gain
                            /\ deck'[d].source = deck[d].source
                            /\ deck'[d].mode = "playing"
                                 => deck[d].mode = "playing"
    <3> DEFINE f == [deck[Target] EXCEPT !.mode = "error", !.decode = "failed"]
    <3>1. f \in Engines /\ f.mode = "error" /\ f.gain = deck[Target].gain
          /\ f.source = deck[Target].source
      BY <1>1, Ground DEF Engines, Modes, Decodes
    <3>2. deck' = deck \/ deck' = [deck EXCEPT ![Target] = f]
      BY <1>6 DEF LoadFails, Leave
    <3> HIDE DEF f
    <3> QED BY <1>1, <3>1, <3>2, Ground DEF TypeOK
  <2>2. TypeOK' /\ DecksDiffer'
    BY <1>1, <1>6, <2>1, Ground
       DEF LoadFails, Leave, TypeOK, DecksDiffer, cancelVars
  <2>3. OtherDeckQuiet' /\ SlotsFollow' /\ ActiveAtVolume'
    BY <1>1, <1>6, <2>1, Ground
       DEF LoadFails, Leave, TypeOK, OtherDeckQuiet, SlotsFollow, Exposed,
           ActiveAtVolume, Target
  <2> QED BY <1>0, <1>2, <2>2, <2>3 DEF IInv, FadeGains
<1> QED BY <1>3, <1>4, <1>5, <1>6

\* Starting the incoming deck, and its fade.
LEMMA StartKeeps == IInv /\ (StartIncoming \/ BeginFade) => IInv'
<1> SUFFICES ASSUME IInv, StartIncoming \/ BeginFade PROVE IInv'
  OBVIOUS
<1> USE DEF Decks, None
<1>0. LooksFollow'
  BY LooksKeep DEF Next, Call, Proceed
<1>1. /\ TypeOK /\ DecksDiffer /\ OtherDeckQuiet /\ SlotsFollow
      /\ ActiveAtVolume /\ FadesBehind /\ FadeGains
  BY DEF IInv
<1>2. Target = 1 - active /\ call \in {"loaded", "started"}
  BY <1>1 DEF StartIncoming, BeginFade, DecksDiffer, Target
<1>3. /\ Stopped(deck[Target]) \in Engines
      /\ Stopped(deck[Target]).mode = "stopped"
  BY <1>1, Ground, StopTypes
<1>4. CASE StartIncoming
  <2>1. FadesBehind' /\ ~FadeRuns'
    BY <1>1, <1>4 DEF FadesBehind, FadeRuns, StartIncoming
  <2>2. \A e \in Played(Gain(deck[Target], 0)) : e \in Engines
    BY <1>1, Ground, GainTypes, PlayTypes
  <2>3. TypeOK' /\ DecksDiffer'
    BY <1>1, <1>3, <1>4, <2>2, Ground
       DEF StartIncoming, Abandon, Leave, TypeOK, DecksDiffer, cancelVars
  <2>4. OtherDeckQuiet' /\ SlotsFollow' /\ ActiveAtVolume'
    BY <1>1, <1>2, <1>3, <1>4, <2>2, Ground
       DEF StartIncoming, Abandon, Leave, TypeOK, OtherDeckQuiet, SlotsFollow, Exposed,
           ActiveAtVolume
  <2> QED BY <1>0, <2>1, <2>3, <2>4 DEF IInv, FadeGains
<1>5. CASE BeginFade
  <2>1. CASE superseded
    <3>1. FadesBehind' /\ ~FadeRuns'
      BY <1>1, <1>2, <1>5, <2>1 DEF FadesBehind, FadeRuns, BeginFade
    <3>2. TypeOK' /\ DecksDiffer'
      BY <1>1, <1>3, <1>5, <2>1, Ground
         DEF BeginFade, Abandon, Leave, TypeOK, DecksDiffer, cancelVars
    <3>3. OtherDeckQuiet' /\ SlotsFollow' /\ ActiveAtVolume'
      BY <1>1, <1>2, <1>3, <1>5, <2>1, Ground
         DEF BeginFade, Abandon, Leave, TypeOK, OtherDeckQuiet, SlotsFollow, Exposed,
             ActiveAtVolume
    <3> QED BY <1>0, <3>1, <3>2, <3>3 DEF IInv, FadeGains
  <2>2. CASE ~superseded
    <3>1. TypeOK' /\ DecksDiffer' /\ incoming' \in Decks /\ progress' = 0
      BY <1>1, <1>2, <1>5, <2>2, Ground, DeckAssumption
         DEF BeginFade, Leave, TypeOK, DecksDiffer, cancelVars, DeckAssumption
    <3>2. OtherDeckQuiet' /\ SlotsFollow' /\ ActiveAtVolume' /\ FadeGains'
      BY <1>1, <1>2, <1>5, <2>2, <3>1
         DEF BeginFade, Leave, OtherDeckQuiet, SlotsFollow, Exposed, ActiveAtVolume,
             FadeGains
    <3>3. FadesBehind'
      <4>1. call' = "none" /\ generation' = generation
        BY <1>5, <2>2 DEF BeginFade, Leave
      <4>2. \A g \in Fades : g > generation => fade'[g] = fade[g]
        BY <1>1, <1>5, <2>2, Ground, DeckAssumption
           DEF BeginFade, TypeOK, Fades, DeckAssumption
      <4> QED BY <1>1, <4>1, <4>2 DEF FadesBehind
    <3> QED BY <1>0, <3>1, <3>2, <3>3 DEF IInv
  <2> QED BY <2>1, <2>2
<1> QED BY <1>4, <1>5

\* The calls that do nothing but an engine call.
LEMMA CallKeeps == IInv /\ (Play \/ Seek \/ SetVolume) => IInv'
<1> SUFFICES ASSUME IInv, Play \/ Seek \/ SetVolume PROVE IInv'
  OBVIOUS
<1> USE DEF Decks, None
<1>0. LooksFollow'
  BY LooksKeep DEF Next, Call, Proceed
<1>1. /\ TypeOK /\ DecksDiffer /\ OtherDeckQuiet /\ SlotsFollow
      /\ ActiveAtVolume /\ FadesBehind /\ FadeGains
  BY DEF IInv
<1>2. FadesBehind'
  BY <1>1 DEF Play, Seek, SetVolume, FadesBehind, FadeRuns, callVars
<1>3. CASE Play \/ Seek
  <2>1. PICK e \in Played(deck[Looked]) \cup Sought(deck[Looked]) :
          deck' = [deck EXCEPT ![Looked] = e]
    BY <1>3 DEF Play, Seek
  <2>2. e \in Engines /\ e.gain = deck[Looked].gain /\ e.source = deck[Looked].source
    BY <1>1, <2>1, Ground, PlayTypes
  <2>3. UNCHANGED <<active, incoming, progress, volume, generation, activeSlot,
                    incomingSlot, callVars, fade, cancelVars>>
    BY <1>3 DEF Play, Seek
  <2>4. TypeOK' /\ DecksDiffer'
    BY <1>1, <2>1, <2>2, <2>3, Ground
       DEF TypeOK, DecksDiffer, callVars, cancelVars
  <2>5. \A d \in Decks : deck'[d].gain = deck[d].gain
                         /\ deck'[d].source = deck[d].source
    BY <1>1, <2>1, <2>2, Ground DEF TypeOK
  <2>6. SlotsFollow' /\ ActiveAtVolume' /\ FadeGains'
    BY <1>1, <2>3, <2>5, Ground
       DEF SlotsFollow, Exposed, ActiveAtVolume, FadeGains, FadeRuns, Target, callVars
  <2>7. OtherDeckQuiet'
    BY <1>1, <2>1, <2>3, Ground DEF OtherDeckQuiet, Looked, TypeOK, callVars
  <2> QED BY <1>0, <1>2, <2>4, <2>6, <2>7 DEF IInv
<1>4. CASE SetVolume
  <2>1. PICK v \in Volumes :
          /\ volume' = v
          /\ deck' = IF incoming = None
                     THEN [deck EXCEPT ![active] = Gain(@, v * Steps)]
                     ELSE Faded(v, progress)
    BY <1>4 DEF SetVolume
  <2>2. UNCHANGED <<active, incoming, progress, generation, activeSlot,
                    incomingSlot, callVars, fade, cancelVars>>
    BY <1>4 DEF SetVolume
  <2>3. CASE incoming = None
    <3>1. v * Steps \in 0 .. MaxVolume * Steps
      BY <2>1, GainsBounded, DeckAssumption DEF DeckAssumption
    <3>2. /\ Gain(deck[active], v * Steps) \in Engines
          /\ Gain(deck[active], v * Steps).gain = v * Steps
      BY <1>1, <3>1, Ground, GainTypes
    <3>3. deck' = [deck EXCEPT ![active] = Gain(deck[active], v * Steps)]
      BY <2>1, <2>3
    <3>4. TypeOK' /\ DecksDiffer'
      BY <1>1, <2>1, <2>2, <3>2, <3>3, Ground
         DEF TypeOK, DecksDiffer, callVars, cancelVars
    <3>5. OtherDeckQuiet' /\ SlotsFollow' /\ ActiveAtVolume' /\ FadeGains'
      BY <1>1, <2>1, <2>2, <2>3, <3>2, <3>3, Ground
         DEF OtherDeckQuiet, SlotsFollow, Exposed, ActiveAtVolume, FadeGains, TypeOK,
             Target, callVars
    <3> QED BY <1>0, <1>2, <3>4, <3>5 DEF IInv
  <2>4. CASE incoming # None
    <3>1. /\ deck' \in [Decks -> Engines]
          /\ deck'[active].gain = v * (Steps - progress)
          /\ deck'[incoming].gain = v * progress
      BY <1>1, <2>1, <2>4, FadedTypes DEF TypeOK
    <3>2. TypeOK' /\ DecksDiffer'
      BY <1>1, <2>1, <2>2, <3>1 DEF TypeOK, DecksDiffer, callVars, cancelVars
    <3>3. OtherDeckQuiet' /\ SlotsFollow' /\ ActiveAtVolume' /\ FadeGains'
      BY <1>1, <2>1, <2>2, <2>4, <3>1
         DEF OtherDeckQuiet, SlotsFollow, Exposed, ActiveAtVolume, FadeGains, Target,
             callVars
    <3> QED BY <1>0, <1>2, <3>2, <3>3 DEF IInv
  <2> QED BY <2>3, <2>4
<1> QED BY <1>3, <1>4


\* A pause, which settles a fade, and a stop.
LEMMA EndKeeps == IInv /\ (BeginPause \/ Pause \/ Stop) => IInv'
<1> SUFFICES ASSUME IInv, BeginPause \/ Pause \/ Stop PROVE IInv'
  OBVIOUS
<1> USE DEF Decks, None
<1>0. LooksFollow'
  BY LooksKeep DEF Next, Call, Proceed
<1>1. /\ TypeOK /\ DecksDiffer /\ OtherDeckQuiet /\ SlotsFollow
      /\ ActiveAtVolume /\ FadesBehind /\ FadeGains
  BY DEF IInv
<1>2. ASSUME Pause \/ Stop
      PROVE  generation' \in 0 .. MaxGeneration /\ generation' > generation
  BY <1>1, <1>2, DeckAssumption DEF Pause, Stop, TypeOK, DeckAssumption
<1>3. ASSUME Pause \/ Stop
      PROVE  FadesBehind' /\ call' = "none" /\ call \in {"none", "pausing"}
  <2>1. fade' = fade /\ call' = "none" /\ call \in {"none", "pausing"}
    BY <1>3 DEF Pause, Stop, Unlocked, Leave, callVars
  <2> QED BY <1>1, <1>2, <1>3, <2>1, Ground DEF FadesBehind, Fades
<1>4. \A d \in Decks : /\ Stopped(deck[d]) \in Engines
                       /\ Stopped(deck[d]).mode = "stopped"
                       /\ Stopped(deck[d]).source = "none"
  BY <1>1, Ground, StopTypes
<1>5. CASE Pause
  <2>1. \A d \in Decks : /\ Paused(deck[d]) \in Engines
                         /\ Paused(deck[d]).gain = deck[d].gain
                         /\ Paused(deck[d]).source = deck[d].source
    BY <1>1, Ground, PauseTypes
  <2>2. \A d \in Decks :
          /\ Gain(deck[d], volume * Steps) \in Engines
          /\ Gain(deck[d], volume * Steps).gain = volume * Steps
    BY <1>1, Ground, GainTypes
  <2>3. \A d \in Decks :
          /\ Paused(Gain(deck[d], volume * Steps)) \in Engines
          /\ Paused(Gain(deck[d], volume * Steps)).gain = volume * Steps
    BY <2>2, PauseTypes
  <2>4. TypeOK'
    BY <1>1, <1>2, <1>4, <1>5, <2>1, <2>3, Ground
       DEF Pause, Leave, TypeOK, cancelVars
  <2>5. DecksDiffer' /\ SlotsFollow' /\ FadeGains'
    BY <1>1, <1>3, <1>5, Ground
       DEF Pause, Leave, DecksDiffer, SlotsFollow, FadeGains, Looked, Exposed
  <2>6. OtherDeckQuiet' /\ ActiveAtVolume'
    <3>1. CASE incoming = None
      <4>1. /\ active' = active /\ incoming' = None /\ volume' = volume
            /\ call = "pausing"
        BY <1>5, <3>1 DEF Pause, Looked
      <4>2. deck'[active] = Paused(deck[active]) /\ deck'[1 - active] = deck[1 - active]
        BY <1>1, <1>5, <3>1, Ground DEF Pause, Leave
      <4>3. OtherDeckQuiet'
        BY <1>1, <3>1, <4>1, <4>2 DEF OtherDeckQuiet
      <4>4. ActiveAtVolume'
        BY <1>1, <2>1, <3>1, <4>1, <4>2, Ground DEF ActiveAtVolume
      <4> QED BY <4>3, <4>4
    <3>2. CASE incoming # None
      <4>1. /\ active' = incoming /\ incoming = 1 - active /\ volume' = volume
            /\ 1 - active' = active /\ incoming' = None
        BY <1>1, <1>5, <3>2, Ground DEF Pause, Looked
      <4>2. /\ deck'[incoming] = Paused(Gain(deck[incoming], volume * Steps))
            /\ deck'[active] = Stopped(deck[active])
        BY <1>1, <1>5, <3>2, <4>1, Ground DEF Pause, Leave
      <4>3. OtherDeckQuiet'
        <5>1. deck'[1 - active'].mode = "stopped"
          BY <1>1, <1>4, <4>1, <4>2, Ground
        <5> QED BY <5>1 DEF OtherDeckQuiet
      <4>4. ActiveAtVolume'
        <5>1. deck'[active'].gain = volume * Steps
          BY <1>1, <2>3, <3>2, <4>1, <4>2, Ground
        <5> QED BY <4>1, <5>1 DEF ActiveAtVolume
      <4> QED BY <4>3, <4>4
    <3> QED BY <3>1, <3>2
  <2> QED BY <1>0, <1>3, <1>5, <2>4, <2>5, <2>6 DEF IInv
<1>6. CASE Stop
  <2>1. TypeOK'
    BY <1>1, <1>2, <1>4, <1>6, DeckAssumption
       DEF Stop, TypeOK, callVars, cancelVars, DeckAssumption
  <2>2. /\ DecksDiffer' /\ OtherDeckQuiet' /\ SlotsFollow' /\ ActiveAtVolume'
        /\ FadeGains'
    BY <1>1, <1>4, <1>6, Ground
       DEF Stop, DecksDiffer, OtherDeckQuiet, SlotsFollow, ActiveAtVolume,
           FadeGains, Exposed, Unlocked, callVars
  <2> QED BY <1>0, <1>3, <1>6, <2>1, <2>2 DEF IInv
<1>7. CASE BeginPause
  <2>1. TypeOK'
    BY <1>1, <1>7 DEF BeginPause, TypeOK, cancelVars
  <2>2. /\ DecksDiffer' /\ OtherDeckQuiet' /\ SlotsFollow' /\ ActiveAtVolume'
        /\ FadesBehind' /\ FadeGains'
    BY <1>1, <1>7
       DEF BeginPause, DecksDiffer, OtherDeckQuiet, SlotsFollow, Exposed,
           ActiveAtVolume, FadesBehind, FadeGains, FadeRuns, Unlocked
  <2> QED BY <1>0, <2>1, <2>2 DEF IInv
<1> QED BY <1>5, <1>6, <1>7

\* The fade threads.
LEMMA ThreadKeeps == ASSUME NEW g \in Fades PROVE IInv /\ Thread(g) => IInv'
<1> SUFFICES ASSUME IInv, Thread(g) PROVE IInv'
  OBVIOUS
<1> USE DEF Decks, None
<1>0. LooksFollow'
  BY LooksKeep DEF Next, Call, Proceed
<1>1. /\ TypeOK /\ DecksDiffer /\ OtherDeckQuiet /\ SlotsFollow
      /\ ActiveAtVolume /\ FadesBehind /\ FadeGains
  BY DEF IInv
<1>2. /\ fade[g] # "none" /\ generation' = generation /\ call' = call
      /\ volume' = volume /\ op' = op
  BY DEF Thread, Wake, FadeStep, Finish, callVars
<1>3. PICK s \in {"asleep", "awake", "finishing", "over"} :
        fade' = [fade EXCEPT ![g] = s]
  BY DEF Thread, Wake, FadeStep, Finish, EndFade
<1>4. g <= generation
  BY <1>1, <1>2, Ground DEF FadesBehind, Fades
<1>5. FadesBehind' /\ (FadeRuns' => FadeRuns)
  <2>1. \A h \in Fades : h > generation => fade'[h] = fade[h]
    BY <1>1, <1>3, <1>4, Ground DEF TypeOK, Fades
  <2>2. FadeRuns' => FadeRuns
    <3>1. CASE g = generation /\ fade[g] # "over"
      BY <1>1, <1>2, <3>1 DEF FadeRuns, TypeOK
    <3>2. CASE g = generation /\ fade[g] = "over"
      BY <3>2 DEF Thread, Wake, FadeStep, Finish
    <3>3. CASE g # generation
      BY <1>1, <1>2, <1>3, <3>3 DEF FadeRuns, TypeOK
    <3> QED BY <3>1, <3>2, <3>3
  <2> QED BY <1>1, <1>2, <2>1, <2>2 DEF FadesBehind
<1>6. fade' \in [Fades -> {"none", "asleep", "awake", "finishing", "over"}]
  BY <1>1, <1>3 DEF TypeOK
<1>7. CASE UNCHANGED <<deck, active, incoming, progress, activeSlot>>
            /\ incomingSlot' \in {incomingSlot, None}
            /\ (call \in {"opening", "loading"} => incomingSlot' = incomingSlot)
  <2>1. TypeOK' /\ DecksDiffer'
    BY <1>1, <1>2, <1>6, <1>7
       DEF TypeOK, DecksDiffer, Thread, Wake, FadeStep, Finish, callVars, cancelVars
  <2>2. OtherDeckQuiet' /\ SlotsFollow' /\ ActiveAtVolume' /\ FadeGains'
    BY <1>1, <1>2, <1>5, <1>7
       DEF OtherDeckQuiet, SlotsFollow, Exposed, ActiveAtVolume, FadeGains, Target
  <2> QED BY <1>0, <1>5, <2>1, <2>2 DEF IInv
<1>8. CASE FadeStep(g) /\ incoming # None /\ deck' = Faded(volume, progress + 1)
            /\ progress' = progress + 1 /\ progress < Steps
  <2>1. progress + 1 \in 0 .. Steps /\ volume \in Volumes
    BY <1>1, <1>8, DeckAssumption DEF TypeOK, DeckAssumption
  <2>2. /\ deck' \in [Decks -> Engines]
        /\ deck'[active].gain = volume * (Steps - (progress + 1))
        /\ deck'[incoming].gain = volume * (progress + 1)
    BY <1>1, <1>8, <2>1, FadedTypes
  <2>3. UNCHANGED <<active, incoming, activeSlot, incomingSlot>>
        /\ superseded' = superseded /\ UNCHANGED cancelVars
    BY <1>8 DEF FadeStep, callVars
  <2>4. TypeOK' /\ DecksDiffer'
    BY <1>1, <1>2, <1>6, <1>8, <2>1, <2>2, <2>3 DEF TypeOK, DecksDiffer, cancelVars
  <2>5. OtherDeckQuiet' /\ SlotsFollow' /\ ActiveAtVolume' /\ FadeGains'
    BY <1>1, <1>2, <1>8, <2>2, <2>3
       DEF OtherDeckQuiet, SlotsFollow, Exposed, ActiveAtVolume, FadeGains, Target
  <2> QED BY <1>0, <1>5, <2>4, <2>5 DEF IInv
<1>9. CASE Finish(g) /\ Current(g) /\ incoming # None
  <2>1. incoming = 1 - active /\ call = "none"
    BY <1>1, <1>9, Ground DEF Finish, Unlocked
  <2>2. /\ Stopped(deck[active]) \in Engines
        /\ Stopped(deck[active]).mode = "stopped"
        /\ Gain(deck[incoming], volume * Steps) \in Engines
        /\ Gain(deck[incoming], volume * Steps).gain = volume * Steps
    BY <1>1, <2>1, Ground, StopTypes, GainTypes
  <2>3. /\ deck' = [deck EXCEPT ![active] = Stopped(deck[active]),
                                ![incoming] = Gain(deck[incoming], volume * Steps)]
        /\ active' = incoming /\ activeSlot' = incoming /\ incoming' = None
        /\ progress' = 0 /\ incomingSlot' = None
        /\ superseded' = superseded /\ UNCHANGED cancelVars
    BY <1>9, <2>1, Ground DEF Finish, callVars
  <2>4. /\ deck' \in [Decks -> Engines]
        /\ deck'[active].mode = "stopped"
        /\ deck'[incoming].gain = volume * Steps
    BY <1>1, <2>1, <2>2, <2>3, Ground DEF TypeOK
  <2>5. TypeOK' /\ DecksDiffer'
    BY <1>1, <1>2, <1>6, <2>1, <2>3, <2>4, Ground, DeckAssumption
       DEF TypeOK, DecksDiffer, cancelVars, DeckAssumption
  <2>6. OtherDeckQuiet' /\ SlotsFollow' /\ ActiveAtVolume' /\ FadeGains'
    BY <1>1, <1>2, <2>1, <2>3, <2>4, Ground
       DEF OtherDeckQuiet, SlotsFollow, Exposed, ActiveAtVolume, FadeGains
  <2> QED BY <1>0, <1>5, <2>5, <2>6 DEF IInv
<1>10. \/ UNCHANGED <<deck, active, incoming, progress, activeSlot>>
          /\ incomingSlot' \in {incomingSlot, None}
          /\ (call \in {"opening", "loading"} => incomingSlot' = incomingSlot)
       \/ FadeStep(g) /\ incoming # None /\ deck' = Faded(volume, progress + 1)
          /\ progress' = progress + 1 /\ progress < Steps
       \/ Finish(g) /\ Current(g) /\ incoming # None
  <2>1. CASE Wake(g)
    BY <2>1 DEF Wake
  <2>2. CASE FadeStep(g)
    BY <2>2 DEF FadeStep, Unlocked
  <2>3. CASE Finish(g)
    BY <2>3 DEF Finish
  <2> QED BY <2>1, <2>2, <2>3 DEF Thread
<1> QED BY <1>7, <1>8, <1>9, <1>10

\* The cancellation closure, and what the engines do on their own.
LEMMA OutsideKeeps ==
  IInv /\ (\/ Withdraw \/ ReadIncomingSlot \/ ReadActiveSlot \/ Cancel
           \/ Supersede \/ \E d \in Decks : DecodeEnds(d) \/ DeckEnds(d))
    => IInv'
<1> SUFFICES ASSUME IInv,
                    \/ Withdraw \/ ReadIncomingSlot \/ ReadActiveSlot \/ Cancel
                    \/ Supersede
                    \/ \E d \in Decks : DecodeEnds(d) \/ DeckEnds(d)
             PROVE  IInv'
  OBVIOUS
<1> USE DEF None
<1>0. LooksFollow'
  BY LooksKeep DEF Next, Call, Proceed
<1>1. /\ TypeOK /\ DecksDiffer /\ OtherDeckQuiet /\ SlotsFollow
      /\ ActiveAtVolume /\ FadesBehind /\ FadeGains
  BY DEF IInv
<1>2. UNCHANGED <<active, incoming, progress, volume, generation, activeSlot,
                  incomingSlot, op, call, fade>>
  BY DEF Withdraw, ReadIncomingSlot, ReadActiveSlot, Cancel, Supersede, DecodeEnds,
         DeckEnds, callVars
<1>3. /\ superseded' \in BOOLEAN
      /\ canceller' \in {"idle", "reading", "noIncoming", "cancelling", "cancelled"}
      /\ aim' \in Decks /\ seen' \in 0 .. MaxGeneration
  <2>1. 0 \in Decks /\ 0 \in 0 .. MaxGeneration
    BY DeckAssumption DEF Decks, DeckAssumption
  <2>2. CASE Withdraw \/ ReadActiveSlot \/ Cancel
    BY <1>1, <2>2 DEF TypeOK, Withdraw, ReadActiveSlot, Cancel, callVars
  <2>3. CASE ReadIncomingSlot
    BY <1>1, <2>1, <2>3 DEF TypeOK, ReadIncomingSlot, callVars
  <2>4. CASE Supersede
    BY <1>1, <2>1, <2>4 DEF TypeOK, Supersede, Unlocked
  <2>5. CASE \E d \in Decks : DecodeEnds(d) \/ DeckEnds(d)
    BY <1>1, <2>5 DEF TypeOK, DecodeEnds, DeckEnds, callVars, cancelVars
  <2> QED BY <2>2, <2>3, <2>4, <2>5
<1>4. /\ deck' \in [Decks -> Engines]
      /\ \A d \in Decks : /\ deck'[d].gain = deck[d].gain
                          /\ deck'[d].source = deck[d].source
                          /\ deck'[d].mode = "playing" => deck[d].mode = "playing"
  <2>1. CASE Withdraw \/ ReadIncomingSlot \/ ReadActiveSlot \/ Supersede
    BY <1>1, <2>1 DEF Withdraw, Supersede, ReadIncomingSlot, ReadActiveSlot, TypeOK
  <2>2. CASE Cancel
    <3> DEFINE e == [deck[aim] EXCEPT !.cancelled = TRUE]
    <3>1. /\ e \in Engines /\ e.gain = deck[aim].gain
          /\ e.source = deck[aim].source /\ e.mode = deck[aim].mode
      BY <1>1 DEF TypeOK, Engines
    <3>2. deck' = [deck EXCEPT ![aim] = e]
      BY <2>2 DEF Cancel
    <3> HIDE DEF e
    <3> QED BY <1>1, <3>1, <3>2 DEF TypeOK
  <2>3. ASSUME NEW d \in Decks, DecodeEnds(d)
        PROVE  <1>4!1 /\ <1>4!2
    <3>1. PICK r \in {"whole", "failed"} : deck' = [deck EXCEPT ![d].decode = r]
      BY <2>3 DEF DecodeEnds
    <3> DEFINE e == [deck[d] EXCEPT !.decode = r]
    <3>2. /\ e \in Engines /\ e.gain = deck[d].gain
          /\ e.source = deck[d].source /\ e.mode = deck[d].mode
      BY <1>1 DEF TypeOK, Engines, Decodes
    <3>3. deck' = [deck EXCEPT ![d] = e]
      BY <3>1
    <3> HIDE DEF e
    <3> QED BY <1>1, <3>2, <3>3 DEF TypeOK
  <2>4. ASSUME NEW d \in Decks, DeckEnds(d)
        PROVE  <1>4!1 /\ <1>4!2
    <3>1. PICK m \in {"ended", "error"} : deck' = [deck EXCEPT ![d].mode = m]
      BY <2>4 DEF DeckEnds
    <3> DEFINE e == [deck[d] EXCEPT !.mode = m]
    <3>2. /\ e \in Engines /\ e.gain = deck[d].gain
          /\ e.source = deck[d].source /\ e.mode # "playing"
      BY <1>1 DEF TypeOK, Engines, Modes
    <3>3. deck' = [deck EXCEPT ![d] = e]
      BY <3>1
    <3> HIDE DEF e
    <3> QED BY <1>1, <3>2, <3>3 DEF TypeOK
  <2> QED BY <2>1, <2>2, <2>3, <2>4
<1>5. TypeOK' /\ DecksDiffer' /\ SlotsFollow' /\ FadesBehind'
  BY <1>1, <1>2, <1>3, <1>4
     DEF TypeOK, DecksDiffer, SlotsFollow, Exposed, FadesBehind, FadeRuns, Target
<1>6. OtherDeckQuiet' /\ ActiveAtVolume' /\ FadeGains'
  BY <1>1, <1>2, <1>4, Ground
     DEF OtherDeckQuiet, ActiveAtVolume, FadeGains, FadeRuns, Decks
<1> QED BY <1>0, <1>5, <1>6 DEF IInv

-----------------------------------------------------------------------------
(* Theorems. *)

\* The invariant holds in every state of every behaviour.
THEOREM Invariance == Spec => []IInv
<1>1. IInv /\ UNCHANGED vars => IInv'
  BY DEF vars, callVars, cancelVars, IInv, TypeOK, DecksDiffer, OtherDeckQuiet,
         SlotsFollow, LooksFollow, Exposed, ActiveAtVolume, FadesBehind,
         FadeGains, FadeRuns, Target
<1>2. IInv /\ [Next]_vars => IInv'
  BY <1>1, BeginKeeps, LoadKeeps, StartKeeps, CallKeeps, EndKeeps, ThreadKeeps,
     OutsideKeeps DEF Next, Call, Proceed
<1> QED BY <1>2, InitInvariant, PTL DEF Spec

\* Every variable keeps its type.
THEOREM TypeCorrect == Spec => []TypeOK
BY Invariance, PTL DEF IInv

\* Without a fade the active deck is at the user's volume.
THEOREM SettledAtVolume == Spec => []SettledVolume
<1>1. IInv => SettledVolume
  BY DEF IInv, ActiveAtVolume, SettledVolume
<1> QED BY <1>1, Invariance, PTL

\* A fade that runs sets both gains from its progress and the user's volume.
THEOREM FadeIsExact == Spec => []GainsFollowProgress
<1>1. IInv => GainsFollowProgress
  BY DEF IInv, FadeGains, GainsFollowProgress
<1> QED BY <1>1, Invariance, PTL

\* Without a fade one deck at most is heard.
THEOREM OneIsHeard == Spec => []OneDeckHeard
<1>1. IInv => OneDeckHeard
  BY DEF IInv, OtherDeckQuiet, OneDeckHeard, Unlocked
<1> QED BY <1>1, Invariance, PTL

\* A cancellation that first looked at the slots during a load, and that comes
\* to cancel before the load ends, cancels the deck that loads, although it
\* reads the two slots at different times and without the lock.
THEOREM CancellationReachesLoad == Spec => []CancelReachesLoad
<1>1. IInv => CancelReachesLoad
  BY DEF IInv, LooksFollow, CancelReachesLoad
<1> QED BY <1>1, Invariance, PTL

\* A fade thread of an old generation changes nothing.
THEOREM OldFadesAreHarmless == Spec => OldFadesChangeNothing
<1> DEFINE A == \A g \in Fades :
       g # generation /\ fade'[g] # fade[g] /\ fade[g] # "none"
         => UNCHANGED <<deck, active, incoming, progress, activeSlot,
                        incomingSlot>>
<1>1. TypeOK /\ [Next]_vars => A
  <2> SUFFICES ASSUME TypeOK, [Next]_vars, NEW g \in Fades,
                      g # generation, fade'[g] # fade[g]
               PROVE  UNCHANGED <<deck, active, incoming, progress, activeSlot,
                                  incomingSlot>>
    OBVIOUS
  <2>1. CASE UNCHANGED fade
    BY <2>1
  <2>2. CASE BeginFade
    BY <2>2 DEF BeginFade, TypeOK
  <2>3. ASSUME NEW h \in Fades, Thread(h)
        PROVE  UNCHANGED <<deck, active, incoming, progress, activeSlot,
                           incomingSlot>>
    <3>1. h = g
      BY <2>3 DEF Thread, Wake, FadeStep, Finish, EndFade, TypeOK
    <3> QED BY <2>3, <3>1 DEF Thread, Wake, FadeStep, Finish, Current
  <2> QED
    BY <2>1, <2>2, <2>3
       DEF Next, Call, Proceed, BeginLoad, BeginTransition, Play, BeginPause,
           Pause, Stop, Seek, SetVolume, Expose, Open, Loaded, LoadFails, StartIncoming, Withdraw, Supersede,
           ReadIncomingSlot, ReadActiveSlot, Cancel, DecodeEnds, DeckEnds, vars
<1>2. Spec => [][A]_vars
  BY <1>1, TypeCorrect, PTL DEF Spec
<1> QED BY <1>2 DEF OldFadesChangeNothing

\* A gain is what the volume and the progress of the fade make of it.
THEOREM GainsHold == Spec => []GainsAreExact
BY SettledAtVolume, FadeIsExact, PTL DEF GainsAreExact

-----------------------------------------------------------------------------
(* The dual deck implements the backend the coordinator plays through. *)

BackendStep == Backend!Next \/ UNCHANGED <<LookedMode, FadeSeen>>

\* What an engine call makes of the mode of a deck.
LEMMA EngineModes ==
  ASSUME NEW e \in Engines
  PROVE  /\ Stopped(e).mode = "stopped"
         /\ \A g : Gain(e, g).mode = e.mode
         /\ \A g : Paused(Gain(e, g)).mode
                     = IF e.mode = "playing" THEN "paused" ELSE e.mode
         /\ Paused(e).mode = IF e.mode = "playing" THEN "paused" ELSE e.mode
BY DEF Stopped, Gain, Paused, Engines

\* A deck that is played plays or has failed, and an empty one has failed.
LEMMA PlayedModes ==
  ASSUME NEW e \in Engines, NEW f \in Played(e)
  PROVE  f.mode \in IF e.mode = "stopped" THEN {"error"} ELSE {"playing", "error"}
<1> USE DEF Engines
<1>1. CASE e.mode = "playing" \/ Empty(e)
  BY <1>1 DEF Played, Empty
<1>2. CASE e.mode = "ended"
  BY <1>2 DEF Played, Restarted
<1>3. CASE e.mode \notin {"playing", "ended"} /\ ~Empty(e)
  BY <1>3 DEF Played, Empty
<1> QED BY <1>1, <1>2, <1>3

\* A deck that was sought goes on playing, is ready, or has failed.
LEMMA SoughtModes ==
  ASSUME NEW e \in Engines, NEW f \in Sought(e)
  PROVE  IF e.mode = "stopped" THEN f.mode = "stopped"
         ELSE f.mode \in {IF e.mode = "playing" THEN "playing" ELSE "ready",
                          "error"}
<1> USE DEF Engines
<1>1. CASE Empty(e)
  BY <1>1 DEF Sought, Empty
<1>2. CASE e.mode = "playing" /\ ~Empty(e)
  BY <1>2 DEF Sought, Restarted
<1>3. CASE e.mode # "playing" /\ ~Empty(e)
  BY <1>3 DEF Sought, Restarted, Empty
<1> QED BY <1>1, <1>2, <1>3

\* A call that has begun has ended the fade.
LEMMA CallEndsFade ==
  ASSUME TypeOK, FadesBehind, call \notin {"none", "pausing"}
  PROVE  FadeSeen = IF incoming = None THEN "none" ELSE "dead"
BY DEF FadesBehind, FadeSeen

\* While a call loads a deck, what is seen of it is a deck being replaced or
\* taken back, and of the other deck nothing.
LEMMA FreshStep ==
  ASSUME IInv, call \notin {"none", "pausing"},
         UNCHANGED <<incoming, active, FadeSeen>>,
         deck'[1 - Target].mode = deck[1 - Target].mode,
         deck'[Target].mode \in {"stopped", "loading", "ready", "error"}
  PROVE  BackendStep
<1> USE DEF Decks, None
<1>1. Target \in {0, 1} /\ Looked \in {0, 1} /\ Looked' = Looked
  BY Ground DEF IInv, Looked
<1>2. CASE Looked = Target
  <2>1. LookedMode' \in {"stopped", "loaded", "failed"}
    BY <1>1, <1>2 DEF LookedMode, Seen
  <2>2. FadeSeen' = "none" \/ (FadeSeen # "none" /\ FadeSeen' = "dead")
    BY CallEndsFade DEF IInv
  <2> QED
    BY <2>1, <2>2
       DEF BackendStep, Backend!Next, Backend!Replace, Backend!Retake,
           Backend!Fresh
<1>3. CASE Looked # Target
  <2>1. Looked = 1 - Target
    BY <1>1, <1>3
  <2> QED BY <1>1, <2>1 DEF LookedMode, BackendStep
<1> QED BY <1>2, <1>3

\* A load replaces what is heard; a transition takes back the deck of a fade
\* that has not ended, and otherwise nothing is seen of it yet.
LEMMA BeginImplements ==
  IInv /\ StagesShow /\ (BeginLoad \/ BeginTransition)
    => StagesShow' /\ BackendStep
<1> SUFFICES ASSUME IInv, StagesShow, BeginLoad \/ BeginTransition
             PROVE  StagesShow' /\ BackendStep
  OBVIOUS
<1> USE DEF Decks, None
<1>1. TypeOK /\ DecksDiffer /\ FadesBehind
  BY DEF IInv
<1>2. \A d \in Decks : Stopped(deck[d]).mode = "stopped"
  BY <1>1, Ground, EngineModes
<1>3. generation' # 0 /\ generation' > generation
  BY <1>1, Ground DEF BeginLoad, BeginTransition, Begins
<1>4. call = "none" /\ call' \notin {"none", "loading", "started"}
  BY DEF BeginLoad, BeginTransition, Begins, Unlocked
<1>5. ~FadeRuns'
  <2>1. fade' = fade
    BY DEF BeginLoad, BeginTransition
  <2> QED BY <1>1, <1>3, <2>1, Ground DEF FadesBehind, FadeRuns, Fades
<1>6. CASE BeginLoad
  <2>1. /\ deck'[0].mode = "stopped" /\ deck'[1].mode = "stopped"
        /\ incoming' = None /\ active' = active
    BY <1>2, <1>6 DEF BeginLoad
  <2>2. StagesShow'
    BY <1>3, <1>4, <2>1 DEF StagesShow
  <2>3. LookedMode' = "stopped" /\ FadeSeen' = "none"
    BY <1>1, <2>1, Ground DEF LookedMode, Looked, Seen, FadeSeen
  <2> QED
    BY <2>2, <2>3 DEF BackendStep, Backend!Next, Backend!Replace, Backend!Fresh
<1>7. CASE BeginTransition
  <2>1. /\ deck'[1 - active].mode = "stopped"
        /\ deck'[active].mode = deck[active].mode
        /\ incoming' = incoming /\ active' = active
    BY <1>1, <1>2, <1>7, Ground DEF BeginTransition, TypeOK
  <2>2. StagesShow'
    <3>1. \A d \in Decks : deck'[d].mode # "loading"
      BY <1>1, <1>4, <2>1, Ground DEF StagesShow
    <3> QED BY <1>3, <1>4, <3>1 DEF StagesShow
  <2>3. CASE incoming = None
    BY <2>1, <2>2, <2>3 DEF LookedMode, Looked, FadeSeen, BackendStep
  <2>4. CASE incoming # None
    <3>1. LookedMode' = "stopped" /\ FadeSeen' = "dead" /\ FadeSeen # "none"
      BY <1>1, <1>5, <2>1, <2>4, Ground DEF LookedMode, Looked, Seen, FadeSeen
    <3> QED
      BY <2>2, <3>1
         DEF BackendStep, Backend!Next, Backend!Retake, Backend!Fresh
  <2> QED BY <2>3, <2>4
<1> QED BY <1>6, <1>7

\* Loading, whether it succeeds or fails.
LEMMA LoadImplements ==
  IInv /\ StagesShow /\ (Expose \/ Open \/ Loaded \/ LoadFails)
    => StagesShow' /\ BackendStep
<1> SUFFICES ASSUME IInv, StagesShow, Expose \/ Open \/ Loaded \/ LoadFails
             PROVE  StagesShow' /\ BackendStep
  OBVIOUS
<1> USE DEF Decks, None
<1>1. TypeOK /\ DecksDiffer /\ FadesBehind
  BY DEF IInv
<1>2. /\ UNCHANGED <<active, incoming, generation, op, fade>>
      /\ call \in {"stopped", "opening", "loading"}
  BY DEF Expose, Open, Loaded, LoadFails
<1>3. Target' = Target /\ FadeSeen' = FadeSeen
  BY <1>2 DEF Target, FadeSeen, FadeRuns
<1>4. CASE Expose
  <2>1. UNCHANGED deck /\ call = "stopped" /\ call' \in {"none", "opening"}
    BY <1>4 DEF Expose, Leave
  <2>2. StagesShow'
    BY <1>2, <1>3, <2>1 DEF StagesShow
  <2> QED
    BY <1>2, <1>3, <2>1, <2>2 DEF LookedMode, Looked, BackendStep
<1>5. CASE LoadFails /\ UNCHANGED deck
  <2>1. call' = "none"
    BY <1>5 DEF LoadFails, Leave
  <2>2. deck \in [Decks -> Engines] /\ Target \in Decks
    BY <1>1, Ground DEF TypeOK
  <2>3. ASSUME deck' = [deck EXCEPT ![Target] =
                         [@ EXCEPT !.mode = "error", !.decode = "failed"]]
        PROVE  deck[Target].mode # "loading"
    BY <1>5, <2>2, <2>3 DEF Engines
  <2>4. \A d \in Decks : deck[d].mode # "loading"
    BY <1>5, <2>3 DEF LoadFails, Leave, StagesShow
  <2>5. StagesShow'
    BY <1>2, <1>3, <1>5, <2>1, <2>4 DEF StagesShow
  <2> QED
    BY <1>2, <1>3, <1>5, <2>5 DEF LookedMode, Looked, BackendStep
<1>6. CASE Open \/ Loaded \/ (LoadFails /\ ~UNCHANGED deck)
  <2>1. PICK m \in {"stopped", "loading", "ready", "error"} :
          /\ deck'[Target].mode = m
          /\ deck'[1 - Target].mode = deck[1 - Target].mode
          /\ m = "loading" => call' = "loading"
          /\ call' # "started"
    <3>0. /\ deck \in [Decks -> Engines] /\ Target \in Decks
          /\ 1 - Target \in Decks /\ 1 - Target # Target
      BY <1>1, Ground DEF TypeOK
    <3>1. CASE Open
      BY <3>0, <3>1 DEF Open, Engines
    <3>2. CASE Loaded
      <4>1. PICK d \in {"decoding", "whole"} :
              \E e : /\ e = [deck[Target] EXCEPT !.mode = "ready",
                                                 !.decode = d, !.source = "loaded"]
                     /\ \/ Leave([deck EXCEPT ![Target] =
                                     Gain(e, volume * Steps)])
                        \/ /\ deck' = [deck EXCEPT ![Target] = e]
                           /\ call' = "loaded"
        BY <3>2 DEF Loaded
      <4>2. PICK e : /\ e = [deck[Target] EXCEPT !.mode = "ready",
                                                 !.decode = d, !.source = "loaded"]
                     /\ \/ Leave([deck EXCEPT ![Target] =
                                     Gain(e, volume * Steps)])
                        \/ /\ deck' = [deck EXCEPT ![Target] = e]
                           /\ call' = "loaded"
        BY <4>1
      <4>3. e \in Engines /\ e.mode = "ready"
        <5>1. deck[Target] \in Engines /\ d \in Decodes
          BY <3>0 DEF Decodes
        <5>2. e = [deck[Target] EXCEPT !.mode = "ready", !.decode = d,
                                       !.source = "loaded"]
          BY <4>2
        <5> QED BY <5>1, <5>2 DEF Engines, Modes, Sources
      <4>4. Gain(e, volume * Steps).mode = "ready"
        BY <4>3, EngineModes
      <4>5. PICK f \in {e, Gain(e, volume * Steps)} :
              deck' = [deck EXCEPT ![Target] = f] /\ call' \in {"none", "loaded"}
        BY <4>2 DEF Leave
      <4>6. f.mode = "ready"
        BY <4>3, <4>4, <4>5
      <4> QED BY <3>0, <4>5, <4>6
    <3>3. CASE LoadFails /\ ~UNCHANGED deck
      <4>1. /\ deck' = [deck EXCEPT ![Target] =
                          [@ EXCEPT !.mode = "error", !.decode = "failed"]]
            /\ call' = "none"
        BY <3>3 DEF LoadFails, Leave
      <4>2. deck'[Target].mode = "error"
        BY <3>0, <4>1 DEF Engines
      <4> QED BY <3>0, <4>1, <4>2
    <3> QED BY <1>6, <3>1, <3>2, <3>3
  <2>2. StagesShow'
    <3>1. \A d \in Decks : d = Target \/ d = 1 - Target
      BY <1>1, Ground
    <3>2. deck[1 - Target].mode # "loading"
      BY <1>1, Ground DEF StagesShow
    <3>3. \A d \in Decks :
            deck'[d].mode = "loading" => call' = "loading" /\ d = Target'
      BY <1>3, <2>1, <3>1, <3>2
    <3> QED BY <1>2, <2>1, <3>3 DEF StagesShow
  <2>3. BackendStep
    BY <1>2, <1>3, <2>1, FreshStep
  <2> QED BY <2>2, <2>3
<1> QED BY <1>4, <1>5, <1>6

\* The deck of a transition is started, and its fade begins, or it is
\* abandoned.
LEMMA StartImplements ==
  IInv /\ StagesShow /\ (StartIncoming \/ BeginFade)
    => StagesShow' /\ BackendStep
<1> SUFFICES ASSUME IInv, StagesShow, StartIncoming \/ BeginFade
             PROVE  StagesShow' /\ BackendStep
  OBVIOUS
<1> USE DEF Decks, None
<1>1. TypeOK /\ DecksDiffer /\ FadesBehind
  BY DEF IInv
<1>2. /\ Target = 1 - active /\ call \in {"loaded", "started"}
      /\ UNCHANGED <<active, op, generation>> /\ Target' = Target
  BY <1>1 DEF StartIncoming, BeginFade, DecksDiffer, Target
<1>3. /\ deck \in [Decks -> Engines] /\ Target \in Decks
      /\ 1 - Target \in Decks /\ 1 - Target # Target
      /\ \A d \in Decks : d = Target \/ d = 1 - Target
  BY <1>1, Ground DEF TypeOK
<1>4. \A d \in Decks : deck[d].mode # "loading"
  BY <1>2 DEF StagesShow
<1>5. ASSUME Abandon, incoming' = incoming, fade' = fade
      PROVE  StagesShow' /\ BackendStep
  <2>1. /\ deck'[Target].mode = "stopped" /\ call' = "none"
        /\ deck'[1 - Target].mode = deck[1 - Target].mode
    BY <1>3, <1>5, EngineModes DEF Abandon, Leave
  <2>2. StagesShow'
    BY <1>3, <1>4, <2>1 DEF StagesShow
  <2>3. FadeSeen' = FadeSeen
    BY <1>2, <1>5 DEF FadeSeen, FadeRuns
  <2> QED
    BY <1>2, <1>5, <2>1, <2>2, <2>3, FreshStep
<1>6. CASE StartIncoming
  <2>1. CASE superseded
    BY <1>5, <1>6, <2>1 DEF StartIncoming
  <2>2. CASE ~superseded
    <3>1. PICK e \in Played(Gain(deck[Target], 0)) :
            /\ deck' = [deck EXCEPT ![Target] = e]
            /\ call' = IF e.mode = "playing" THEN "started" ELSE "none"
      BY <1>6, <2>2 DEF StartIncoming, Leave
    <3>2. e.mode \in IF deck[Target].mode = "stopped" THEN {"error"}
                     ELSE {"playing", "error"}
      <4>1. /\ Gain(deck[Target], 0) \in Engines
            /\ Gain(deck[Target], 0).mode = deck[Target].mode
        BY <1>1, <1>3, Ground, GainTypes
      <4> QED BY <3>1, <4>1, PlayedModes
    <3>3. /\ deck'[Target].mode = e.mode
          /\ deck'[1 - Target].mode = deck[1 - Target].mode
          /\ UNCHANGED <<incoming, fade>>
      BY <1>3, <1>6, <3>1 DEF StartIncoming
    <3>4. StagesShow'
      BY <1>2, <1>3, <1>4, <3>1, <3>2, <3>3 DEF StagesShow
    <3>5. Looked' = Looked /\ FadeSeen' = FadeSeen
      BY <1>2, <3>3 DEF Looked, FadeSeen, FadeRuns
    <3>6. CASE Looked = Target
      <4>1. LookedMode' \in IF LookedMode = "stopped" THEN {"failed"}
                            ELSE {"playing", "failed"}
        BY <1>3, <1>4, <3>2, <3>3, <3>5, <3>6 DEF LookedMode, Seen
      <4> QED
        BY <3>4, <3>5, <4>1 DEF BackendStep, Backend!Next, Backend!Play
    <3>7. CASE Looked # Target
      <4>1. Looked = 1 - Target
        BY <1>1, <1>3, <3>7, Ground
      <4> QED BY <3>3, <3>4, <3>5, <4>1 DEF LookedMode, BackendStep
    <3> QED BY <3>6, <3>7
  <2> QED BY <2>1, <2>2
<1>7. CASE BeginFade
  <2>1. CASE superseded
    BY <1>5, <1>7, <2>1 DEF BeginFade
  <2>2. CASE ~superseded
    <3>1. /\ call = "started" /\ call' = "none" /\ UNCHANGED deck
          /\ incoming' = Target
          /\ fade' = [fade EXCEPT ![generation] = "asleep"]
      BY <1>7, <2>2 DEF BeginFade, Leave
    <3>2. StagesShow'
      BY <1>4, <3>1 DEF StagesShow
    <3>3. generation \in Fades
      BY <1>1, <1>2, Ground, DeckAssumption
         DEF StagesShow, TypeOK, Fades, DeckAssumption
    <3>4. FadeSeen' = "running"
      BY <1>1, <1>2, <1>3, <3>1, <3>3 DEF FadeSeen, FadeRuns, TypeOK
    <3>5. LookedMode' \in {"playing", "ended", "failed"}
      BY <1>2, <1>3, <3>1 DEF LookedMode, Looked, Seen, StagesShow
    <3>6. \/ FadeSeen = "none"
          \/ FadeSeen = "dead" /\ LookedMode' = LookedMode
      <4>1. CASE incoming = None
        BY <4>1 DEF FadeSeen
      <4>2. CASE incoming # None
        <5>1. incoming = Target
          BY <1>1, <1>2, <4>2, Ground
        <5>2. FadeSeen = "dead"
          BY <1>1, <1>2, <4>2, CallEndsFade
        <5> QED BY <1>2, <1>3, <3>1, <5>1, <5>2 DEF LookedMode, Looked
      <4> QED BY <4>1, <4>2
    <3> QED
      BY <3>2, <3>4, <3>5, <3>6 DEF BackendStep, Backend!Next, Backend!FadeIn
  <2> QED BY <2>1, <2>2
<1> QED BY <1>6, <1>7

\* play, seek and set_volume act on the deck that is looked at.
LEMMA CallImplements ==
  IInv /\ StagesShow /\ (Play \/ Seek \/ SetVolume)
    => StagesShow' /\ BackendStep
<1> SUFFICES ASSUME IInv, StagesShow, Play \/ Seek \/ SetVolume
             PROVE  StagesShow' /\ BackendStep
  OBVIOUS
<1> USE DEF Decks, None
<1>1. TypeOK /\ DecksDiffer
  BY DEF IInv
<1>2. /\ deck \in [Decks -> Engines] /\ Looked \in Decks
      /\ active \in Decks /\ incoming \in {0, 1, None}
  BY <1>1, Ground DEF TypeOK
<1>3. call = "none" /\ call' = "none"
  BY DEF Play, Seek, SetVolume, Unlocked, callVars
<1>4. \A d \in Decks : deck[d].mode # "loading"
  BY <1>3 DEF StagesShow
<1>5. Looked' = Looked /\ FadeSeen' = FadeSeen
  BY DEF Play, Seek, SetVolume, Looked, FadeSeen, FadeRuns
<1>6. ASSUME NEW m, m # "loading",
             deck'[Looked].mode = m,
             \A d \in Decks : d # Looked => deck'[d].mode = deck[d].mode
      PROVE  StagesShow' /\ LookedMode' = Seen(m)
  BY <1>2, <1>3, <1>4, <1>5, <1>6 DEF StagesShow, LookedMode
<1>7. CASE Play
  <2>1. PICK e \in Played(deck[Looked]) : deck' = [deck EXCEPT ![Looked] = e]
    BY <1>7 DEF Play
  <2>2. e.mode \in IF deck[Looked].mode = "stopped" THEN {"error"}
                   ELSE {"playing", "error"}
    BY <1>2, <2>1, PlayedModes
  <2>3. StagesShow' /\ LookedMode' = Seen(e.mode)
    BY <1>2, <1>6, <2>1, <2>2
  <2>4. LookedMode' \in IF LookedMode = "stopped" THEN {"failed"}
                        ELSE {"playing", "failed"}
    BY <1>2, <1>4, <2>2, <2>3 DEF LookedMode, Seen
  <2> QED
    BY <1>5, <2>3, <2>4 DEF BackendStep, Backend!Next, Backend!Play
<1>8. CASE Seek
  <2>1. PICK e \in Sought(deck[Looked]) : deck' = [deck EXCEPT ![Looked] = e]
    BY <1>8 DEF Seek
  <2>2. IF deck[Looked].mode = "stopped" THEN e.mode = "stopped"
        ELSE e.mode \in {IF deck[Looked].mode = "playing" THEN "playing"
                         ELSE "ready", "error"}
    BY <1>2, <2>1, SoughtModes
  <2>3. StagesShow' /\ LookedMode' = Seen(e.mode)
    BY <1>2, <1>6, <2>1, <2>2
  <2>4. \/ LookedMode' = LookedMode
        \/ /\ LookedMode # "stopped"
           /\ LookedMode' \in {IF LookedMode = "playing" THEN "playing"
                               ELSE "loaded", "failed"}
    BY <1>2, <1>4, <2>2, <2>3 DEF LookedMode, Seen
  <2> QED
    BY <1>5, <2>3, <2>4 DEF BackendStep, Backend!Next, Backend!Seek
<1>9. CASE SetVolume
  <2>1. \A d \in Decks : deck'[d].mode = deck[d].mode
    <3>1. \A g : \A d \in Decks : Gain(deck[d], g).mode = deck[d].mode
      BY <1>2, EngineModes
    <3>2. PICK v \in Volumes :
            deck' = IF incoming = None
                    THEN [deck EXCEPT ![active] = Gain(@, v * Steps)]
                    ELSE Faded(v, progress)
      BY <1>9 DEF SetVolume
    <3>3. incoming # active
      BY <1>1 DEF DecksDiffer
    <3> QED BY <1>2, <3>1, <3>2, <3>3 DEF Faded
  <2>2. StagesShow'
    BY <1>3, <1>4, <2>1 DEF StagesShow
  <2> QED BY <1>2, <1>5, <2>1, <2>2 DEF LookedMode, BackendStep
<1> QED BY <1>7, <1>8, <1>9

\* A pause ends the fade on the deck it leads to, a stop stops both decks.
LEMMA EndImplements ==
  IInv /\ StagesShow /\ (BeginPause \/ Pause \/ Stop)
    => StagesShow' /\ BackendStep
<1> SUFFICES ASSUME IInv, StagesShow, BeginPause \/ Pause \/ Stop
             PROVE  StagesShow' /\ BackendStep
  OBVIOUS
<1> USE DEF Decks, None
<1>1. TypeOK /\ DecksDiffer
  BY DEF IInv
<1>2. /\ deck \in [Decks -> Engines] /\ Looked \in Decks
      /\ active \in Decks /\ incoming \in {0, 1, None}
  BY <1>1, Ground DEF TypeOK
<1>3. ASSUME Pause \/ Stop
      PROVE  call' = "none" /\ incoming' = None /\ FadeSeen' = "none"
  BY <1>3 DEF Pause, Stop, Unlocked, Leave, callVars, FadeSeen
<1>4. \A d \in Decks : deck[d].mode # "loading"
  BY DEF StagesShow, BeginPause, Pause, Stop, Unlocked
<1>5. \A d \in Decks : Stopped(deck[d]).mode = "stopped"
  BY <1>2, EngineModes
<1>6. CASE Pause
  <2>1. \A d \in Decks :
          /\ Paused(deck[d]).mode
               = IF deck[d].mode = "playing" THEN "paused" ELSE deck[d].mode
          /\ Paused(Gain(deck[d], volume * Steps)).mode
               = IF deck[d].mode = "playing" THEN "paused" ELSE deck[d].mode
    BY <1>2, EngineModes
  <2>2. Looked' = Looked
    BY <1>3, <1>6 DEF Pause, Looked
  <2>3. deck'[Looked].mode = IF deck[Looked].mode = "playing" THEN "paused"
                             ELSE deck[Looked].mode
    BY <1>2, <1>6, <2>1 DEF Pause, Leave, Looked
  <2>4. \A d \in Decks : deck'[d].mode # "loading"
    BY <1>2, <1>4, <1>5, <1>6, <2>1 DEF Pause, Leave
  <2>5. StagesShow'
    BY <1>3, <1>6, <2>4 DEF StagesShow
  <2>6. LookedMode' = IF LookedMode = "playing" THEN "paused" ELSE LookedMode
    BY <1>2, <1>4, <2>2, <2>3 DEF LookedMode, Seen
  <2> QED
    BY <1>3, <1>6, <2>5, <2>6 DEF BackendStep, Backend!Next, Backend!Pause
<1>7. CASE Stop
  <2>1. \A d \in Decks : deck'[d].mode = "stopped"
    BY <1>5, <1>7 DEF Stop
  <2>2. StagesShow'
    BY <1>3, <1>7, <2>1 DEF StagesShow
  <2>3. LookedMode' = "stopped"
    <3>1. active' = active
      BY <1>7 DEF Stop
    <3> QED BY <1>2, <1>3, <1>7, <2>1, <3>1 DEF LookedMode, Looked, Seen
  <2> QED
    BY <1>3, <1>7, <2>2, <2>3
       DEF BackendStep, Backend!Next, Backend!Replace, Backend!Fresh
<1>8. CASE BeginPause
  <2>1. /\ UNCHANGED <<deck, active, incoming, generation, fade>>
        /\ call' = "pausing"
    BY <1>8 DEF BeginPause
  <2>2. StagesShow'
    BY <1>4, <2>1 DEF StagesShow
  <2>3. LookedMode' = LookedMode /\ FadeSeen' = FadeSeen
    BY <2>1 DEF LookedMode, Looked, FadeSeen, FadeRuns
  <2> QED BY <2>2, <2>3 DEF BackendStep
<1> QED BY <1>6, <1>7, <1>8

\* A fade thread of the newest generation ends its fade, and that is all that
\* is seen of any.
LEMMA ThreadImplements ==
  ASSUME NEW g \in Fades
  PROVE  IInv /\ StagesShow /\ Thread(g) => StagesShow' /\ BackendStep
<1> SUFFICES ASSUME IInv, StagesShow, Thread(g)
             PROVE  StagesShow' /\ BackendStep
  OBVIOUS
<1> USE DEF Decks, None
<1>1. TypeOK /\ DecksDiffer
  BY DEF IInv
<1>2. /\ deck \in [Decks -> Engines] /\ active \in Decks
      /\ incoming \in {0, 1, None} /\ incoming # active
      /\ fade \in [Fades -> {"none", "asleep", "awake", "finishing", "over"}]
  BY <1>1, Ground DEF TypeOK, DecksDiffer
<1>3. UNCHANGED <<call, op, generation>>
  BY DEF Thread, Wake, FadeStep, Finish, callVars
<1>4. \A h : \A d \in Decks : Gain(deck[d], h).mode = deck[d].mode
  BY <1>2, EngineModes
<1>5. CASE Finish(g) /\ Current(g) /\ incoming # None
  <2>1. /\ deck' = [deck EXCEPT ![active] = Stopped(@),
                                ![incoming] = Gain(@, volume * Steps)]
        /\ active' = incoming /\ incoming' = None /\ call = "none"
    BY <1>5 DEF Finish, Unlocked
  <2>2. /\ deck'[active].mode = "stopped"
        /\ deck'[incoming].mode = deck[incoming].mode
    BY <1>2, <1>4, <1>5, <2>1, EngineModes
  <2>3. StagesShow'
    <3>1. \A d \in Decks : d = active \/ d = incoming
      BY <1>1, <1>2, <1>5, Ground
    <3>2. \A d \in Decks : deck'[d].mode # "loading"
      BY <2>1, <2>2, <3>1 DEF StagesShow
    <3> QED BY <1>3, <2>1, <3>2 DEF StagesShow
  <2>4. LookedMode' = LookedMode
    BY <1>5, <2>1, <2>2 DEF LookedMode, Looked
  <2>5. FadeSeen = "running" /\ FadeSeen' = "none"
    BY <1>5, <2>1 DEF FadeSeen, FadeRuns, Finish, Current
  <2> QED
    BY <2>3, <2>4, <2>5 DEF BackendStep, Backend!Next, Backend!FadeEnds
<1>6. CASE ~(Finish(g) /\ Current(g) /\ incoming # None)
  <2>1. UNCHANGED <<active, incoming>>
    BY <1>6 DEF Thread, Wake, FadeStep, Finish
  <2>2. \A d \in Decks : deck'[d].mode = deck[d].mode
    <3>1. \/ UNCHANGED deck
          \/ incoming # None /\ deck' = Faded(volume, progress + 1)
      BY <1>6 DEF Thread, Wake, FadeStep, Finish
    <3> QED BY <1>2, <1>4, <3>1 DEF Faded
  <2>3. StagesShow'
    BY <1>2, <1>3, <2>1, <2>2, Ground, <1>1 DEF StagesShow, Target
  <2>4. FadeSeen' = FadeSeen
    <3>1. CASE incoming = None
      BY <2>1, <3>1 DEF FadeSeen
    <3>2. CASE incoming # None /\ generation # g
      <4>1. \A h \in Fades : h # g => fade'[h] = fade[h]
        BY <1>2 DEF Thread, Wake, FadeStep, Finish, EndFade
      <4> QED BY <1>3, <2>1, <3>2, <4>1 DEF FadeSeen, FadeRuns
    <3>3. CASE incoming # None /\ generation = g
      <4>1. /\ fade[g] \in {"asleep", "awake"}
            /\ fade'[g] \in {"asleep", "awake", "finishing"}
        BY <1>2, <1>6, <3>3
           DEF Thread, Wake, FadeStep, Finish, EndFade, Current
      <4> QED BY <1>3, <2>1, <3>3, <4>1 DEF FadeSeen, FadeRuns
    <3> QED BY <3>1, <3>2, <3>3
  <2>5. LookedMode' = LookedMode
    BY <1>2, <2>1, <2>2 DEF LookedMode, Looked
  <2> QED BY <2>3, <2>4, <2>5 DEF BackendStep
<1> QED BY <1>5, <1>6

\* Nothing is seen of a cancellation; of tracks and engines that end, what
\* happens to the deck that is looked at.
LEMMA OutsideImplements ==
  IInv /\ StagesShow
    /\ (\/ Withdraw \/ ReadIncomingSlot \/ ReadActiveSlot \/ Cancel
        \/ Supersede \/ \E d \in Decks : DecodeEnds(d) \/ DeckEnds(d))
    => StagesShow' /\ BackendStep
<1> SUFFICES ASSUME IInv, StagesShow,
                    \/ Withdraw \/ ReadIncomingSlot \/ ReadActiveSlot \/ Cancel
                    \/ Supersede
                    \/ \E d \in Decks : DecodeEnds(d) \/ DeckEnds(d)
             PROVE  StagesShow' /\ BackendStep
  OBVIOUS
<1> USE DEF Decks, None
<1>1. TypeOK /\ DecksDiffer
  BY DEF IInv
<1>2. /\ deck \in [Decks -> Engines] /\ Looked \in Decks /\ aim \in Decks
      /\ Target \in Decks
  BY <1>1, Ground DEF TypeOK
<1>3. UNCHANGED <<active, incoming, generation, op, call, fade>>
  BY DEF Withdraw, ReadIncomingSlot, ReadActiveSlot, Cancel, Supersede,
         DecodeEnds, DeckEnds, callVars
<1>4. Looked' = Looked /\ Target' = Target /\ FadeSeen' = FadeSeen
  BY <1>3 DEF Looked, Target, FadeSeen, FadeRuns
<1>5. CASE \A d \in Decks : deck'[d].mode = deck[d].mode
  <2>1. StagesShow'
    BY <1>2, <1>3, <1>4, <1>5 DEF StagesShow
  <2> QED BY <1>2, <1>4, <1>5, <2>1 DEF LookedMode, BackendStep
<1>6. ASSUME NEW d \in Decks, DeckEnds(d) PROVE StagesShow' /\ BackendStep
  <2>1. PICK m \in {"ended", "error"} :
          /\ deck'[d].mode = m
          /\ \A e \in Decks : e # d => deck'[e].mode = deck[e].mode
          /\ IF m = "ended" THEN deck[d].mode = "playing"
             ELSE deck[d].mode \in {"ready", "playing", "paused"}
    <3>1. CASE deck[d].mode = "playing" /\ deck' = [deck EXCEPT ![d].mode = "ended"]
      BY <1>2, <3>1 DEF Engines
    <3>2. CASE /\ deck[d].mode \in {"ready", "playing", "paused"}
               /\ deck' = [deck EXCEPT ![d].mode = "error"]
      BY <1>2, <3>2 DEF Engines
    <3> QED BY <1>6, <3>1, <3>2 DEF DeckEnds
  <2>2. StagesShow'
    BY <1>2, <1>3, <1>4, <2>1 DEF StagesShow
  <2>3. CASE Looked # d
    BY <1>2, <1>4, <2>1, <2>2, <2>3 DEF LookedMode, BackendStep
  <2>4. CASE Looked = d
    <3>1. LookedMode' = Seen(m) /\ LookedMode = Seen(deck[d].mode)
      BY <1>4, <2>1, <2>4 DEF LookedMode
    <3>2. CASE m = "ended"
      BY <1>4, <2>1, <2>2, <3>1, <3>2
         DEF Seen, BackendStep, Backend!Next, Backend!TrackEnds
    <3>3. CASE m = "error"
      BY <1>4, <2>1, <2>2, <3>1, <3>3
         DEF Seen, BackendStep, Backend!Next, Backend!Fails
    <3> QED BY <3>2, <3>3
  <2> QED BY <2>3, <2>4
<1>7. CASE ~\E d \in Decks : DeckEnds(d)
  <2>1. CASE Withdraw \/ ReadIncomingSlot \/ ReadActiveSlot \/ Supersede
    BY <1>5, <2>1 DEF Withdraw, ReadIncomingSlot, ReadActiveSlot, Supersede
  <2>2. CASE Cancel
    <3>1. \A d \in Decks : deck'[d].mode = deck[d].mode
      BY <1>2, <2>2 DEF Cancel, Engines
    <3> QED BY <1>5, <3>1
  <2>3. ASSUME NEW d \in Decks, DecodeEnds(d) PROVE StagesShow' /\ BackendStep
    <3>1. \A e \in Decks : deck'[e].mode = deck[e].mode
      BY <1>2, <2>3 DEF DecodeEnds, Engines
    <3> QED BY <1>5, <3>1
  <2> QED BY <1>7, <2>1, <2>2, <2>3
<1> QED BY <1>6, <1>7

\* What the refinement needs of the stages of a call holds initially.
LEMMA InitImplements == Init => StagesShow /\ Backend!Init
<1> SUFFICES ASSUME Init PROVE StagesShow /\ Backend!Init
  OBVIOUS
<1>1. /\ \A d \in Decks : deck[d].mode = "stopped"
      /\ active \in Decks /\ incoming = None /\ call = "none"
  BY DEF Init, Decks
<1>2. LookedMode = "stopped" /\ FadeSeen = "none"
  BY <1>1 DEF LookedMode, Looked, Seen, FadeSeen
<1> QED BY <1>1, <1>2 DEF StagesShow, Backend!Init

\* Every step of the dual deck is one of the backend, or is not seen.
LEMMA NextImplements ==
  IInv /\ StagesShow /\ [Next]_vars => StagesShow' /\ BackendStep
<1>1. ASSUME StagesShow, UNCHANGED vars PROVE StagesShow' /\ BackendStep
  <2>1. UNCHANGED <<deck, active, incoming, op, call, generation, fade>>
    BY <1>1 DEF vars, callVars
  <2> QED
    BY <1>1, <2>1
       DEF StagesShow, Target, BackendStep, LookedMode, Looked, FadeSeen, FadeRuns
<1> QED
  BY <1>1, BeginImplements, LoadImplements, StartImplements, CallImplements,
     EndImplements, ThreadImplements, OutsideImplements DEF Next, Call, Proceed

\* The coordinator may take the dual deck for one deck with a fade towards it:
\* whatever is loaded, started, abandoned or cancelled on the other deck, what
\* telemetry, play, pause and seek see is the backend they were written for.
THEOREM RefinesBackend == Spec => ImplementsBackend
<1>1. Init => IInv /\ StagesShow /\ Backend!Init
  BY InitInvariant, InitImplements
<1>2. IInv /\ StagesShow /\ [Next]_vars
        => StagesShow' /\ [Backend!Next]_(Backend!vars)
  BY NextImplements DEF BackendStep, Backend!vars
<1> QED
  BY <1>1, <1>2, Invariance, PTL DEF Spec, ImplementsBackend, Backend!Spec
=============================================================================
