---------------------------- MODULE DownloadsProofs ----------------------------
(***************************************************************************)
(* Proofs about the downloads, for any tracks, clients, tasks, sizes and    *)
(* chunk.                                                                   *)
(*                                                                         *)
(* The argument.  Whoever is sent for a track - a command that queued its   *)
(* row, then the task it spawned - finds the row in progress until it       *)
(* writes the row itself, and nobody is sent for a row in progress: so one  *)
(* is sent.  The .part file is therefore its own, and is the beginning of   *)
(* the stream after each response; it takes its name when it is all of it,  *)
(* or when no length was said and an answer was short.                      *)
(* A row that is left behind stays in progress, with nobody sent for it.    *)
(***************************************************************************)
EXTENDS Downloads, TLAPS

LEMMA NoTrackType == NoTrack \in Tracks
BY DownloadsAssumption DEF DownloadsAssumption, NoTrack

\* Nothing is under way in the beginning, and nothing is there.
LEMMA Initially == Init => IInv
<1> SUFFICES ASSUME Init PROVE IInv
  OBVIOUS
<1> USE NoTrackType DEF Init
<1>1. TypeOK
  BY DEF TypeOK, Unread, Rows, Stages, Missing
<1>2. FilesAreWhole
  BY DEF FilesAreWhole
<1>3. InProgressIsWorkedOn /\ LostAreAlone
  BY DEF InProgressIsWorkedOn, LostAreAlone, Unread, InProgress
<1>4. SentAreInProgress /\ OneSent
  BY DEF SentAreInProgress, OneSent, OneWriter, Busy
<1>5. FetchedSoFar /\ NothingFetched
  BY DEF FetchedSoFar, NothingFetched
<1> QED
  BY <1>1, <1>2, <1>3, <1>4, <1>5 DEF IInv

-----------------------------------------------------------------------------
(* Who is sent for what. *)

Sending(c) == ask[c] = "sending"

SentInv == InProgressIsWorkedOn /\ SentAreInProgress /\ OneSent /\ LostAreAlone

\* What most steps do to those who are sent: nothing.
SentKept ==
  /\ \A t \in Tracks : row'[t] \in InProgress <=> row[t] \in InProgress
  /\ lost' = lost
  /\ \A i \in Tasks : Busy(i)' <=> Busy(i)
  /\ \A i \in Tasks : Busy(i) => track'[i] = track[i]
  /\ \A c \in Clients : Sending(c)' <=> Sending(c)
  /\ \A c \in Clients : Sending(c) => askTrack'[c] = askTrack[c]

\* A step that changes nothing about those who are sent keeps what is said of
\* them.
LEMMA KeptIsKept ==
  ASSUME TypeOK, SentInv, SentKept
  PROVE  SentInv'
<1> USE DEF SentInv, SentKept, Sending
<1>0. /\ track \in [Tasks -> Tracks]
      /\ askTrack \in [Clients -> Tracks]
      /\ lost \subseteq Tracks
  BY DEF TypeOK
<1>1. InProgressIsWorkedOn'
  BY <1>0 DEF InProgressIsWorkedOn
<1>2. SentAreInProgress'
  BY <1>0 DEF SentAreInProgress
<1>3. OneSent'
  BY <1>0 DEF OneSent, OneWriter
<1>4. LostAreAlone'
  BY <1>0 DEF LostAreAlone
<1> QED
  BY <1>1, <1>2, <1>3, <1>4

\* The command that queues a row is the only one sent for it.
LEMMA AskSends ==
  ASSUME TypeOK, SentInv, NEW c \in Clients, NEW t \in Tracks, Ask(c, t)
  PROVE  SentInv'
<1> USE DEF taskVars, fetchVars
<1>1. CASE Wanted(t)
  <2>1. /\ row' = [row EXCEPT ![t] = "queued"]
        /\ ask' = [ask EXCEPT ![c] = "sending"]
        /\ askTrack' = [askTrack EXCEPT ![c] = t]
        /\ UNCHANGED <<stage, track, lost>>
    BY <1>1 DEF Ask
  <2>2. /\ row \in [Tracks -> Rows]
        /\ ask \in [Clients -> {"idle", "telling", "sending"}]
        /\ askTrack \in [Clients -> Tracks]
        /\ track \in [Tasks -> Tracks]
        /\ lost \subseteq Tracks
    BY DEF TypeOK
  <2>3. row[t] \notin InProgress /\ "queued" \in InProgress
    BY <1>1 DEF Wanted, InProgress
  <2> USE <2>1, <2>2, <2>3 DEF SentInv
  <2>4. InProgressIsWorkedOn'
    <3> SUFFICES ASSUME NEW u \in Tracks, row'[u] \in InProgress, u \notin lost
                 PROVE  \/ \E i \in Tasks : Busy(i)' /\ track'[i] = u
                        \/ \E d \in Clients :
                             ask'[d] = "sending" /\ askTrack'[d] = u
      BY DEF InProgressIsWorkedOn
    <3>1. CASE u = t
      BY <3>1
    <3>2. CASE u # t
      <4>1. row[u] \in InProgress
        BY <3>2
      <4>2. \A d \in Clients : ask[d] = "sending" => d # c
        BY DEF Ask
      <4> QED
        BY <4>1, <4>2 DEF InProgressIsWorkedOn, Busy
    <3> QED
      BY <3>1, <3>2
  <2>5. SentAreInProgress'
    BY DEF SentAreInProgress, Busy
  <2>6. OneSent'
    BY DEF OneSent, OneWriter, SentAreInProgress, Busy
  <2>7. LostAreAlone'
    BY DEF LostAreAlone, Busy
  <2> QED
    BY <2>4, <2>5, <2>6, <2>7
<1>2. CASE ~Wanted(t)
  <2>1. SentKept
    BY <1>2 DEF SentKept, Ask, Sending, Busy, TypeOK
  <2> QED
    BY <2>1, KeptIsKept
<1> QED
  BY <1>1, <1>2

\* The row of a command that cannot read the library is left behind at once.
LEMMA AskFailsSends ==
  ASSUME TypeOK, SentInv, NEW c \in Clients, NEW t \in Tracks, AskFails(c, t)
  PROVE  SentInv'
<1>1. /\ row' = [row EXCEPT ![t] = "queued"]
      /\ lost' = lost \cup {t}
      /\ UNCHANGED <<stage, track, ask, askTrack>>
  BY DEF AskFails, taskVars, askVars
<1>2. /\ row \in [Tracks -> Rows]
      /\ askTrack \in [Clients -> Tracks]
      /\ track \in [Tasks -> Tracks]
      /\ lost \subseteq Tracks
  BY DEF TypeOK
<1>3. row[t] \notin InProgress /\ "queued" \in InProgress
  BY DEF AskFails, Wanted, InProgress
<1> USE <1>1, <1>2, <1>3 DEF SentInv, Busy
<1>4. InProgressIsWorkedOn'
  BY DEF InProgressIsWorkedOn
<1>5. SentAreInProgress'
  BY DEF SentAreInProgress
<1>6. OneSent'
  BY DEF OneSent, OneWriter
<1>7. LostAreAlone'
  BY DEF LostAreAlone, SentAreInProgress
<1> QED
  BY <1>4, <1>5, <1>6, <1>7

\* A command hands its track over to the task it spawns.
LEMMA AnswerSends ==
  ASSUME TypeOK, SentInv, NEW c \in Clients, Answer(c)
  PROVE  SentInv'
<1>0. /\ ask \in [Clients -> {"idle", "telling", "sending"}]
      /\ askTrack \in [Clients -> Tracks]
      /\ stage \in [Tasks -> Stages]
      /\ track \in [Tasks -> Tracks]
      /\ lost \subseteq Tracks
  BY DEF TypeOK
<1>1. ASSUME ask[c] = "sending", NEW i \in Tasks, stage[i] = "idle",
             stage' = [stage EXCEPT ![i] = "spawned"],
             track' = [track EXCEPT ![i] = askTrack[c]]
      PROVE  SentInv'
  <2>1. /\ ask' = [ask EXCEPT ![c] = "idle"]
        /\ askTrack' = [askTrack EXCEPT ![c] = NoTrack]
        /\ UNCHANGED <<row, lost>>
    BY DEF Answer
  <2> USE <1>0, <1>1, <2>1 DEF SentInv, Busy
  <2>2. InProgressIsWorkedOn'
    <3> SUFFICES ASSUME NEW u \in Tracks, row[u] \in InProgress, u \notin lost
                 PROVE  \/ \E k \in Tasks : Busy(k)' /\ track'[k] = u
                        \/ \E d \in Clients :
                             ask'[d] = "sending" /\ askTrack'[d] = u
      BY DEF InProgressIsWorkedOn
    <3>1. CASE u = askTrack[c]
      BY <3>1
    <3>2. CASE \E k \in Tasks : Busy(k) /\ track[k] = u
      BY <3>2
    <3>3. CASE \E d \in Clients : ask[d] = "sending" /\ askTrack[d] = u /\ d # c
      BY <3>3
    <3> QED
      BY <3>1, <3>2, <3>3 DEF InProgressIsWorkedOn
  <2>3. SentAreInProgress'
    BY DEF SentAreInProgress
  <2>4. OneSent'
    BY DEF OneSent, OneWriter
  <2>5. LostAreAlone'
    BY DEF LostAreAlone
  <2> QED
    BY <2>2, <2>3, <2>4, <2>5
<1>2. ASSUME ask[c] = "telling", UNCHANGED <<stage, track>>
      PROVE  SentInv'
  <2>1. SentKept
    BY <1>0, <1>2 DEF SentKept, Answer, Sending, Busy
  <2> QED
    BY <2>1, KeptIsKept
<1> QED
  BY <1>1, <1>2 DEF Answer

\* A task that has its outcome writes the row and is done with it, or leaves it
\* behind.
LEMMA FinishSends ==
  ASSUME TypeOK, SentInv, NEW i \in Tasks, Finish(i)
  PROVE  SentInv'
<1>0. /\ row \in [Tracks -> Rows]
      /\ ask \in [Clients -> {"idle", "telling", "sending"}]
      /\ askTrack \in [Clients -> Tracks]
      /\ stage \in [Tasks -> Stages]
      /\ track \in [Tasks -> Tracks]
      /\ lost \subseteq Tracks
  BY DEF TypeOK
<1>1. Busy(i) /\ UNCHANGED <<ask, askTrack>>
  BY DEF Finish, Busy, askVars
<1>2. \A k \in Tasks : k # i => (Busy(k)' <=> Busy(k)) /\ track'[k] = track[k]
  BY <1>0 DEF Finish, Written, WrittenOnly, NotWritten, Proceed, Busy
<1>3. ~Busy(i)'
  BY <1>0 DEF Finish, Written, WrittenOnly, NotWritten, Proceed, Busy
<1>4. \/ /\ row' = [row EXCEPT ![track[i]] = Outcome(i)]
         /\ lost' = lost
      \/ /\ row' = row
         /\ lost' = lost \cup {track[i]}
  BY DEF Finish, Written, WrittenOnly, NotWritten, Proceed
<1>5. Outcome(i) \notin InProgress
  BY DEF Outcome, InProgress
<1> USE <1>0, <1>1, <1>2, <1>3, <1>4, <1>5 DEF SentInv
<1>6. InProgressIsWorkedOn'
  BY DEF InProgressIsWorkedOn
<1>7. SentAreInProgress'
  BY DEF SentAreInProgress, OneSent, OneWriter
<1>8. OneSent'
  BY DEF OneSent, OneWriter
<1>9. LostAreAlone'
  BY DEF LostAreAlone, SentAreInProgress, OneSent, OneWriter
<1> QED
  BY <1>6, <1>7, <1>8, <1>9

\* A start of the daemon finds nobody at work, and every row in progress left
\* behind.
LEMMA RestartSends ==
  ASSUME TypeOK, SentInv, Restart
  PROVE  SentInv'
<1> USE DEF SentInv, Restart, Busy
<1>1. InProgressIsWorkedOn'
  BY DEF InProgressIsWorkedOn
<1>2. SentAreInProgress'
  BY DEF SentAreInProgress
<1>3. OneSent'
  BY DEF OneSent, OneWriter
<1>4. LostAreAlone'
  BY DEF LostAreAlone
<1> QED
  BY <1>1, <1>2, <1>3, <1>4

\* Every step keeps what is said of those who are sent.
LEMMA SentStep ==
  ASSUME TypeOK, SentInv, [Next]_vars
  PROVE  SentInv'
<1>0. /\ row \in [Tracks -> Rows]
      /\ ask \in [Clients -> {"idle", "telling", "sending"}]
      /\ stage \in [Tasks -> Stages]
      /\ track \in [Tasks -> Tracks]
  BY DEF TypeOK
<1>1. ASSUME NEW c \in Clients, Like(c) PROVE SentKept
  BY <1>0, <1>1 DEF Like, SentKept, Sending, Busy, taskVars
<1>2. ASSUME NEW i \in Tasks, Begin(i), ~UNCHANGED row PROVE SentInv'
  <2>1. /\ row' = [row EXCEPT ![track[i]] = "downloading"]
        /\ Busy(i)
        /\ UNCHANGED <<ask, askTrack, lost, track>>
    BY <1>2 DEF Begin, Written, WrittenOnly, NotWritten, Proceed, Busy, askVars
  <2>2. row[track[i]] \in InProgress /\ "downloading" \in InProgress
    BY <2>1 DEF SentInv, SentAreInProgress, InProgress
  <2>3. \A k \in Tasks : Busy(k)' <=> Busy(k)
    BY <1>0, <1>2 DEF Begin, Written, WrittenOnly, NotWritten, Proceed, Busy
  <2>4. SentKept
    BY <1>0, <2>1, <2>2, <2>3 DEF SentKept, Sending
  <2> QED
    BY <2>4, KeptIsKept
<1>3. ASSUME NEW i \in Tasks, Begin(i), UNCHANGED row PROVE SentKept
  BY <1>0, <1>3 DEF Begin, Written, WrittenOnly, NotWritten, Proceed, Busy,
                    SentKept, Sending, askVars
<1>4. ASSUME NEW i \in Tasks, Show(i) PROVE SentKept
  BY <1>0, <1>4 DEF Show, SentKept, Sending, Busy, askVars
<1>5. ASSUME NEW i \in Tasks, ResolveFails(i) \/ Resolve(i) PROVE SentKept
  BY <1>0, <1>5 DEF ResolveFails, Resolve, SentKept, Sending, Busy, askVars
<1>6. ASSUME NEW i \in Tasks, Fetch(i) PROVE SentKept
  <2>1. /\ stage[i] = "fetching"
        /\ UNCHANGED <<row, ask, askTrack, track, lost>>
    BY <1>6 DEF Fetch, askVars
  <2>2. \/ UNCHANGED stage
        \/ stage' = [stage EXCEPT ![i] = "fetched"]
        \/ stage' = [stage EXCEPT ![i] = "broken"]
    BY <1>6 DEF Fetch, FetchRange, FetchWhole, Receive, Complete, Continue,
                Break, Leave
  <2> QED
    BY <1>0, <2>1, <2>2 DEF SentKept, Sending, Busy
<1>7. CASE Played \/ (\E t \in Tracks : Remove(t)) \/ UNCHANGED vars
  <2>1. UNCHANGED <<row, ask, askTrack, stage, track, lost>>
    BY <1>7 DEF Played, Remove, vars, askVars, taskVars
  <2> QED
    BY <2>1, KeptIsKept DEF SentKept, Sending, Busy
<1> QED
  BY <1>1, <1>2, <1>3, <1>4, <1>5, <1>6, <1>7, KeptIsKept, AskSends,
     AskFailsSends, AnswerSends, FinishSends, RestartSends DEF Next, Task

-----------------------------------------------------------------------------
(* What is fetched. *)

FetchInv == FetchedSoFar /\ NothingFetched /\ FilesAreWhole

\* FetchedSoFar of one task.
Beginning(i) ==
  LET size == Size[track[i]] IN
  /\ offset[i] \in 0 .. size
  /\ part[track[i]] = 1 .. offset[i]
  /\ declared[i] \in {0, size}
  /\ expected[i] \in {0, size}
  /\ declared[i] # 0 => expected[i] = size
  /\ expected[i] # 0 => offset[i] < size

\* What a task at work does to the others: nothing.
OthersKept(i) ==
  /\ \A k \in Tasks : k # i => /\ stage'[k] = stage[k]
                               /\ offset'[k] = offset[k]
                               /\ declared'[k] = declared[k]
                               /\ expected'[k] = expected[k]
  /\ UNCHANGED track
  /\ \A t \in Tracks : t # track[i] => part'[t] = part[t]

\* A task has the .part file of its track for itself.
LEMMA OthersAreKept ==
  ASSUME TypeOK, OneSent, FetchInv, NEW i \in Tasks, Busy(i), OthersKept(i),
         stage'[i] = "fetching" => Beginning(i)',
         stage'[i] # "fetching" => offset'[i] = 0
  PROVE  FetchedSoFar' /\ NothingFetched'
<1>0. track \in [Tasks -> Tracks]
  BY DEF TypeOK
<1>1. ASSUME NEW k \in Tasks, stage'[k] = "fetching" PROVE Beginning(k)'
  <2>1. CASE k = i
    BY <1>1, <2>1
  <2>2. CASE k # i
    <3>1. stage[k] = "fetching" /\ track[k] # track[i]
      BY <1>1, <2>2 DEF OthersKept, OneSent, OneWriter, Busy
    <3>2. Beginning(k)
      BY <3>1 DEF FetchInv, FetchedSoFar, Beginning
    <3> QED
      BY <1>0, <2>2, <3>1, <3>2 DEF OthersKept, Beginning
  <2> QED
    BY <2>1, <2>2
<1>2. FetchedSoFar'
  BY <1>1 DEF FetchedSoFar, Beginning
<1>3. NothingFetched'
  BY DEF NothingFetched, FetchInv, OthersKept
<1> QED
  BY <1>2, <1>3

\* A file that is emptied is the beginning of the stream.
LEMMA ResolveFetches ==
  ASSUME TypeOK, OneSent, FetchInv, NEW i \in Tasks, Resolve(i)
  PROVE  FetchInv'
<1>0. /\ part \in [Tracks -> SUBSET Nat]
      /\ stage \in [Tasks -> Stages]
      /\ track \in [Tasks -> Tracks]
      /\ declared \in [Tasks -> Nat]
      /\ expected \in [Tasks -> Nat]
  BY DEF TypeOK
<1>1. Busy(i) /\ OthersKept(i)
  BY <1>0 DEF Resolve, Busy, OthersKept
<1>2. Beginning(i)'
  BY <1>0, DownloadsAssumption
     DEF Resolve, Beginning, FetchInv, NothingFetched, DownloadsAssumption
<1>3. stage'[i] = "fetching" /\ UNCHANGED <<final, unsaid>>
  BY <1>0 DEF Resolve
<1> QED
  BY <1>1, <1>2, <1>3, OthersAreKept DEF FetchInv, FilesAreWhole

\* A response makes the beginning longer, or complete, or the file is removed.
LEMMA FetchFetches ==
  ASSUME TypeOK, OneSent, FetchInv, NEW i \in Tasks, Fetch(i)
  PROVE  FetchInv'
<1>0. /\ part \in [Tracks -> SUBSET Nat]
      /\ final \in [Tracks -> SUBSET Nat]
      /\ stage \in [Tasks -> Stages]
      /\ track \in [Tasks -> Tracks]
      /\ offset \in [Tasks -> Nat]
      /\ declared \in [Tasks -> Nat]
      /\ expected \in [Tasks -> Nat]
      /\ Size[track[i]] \in Nat \ {0}
      /\ Chunk \in Nat \ {0}
  BY DownloadsAssumption DEF TypeOK, DownloadsAssumption
<1>1. Busy(i) /\ UNCHANGED track
  BY DEF Fetch, Busy
<1>2. Beginning(i)
  BY DEF Fetch, FetchInv, FetchedSoFar, Beginning
<1> DEFINE size == Size[track[i]]
<1>3. ASSUME NEW n \in 1 .. size, NEW total \in {0, size},
             NEW ranged \in BOOLEAN,
             n <= size - offset[i],
             declared[i] # 0 => total = size,
             Receive(i, n, total, ranged)
      PROVE  FetchInv'
  <2> DEFINE here == offset[i] + n
             units == part[track[i]] \cup (offset[i] + 1 .. here)
  <2>0. here \in 1 .. size /\ units = 1 .. here
    BY <1>0, <1>2, <1>3 DEF Beginning
  <2>1. CASE Continue(i, units, n, total)
    <3>1. OthersKept(i)
      BY <1>0, <1>1, <2>1 DEF Continue, OthersKept
    <3>2. total # 0 => here < total
      BY <1>0, <1>2, <1>3, <2>0, <2>1 DEF Receive, Complete,
         Leave, Break, Continue
    <3>3. Beginning(i)'
      <4>1. /\ track'[i] = track[i]
            /\ offset'[i] = here
            /\ part'[track[i]] = units
            /\ declared'[i] = declared[i]
            /\ expected'[i] = total
        BY <1>0, <1>1, <2>1 DEF Continue
      <4>2. declared[i] \in {0, size}
        BY <1>2 DEF Beginning
      <4> HIDE DEF here, units, size
      <4>3. here \in 0 .. size
        BY <1>0, <2>0 DEF size
      <4> QED
        BY <1>3, <2>0, <3>2, <4>1, <4>2, <4>3 DEF Beginning, size
    <3>4. stage'[i] = "fetching" /\ UNCHANGED <<final, unsaid>>
      BY <2>1 DEF Fetch, Continue
    <3> QED
      BY <1>1, <3>1, <3>3, <3>4, OthersAreKept DEF FetchInv, FilesAreWhole
  <2>2. CASE Complete(i, units, total)
    <3>1. OthersKept(i)
      BY <1>0, <1>1, <2>2 DEF Complete, Leave, OthersKept
    <3>2. stage'[i] # "fetching" /\ offset'[i] = 0
      BY <1>0, <2>2 DEF Complete, Leave
    <3>3. total # 0 => here = size
      BY <1>0, <1>2, <1>3, <2>0, <2>2 DEF Receive, Complete,
         Leave, Break, Continue
    <3>4. FilesAreWhole'
      <4>1. /\ final' = [final EXCEPT ![track[i]] = 1 .. here]
            /\ unsaid' = IF total = 0 THEN unsaid \cup {track[i]}
                                      ELSE unsaid \ {track[i]}
        BY <2>0, <2>2 DEF Complete
      <4> SUFFICES ASSUME NEW t \in Tracks, final'[t] # Missing
                   PROVE  \E m \in 1 .. Size[t] :
                            /\ final'[t] = 1 .. m
                            /\ t \notin unsaid' => m = Size[t]
        BY DEF FilesAreWhole
      <4> HIDE DEF here, units
      <4>2. CASE t = track[i]
        BY <1>0, <2>0, <3>3, <4>1, <4>2
      <4>3. CASE t # track[i]
        <5>1. final'[t] = final[t] /\ (t \in unsaid' <=> t \in unsaid)
          BY <1>0, <4>1, <4>3
        <5> QED
          BY <5>1 DEF FilesAreWhole, FetchInv
      <4> QED
        BY <4>2, <4>3
    <3> QED
      BY <1>1, <3>1, <3>2, <3>4, OthersAreKept DEF FetchInv
  <2>3. CASE Break(i)
    <3>1. OthersKept(i)
      BY <1>0, <1>1, <2>3 DEF Break, Leave, OthersKept
    <3>2. /\ stage'[i] # "fetching" /\ offset'[i] = 0
          /\ UNCHANGED <<final, unsaid>>
      BY <1>0, <2>3 DEF Break, Leave
    <3> QED
      BY <1>1, <3>1, <3>2, OthersAreKept DEF FetchInv, FilesAreWhole
  <2> QED
    BY <1>3, <2>1, <2>2, <2>3 DEF Receive
<1>4. CASE FetchRange(i)
  <2>1. PICK told \in {0, size},
             n \in 1 .. (IF size - offset[i] < Requested(i)
                         THEN size - offset[i] ELSE Requested(i)) :
          Receive(i, n, IF declared[i] = 0 /\ told # 0 THEN told
                        ELSE expected[i], TRUE)
    BY <1>4 DEF FetchRange
  <2> DEFINE total == IF declared[i] = 0 /\ told # 0 THEN told ELSE expected[i]
  <2>2. Requested(i) \in Nat
    BY <1>0, <1>2 DEF Requested, Beginning
  <2>3. /\ total \in {0, size}
        /\ n \in 1 .. size
        /\ n <= size - offset[i]
        /\ declared[i] # 0 => total = size
    BY <1>0, <1>2, <2>1, <2>2 DEF Beginning
  <2>4. Receive(i, n, total, TRUE)
    BY <2>1
  <2> QED
    BY <1>3, <2>3, <2>4
<1>5. CASE FetchWhole(i)
  <2>1. PICK told \in {0, size}, n \in 1 .. size :
          Receive(i, n, IF expected[i] = 0 THEN told ELSE expected[i], FALSE)
    BY <1>5 DEF FetchWhole
  <2> DEFINE total == IF expected[i] = 0 THEN told ELSE expected[i]
  <2>2. /\ total \in {0, size}
        /\ declared[i] # 0 => total = size
        /\ offset[i] = 0
    BY <1>0, <1>2, <1>5 DEF Beginning, FetchWhole
  <2>3. n <= size - offset[i]
    BY <1>0, <2>2
  <2>4. Receive(i, n, total, FALSE)
    BY <2>1
  <2> QED
    BY <1>3, <2>2, <2>3, <2>4
<1>6. CASE Break(i)
  <2>1. OthersKept(i)
    BY <1>0, <1>1, <1>6 DEF Break, Leave, OthersKept
  <2>2. stage'[i] # "fetching" /\ offset'[i] = 0 /\ UNCHANGED <<final, unsaid>>
    BY <1>0, <1>6 DEF Break, Leave
  <2> QED
    BY <1>1, <2>1, <2>2, OthersAreKept DEF FetchInv, FilesAreWhole
<1> QED
  BY <1>4, <1>5, <1>6 DEF Fetch

\* Every step keeps what is said of the files and of what is fetched.
LEMMA FetchStep ==
  ASSUME TypeOK, OneSent, FetchInv, [Next]_vars
  PROVE  FetchInv'
<1>0. /\ stage \in [Tasks -> Stages]
      /\ track \in [Tasks -> Tracks]
      /\ final \in [Tracks -> SUBSET Nat]
  BY DEF TypeOK
<1> DEFINE Kept ==
      /\ UNCHANGED <<part, offset, declared, expected>>
      /\ \A i \in Tasks : stage'[i] = "fetching" <=> stage[i] = "fetching"
      /\ \A i \in Tasks : stage[i] = "fetching" => track'[i] = track[i]
<1>1. ASSUME Kept, UNCHANGED <<final, unsaid>> PROVE FetchInv'
  <2>1. FetchedSoFar'
    BY <1>1 DEF FetchInv, FetchedSoFar
  <2>2. NothingFetched' /\ FilesAreWhole'
    BY <1>1 DEF FetchInv, NothingFetched, FilesAreWhole
  <2> QED
    BY <2>1, <2>2 DEF FetchInv
<1>2. ASSUME NEW c \in Clients,
             \/ \E t \in Tracks : Ask(c, t) \/ AskFails(c, t)
             \/ Like(c)
      PROVE  FetchInv'
  <2>1. UNCHANGED <<part, final, unsaid, stage, track, offset, declared,
                  expected>>
    BY <1>2 DEF Ask, AskFails, Like, taskVars, fetchVars
  <2> QED
    BY <1>1, <2>1
<1>3. ASSUME NEW c \in Clients, Answer(c) PROVE FetchInv'
  <2>1. Kept /\ UNCHANGED <<final, unsaid>>
    BY <1>0, <1>3 DEF Answer, fetchVars
  <2> QED
    BY <1>1, <2>1
<1>4. ASSUME NEW i \in Tasks, Begin(i) PROVE FetchInv'
  <2>1. Kept /\ UNCHANGED <<final, unsaid>>
    BY <1>0, <1>4 DEF Begin, Written, WrittenOnly, NotWritten, Proceed,
                      fetchVars
  <2> QED
    BY <1>1, <2>1
<1>5. ASSUME NEW i \in Tasks, Finish(i) PROVE FetchInv'
  <2>1. Kept /\ UNCHANGED <<final, unsaid>>
    BY <1>0, <1>5 DEF Finish, Written, WrittenOnly, NotWritten, Proceed,
                      fetchVars
  <2> QED
    BY <1>1, <2>1
<1>6. ASSUME NEW i \in Tasks, Show(i) \/ ResolveFails(i) PROVE FetchInv'
  <2>1. Kept /\ UNCHANGED <<final, unsaid>>
    BY <1>0, <1>6 DEF Show, ResolveFails, fetchVars
  <2> QED
    BY <1>1, <2>1
<1>7. CASE Played \/ UNCHANGED vars
  <2>1. UNCHANGED <<part, final, unsaid, stage, track, offset, declared,
                  expected>>
    BY <1>7 DEF Played, vars, taskVars, fetchVars
  <2> QED
    BY <1>1, <2>1
<1>8. ASSUME NEW t \in Tracks, Remove(t) PROVE FetchInv'
  <2>1. /\ UNCHANGED <<part, unsaid, stage, track, offset, declared, expected>>
        /\ final' = [final EXCEPT ![t] = Missing]
    BY <1>8 DEF Remove, taskVars, fetchVars
  <2>2. FetchedSoFar' /\ NothingFetched'
    BY <2>1 DEF FetchInv, FetchedSoFar, NothingFetched
  <2>3. FilesAreWhole'
    BY <1>0, <2>1 DEF FetchInv, FilesAreWhole
  <2> QED
    BY <2>2, <2>3 DEF FetchInv
<1>9. CASE Restart
  BY <1>9 DEF Restart, FetchInv, FetchedSoFar, NothingFetched, FilesAreWhole
<1>10. ASSUME NEW i \in Tasks, Task(i) PROVE FetchInv'
  BY <1>4, <1>5, <1>6, <1>10, ResolveFetches, FetchFetches DEF Task
<1> QED
  BY <1>2, <1>3, <1>7, <1>8, <1>9, <1>10 DEF Next

-----------------------------------------------------------------------------
(* Types. *)

\* The writes of a task leave it in a stage, with a track and a copy.
LEMMA WritesAreTyped ==
  ASSUME TypeOK, NEW i \in Tasks, NEW state \in Rows, NEW next \in Stages,
         \/ Written(i, state, next)
         \/ WrittenOnly(i, state, next)
         \/ NotWritten(i, next)
  PROVE  /\ row' \in [Tracks -> Rows]
         /\ stage' \in [Tasks -> Stages]
         /\ track' \in [Tasks -> Tracks]
         /\ copy' \in [Tasks -> [Tracks -> Rows]]
         /\ lost' \subseteq Tracks
<1>1. /\ row \in [Tracks -> Rows]
      /\ stage \in [Tasks -> Stages]
      /\ track \in [Tasks -> Tracks]
      /\ copy \in [Tasks -> [Tracks -> Rows]]
      /\ lost \subseteq Tracks
  BY DEF TypeOK
<1>2. row' \in [Tracks -> Rows]
  BY <1>1 DEF Written, WrittenOnly, NotWritten
<1>3. stage' \in [Tasks -> Stages]
  BY <1>1 DEF Written, WrittenOnly, NotWritten, Proceed
<1>4. track' \in [Tasks -> Tracks]
  BY <1>1, NoTrackType DEF Written, WrittenOnly, NotWritten, Proceed
<1>5. copy' \in [Tasks -> [Tracks -> Rows]]
  BY <1>1, <1>2 DEF Written, WrittenOnly, NotWritten, Proceed
<1>6. lost' \subseteq Tracks
  BY <1>1 DEF Written, WrittenOnly, NotWritten, Proceed
<1> QED
  BY <1>2, <1>3, <1>4, <1>5, <1>6

\* The types of what a response changes.
FilesTyped ==
  /\ part \in [Tracks -> SUBSET Nat]
  /\ final \in [Tracks -> SUBSET Nat]
  /\ \A t \in Tracks : part[t] \subseteq 1 .. Size[t] \/ part[t] = Missing
  /\ \A t \in Tracks : final[t] \subseteq 1 .. Size[t] \/ final[t] = Missing
  /\ stage \in [Tasks -> Stages]
  /\ offset \in [Tasks -> Nat]
  /\ declared \in [Tasks -> Nat]
  /\ expected \in [Tasks -> Nat]
  /\ unsaid \subseteq Tracks

\* A response leaves units of the stream in the files.
LEMMA FetchIsTyped ==
  ASSUME TypeOK, FetchInv, NEW i \in Tasks, Fetch(i)
  PROVE  TypeOK'
<1>0. /\ part \in [Tracks -> SUBSET Nat]
      /\ final \in [Tracks -> SUBSET Nat]
      /\ \A t \in Tracks : part[t] \subseteq 1 .. Size[t] \/ part[t] = Missing
      /\ \A t \in Tracks : final[t] \subseteq 1 .. Size[t] \/ final[t] = Missing
      /\ stage \in [Tasks -> Stages]
      /\ track \in [Tasks -> Tracks]
      /\ offset \in [Tasks -> Nat]
      /\ declared \in [Tasks -> Nat]
      /\ expected \in [Tasks -> Nat]
      /\ unsaid \subseteq Tracks
      /\ Size[track[i]] \in Nat \ {0}
  BY DownloadsAssumption DEF TypeOK, DownloadsAssumption
<1>1. Beginning(i)
  BY DEF Fetch, FetchInv, FetchedSoFar, Beginning
<1> DEFINE size == Size[track[i]]
<1>2. ASSUME Break(i) PROVE FilesTyped'
  BY <1>0, <1>2 DEF FilesTyped, Break, Leave, Stages, Missing
<1>3. ASSUME NEW n \in Nat, NEW total \in Nat, NEW ranged \in BOOLEAN,
             n <= size - offset[i], Receive(i, n, total, ranged)
      PROVE  FilesTyped'
  <2> DEFINE here == offset[i] + n
             units == part[track[i]] \cup (offset[i] + 1 .. here)
  <2>1. here \in Nat /\ units \subseteq 1 .. size /\ units \subseteq Nat
    BY <1>0, <1>1, <1>3 DEF Beginning
  <2>2. CASE Complete(i, units, total)
    <3>1. /\ part' = [part EXCEPT ![track[i]] = Missing]
          /\ final' = [final EXCEPT ![track[i]] = units]
          /\ Missing \in SUBSET Nat
      BY <2>2 DEF Complete, Leave, Missing
    <3> HIDE DEF units
    <3>2. part' \in [Tracks -> SUBSET Nat] /\ final' \in [Tracks -> SUBSET Nat]
      BY <1>0, <2>1, <3>1
    <3>3. /\ \A t \in Tracks :
                part'[t] \subseteq 1 .. Size[t] \/ part'[t] = Missing
          /\ \A t \in Tracks :
                final'[t] \subseteq 1 .. Size[t] \/ final'[t] = Missing
      BY <1>0, <2>1, <3>1
    <3>4. /\ stage' \in [Tasks -> Stages]
          /\ offset' \in [Tasks -> Nat]
          /\ declared' \in [Tasks -> Nat]
          /\ expected' \in [Tasks -> Nat]
          /\ unsaid' \subseteq Tracks
      BY <1>0, <2>2 DEF Complete, Leave, Stages
    <3> QED
      BY <3>2, <3>3, <3>4 DEF FilesTyped
  <2>3. CASE Continue(i, units, n, total)
    <3> HIDE DEF units
    <3> QED
      BY <1>0, <2>1, <2>3 DEF FilesTyped, Continue
  <2> QED
    BY <1>2, <1>3, <2>2, <2>3 DEF Receive
<1>4. ASSUME FetchRange(i) PROVE FilesTyped'
  <2>1. PICK told \in {0, size},
             n \in 1 .. (IF size - offset[i] < Requested(i)
                         THEN size - offset[i] ELSE Requested(i)) :
          Receive(i, n, IF declared[i] = 0 /\ told # 0 THEN told
                        ELSE expected[i], TRUE)
    BY <1>4 DEF FetchRange
  <2>2. Requested(i) \in Int
    BY <1>0, DownloadsAssumption DEF Requested, DownloadsAssumption
  <2>3. n \in Nat /\ n <= size - offset[i]
    BY <1>0, <1>1, <2>2 DEF Beginning
  <2>4. (IF declared[i] = 0 /\ told # 0 THEN told ELSE expected[i]) \in Nat
    BY <1>0
  <2> QED
    BY <1>3, <2>1, <2>3, <2>4
<1>5. ASSUME FetchWhole(i) PROVE FilesTyped'
  <2>1. PICK told \in {0, size}, n \in 1 .. size :
          Receive(i, n, IF expected[i] = 0 THEN told ELSE expected[i], FALSE)
    BY <1>5 DEF FetchWhole
  <2>2. n \in Nat /\ n <= size - offset[i]
    BY <1>0, <1>5 DEF FetchWhole
  <2>3. (IF expected[i] = 0 THEN told ELSE expected[i]) \in Nat
    BY <1>0
  <2> QED
    BY <1>3, <2>1, <2>2, <2>3
<1>6. UNCHANGED <<row, shown, askVars, track, copy, lost>>
  BY DEF Fetch
<1>7. FilesTyped'
  BY <1>2, <1>4, <1>5 DEF Fetch
<1> QED
  BY <1>6, <1>7 DEF FilesTyped, TypeOK, askVars

\* Every step keeps the types.
LEMMA TypeStep ==
  ASSUME TypeOK, FetchInv, [Next]_vars
  PROVE  TypeOK'
<1> USE NoTrackType DEF TypeOK
<1>1. ASSUME NEW c \in Clients, NEW t \in Tracks, Ask(c, t) PROVE TypeOK'
  <2>1. row' \in [Tracks -> Rows]
    BY <1>1 DEF Ask, Rows, InProgress
  <2> QED
    BY <1>1, <2>1 DEF Ask, taskVars, fetchVars
<1>2. ASSUME NEW c \in Clients, NEW t \in Tracks, AskFails(c, t) PROVE TypeOK'
  BY <1>2 DEF AskFails, Rows, InProgress, askVars, taskVars, fetchVars
<1>3. ASSUME NEW c \in Clients, Like(c) PROVE TypeOK'
  BY <1>3 DEF Like, taskVars, fetchVars
<1>4. ASSUME NEW c \in Clients, Answer(c) PROVE TypeOK'
  <2>1. Unread \in [Tracks -> Rows] /\ "spawned" \in Stages
    BY DEF Unread, Rows, Stages
  <2>2. stage' \in [Tasks -> Stages] /\ track' \in [Tasks -> Tracks]
    <3>1. \/ \E i \in Tasks : /\ stage' = [stage EXCEPT ![i] = "spawned"]
                              /\ track' = [track EXCEPT ![i] = askTrack[c]]
          \/ stage' = stage /\ track' = track
      BY <1>4 DEF Answer
    <3> QED
      BY <2>1, <3>1
  <2>3. /\ shown' \in [Tracks -> Rows]
        /\ askCopy' \in [Clients -> [Tracks -> Rows]]
    BY <1>4, <2>1 DEF Answer
  <2> QED
    BY <1>4, <2>2, <2>3 DEF Answer, fetchVars
<1>5. ASSUME NEW i \in Tasks, Begin(i) PROVE TypeOK'
  <2>1. /\ "downloading" \in Rows
        /\ "begun" \in Stages
        /\ "resolving" \in Stages
    BY DEF Rows, InProgress, Stages
  <2>2. \/ Written(i, "downloading", "begun")
        \/ WrittenOnly(i, "downloading", "resolving")
        \/ NotWritten(i, "resolving")
    BY <1>5 DEF Begin
  <2>3. /\ row' \in [Tracks -> Rows]
        /\ stage' \in [Tasks -> Stages]
        /\ track' \in [Tasks -> Tracks]
        /\ copy' \in [Tasks -> [Tracks -> Rows]]
        /\ lost' \subseteq Tracks
    BY <2>1, <2>2, WritesAreTyped
  <2> QED
    BY <1>5, <2>3 DEF Begin, askVars, fetchVars
<1>6. ASSUME NEW i \in Tasks, Finish(i) PROVE TypeOK'
  <2>1. /\ Outcome(i) \in Rows
        /\ "ended" \in Stages
        /\ "idle" \in Stages
    BY DEF Outcome, Rows, Stages
  <2>2. \/ Written(i, Outcome(i), "ended")
        \/ WrittenOnly(i, Outcome(i), "idle")
        \/ NotWritten(i, "idle")
    BY <1>6 DEF Finish
  <2>3. /\ row' \in [Tracks -> Rows]
        /\ stage' \in [Tasks -> Stages]
        /\ track' \in [Tasks -> Tracks]
        /\ copy' \in [Tasks -> [Tracks -> Rows]]
        /\ lost' \subseteq Tracks
    BY <2>1, <2>2, WritesAreTyped
  <2> QED
    BY <1>6, <2>3 DEF Finish, askVars, fetchVars
<1>7. ASSUME NEW i \in Tasks, Show(i) PROVE TypeOK'
  <2>1. Unread \in [Tracks -> Rows]
    BY DEF Unread, Rows
  <2>2. stage' \in [Tasks -> Stages] /\ track' \in [Tasks -> Tracks]
    <3>1. "resolving" \in Stages /\ "idle" \in Stages
      BY DEF Stages
    <3>2. /\ \/ stage' = [stage EXCEPT ![i] = "resolving"]
             \/ stage' = [stage EXCEPT ![i] = "idle"]
          /\ track' = track \/ track' = [track EXCEPT ![i] = NoTrack]
      BY <1>7 DEF Show
    <3>3. stage' \in [Tasks -> Stages]
      BY <3>1, <3>2
    <3>4. track' \in [Tasks -> Tracks]
      BY <3>2
    <3> QED
      BY <3>3, <3>4
  <2> QED
    BY <1>7, <2>1, <2>2 DEF Show, askVars, fetchVars
<1>8. ASSUME NEW i \in Tasks, ResolveFails(i) PROVE TypeOK'
  BY <1>8 DEF ResolveFails, Stages, askVars, fetchVars
<1>9. ASSUME NEW i \in Tasks, Resolve(i) PROVE TypeOK'
  <2>1. part' = [part EXCEPT ![track[i]] = {}]
    BY <1>9 DEF Resolve
  <2>2. /\ part' \in [Tracks -> SUBSET Nat]
        /\ \A t \in Tracks :
             part'[t] \subseteq 1 .. Size[t] \/ part'[t] = Missing
    BY <2>1
  <2>3. /\ stage' \in [Tasks -> Stages]
        /\ declared' \in [Tasks -> Nat]
        /\ expected' \in [Tasks -> Nat]
    <3>1. Size[track[i]] \in Nat /\ "fetching" \in Stages
      BY DownloadsAssumption DEF DownloadsAssumption, Stages
    <3>2. /\ stage' = [stage EXCEPT ![i] = "fetching"]
          /\ \E length \in {0, Size[track[i]]} :
               /\ declared' = [declared EXCEPT ![i] = length]
               /\ expected' = [expected EXCEPT ![i] = length]
      BY <1>9 DEF Resolve
    <3> QED
      BY <3>1, <3>2
  <2> QED
    BY <1>9, <2>2, <2>3 DEF Resolve, askVars
<1>10. CASE Played
  BY <1>10 DEF Played, askVars, taskVars, fetchVars
<1>11. ASSUME NEW t \in Tracks, Remove(t) PROVE TypeOK'
  <2>1. final' = [final EXCEPT ![t] = Missing] /\ Missing \in SUBSET Nat
    BY <1>11 DEF Remove, Missing
  <2>2. /\ final' \in [Tracks -> SUBSET Nat]
        /\ \A u \in Tracks :
             final'[u] \subseteq 1 .. Size[u] \/ final'[u] = Missing
    BY <2>1
  <2> QED
    <3>1. UNCHANGED <<row, part, unsaid, shown, ask, askTrack, askCopy, stage,
                      track, copy, offset, declared, expected, lost>>
      BY <1>11 DEF Remove, askVars, taskVars, fetchVars
    <3> QED
      BY <2>2, <3>1
<1>12. CASE Restart
  <2>1. Unread \in [Tracks -> Rows] /\ "idle" \in Stages
    BY DEF Unread, Rows, Stages
  <2> QED
    <3>1. /\ row' \in [Tracks -> Rows] /\ shown' \in [Tracks -> Rows]
          /\ ask' \in [Clients -> {"idle", "telling", "sending"}]
          /\ askTrack' \in [Clients -> Tracks]
          /\ askCopy' \in [Clients -> [Tracks -> Rows]]
      BY <1>12, <2>1 DEF Restart
    <3>2. /\ stage' \in [Tasks -> Stages]
          /\ track' \in [Tasks -> Tracks]
          /\ copy' \in [Tasks -> [Tracks -> Rows]]
          /\ offset' \in [Tasks -> Nat]
          /\ declared' \in [Tasks -> Nat]
          /\ expected' \in [Tasks -> Nat]
          /\ lost' \subseteq Tracks
      BY <1>12, <2>1 DEF Restart
    <3>3. UNCHANGED <<part, final, unsaid>>
      BY <1>12 DEF Restart
    <3> QED
      BY <3>1, <3>2, <3>3
<1>13. CASE UNCHANGED vars
  BY <1>13 DEF vars, askVars, taskVars, fetchVars
<1>14. ASSUME NEW i \in Tasks, Task(i) PROVE TypeOK'
  BY <1>5, <1>6, <1>7, <1>8, <1>9, <1>14, FetchIsTyped DEF Task
<1> HIDE DEF TypeOK
<1> QED
  BY <1>1, <1>2, <1>3, <1>4, <1>10, <1>11, <1>12, <1>13, <1>14 DEF Next

-----------------------------------------------------------------------------
(* The invariant, and what follows from it. *)

\* Every step keeps IInv.
LEMMA Inductive == IInv /\ [Next]_vars => IInv'
<1> SUFFICES ASSUME IInv, [Next]_vars PROVE IInv'
  OBVIOUS
<1>1. TypeOK /\ OneSent /\ SentInv /\ FetchInv
  BY DEF IInv, SentInv, FetchInv
<1>2. TypeOK'
  BY <1>1, TypeStep
<1>3. SentInv'
  BY <1>1, SentStep
<1>4. FetchInv'
  BY <1>1, FetchStep
<1> QED
  BY <1>2, <1>3, <1>4 DEF IInv, SentInv, FetchInv

\* The specification keeps IInv.
THEOREM Invariance == Spec => []IInv
BY Initially, Inductive, PTL DEF Spec

\* Every variable of the downloads has its type.
THEOREM TypeCorrect == Spec => []TypeOK
<1>1. IInv => TypeOK
  BY DEF IInv
<1> QED
  BY <1>1, Invariance, PTL

\* Whenever the daemon ends and however the answers are cut, a file that has its
\* name is a beginning of the stream, and all of it if its length was said.
THEOREM Whole == Spec => []FilesAreWhole
<1>1. IInv => FilesAreWhole
  BY DEF IInv
<1> QED
  BY <1>1, Invariance, PTL

\* No two tasks write the files of one track.
THEOREM OneAtWork == Spec => []OneWriter
<1>1. IInv => OneWriter
  BY DEF IInv, OneSent
<1> QED
  BY <1>1, Invariance, PTL

\* A row in progress that was not left behind has a task, or a command that is
\* about to spawn one.
THEOREM WorkedOn == Spec => []InProgressIsWorkedOn
<1>1. IInv => InProgressIsWorkedOn
  BY DEF IInv
<1> QED
  BY <1>1, Invariance, PTL

\* A row changes only from or to one in progress, by those who were sent for it.
LEMMA RowSteps ==
  ASSUME IInv, [Next]_vars
  PROVE  /\ \A t \in Tracks : row[t] = "available" /\ final[t] # Missing
                              => row'[t] = "available"
         /\ lost \subseteq lost'
         /\ \A t \in lost : row'[t] = row[t]
<1>0. /\ row \in [Tracks -> Rows]
      /\ track \in [Tasks -> Tracks]
      /\ lost \subseteq Tracks
  BY DEF IInv, TypeOK
<1>1. "available" \notin InProgress
  BY DEF InProgress
<1> DEFINE Kept ==
      /\ \A t \in Tracks :
           row[t] = "available" /\ final[t] # Missing => row'[t] = "available"
      /\ lost \subseteq lost'
      /\ \A t \in lost : row'[t] = row[t]
<1>2. ASSUME NEW c \in Clients, NEW t \in Tracks, Ask(c, t) \/ AskFails(c, t)
      PROVE  Kept
  <2>1. \/ row' = row
        \/ Wanted(t) /\ row' = [row EXCEPT ![t] = "queued"]
    BY <1>2 DEF Ask, AskFails
  <2>2. lost \subseteq lost'
    BY <1>2 DEF Ask, AskFails
  <2> QED
    BY <1>0, <2>1, <2>2 DEF Wanted, IInv, LostAreAlone
<1>3. ASSUME NEW i \in Tasks, Begin(i) \/ Finish(i) PROVE Kept
  <2>1. Busy(i)
    BY <1>3 DEF Begin, Finish, Busy
  <2>2. row[track[i]] \in InProgress /\ track[i] \notin lost
    BY <2>1 DEF IInv, SentAreInProgress, LostAreAlone
  <2>3. /\ \A t \in Tracks : t # track[i] => row'[t] = row[t]
        /\ lost \subseteq lost'
    BY <1>0, <1>3 DEF Begin, Finish, Written, WrittenOnly, NotWritten
  <2> QED
    BY <1>0, <1>1, <2>2, <2>3
<1>4. CASE Restart
  BY <1>0, <1>4 DEF Restart, IInv, LostAreAlone
<1>5. CASE UNCHANGED <<row, lost>>
  BY <1>5
<1>6. ASSUME NEW c \in Clients, Like(c) \/ Answer(c)
      PROVE  UNCHANGED <<row, lost>>
  BY <1>6 DEF Like, Answer
<1>7. ASSUME NEW i \in Tasks,
             Show(i) \/ ResolveFails(i) \/ Resolve(i) \/ Fetch(i)
      PROVE  UNCHANGED <<row, lost>>
  BY <1>7 DEF Show, ResolveFails, Resolve, Fetch
<1>8. ASSUME Played \/ (\E t \in Tracks : Remove(t)) \/ UNCHANGED vars
      PROVE  UNCHANGED <<row, lost>>
  BY <1>8 DEF Played, Remove, vars
<1>9. ASSUME NEW i \in Tasks, Task(i) PROVE Kept
  BY <1>3, <1>5, <1>7, <1>9 DEF Task
<1>10. Kept
  BY <1>2, <1>4, <1>5, <1>6, <1>8, <1>9 DEF Next
<1> QED
  BY <1>10

\* A download that is available stays so as long as its file is there.
THEOREM AvailableStays == Spec => AvailableIsKept
<1>1. IInv /\ [Next]_vars
        => [\A t \in Tracks : row[t] = "available" /\ final[t] # Missing
                               => row'[t] = "available"]_vars
  BY RowSteps
<1> QED
  BY <1>1, Invariance, PTL DEF Spec, AvailableIsKept

\* A row that was left behind is never taken up again.
THEOREM LostStays == Spec => LostForGood
<1>1. IInv /\ [Next]_vars
        => [lost \subseteq lost' /\ \A t \in lost : row'[t] = row[t]]_vars
  BY RowSteps
<1> QED
  BY <1>1, Invariance, PTL DEF Spec, LostForGood

\* A row in progress has one task, unless it was left behind.
THEOREM OneTask == Spec => []OneTaskAtWork
BY OneAtWork, WorkedOn, PTL DEF OneTaskAtWork

\* A row that no task is at work on stays as it is.
THEOREM SettledStays == Spec => SettledRowsStay
BY AvailableStays, LostStays DEF SettledRowsStay
=============================================================================
