------------------------------- MODULE Downloads -------------------------------
(***************************************************************************)
(* The downloads of the daemon (zerobeat-daemon/src/download.rs, the        *)
(* command DownloadTrack of server.rs and the rows of zerobeat-storage):    *)
(* commands and download tasks, which meet in the database, in the files    *)
(* and in the library that is displayed, and restarts of the daemon.        *)
(*                                                                         *)
(* Granularity.  What is done under the lock of the database is one step,   *)
(* and so is what is done under the lock of the snapshot; in between a task *)
(* or a command holds a copy of the library.  A response with its body is   *)
(* one step, with the synchronous code that follows it.                     *)
(*                                                                         *)
(* Data.  A stream is the units 1 .. Size[t]; a file is the set of units    *)
(* that were written.  Tracks have different files: the ids of the service  *)
(* are letters, digits, - and _, which safe_track_id keeps, and the file     *)
(* system tells upper and lower case apart.                                 *)
(***************************************************************************)
EXTENDS Integers

CONSTANTS
  Tracks,
  Clients,
  Tasks,       \* names for the tasks that are alive
  Size,        \* units of each track
  Chunk        \* units of a request whose stream does not declare its length

ASSUME DownloadsAssumption ==
  /\ Tracks # {}
  /\ Size \in [Tracks -> Nat \ {0}]
  /\ Chunk \in Nat \ {0}

InProgress == {"queued", "downloading"}
Rows == {"none", "available", "failed"} \cup InProgress

VARIABLES
  row,                          \* the downloads table
  part,                         \* the units in the .part file
  final,                        \* the units in the .audio file
  shown,                        \* the library of the snapshot
  ask, askTrack, askCopy,       \* each client's command, between the two locks
  stage, track, copy,           \* the download tasks
  offset, declared, expected,   \* of download_stream
  lost,    \* the rows a restart or a failing database has left in progress
  unsaid   \* history: files that were named without a length to compare with

askVars == <<ask, askTrack, askCopy>>
fetchVars == <<offset, declared, expected>>
taskVars == <<stage, track, copy, fetchVars>>
vars == <<row, part, final, shown, askVars, taskVars, lost, unsaid>>

Missing == {0}                 \* no file: units are numbered from 1
NoTrack == CHOOSE t \in Tracks : TRUE
Unread == [t \in Tracks |-> "none"]

Init ==
  /\ row = Unread
  /\ part = [t \in Tracks |-> Missing]
  /\ final = [t \in Tracks |-> Missing]
  /\ shown = Unread
  /\ ask = [c \in Clients |-> "idle"]
  /\ askTrack = [c \in Clients |-> NoTrack]
  /\ askCopy = [c \in Clients |-> Unread]
  /\ stage = [i \in Tasks |-> "idle"]
  /\ track = [i \in Tasks |-> NoTrack]
  /\ copy = [i \in Tasks |-> Unread]
  /\ offset = [i \in Tasks |-> 0]
  /\ declared = [i \in Tasks |-> 0]
  /\ expected = [i \in Tasks |-> 0]
  /\ lost = {}
  /\ unsaid = {}

-----------------------------------------------------------------------------
(* The command DownloadTrack. *)

\* Mutant: a row in progress is no reason not to begin.
WantedTwice(t) == row[t] = "available" => final[t] = Missing

\* Mutant: a track that is there is fetched again.
WantedAgain(t) == row[t] \notin InProgress

\* should_spawn
Wanted(t) ==
  /\ row[t] \notin InProgress
  /\ row[t] = "available" => final[t] = Missing

\* Under the lock of the database.
Ask(c, t) ==
  /\ ask[c] = "idle"
  /\ IF Wanted(t)
     THEN /\ row' = [row EXCEPT ![t] = "queued"]
          /\ ask' = [ask EXCEPT ![c] = "sending"]
     ELSE /\ ask' = [ask EXCEPT ![c] = "telling"]
          /\ UNCHANGED row
  /\ askTrack' = [askTrack EXCEPT ![c] = t]
  /\ askCopy' = [askCopy EXCEPT ![c] = row']
  /\ UNCHANGED <<part, final, unsaid, shown, taskVars, lost>>

\* The row is queued, and then the library cannot be read: the command reports
\* the error and sends nobody.
AskFails(c, t) ==
  /\ ask[c] = "idle"
  /\ Wanted(t)
  /\ row' = [row EXCEPT ![t] = "queued"]
  /\ lost' = lost \cup {t}
  /\ UNCHANGED <<part, final, unsaid, shown, askVars, taskVars>>

\* ToggleLike: another command that reads the library and then tells it.
Like(c) ==
  /\ ask[c] = "idle"
  /\ ask' = [ask EXCEPT ![c] = "telling"]
  /\ askCopy' = [askCopy EXCEPT ![c] = row]
  /\ UNCHANGED <<row, part, final, unsaid, shown, askTrack, taskVars, lost>>

\* Under the lock of the snapshot.
Answer(c) ==
  /\ ask[c] # "idle"
  /\ shown' = askCopy[c]
  /\ ask' = [ask EXCEPT ![c] = "idle"]
  /\ askTrack' = [askTrack EXCEPT ![c] = NoTrack]
  /\ askCopy' = [askCopy EXCEPT ![c] = Unread]
  /\ \/ /\ ask[c] = "sending"
        /\ \E i \in Tasks :
             /\ stage[i] = "idle"
             /\ stage' = [stage EXCEPT ![i] = "spawned"]
             /\ track' = [track EXCEPT ![i] = askTrack[c]]
     \/ /\ ask[c] = "telling"
        /\ UNCHANGED <<stage, track>>
  /\ UNCHANGED <<row, part, final, unsaid, copy, fetchVars, lost>>

-----------------------------------------------------------------------------
(* update_download_state: the row and a copy of the library under the lock *)
(* of the database, then the snapshot.  What fails is not tried again.      *)

Written(i, state, next) ==
  /\ row' = [row EXCEPT ![track[i]] = state]
  /\ copy' = [copy EXCEPT ![i] = row']
  /\ stage' = [stage EXCEPT ![i] = next]
  /\ UNCHANGED <<track, lost>>

Proceed(i, next) ==
  /\ stage' = [stage EXCEPT ![i] = next]
  /\ track' = IF next = "idle" THEN [track EXCEPT ![i] = NoTrack] ELSE track
  /\ UNCHANGED copy

\* The library cannot be read.
WrittenOnly(i, state, next) ==
  /\ row' = [row EXCEPT ![track[i]] = state]
  /\ Proceed(i, next)
  /\ UNCHANGED lost

\* The row cannot be written.
NotWritten(i, next) ==
  /\ Proceed(i, next)
  /\ lost' = IF next = "idle" THEN lost \cup {track[i]} ELSE lost
  /\ UNCHANGED row

Begin(i) ==
  /\ stage[i] = "spawned"
  /\ \/ Written(i, "downloading", "begun")
     \/ WrittenOnly(i, "downloading", "resolving")
     \/ NotWritten(i, "resolving")
  /\ UNCHANGED <<part, final, unsaid, shown, askVars, fetchVars>>

\* Mutant: a task that fails says nothing.
FinishQuietly(i) ==
  /\ \/ stage[i] = "fetched" /\ Written(i, "available", "ended")
     \/ /\ stage[i] = "broken"
        /\ stage' = [stage EXCEPT ![i] = "idle"]
        /\ UNCHANGED <<row, copy, track, lost>>
  /\ UNCHANGED <<part, final, unsaid, shown, askVars, fetchVars>>

Outcome(i) == IF stage[i] = "fetched" THEN "available" ELSE "failed"

Finish(i) ==
  /\ stage[i] \in {"fetched", "broken"}
  /\ \/ Written(i, Outcome(i), "ended")
     \/ WrittenOnly(i, Outcome(i), "idle")
     \/ NotWritten(i, "idle")
  /\ UNCHANGED <<part, final, unsaid, shown, askVars, fetchVars>>

Show(i) ==
  /\ \/ /\ stage[i] = "begun"
        /\ stage' = [stage EXCEPT ![i] = "resolving"]
        /\ UNCHANGED track
     \/ /\ stage[i] = "ended"
        /\ stage' = [stage EXCEPT ![i] = "idle"]
        /\ track' = [track EXCEPT ![i] = NoTrack]
  /\ shown' = copy[i]
  /\ copy' = [copy EXCEPT ![i] = Unread]
  /\ UNCHANGED <<row, part, final, unsaid, askVars, fetchVars, lost>>

-----------------------------------------------------------------------------
(* download_stream. *)

\* No stream, or no file.
ResolveFails(i) ==
  /\ stage[i] = "resolving"
  /\ stage' = [stage EXCEPT ![i] = "broken"]
  /\ UNCHANGED <<row, part, final, unsaid, shown, askVars, track, copy>>
  /\ UNCHANGED <<fetchVars, lost>>

\* Mutant: the file is not emptied.
ResolveOnTop(i) ==
  /\ stage[i] = "resolving"
  /\ \E length \in {0, Size[track[i]]} :
       /\ declared' = [declared EXCEPT ![i] = length]
       /\ expected' = [expected EXCEPT ![i] = length]
  /\ stage' = [stage EXCEPT ![i] = "fetching"]
  /\ UNCHANGED <<row, part, final, unsaid, shown, askVars, track, copy>>
  /\ UNCHANGED <<offset, lost>>

\* The file is made or emptied.  The URL of the stream declares its length
\* (clen), or does not.
Resolve(i) ==
  /\ stage[i] = "resolving"
  /\ \E length \in {0, Size[track[i]]} :
       /\ declared' = [declared EXCEPT ![i] = length]
       /\ expected' = [expected EXCEPT ![i] = length]
  /\ part' = [part EXCEPT ![track[i]] = {}]
  /\ stage' = [stage EXCEPT ![i] = "fetching"]
  /\ UNCHANGED <<row, final, unsaid, shown, askVars, track, copy, offset, lost>>

\* Units asked for: the rest of a declared length, or a chunk.
Requested(i) ==
  LET rest == expected[i] - offset[i] IN
  IF declared[i] # 0 THEN rest
  ELSE IF expected[i] = 0 \/ Chunk < rest THEN Chunk ELSE rest

Leave(i, next) ==
  /\ stage' = [stage EXCEPT ![i] = next]
  /\ offset' = [offset EXCEPT ![i] = 0]
  /\ declared' = [declared EXCEPT ![i] = 0]
  /\ expected' = [expected EXCEPT ![i] = 0]
  /\ part' = [part EXCEPT ![track[i]] = Missing]

\* An error of the request, of the body or of the file.
Break(i) == Leave(i, "broken") /\ UNCHANGED <<final, unsaid>>

\* The file is written through and takes its name.
Complete(i, units, total) ==
  /\ Leave(i, "fetched")
  /\ final' = [final EXCEPT ![track[i]] = units]
  /\ unsaid' = IF total = 0 THEN unsaid \cup {track[i]}
                            ELSE unsaid \ {track[i]}

Continue(i, units, n, total) ==
  /\ part' = [part EXCEPT ![track[i]] = units]
  /\ offset' = [offset EXCEPT ![i] = @ + n]
  /\ expected' = [expected EXCEPT ![i] = total]
  /\ UNCHANGED <<final, unsaid, stage, declared>>

\* The length of the file that has these units.
EndsAt(units, length) == length \in units /\ units \subseteq 1 .. length

\* Mutant: a response that ends early is the end of the stream.
ReceiveShort(i, n, total, ranged) ==
  LET here == offset[i] + n
      units == part[track[i]] \cup (offset[i] + 1 .. here)
  IN \/ n < Requested(i) /\ Complete(i, units, total)
     \/ n = Requested(i) /\ total = here /\ Complete(i, units, total)
     \/ n = Requested(i) /\ total # here /\ Continue(i, units, n, total)

\* n units were received; the length is the total, or 0 if nobody said it.
Receive(i, n, total, ranged) ==
  LET here == offset[i] + n
      units == part[track[i]] \cup (offset[i] + 1 .. here)
  IN \/ /\ total # 0
        /\ here = total /\ EndsAt(units, total)
        /\ Complete(i, units, total)
     \/ /\ total # 0
        /\ \/ here = total /\ ~EndsAt(units, total)
           \/ here > total
           \/ here < total /\ n # Requested(i)
        /\ Break(i)
     \/ /\ total # 0
        /\ here < total /\ n = Requested(i)
        /\ Continue(i, units, n, total)
     \/ /\ total = 0
        /\ ~ranged \/ n < Chunk
        /\ Complete(i, units, total)
     \/ /\ total = 0
        /\ ranged /\ n >= Chunk
        /\ Continue(i, units, n, total)

\* 206: units that were asked for and exist, all of them or fewer, with or
\* without the length of the stream.
FetchRange(i) ==
  LET rest == Size[track[i]] - offset[i]
      all == IF rest < Requested(i) THEN rest ELSE Requested(i)
  IN \E told \in {0, Size[track[i]]}, n \in 1 .. all :
       Receive(i, n, IF declared[i] = 0 /\ told # 0 THEN told ELSE expected[i],
               TRUE)

\* 200: the stream from its beginning, as far as the connection lasts.  More
\* than was asked for is an error.  The service does not answer so when it has
\* answered a range before.
FetchWhole(i) ==
  /\ offset[i] = 0
  /\ \E told \in {0, Size[track[i]]}, n \in 1 .. Size[track[i]] :
       /\ n <= Requested(i)
       /\ Receive(i, n, IF expected[i] = 0 THEN told ELSE expected[i], FALSE)

Fetch(i) ==
  /\ stage[i] = "fetching"
  /\ FetchRange(i) \/ FetchWhole(i) \/ Break(i)
  /\ UNCHANGED <<row, shown, askVars, track, copy, lost>>

-----------------------------------------------------------------------------
(* The rest of the world. *)

\* A playback that begins is recorded: the library is read and told at once.
Played ==
  /\ shown' = row
  /\ UNCHANGED <<row, part, final, unsaid, askVars, taskVars, lost>>

\* The user removes a file.
Remove(t) ==
  /\ final[t] # Missing
  /\ final' = [final EXCEPT ![t] = Missing]
  /\ UNCHANGED <<row, part, unsaid, shown, askVars, taskVars, lost>>

\* The daemon ends, whatever it is doing, and is started again: it reads the
\* library, and nothing else.
Restart ==
  /\ shown' = row
  /\ ask' = [c \in Clients |-> "idle"]
  /\ askTrack' = [c \in Clients |-> NoTrack]
  /\ askCopy' = [c \in Clients |-> Unread]
  /\ stage' = [i \in Tasks |-> "idle"]
  /\ track' = [i \in Tasks |-> NoTrack]
  /\ copy' = [i \in Tasks |-> Unread]
  /\ offset' = [i \in Tasks |-> 0]
  /\ declared' = [i \in Tasks |-> 0]
  /\ expected' = [i \in Tasks |-> 0]
  /\ lost' = {t \in Tracks : row[t] \in InProgress}
  /\ UNCHANGED <<row, part, final, unsaid>>

Task(i) ==
  \/ Begin(i) \/ Finish(i) \/ Show(i)
  \/ ResolveFails(i) \/ Resolve(i) \/ Fetch(i)

Next ==
  \/ \E c \in Clients, t \in Tracks : Ask(c, t) \/ AskFails(c, t)
  \/ \E c \in Clients : Like(c) \/ Answer(c)
  \/ \E i \in Tasks : Task(i)
  \/ Played
  \/ \E t \in Tracks : Remove(t)
  \/ Restart

Spec == Init /\ [][Next]_vars

\* A command goes on when it has the lock, and so does a task, whose requests
\* have timeouts.
FairSpec ==
  /\ Spec
  /\ \A c \in Clients : WF_vars(Answer(c))
  /\ \A i \in Tasks : WF_vars(Task(i))

-----------------------------------------------------------------------------
(* Properties. *)

Stages == {"idle", "spawned", "begun", "resolving", "fetching", "fetched",
           "broken", "ended"}

\* Every variable has its type: files have units of their stream only.
TypeOK ==
  /\ row \in [Tracks -> Rows]
  /\ shown \in [Tracks -> Rows]
  /\ part \in [Tracks -> SUBSET Nat]
  /\ final \in [Tracks -> SUBSET Nat]
  /\ \A t \in Tracks : part[t] \subseteq 1 .. Size[t] \/ part[t] = Missing
  /\ \A t \in Tracks : final[t] \subseteq 1 .. Size[t] \/ final[t] = Missing
  /\ ask \in [Clients -> {"idle", "telling", "sending"}]
  /\ askTrack \in [Clients -> Tracks]
  /\ askCopy \in [Clients -> [Tracks -> Rows]]
  /\ stage \in [Tasks -> Stages]
  /\ track \in [Tasks -> Tracks]
  /\ copy \in [Tasks -> [Tracks -> Rows]]
  /\ offset \in [Tasks -> Nat]
  /\ declared \in [Tasks -> Nat]
  /\ expected \in [Tasks -> Nat]
  /\ lost \subseteq Tracks
  /\ unsaid \subseteq Tracks

\* A file that has its name is a beginning of the stream, whenever the daemon
\* ended and however the answers were cut, and all of it unless neither the URL
\* nor an answer said how long it is: then a short answer is taken for the last.
FilesAreWhole ==
  \A t \in Tracks : final[t] # Missing =>
    \E n \in 1 .. Size[t] :
      final[t] = 1 .. n /\ (t \notin unsaid => n = Size[t])

\* Tasks that have still to write the row of their track.
Busy(i) == stage[i] \notin {"idle", "ended"}

\* No two tasks are at work on a track, and so on its files.
OneWriter ==
  \A i, k \in Tasks : i # k /\ Busy(i) /\ Busy(k) => track[i] # track[k]

\* A row that says it is in progress is, unless a restart or a failing database
\* has left one behind.
InProgressIsWorkedOn ==
  \A t \in Tracks : row[t] \in InProgress /\ t \notin lost =>
    \/ \E i \in Tasks : Busy(i) /\ track[i] = t
    \/ \E c \in Clients : ask[c] = "sending" /\ askTrack[c] = t

\* A row in progress has one task, neither two nor none.
OneTaskAtWork == OneWriter /\ InProgressIsWorkedOn

\* A download that is available stays so as long as its file is there.
AvailableIsKept ==
  [][\A t \in Tracks :
       row[t] = "available" /\ final[t] # Missing => row'[t] = "available"]_vars

\* A row that was left behind is never taken up again: a start of the daemon
\* does not look for it, and every command takes it for one in progress.
LostForGood ==
  [][lost \subseteq lost' /\ \A t \in lost : row'[t] = row[t]]_vars

\* A row that no task is at work on stays: available as long as its file is
\* there, and in progress when it was left behind.
SettledRowsStay == AvailableIsKept /\ LostForGood

\* A download ends, unless a restart or a failing database has left it behind.
DownloadsEnd ==
  \A t \in Tracks :
    row[t] \in InProgress ~> (row[t] \notin InProgress \/ t \in lost)

-----------------------------------------------------------------------------
(* Why the safety properties hold: what every step keeps. *)

\* A task or a command that was sent for a track finds its row in progress, and
\* there is one of them.
SentAreInProgress ==
  /\ \A i \in Tasks : Busy(i) => row[track[i]] \in InProgress
  /\ \A c \in Clients : ask[c] = "sending" => row[askTrack[c]] \in InProgress

OneSent ==
  /\ OneWriter
  /\ \A c, d \in Clients :
       c # d /\ ask[c] = "sending" /\ ask[d] = "sending"
         => askTrack[c] # askTrack[d]
  /\ \A i \in Tasks, c \in Clients :
       Busy(i) /\ ask[c] = "sending" => track[i] # askTrack[c]

\* A row that was left behind says it is in progress, and nobody is sent for it.
LostAreAlone ==
  \A t \in lost :
    /\ row[t] \in InProgress
    /\ \A i \in Tasks : Busy(i) => track[i] # t
    /\ \A c \in Clients : ask[c] = "sending" => askTrack[c] # t

\* The .part file of a stream that is fetched is its beginning.
FetchedSoFar ==
  \A i \in Tasks : stage[i] = "fetching" =>
    LET size == Size[track[i]] IN
    /\ offset[i] \in 0 .. size
    /\ part[track[i]] = 1 .. offset[i]
    /\ declared[i] \in {0, size}
    /\ expected[i] \in {0, size}
    /\ declared[i] # 0 => expected[i] = size
    /\ expected[i] # 0 => offset[i] < size

NothingFetched == \A i \in Tasks : stage[i] # "fetching" => offset[i] = 0

IInv ==
  /\ TypeOK /\ FilesAreWhole /\ InProgressIsWorkedOn
  /\ SentAreInProgress /\ OneSent /\ LostAreAlone
  /\ FetchedSoFar /\ NothingFetched

=============================================================================
