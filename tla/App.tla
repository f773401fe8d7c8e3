--------------------------------- MODULE App ---------------------------------
(***************************************************************************)
(* What a TUI displays and what its keys and clicks do                      *)
(* (zerobeat-tui/src/app.rs, mouse.rs and main.rs), with the part of the    *)
(* daemon's snapshot it browses: navigation, search, lyrics, the current    *)
(* track and the displayed queue (zerobeat-daemon/src/server.rs).           *)
(*                                                                         *)
(* The TUI holds a copy of the snapshot.  A key or a click is read from the *)
(* copy; it changes the TUI, or sends a command and takes the snapshot of   *)
(* the reply for its copy.  Without a key the copy is only replaced while   *)
(* it says that something is under way.  Meanwhile the daemon searches,     *)
(* fetches lyrics, starts tracks and extends the queue.                     *)
(*                                                                         *)
(* There is one TUI.  A command is one step: the TUI waits for its reply,   *)
(* and the requests of a start are the subject of Playback.  The tick's     *)
(* request for the next track is two, for the commands that do not need the *)
(* queue's lock go on between its check and the start.  The cooldown of the *)
(* transport keys only ignores keys, which a user may as well not press.    *)
(***************************************************************************)
EXTENDS Naturals, Sequences, SequencesExt

CONSTANTS
  Routes,      \* the routes a user goes to, Home and Search among them
  Tracks,
  None,        \* no track, no query, no result
  Unknown,     \* the next track, while the tick asks the service for it
  Results,     \* the answer to every query that is not blank
  Plays,       \* the tracks the service may play when it is asked for one
  Queues,      \* the queues the service answers with
  MaxHistory,  \* bound: routes to go back to
  MaxSearches, \* bound: searches
  MaxLyrics,   \* bound: lyrics tasks of a track at one time
  MaxBehind    \* bound: steps of the daemon since the TUI looked at it

Queries == DOMAIN Results

ASSUME AppAssumption ==
  /\ {"Home", "Search"} \subseteq Routes
  /\ None \notin Tracks \cup Queries
  /\ Unknown \notin Tracks \cup {None}
  /\ Plays \in [Tracks -> SUBSET Tracks]
  /\ \A q \in Queries : Results[q] \in Seq(Tracks)
  /\ Queues \subseteq Seq(Tracks)
  /\ MaxHistory \in Nat /\ MaxSearches \in Nat
  /\ MaxLyrics \in Nat /\ MaxBehind \in Nat

VARIABLES
  server,    \* the daemon's snapshot
  starting,  \* the track that is being started, or asked for by the tick,
             \* which a snapshot does not show
  view,      \* the TUI's copy of the snapshot
  blind,     \* history: the copy shows no sign of a track that was being
             \* started or asked for when it was taken
  shifted,   \* history: the service has rearranged the queue behind a copy
             \* that shows nothing under way
  behind,    \* steps of the daemon since then
  typing,    \* search_focused
  panel,     \* queue_focused
  row,       \* queue_selected, from 1
  searches,  \* search tasks
  fetches    \* the lyrics tasks of each track

copy == <<view, blind, shifted, behind>>
tui == <<view, blind, typing, panel, row>>
tasks == <<searches, fetches>>
vars == <<server, starting, tui, shifted, behind, tasks>>

Init ==
  /\ server = [route |-> "Home", history |-> <<>>, query |-> None,
               search |-> "idle", found |-> None, selected |-> 1,
               request |-> 0, status |-> "idle", current |-> None,
               queue |-> <<>>, visible |-> FALSE,
               lyricsOf |-> None, lyrics |-> "idle", lines |-> None]
  /\ starting = None
  /\ view = server
  /\ blind = FALSE
  /\ shifted = FALSE
  /\ behind = 0
  /\ typing = FALSE
  /\ panel = FALSE
  /\ row = 1
  /\ searches = {}
  /\ fetches = [t \in Tracks |-> 0]

----------------------------------------------------------------------------
(* The two sides of a command. *)

Rows(s) == IF s.found = None THEN <<>> ELSE Results[s.found]

\* For a mutant: a search is not waited for.
NeedsRefreshToPlay(s) ==
  s.status \in {"resolving", "playing"} \/ s.lyrics = "loading"

\* needs_refresh
NeedsRefresh(s) ==
  \/ s.search = "loading"
  \/ s.status \in {"resolving", "playing"}
  \/ s.lyrics = "loading"

\* The TUI looks again, or a track is on its way that its copy does not show.
UnderWay == NeedsRefresh(view) \/ blind

\* replace_snapshot: the row of the queue stays within it.
Clamped(r, s) ==
  IF Len(s.queue) = 0 THEN 1 ELSE IF r > Len(s.queue) THEN Len(s.queue) ELSE r

\* The TUI takes the snapshot s for its copy.
Take(s, r) ==
  /\ view' = s
  /\ blind' = (starting' # None /\ ~NeedsRefresh(s))
  /\ shifted' = FALSE
  /\ behind' = 0
  /\ row' = Clamped(r, s)

\* The daemon applies a command that starts nothing; the TUI takes its reply.
Reply(s, r) ==
  /\ server' = s
  /\ starting' = starting
  /\ Take(s, r)

\* prepare_track
Prepare(t) ==
  /\ starting' = t
  /\ server' = [server EXCEPT !.status = IF server.current = None
                                       THEN "resolving" ELSE @]

\* One of the tracks is started.
Starts(tracks, r) == \E t \in tracks : Prepare(t) /\ Take(server', r)

\* queue_error_snapshot, set_playback_error
Refused(s) == [s EXCEPT !.status = IF s.current = None THEN "failed" ELSE @]

\* A new queue that the service refuses, whatever is playing.
Failed(s) == [s EXCEPT !.status = "failed"]

\* queue_mutation: the tick does not hold the queue.
QueueIsFree == starting # Unknown

\* spawn_lyrics
Fetch(t) ==
  /\ fetches[t] < MaxLyrics
  /\ fetches' = [fetches EXCEPT ![t] = @ + 1]

WithLyrics(s, t) ==
  [s EXCEPT !.lyricsOf = t, !.lyrics = "loading", !.lines = None]

----------------------------------------------------------------------------
(* Keys and clicks. *)

\* Keys 1 to 8, and a click on the navigation bar even while the user types.
Navigate(r) ==
  /\ server.route # r => Len(server.history) < MaxHistory
  /\ Reply([server EXCEPT
              !.history = IF server.route = r THEN @
                          ELSE Append(@, server.route),
              !.route = r, !.visible = FALSE], row)
  /\ typing' = (r = "Search")
  /\ panel' = FALSE
  /\ UNCHANGED tasks

\* A toggle of the lyrics, on the daemon's side.
Toggle ==
  \/ /\ server.current = None
     /\ Reply(server, row)
     /\ UNCHANGED fetches
  \/ LET t == server.current
         toggled == [server EXCEPT !.visible = ~@]
     IN
     /\ t # None
     /\ IF toggled.visible /\ server.lyricsOf # t
        THEN Reply(WithLyrics(toggled, t), row) /\ Fetch(t)
        ELSE Reply(toggled, row) /\ UNCHANGED fetches

\* A click works while the user types.
ToggleLyrics ==
  /\ Toggle
  /\ panel' = FALSE
  /\ UNCHANGED <<typing, searches>>

\* The queue takes the place of the lyrics; a click works while the user types.
ToggleQueue ==
  /\ panel' = ~panel
  /\ IF ~panel /\ view.visible
     THEN Toggle
     ELSE UNCHANGED <<server, starting, copy, row, fetches>>
  /\ UNCHANGED <<typing, searches>>

\* Esc leaves the input line, the queue, the lyrics or the route.
Escape ==
  \/ /\ typing
     /\ typing' = FALSE
     /\ UNCHANGED <<server, starting, copy, panel, row, tasks>>
  \/ /\ ~typing /\ panel
     /\ panel' = FALSE
     /\ UNCHANGED <<server, starting, copy, typing, row, tasks>>
  \/ /\ ~typing /\ ~panel /\ view.visible
     /\ Toggle
     /\ UNCHANGED <<typing, panel, searches>>
  \/ /\ ~typing /\ ~panel /\ ~view.visible
     /\ LET s == [server EXCEPT !.visible = FALSE] IN
        Reply(IF s.history = <<>> THEN s
              ELSE [s EXCEPT !.route = Last(s.history),
                             !.history = Front(@)], row)
     /\ UNCHANGED <<typing, panel, tasks>>

\* A character or a backspace makes another query of the one displayed.
Type(q) ==
  /\ typing
  /\ q # view.query
  /\ Reply([server EXCEPT !.query = q], row)
  /\ UNCHANGED <<typing, panel, tasks>>

\* Enter on the input line; a blank query is not sent, so that the daemon,
\* which has the same query, does not come to refuse it.
Submit ==
  /\ typing
  /\ typing' = FALSE
  /\ IF view.query = None
     THEN UNCHANGED <<server, starting, copy, row, searches>>
     ELSE LET r == server.request + 1 IN
          /\ r <= MaxSearches
          /\ Reply([server EXCEPT !.search = "loading", !.request = r], row)
          /\ searches' = searches \cup {[request |-> r, query |-> server.query]}
  /\ UNCHANGED <<panel, fetches>>

\* For a mutant: the selection moves in the TUI only.
SelectLocally ==
  /\ ~typing /\ ~panel /\ view.route = "Search"
  /\ Rows(view) # <<>>
  /\ \E i \in 1 .. Len(Rows(view)) : view' = [view EXCEPT !.selected = i]
  /\ UNCHANGED <<server, starting, blind, shifted, behind, typing, panel, row,
                 tasks>>

\* Up and Down among the results, around the end.
Select ==
  /\ ~typing /\ ~panel /\ view.route = "Search"
  /\ LET n == Len(Rows(server)) IN
     IF n = 0 THEN Reply(server, row)
     ELSE \E i \in {1 + (server.selected % n),
                    IF server.selected = 1 THEN n ELSE server.selected - 1} :
            Reply([server EXCEPT !.selected = i], row)
  /\ UNCHANGED <<typing, panel, tasks>>

\* Up and Down in the queue.
MoveRow ==
  /\ ~typing /\ panel
  /\ row' \in IF view.queue = <<>> THEN {1} ELSE 1 .. Len(view.queue)
  /\ UNCHANGED <<server, starting, copy, typing, panel, tasks>>

\* Enter on a result: the daemon has the service play the result that is
\* selected there.
PlaySelected ==
  /\ ~typing /\ (panel => view.queue = <<>>)
  /\ view.route = "Search" /\ Rows(view) # <<>>
  /\ QueueIsFree
  /\ IF Rows(server) = <<>> THEN Reply(server, row)
     ELSE \/ Starts(Plays[Rows(server)[server.selected]], row)
          \/ Reply(Failed(server), row)
  /\ UNCHANGED <<typing, panel, tasks>>

\* Enter or a click on a row of a list: the row's track is sent, or the current
\* one if the selected row is no more, and played whatever the service answers.
PlayTrack(t) ==
  /\ QueueIsFree
  /\ Starts({t}, row) \/ Reply(Failed(server), row)
  /\ UNCHANGED <<typing, panel, tasks>>

\* Next and previous leave the track to the service.  If it fails, the track
\* that is being started is given up.
Skip ==
  /\ QueueIsFree
  /\ \/ Starts(Tracks, row)
     \/ Reply(Refused(server), row)
     \/ /\ starting' = None
        /\ server' = Refused(server)
        /\ Take(server', row)
  /\ UNCHANGED <<typing, panel, tasks>>

\* Enter or a click on a row of the queue: the row's number is sent, and the
\* service asked for that row of the daemon's queue.  While a track is started,
\* or for a row that is not there, it is refused.
PlayQueueRow(i) ==
  /\ i \in 1 .. Len(view.queue)
  /\ QueueIsFree
  /\ \/ Reply(Refused(server), i)
     \/ /\ starting = None
        /\ i <= Len(server.queue)
        /\ Starts(Plays[server.queue[i]], i)
  /\ UNCHANGED <<typing, panel, tasks>>

\* Delete in the queue.
RemoveQueueRow ==
  /\ ~typing /\ panel
  /\ row \in 1 .. Len(view.queue)
  /\ QueueIsFree
  /\ \/ Reply(Refused(server), row)
     \/ /\ starting = None
        /\ row <= Len(server.queue)
        /\ Reply([server EXCEPT !.queue = RemoveAt(@, row)], row)
  /\ UNCHANGED <<typing, panel, tasks>>

\* Shuffle, repeat, clear or a track that is added: the service's answer is the
\* queue, unless a track is being started.
EditQueue ==
  /\ QueueIsFree
  /\ \/ Reply(Refused(server), row)
     \/ /\ starting = None
        /\ \E q \in Queues : Reply([server EXCEPT !.queue = q], row)
  /\ UNCHANGED <<typing, panel, tasks>>

\* Space; the audio may refuse.
TogglePlayback ==
  /\ Reply([server EXCEPT !.status =
              CASE @ = "playing" -> "paused"
                [] @ = "paused"  -> "playing"
                [] OTHER         -> @], row)
  /\ UNCHANGED <<typing, panel, tasks>>

\* Volume, mute, seek, likes, downloads, settings: nothing that is browsed
\* changes, and the copy is replaced.
OtherCommand ==
  /\ Reply(server, row)
  /\ UNCHANGED <<typing, panel, tasks>>

\* The TUI is left and started again.
Reopen ==
  /\ UNCHANGED <<server, starting, tasks>>
  /\ Take(server, 1)
  /\ typing' = FALSE
  /\ panel' = FALSE

----------------------------------------------------------------------------
(* Without a key. *)

\* A tenth of a second without a key.
Poll ==
  /\ NeedsRefresh(view)
  /\ UNCHANGED <<server, starting, typing, panel, tasks>>
  /\ Take(server, row)

\* A step of the daemon that the TUI does not see before it looks.
Unseen ==
  /\ behind < MaxBehind
  /\ behind' = behind + 1
  /\ UNCHANGED <<tui, shifted>>

\* For a mutant: every answer is displayed.
SearchAnswersAlways(task) ==
  /\ searches' = searches \ {task}
  /\ server' \in
       {[server EXCEPT !.search = "ready", !.found = task.query,
                       !.selected = 1],
        [server EXCEPT !.search = "failed"]}
  /\ Unseen
  /\ UNCHANGED <<starting, fetches>>

\* The answer to the newest search is displayed, any other is dropped.
SearchAnswers(task) ==
  /\ searches' = searches \ {task}
  /\ server' \in
       IF server.request # task.request THEN {server}
       ELSE {[server EXCEPT !.search = "ready", !.found = task.query,
                            !.selected = 1],
             [server EXCEPT !.search = "failed"]}
  /\ Unseen
  /\ UNCHANGED <<starting, fetches>>

\* Likewise the lyrics of the track they are displayed for; there may be none.
LyricsAnswer(t) ==
  /\ fetches[t] > 0
  /\ fetches' = [fetches EXCEPT ![t] = @ - 1]
  /\ server' \in
       IF server.lyricsOf # t THEN {server}
       ELSE {[server EXCEPT !.lyrics = "ready", !.lines = t],
             [server EXCEPT !.lyrics = "failed"]}
  /\ Unseen
  /\ UNCHANGED <<starting, searches>>

\* The stream is known and the track loads: buffering, which is displayed as
\* resolving is, unless another track is displayed.
Buffers ==
  /\ starting \in Tracks
  /\ server.current = None
  /\ server.status # "resolving"
  /\ server' = [server EXCEPT !.status = "resolving"]
  /\ Unseen
  /\ UNCHANGED <<starting, tasks>>

\* The track has started: commit_playback_success.
Started ==
  LET t == starting IN
  /\ t \in Tracks
  /\ starting' = None
  /\ \E q \in Queues \cup {server.queue} :
       LET s == [server EXCEPT !.current = t, !.status = "playing", !.queue = q]
       IN IF server.lyricsOf = t
          THEN server' = s /\ UNCHANGED fetches
          ELSE server' = WithLyrics(s, t) /\ Fetch(t)
  /\ Unseen
  /\ UNCHANGED searches

StartFails ==
  /\ starting \in Tracks
  /\ starting' = None
  /\ server' = Refused(server)
  /\ Unseen
  /\ UNCHANGED tasks

\* A playing track comes to its end, and the tick asks for the next one.
TickAsks ==
  /\ server.status = "playing" /\ starting = None
  /\ starting' = Unknown
  /\ UNCHANGED <<server, tui, shifted, behind, tasks>>

\* The service answers, and the next track is started, whatever has become of
\* the one that was playing; or the answer is not taken.
TickAdvances ==
  /\ starting = Unknown
  /\ \/ \E t \in Tracks : Prepare(t)
     \/ starting' = None /\ UNCHANGED server
  /\ UNCHANGED <<tui, shifted, behind, tasks>>

\* The tick asks for more of the queue, and displays what the service answers.
Refill ==
  /\ starting = None
  /\ behind < MaxBehind
  /\ behind' = behind + 1
  /\ \E q \in Queues :
       /\ server' = [server EXCEPT !.queue = q]
       /\ shifted' = (shifted \/ ~(UnderWay \/ IsPrefix(server.queue, q)))
  /\ UNCHANGED <<starting, tui, tasks>>

\* The tick finds that the audio has failed.
AudioFails ==
  /\ starting # Unknown
  /\ server.status \in {"playing", "paused"}
  /\ server' = [server EXCEPT !.status = "failed"]
  /\ Unseen
  /\ UNCHANGED <<starting, tasks>>

Key ==
  \/ \E r \in Routes : Navigate(r)
  \/ ToggleLyrics \/ ToggleQueue \/ Escape \/ Submit \/ Select \/ MoveRow
  \/ PlaySelected \/ Skip \/ RemoveQueueRow \/ EditQueue \/ TogglePlayback
  \/ OtherCommand \/ Reopen
  \/ \E q \in Queries \cup {None} : Type(q)
  \/ \E t \in Tracks : PlayTrack(t)
  \/ \E i \in 1 .. Len(view.queue) : PlayQueueRow(i)

Next ==
  \/ Key \/ Poll \/ Buffers \/ Started \/ StartFails
  \/ TickAsks \/ TickAdvances \/ Refill \/ AudioFails
  \/ \E task \in searches : SearchAnswers(task)
  \/ \E t \in Tracks : LyricsAnswer(t)

Spec == Init /\ [][Next]_vars

----------------------------------------------------------------------------
\* A TUI that shows nothing under way shows what the daemon has: the route, the
\* query, the results and the track.  There are two exceptions.  The copy was
\* taken while another track was started, or was about to be, and the player
\* was paused or had failed: its snapshot shows no sign of it.  And the service
\* has rearranged the queue when it was asked for more of it.  What the keys
\* take for granted holds even while the copy is behind: the input line is that
\* of the search, and of queue and lyrics one is displayed.
ViewIsHonest ==
  /\ ~UnderWay =>
       /\ \A f \in {"search", "found", "selected", "current", "lyricsOf"} :
            view[f] = server[f]
       /\ IsPrefix(view.queue, server.queue) \/ shifted
  /\ \A f \in {"route", "history", "query", "visible"} : view[f] = server[f]
  /\ typing => server.route = "Search"
  /\ ~(panel /\ server.visible)

\* The service is asked for the track under the cursor, so that what is started
\* is what it plays for that one.  Only while a search is loading may Enter find
\* other results than those displayed, and only while something is under way, or
\* after the service has rearranged the queue, may the number of a row mean
\* another track.
ActsOnShown ==
  [][/\ PlaySelected /\ starting' # starting =>
          \/ starting' \in Plays[Rows(view)[view.selected]]
          \/ view.search = "loading"
     /\ \A i \in 1 .. Len(view.queue) :
          PlayQueueRow(i) /\ starting' # starting =>
            \/ starting' \in Plays[view.queue[i]]
            \/ UnderWay \/ shifted]_vars

\* What is displayed is the answer to what was asked last: results of the newest
\* query, lyrics of the current track, and a search or a fetch that is displayed
\* as loading has a task at work on it.
AnswersMatch ==
  /\ server.search = "loading" =>
       \E task \in searches : task.request = server.request
  /\ \A task \in searches :
       server.search = "ready" => task.request < server.request
  /\ Rows(server) # <<>> => server.selected \in 1 .. Len(Rows(server))
  /\ server.visible => server.lyricsOf = server.current
  /\ server.lines # None => server.lines = server.lyricsOf
  /\ server.lyrics = "loading" => fetches[server.lyricsOf] > 0
=============================================================================
