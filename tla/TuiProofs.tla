------------------------------ MODULE TuiProofs ------------------------------
(***************************************************************************)
(* Proofs about the two parts of a TUI: how it gets its daemon (Launcher)   *)
(* and what it displays of it (App).                                        *)
(*                                                                         *)
(* Launcher, for any number of launchers, daemons and tries: an old daemon  *)
(* that has not given up the socket file listens behind it, so no launcher  *)
(* finds its way to spawn; hence every daemon that starts does so after the *)
(* old ones left, is never told to shut down, and without a crash never     *)
(* leaves.  So a starting daemon that finds a file finds a daemon that      *)
(* listens, or is about to, and ends without removing anything unless it    *)
(* tries the socket just before its daemon listens.                         *)
(*                                                                         *)
(* App, for any routes, tracks, answers and bounds: a key either takes the  *)
(* snapshot for the copy or leaves both alone, so only steps of the daemon  *)
(* part them.  Where the user is those never change.  The results change    *)
(* only by the answer to the newest search, which the snapshot, and so the  *)
(* copy, has as loading; the track only by a start, which no copy at rest   *)
(* allows for: its daemon plays nothing, starts nothing and has no tick     *)
(* that asks for a track, so that nothing but a refill changes its queue.   *)
(***************************************************************************)
EXTENDS App, Launcher, SequenceTheorems, TLAPS

----------------------------------------------------------------------------
(* How a TUI gets its daemon. *)

\* An old daemon that has not given up the socket file serves behind it.
OldOwnsSocket ==
  \A o \in Old : /\ stage[o] \in {"serving", "stopping", "ending", "gone"}
                 /\ stage[o] \notin {"ending", "gone"} => entry = o

\* Nobody starts a daemon while an old one has the socket.
NewComesLater ==
  \A o \in Old : stage[o] \notin {"ending", "gone"} =>
    /\ \A d \in Daemons \ Old : stage[d] = "off"
    /\ \A l \in Launchers : at[l] # "spawning" /\ l \notin spawned

\* Only old daemons are told to shut down, so only they stop.
OnlyOldAreTold ==
  /\ told \subseteq Old
  /\ \A d \in Daemons \ Old : stage[d] \notin {"stopping", "ending"}

\* A launcher talks to a daemon that has started, shuts down an old one, and
\* returns a client of a new one.
PeersHaveStarted ==
  \A l \in Launchers :
    /\ at[l] \in {"greeting", "closing", "connected"} =>
         peer[l] \in Daemons /\ stage[peer[l]] # "off"
    /\ at[l] = "closing" => peer[l] \in Old
    /\ at[l] = "connected" => peer[l] \notin Old

TriesAreLeft ==
  \A l \in Launchers :
    l \in spawned /\ at[l] \notin {"connected", "failed"} => tries[l] > 0

\* Without a crash, and without a start that tried a socket before its daemon
\* listened, the socket file is that of the one daemon that has bound it, and
\* no start gets to remove it.
SocketsAreClean ==
  ~crashed /\ ~crossed =>
    /\ entry # NoDaemon => Listening(entry) \/ stage[entry] = "bound"
    /\ \A d \in Daemons :
         /\ Listening(d) \/ stage[d] = "bound" => entry = d
         /\ stage[d] # "removing"
         /\ stage[d] = "trying" => entry # NoDaemon

HandoverInv ==
  /\ TypeOK
  /\ OldOwnsSocket
  /\ NewComesLater
  /\ OnlyOldAreTold
  /\ PeersHaveStarted
  /\ TriesAreLeft
  /\ SocketsAreClean

----------------------------------------------------------------------------
\* The invariant holds when the launchers start (main).
LEMMA HandoverInit ==
  ASSUME LauncherInit PROVE HandoverInv
<1> USE LauncherAssumption DEF LauncherAssumption
<1>1. TypeOK
  <2>1. stage \in [Daemons -> DaemonStages]
    BY DEF LauncherInit, DaemonStages
  <2>2. crashed \in BOOLEAN /\ crossed \in BOOLEAN
    BY DEF LauncherInit
  <2> QED
    BY <2>1, <2>2 DEF LauncherInit, TypeOK, LaunchStages
<1>2. OldOwnsSocket /\ NewComesLater /\ OnlyOldAreTold /\ PeersHaveStarted
  BY DEF LauncherInit, OldOwnsSocket, NewComesLater, OnlyOldAreTold,
    PeersHaveStarted
<1>3. TriesAreLeft
  BY DEF LauncherInit, TriesAreLeft
<1>4. SocketsAreClean
  BY DEF LauncherInit, SocketsAreClean, Listening
<1> QED
  BY <1>1, <1>2, <1>3, <1>4 DEF HandoverInv

\* Every step keeps it.
LEMMA HandoverNext ==
  ASSUME HandoverInv, [LauncherNext]_launcherVars PROVE HandoverInv'
<1> USE LauncherAssumption
    DEF LauncherAssumption, HandoverInv, OldOwnsSocket, NewComesLater,
        OnlyOldAreTold, PeersHaveStarted, TriesAreLeft,
        SocketsAreClean, Listening, TypeOK, LaunchStages, DaemonStages
<1>1. ASSUME NEW l \in Launchers, RetireLegacy(l) PROVE HandoverInv'
  BY <1>1 DEF RetireLegacy, Fail
<1>2. ASSUME NEW l \in Launchers, Connect(l) PROVE HandoverInv'
  BY <1>2 DEF Connect, NoClient
<1>3. ASSUME NEW l \in Launchers, Greet(l) \/ GreetFails(l)
      PROVE  HandoverInv'
  BY <1>3 DEF Greet, GreetFails, WaitOn, Fail
<1>4. ASSUME NEW l \in Launchers, Close(l) \/ CloseFails(l)
      PROVE  HandoverInv'
  BY <1>4 DEF Close, CloseFails, Fail
<1>5. ASSUME NEW l \in Launchers, Spawn(l) \/ SpawnFails(l)
      PROVE  HandoverInv'
  BY <1>5 DEF Spawn, SpawnFails, Fail
<1>6. ASSUME NEW d \in Daemons, Run(d) PROVE HandoverInv'
  <2> USE DEF Goes, launch
  <2>1. CASE Look(d)
    BY <2>1 DEF Look
  <2>2. CASE Try(d)
    BY <2>2 DEF Try
  <2>3. CASE RemoveFile(d)
    BY <2>3 DEF RemoveFile
  <2>4. CASE Bind(d) \/ Listen(d)
    BY <2>4 DEF Bind, Listen
  <2>5. CASE Serve(d) \/ Stop(d) \/ Leave(d) \/ End(d)
    BY <2>5 DEF Serve, Stop, Leave, End
  <2> QED
    BY <1>6, <2>1, <2>2, <2>3, <2>4, <2>5 DEF Run
<1>7. ASSUME NEW d \in Daemons, Crash(d) PROVE HandoverInv'
  BY <1>7 DEF Crash, Goes, launch
<1>8. CASE LegacyEnds \/ UNCHANGED launcherVars
  BY <1>8 DEF LegacyEnds, launch, launcherVars
<1> QED
  BY <1>1, <1>2, <1>3, <1>4, <1>5, <1>6, <1>7, <1>8 DEF LauncherNext, Launch

\* The invariant holds in every behaviour.
THEOREM HandoverInvariance == LauncherSpec => []HandoverInv
<1>1. LauncherInit => HandoverInv
  BY HandoverInit
<1>2. HandoverInv /\ [LauncherNext]_launcherVars => HandoverInv'
  BY HandoverNext
<1> QED
  BY <1>1, <1>2, PTL DEF LauncherSpec

\* Every variable of launchers and daemons keeps its type.
THEOREM LauncherTypeCorrect == LauncherSpec => []TypeOK
<1>1. HandoverInv => TypeOK
  BY DEF HandoverInv
<1> QED
  BY <1>1, HandoverInvariance, PTL

\* As long as no daemon left its socket file behind or was tried between bind
\* and listen, the file is that of the one daemon that has bound it
\* (remove_stale_socket, IpcListener::bind).
THEOREM LiveSocketKept == LauncherSpec => []LiveSocketIsKept
<1>1. HandoverInv => LiveSocketIsKept
  BY DEF HandoverInv, SocketsAreClean, LiveSocketIsKept
<1> QED
  BY <1>1, HandoverInvariance, PTL

\* A replaced daemon has gone before another is started or a client returned,
\* and a client's daemon was not told to shut down (connect_or_spawn), with
\* crashes as well.
THEOREM HandoverClean == LauncherSpec => []HandoverIsClean
<1>1. ASSUME HandoverInv PROVE HandoverIsClean
  <2> USE <1>1 DEF HandoverInv
  <2>1. \A l \in Launchers : l \in spawned \/ at[l] = "connected" =>
          \A o \in Old : stage[o] \in {"ending", "gone"}
    BY LauncherAssumption
    DEF LauncherAssumption, NewComesLater, PeersHaveStarted
  <2>2. \A l \in Launchers : at[l] = "connected" => peer[l] \notin told
    BY DEF PeersHaveStarted, OnlyOldAreTold
  <2> QED
    BY <2>1, <2>2 DEF HandoverIsClean
<1> QED
  BY <1>1, HandoverInvariance, PTL

----------------------------------------------------------------------------
(* What a TUI displays: the invariant. *)

\* What is displayed can be at work, done or refused.
Phases == {"idle", "loading", "ready", "failed"}

Snapshots ==
  [route : Routes, history : Seq(Routes), query : Queries \cup {None},
   search : Phases, found : Queries \cup {None}, selected : Nat \ {0},
   request : Nat,
   status : {"idle", "resolving", "playing", "paused", "failed"},
   current : Tracks \cup {None}, queue : Seq(Tracks), visible : BOOLEAN,
   lyricsOf : Tracks \cup {None}, lyrics : Phases, lines : Tracks \cup {None}]

TaskTypes ==
  /\ searches \subseteq [request : Nat, query : Queries]
  /\ fetches \in [Tracks -> Nat]

AppTypes ==
  /\ server \in Snapshots /\ view \in Snapshots
  /\ starting \in Tracks \cup {None, Unknown}
  /\ blind \in BOOLEAN /\ shifted \in BOOLEAN
  /\ typing \in BOOLEAN /\ panel \in BOOLEAN
  /\ behind \in Nat /\ row \in Nat \ {0}
  /\ TaskTypes

\* Each search has a number of its own, the newest that of the snapshot, and
\* the newest is at work exactly as long as the snapshot says so.
SearchInv ==
  /\ \A a \in searches : a.request <= server.request
  /\ \A a, b \in searches : a.request = b.request => a = b
  /\ server.search = "loading" =>
       \E a \in searches : a.request = server.request
  /\ server.search # "loading" =>
       \A a \in searches : a.request < server.request
  /\ Rows(server) # <<>> => server.selected \in 1 .. Len(Rows(server))

\* Lyrics are displayed for the current track, and loaded by a task.
LyricsInv ==
  /\ server.visible => server.current # None /\ server.lyricsOf = server.current
  /\ server.lines # None => server.lines = server.lyricsOf
  /\ server.lyrics = "loading" =>
       server.lyricsOf # None /\ fetches[server.lyricsOf] > 0

\* Where the user is changes with his keys only.
BrowseInv ==
  /\ view.route = server.route /\ view.history = server.history
  /\ view.query = server.query /\ view.visible = server.visible
  /\ typing => server.route = "Search"
  /\ ~(panel /\ server.visible)

\* A copy without a loading search has the results of the daemon, and the
\* daemon of a copy at rest is at rest.
CopyInv ==
  /\ view.search # "loading" =>
       /\ view.search = server.search /\ view.found = server.found
       /\ view.selected = server.selected
  /\ ~UnderWay =>
       /\ starting = None
       /\ server.status \notin {"resolving", "playing"}
       /\ view.current = server.current /\ view.lyricsOf = server.lyricsOf
       /\ IsPrefix(view.queue, server.queue) \/ shifted

AppInv == AppTypes /\ SearchInv /\ LyricsInv /\ BrowseInv /\ CopyInv

----------------------------------------------------------------------------
(* Lemmas. *)

\* A prefix, element by element.
LEMMA PrefixMeans ==
  ASSUME NEW S, NEW s \in Seq(S), NEW t \in Seq(S)
  PROVE  IsPrefix(s, t) <=> /\ Len(s) <= Len(t)
                            /\ \A i \in 1 .. Len(s) : s[i] = t[i]
<1>1. /\ Len(s) \in Nat /\ Len(t) \in Nat
      /\ \A i \in 1 .. Len(s) : s[i] \in S
      /\ \A i \in 1 .. Len(t) : t[i] \in S
  BY LenProperties, ElementOfSeq
<1>2. CASE ~(Len(s) <= Len(t))
  BY <1>2 DEF IsPrefix
<1>3. CASE Len(s) <= Len(t)
  <2>1. /\ SubSeq(s, 1, Len(s)) \in Seq(S)
        /\ Len(SubSeq(s, 1, Len(s))) = Len(s)
        /\ \A i \in 1 .. Len(s) : SubSeq(s, 1, Len(s))[i] = s[i]
    BY <1>1, SubSeqProperties
  <2>2. /\ SubSeq(t, 1, Len(s)) \in Seq(S)
        /\ Len(SubSeq(t, 1, Len(s))) = Len(s)
        /\ \A i \in 1 .. Len(s) : SubSeq(t, 1, Len(s))[i] = t[i]
    BY <1>1, <1>3, SubSeqProperties
  <2>3. SubSeq(s, 1, Len(s)) = SubSeq(t, 1, Len(s)) <=>
          \A i \in 1 .. Len(s) : s[i] = t[i]
    BY <2>1, <2>2, SeqEqual
  <2> QED
    BY <1>3, <2>3 DEF IsPrefix
<1> QED
  BY <1>2, <1>3

\* A sequence is a prefix of itself.
LEMMA PrefixOfItself ==
  ASSUME NEW S, NEW s \in Seq(S) PROVE IsPrefix(s, s)
BY PrefixMeans, LenProperties

\* A prefix of a prefix is one.
LEMMA PrefixOfPrefix ==
  ASSUME NEW S, NEW s \in Seq(S), NEW t \in Seq(S), NEW u \in Seq(S),
         IsPrefix(s, t), IsPrefix(t, u)
  PROVE  IsPrefix(s, u)
<1>1. Len(s) \in Nat /\ Len(t) \in Nat /\ Len(u) \in Nat
  BY LenProperties
<1>2. /\ Len(s) <= Len(t) /\ \A i \in 1 .. Len(s) : s[i] = t[i]
      /\ Len(t) <= Len(u) /\ \A i \in 1 .. Len(t) : t[i] = u[i]
  BY PrefixMeans
<1>3. Len(s) <= Len(u) /\ \A i \in 1 .. Len(s) : s[i] = u[i]
  BY <1>1, <1>2
<1> QED
  BY <1>3, PrefixMeans

\* The results are tracks.
LEMMA RowsAreTracks ==
  ASSUME NEW s \in Snapshots PROVE Rows(s) \in Seq(Tracks)
BY AppAssumption DEF AppAssumption, Snapshots, Rows

\* replace_snapshot: a copy that has just been taken is honest.
LEMMA JustTaken ==
  ASSUME server' \in Snapshots, starting' \in Tracks \cup {None, Unknown},
         NEW r \in Nat \ {0}, Take(server', r)
  PROVE  /\ view' = server' /\ blind' \in BOOLEAN /\ shifted' \in BOOLEAN
         /\ behind' \in Nat /\ row' \in Nat \ {0}
         /\ CopyInv'
<1>1. /\ view' = server' /\ shifted' = FALSE /\ behind' = 0
      /\ blind' = (starting' # None /\ ~NeedsRefresh(server'))
  BY DEF Take
<1>2. server'.queue \in Seq(Tracks)
  BY DEF Snapshots
<1>3. row' \in Nat \ {0}
  BY <1>2, LenProperties DEF Take, Clamped
<1>4. IsPrefix(view'.queue, server'.queue)
  BY <1>1, <1>2, PrefixOfItself
<1>5. CopyInv'
  BY <1>1, <1>4 DEF CopyInv, UnderWay, NeedsRefresh
<1> QED
  BY <1>1, <1>3, <1>5

\* What a step leaves as it was: of the search, of the lyrics (which may be
\* hidden), and of where the user is.
SameSearch ==
  /\ server'.search = server.search /\ server'.found = server.found
  /\ server'.selected = server.selected /\ server'.request = server.request
  /\ searches' = searches

SameLyrics ==
  /\ server'.visible => server.visible
  /\ server'.current = server.current /\ server'.lyricsOf = server.lyricsOf
  /\ server'.lyrics = server.lyrics /\ server'.lines = server.lines
  /\ fetches' = fetches

SamePlace ==
  /\ server'.route = server.route /\ server'.history = server.history
  /\ server'.query = server.query /\ server'.visible = server.visible

\* Nothing about the search has changed.
LEMMA SearchKept == ASSUME SearchInv, SameSearch PROVE SearchInv'
BY DEF SearchInv, SameSearch, Rows

\* Nothing about the lyrics has changed, but that they may be hidden.
LEMMA LyricsKept == ASSUME LyricsInv, SameLyrics PROVE LyricsInv'
BY DEF LyricsInv, SameLyrics

\* A command: what it leaves to show of its step.
LEMMA Replied ==
  ASSUME AppInv, server' \in Snapshots,
         starting' \in Tracks \cup {None, Unknown},
         NEW r \in Nat \ {0}, Take(server', r),
         typing' \in BOOLEAN, panel' \in BOOLEAN,
         TaskTypes', SearchInv', LyricsInv',
         typing' => server'.route = "Search", ~(panel' /\ server'.visible)
  PROVE  AppInv'
<1>1. /\ view' = server' /\ blind' \in BOOLEAN /\ shifted' \in BOOLEAN
      /\ behind' \in Nat /\ row' \in Nat \ {0} /\ CopyInv'
  BY JustTaken
<1>2. AppTypes'
  BY <1>1 DEF AppTypes
<1>3. BrowseInv'
  BY <1>1 DEF BrowseInv
<1> QED
  BY <1>1, <1>2, <1>3 DEF AppInv

\* A key that the daemon does not hear of.
LEMMA KeptToItself ==
  ASSUME AppInv, UNCHANGED <<server, starting, copy, tasks>>,
         typing' \in BOOLEAN, panel' \in BOOLEAN, row' \in Nat \ {0},
         typing' => server.route = "Search", ~(panel' /\ server.visible)
  PROVE  AppInv'
<1>1. AppTypes'
  BY DEF AppInv, AppTypes, TaskTypes, copy, tasks
<1>2. SearchInv' /\ LyricsInv'
  BY SearchKept, LyricsKept
  DEF AppInv, SameSearch, SameLyrics, copy, tasks
<1>3. BrowseInv' /\ CopyInv'
  BY DEF AppInv, BrowseInv, CopyInv, UnderWay, NeedsRefresh, copy
<1> QED
  BY <1>1, <1>2, <1>3 DEF AppInv

\* A step of the daemon: what it leaves to show.
LEMMA Unheard ==
  ASSUME AppInv, Unseen, SamePlace,
         server' \in Snapshots, starting' \in Tracks \cup {None, Unknown},
         TaskTypes', SearchInv', LyricsInv', CopyInv'
  PROVE  AppInv'
<1>1. AppTypes'
  BY DEF AppInv, AppTypes, Unseen, tui
<1>2. BrowseInv'
  BY DEF AppInv, BrowseInv, SamePlace, Unseen, tui
<1> QED
  BY <1>1, <1>2 DEF AppInv

\* A command that changes no more than the place, the queue and the status.
LEMMA RepliedSame ==
  ASSUME AppInv, NEW s \in Snapshots, NEW r \in Nat \ {0}, Reply(s, r),
         SameSearch, SameLyrics,
         typing' \in BOOLEAN, panel' \in BOOLEAN,
         typing' => s.route = "Search", ~(panel' /\ s.visible)
  PROVE  AppInv'
<1>1. server' = s /\ starting' = starting /\ Take(server', r)
  BY DEF Reply
<1>2. TaskTypes'
  BY DEF AppInv, AppTypes, TaskTypes, SameSearch, SameLyrics
<1>3. SearchInv' /\ LyricsInv'
  BY SearchKept, LyricsKept DEF AppInv
<1>4. starting' \in Tracks \cup {None, Unknown}
  BY <1>1 DEF AppInv, AppTypes
<1> QED
  BY <1>1, <1>2, <1>3, <1>4, Replied

\* set_playback_error
LEMMA RefusedKeeps ==
  ASSUME AppInv
  PROVE  /\ Refused(server) \in Snapshots
         /\ \A f \in {"search", "found", "selected", "request", "visible",
                      "current", "lyricsOf", "lyrics", "lines", "route",
                      "history", "query", "queue"} :
              Refused(server)[f] = server[f]
         /\ Refused(server).status \in {server.status, "failed"}
BY DEF AppInv, AppTypes, Snapshots, Refused

----------------------------------------------------------------------------
(* Every key and every step of the daemon keeps the invariant. *)

\* Another route: the lyrics and the queue are hidden.
LEMMA NavigateKeeps ==
  ASSUME AppInv, NEW r \in Routes, Navigate(r) PROVE AppInv'
<1> USE DEF AppInv, AppTypes
<1>0. PICK h \in Seq(Routes) :
        h = IF server.route = r THEN server.history
            ELSE Append(server.history, server.route)
  BY AppendProperties DEF Snapshots
<1>1. PICK s : s = [server EXCEPT !.history = h, !.route = r,
                                  !.visible = FALSE]
  OBVIOUS
<1>2. Reply(s, row) /\ typing' = (r = "Search") /\ panel' = FALSE
      /\ UNCHANGED tasks
  BY <1>0, <1>1 DEF Navigate
<1>3. s \in Snapshots /\ s.route = r /\ s.visible = FALSE
  BY <1>1 DEF Snapshots
<1>4. server' = s
  BY <1>2 DEF Reply
<1>5. SameSearch /\ SameLyrics
  BY <1>1, <1>2, <1>4 DEF SameSearch, SameLyrics, Snapshots, tasks
<1> QED
  BY <1>2, <1>3, <1>4, <1>5, RepliedSame

\* A toggle of the lyrics, for the keys that do it.
LEMMA ToggleKeeps ==
  ASSUME AppInv, Toggle, UNCHANGED searches,
         typing' \in BOOLEAN, panel' \in BOOLEAN,
         typing' => server.route = "Search",
         panel' => server.visible /\ server.current # None
  PROVE  AppInv'
<1> USE DEF AppInv, AppTypes
<1>1. CASE server.current = None
  <2>1. Reply(server, row) /\ UNCHANGED fetches
    BY <1>1 DEF Toggle
  <2>2. server' = server
    BY <2>1 DEF Reply
  <2>3. SameSearch /\ SameLyrics
    BY <2>1, <2>2 DEF SameSearch, SameLyrics
  <2>4. ~panel'
    BY <1>1
  <2> QED
    BY <2>1, <2>2, <2>3, <2>4, RepliedSame
<1>2. CASE server.current # None
  <2>1. PICK t \in Tracks : t = server.current
    BY <1>2 DEF Snapshots
  <2>0. PICK toggled : toggled = [server EXCEPT !.visible = ~@]
    OBVIOUS
  <2>2. /\ toggled \in Snapshots
        /\ toggled.visible = ~server.visible
        /\ \A f \in {"search", "found", "selected", "request", "current",
                     "lyricsOf", "lyrics", "lines", "route"} :
             toggled[f] = server[f]
    BY <2>0 DEF Snapshots
  <2>3. CASE toggled.visible /\ server.lyricsOf # t
    <3>1. PICK s : s = WithLyrics(toggled, t)
      OBVIOUS
    <3>2. Reply(s, row) /\ Fetch(t)
      BY <1>2, <2>0, <2>1, <2>3, <3>1 DEF Toggle
    <3>3. /\ s \in Snapshots /\ s.lyricsOf = t
          /\ s.lyrics = "loading" /\ s.lines = None
          /\ \A f \in {"search", "found", "selected", "request", "visible",
                       "current", "route"} : s[f] = toggled[f]
      BY <2>1, <2>2, <3>1 DEF WithLyrics, Snapshots, Phases
    <3>4. server' = s /\ starting' = starting /\ Take(server', row)
      BY <3>2 DEF Reply
    <3>5. /\ fetches' = [fetches EXCEPT ![t] = @ + 1]
          /\ fetches' \in [Tracks -> Nat] /\ fetches'[t] > 0
      BY <2>1, <3>2 DEF Fetch, TaskTypes
    <3>6. SearchInv'
      BY <2>2, <3>3, <3>4, SearchKept DEF SameSearch
    <3>7. LyricsInv'
      BY <1>2, <2>1, <2>2, <3>3, <3>4, <3>5 DEF LyricsInv
    <3>8. TaskTypes'
      BY <3>5 DEF TaskTypes
    <3>9. s.route = server.route /\ s.visible = ~server.visible
      BY <2>2, <3>3
    <3> QED
      BY <3>3, <3>4, <3>6, <3>7, <3>8, <3>9, Replied
  <2>4. CASE ~(toggled.visible /\ server.lyricsOf # t)
    <3>1. Reply(toggled, row) /\ UNCHANGED fetches
      BY <1>2, <2>0, <2>1, <2>4 DEF Toggle
    <3>2. server' = toggled /\ starting' = starting /\ Take(server', row)
      BY <3>1 DEF Reply
    <3>3. SearchInv'
      BY <2>2, <3>2, SearchKept DEF SameSearch
    <3>4. LyricsInv'
      BY <1>2, <2>1, <2>2, <2>4, <3>1, <3>2 DEF LyricsInv
    <3>5. TaskTypes'
      BY <3>1 DEF TaskTypes
    <3> QED
      BY <2>2, <3>2, <3>3, <3>4, <3>5, Replied
  <2> QED
    BY <2>3, <2>4
<1> QED
  BY <1>1, <1>2

\* The lyrics take the place of the queue.
LEMMA ToggleLyricsKeeps == ASSUME AppInv, ToggleLyrics PROVE AppInv'
<1>1. /\ Toggle /\ UNCHANGED searches /\ panel' = FALSE
      /\ typing' = typing
  BY DEF ToggleLyrics
<1>2. typing' \in BOOLEAN /\ (typing' => server.route = "Search")
  BY <1>1 DEF AppInv, AppTypes, BrowseInv
<1> QED
  BY <1>1, <1>2, ToggleKeeps

\* The queue takes the place of the lyrics.
LEMMA ToggleQueueKeeps == ASSUME AppInv, ToggleQueue PROVE AppInv'
<1> USE DEF AppInv, AppTypes
<1>1. panel' = ~panel /\ typing' = typing /\ searches' = searches
  BY DEF ToggleQueue
<1>2. typing => server.route = "Search"
  BY DEF BrowseInv
<1>3. CASE ~panel /\ view.visible
  <2>1. Toggle /\ server.visible /\ server.current # None
    BY <1>3 DEF ToggleQueue, BrowseInv, LyricsInv
  <2> QED
    BY <1>1, <1>2, <2>1, ToggleKeeps
<1>4. CASE ~(~panel /\ view.visible)
  <2>1. UNCHANGED <<server, starting, copy, row, tasks>>
    BY <1>1, <1>4 DEF ToggleQueue, tasks
  <2>2. ~(panel' /\ server.visible)
    BY <1>1, <1>4 DEF BrowseInv
  <2> QED
    BY <1>1, <1>2, <2>1, <2>2, KeptToItself
<1> QED
  BY <1>3, <1>4

\* A command that changes no more than the query, the queue and the status.
LEMMA CommandKeeps ==
  ASSUME AppInv, NEW s \in Snapshots, NEW r \in Nat \ {0}, Reply(s, r),
         UNCHANGED <<typing, panel, tasks>>,
         s.search = server.search, s.found = server.found,
         s.selected = server.selected, s.request = server.request,
         s.visible = server.visible, s.current = server.current,
         s.lyricsOf = server.lyricsOf, s.lyrics = server.lyrics,
         s.lines = server.lines, s.route = server.route
  PROVE  AppInv'
<1>1. server' = s
  BY DEF Reply
<1>2. SameSearch /\ SameLyrics
  BY <1>1 DEF SameSearch, SameLyrics, tasks
<1>3. /\ typing' \in BOOLEAN /\ panel' \in BOOLEAN
      /\ typing' => s.route = "Search"
      /\ ~(panel' /\ s.visible)
  BY DEF AppInv, AppTypes, BrowseInv
<1> QED
  BY <1>2, <1>3, RepliedSame

\* A command that is refused.
LEMMA RefusalKeeps ==
  ASSUME AppInv, NEW r \in Nat \ {0}, Reply(Refused(server), r),
         UNCHANGED <<typing, panel, tasks>>
  PROVE  AppInv'
BY RefusedKeeps, CommandKeeps

\* A new queue that the service refuses.
LEMMA FailureKeeps ==
  ASSUME AppInv, NEW r \in Nat \ {0}, Reply(Failed(server), r),
         UNCHANGED <<typing, panel, tasks>>
  PROVE  AppInv'
<1>1. PICK s : s = Failed(server)
  OBVIOUS
<1>2. /\ s \in Snapshots
      /\ s.search = server.search /\ s.found = server.found
      /\ s.selected = server.selected /\ s.request = server.request
      /\ s.visible = server.visible /\ s.current = server.current
      /\ s.lyricsOf = server.lyricsOf /\ s.lyrics = server.lyrics
      /\ s.lines = server.lines /\ s.route = server.route
  BY <1>1 DEF AppInv, AppTypes, Snapshots, Failed
<1> QED
  BY <1>1, <1>2, CommandKeeps

\* prepare_track
LEMMA StartsKeep ==
  ASSUME AppInv, NEW S \in SUBSET Tracks, NEW r \in Nat \ {0}, Starts(S, r),
         UNCHANGED <<typing, panel, tasks>>
  PROVE  AppInv'
<1> USE DEF AppInv, AppTypes
<1>0. PICK t \in S : Prepare(t) /\ Take(server', r)
  BY DEF Starts
<1>1. /\ starting' = t /\ t \in Tracks
      /\ server' = [server EXCEPT !.status = IF server.current = None
                                             THEN "resolving" ELSE @]
  BY <1>0 DEF Prepare
<1>2. /\ server' \in Snapshots
      /\ SameSearch /\ SameLyrics
      /\ server'.route = server.route /\ server'.visible = server.visible
  BY <1>1 DEF Snapshots, SameSearch, SameLyrics, tasks
<1>3. SearchInv' /\ LyricsInv' /\ TaskTypes'
  BY <1>2, SearchKept, LyricsKept DEF TaskTypes, tasks
<1>4. /\ typing' \in BOOLEAN /\ panel' \in BOOLEAN
      /\ typing' => server'.route = "Search"
      /\ ~(panel' /\ server'.visible)
  BY <1>2 DEF BrowseInv
<1> QED
  BY <1>0, <1>1, <1>2, <1>3, <1>4, Replied

\* Escape leaves the input line, the queue, the lyrics or the route.
LEMMA EscapeKeeps == ASSUME AppInv, Escape PROVE AppInv'
<1> USE DEF AppInv, AppTypes
<1>1. CASE typing /\ typing' = FALSE
           /\ UNCHANGED <<server, starting, copy, panel, row, tasks>>
  BY <1>1, KeptToItself DEF BrowseInv
<1>2. CASE ~typing /\ panel /\ panel' = FALSE
           /\ UNCHANGED <<server, starting, copy, typing, row, tasks>>
  BY <1>2, KeptToItself
<1>3. CASE ~typing /\ ~panel /\ view.visible /\ Toggle
           /\ UNCHANGED <<typing, panel, searches>>
  BY <1>3, ToggleKeeps
<1>4. ASSUME ~typing, UNCHANGED <<typing, panel, tasks>>,
             NEW s \in Snapshots, Reply(s, row), ~s.visible,
             s.search = server.search, s.found = server.found,
             s.selected = server.selected, s.request = server.request,
             s.current = server.current,
             s.lyricsOf = server.lyricsOf, s.lyrics = server.lyrics,
             s.lines = server.lines
      PROVE  AppInv'
  <2>1. server' = s
    BY <1>4 DEF Reply
  <2>2. SameSearch /\ SameLyrics
    BY <1>4, <2>1 DEF SameSearch, SameLyrics, tasks
  <2> QED
    BY <1>4, <2>2, RepliedSame
<1>5. CASE /\ ~typing /\ ~panel /\ ~view.visible
           /\ LET s == [server EXCEPT !.visible = FALSE] IN
              Reply(IF s.history = <<>> THEN s
                    ELSE [s EXCEPT !.route = Last(s.history),
                                   !.history = Front(@)], row)
           /\ UNCHANGED <<typing, panel, tasks>>
  <2>1. PICK h : h = [server EXCEPT !.visible = FALSE]
    OBVIOUS
  <2>2. /\ h \in Snapshots /\ h.visible = FALSE
        /\ h.history = server.history
        /\ h.search = server.search /\ h.found = server.found
        /\ h.selected = server.selected /\ h.request = server.request
        /\ h.current = server.current
        /\ h.lyricsOf = server.lyricsOf /\ h.lyrics = server.lyrics
        /\ h.lines = server.lines
    BY <2>1 DEF Snapshots
  <2>3. CASE h.history = <<>>
    BY <1>4, <1>5, <2>1, <2>2, <2>3
  <2>4. CASE h.history # <<>>
    <3>1. h.history \in Seq(Routes) /\ Len(h.history) \in Nat \ {0}
      BY <2>2, <2>4, LenProperties, EmptySeq DEF Snapshots
    <3>2. Front(h.history) \in Seq(Routes)
      BY <3>1, SubSeqProperties, ElementOfSeq DEF Front
    <3>3. Last(h.history) \in Routes
      BY <3>1, ElementOfSeq DEF Last
    <3>4. PICK p \in Seq(Routes), q \in Routes :
            p = Front(h.history) /\ q = Last(h.history)
      BY <3>2, <3>3
    <3>5. PICK s : s = [h EXCEPT !.route = q, !.history = p]
      OBVIOUS
    <3>6. Reply(s, row)
      BY <1>5, <2>1, <2>4, <3>4, <3>5
    <3>7. /\ s \in Snapshots /\ s.visible = FALSE
          /\ s.search = h.search /\ s.found = h.found
          /\ s.selected = h.selected /\ s.request = h.request
          /\ s.current = h.current /\ s.lyricsOf = h.lyricsOf
          /\ s.lyrics = h.lyrics /\ s.lines = h.lines
      BY <2>2, <3>4, <3>5 DEF Snapshots
    <3> QED
      BY <1>4, <1>5, <2>2, <3>6, <3>7
  <2> QED
    BY <2>3, <2>4
<1> QED
  BY <1>1, <1>2, <1>3, <1>5 DEF Escape

\* Another query, and nothing is searched for.
LEMMA TypeKeeps ==
  ASSUME AppInv, NEW q \in Queries \cup {None}, Type(q) PROVE AppInv'
<1>1. PICK s : s = [server EXCEPT !.query = q]
  OBVIOUS
<1>2. /\ s \in Snapshots /\ row \in Nat \ {0} /\ Reply(s, row)
      /\ UNCHANGED <<typing, panel, tasks>>
  BY <1>1 DEF Type, AppInv, AppTypes, Snapshots
<1>3. /\ s.search = server.search /\ s.found = server.found
      /\ s.selected = server.selected /\ s.request = server.request
      /\ s.visible = server.visible /\ s.current = server.current
      /\ s.lyricsOf = server.lyricsOf /\ s.lyrics = server.lyrics
      /\ s.lines = server.lines /\ s.route = server.route
  BY <1>1 DEF AppInv, AppTypes, Snapshots
<1> QED
  BY <1>2, <1>3, CommandKeeps

\* A search gets the next number, and a task.
LEMMA SubmitKeeps == ASSUME AppInv, Submit PROVE AppInv'
<1> USE DEF AppInv, AppTypes
<1>1. typing' = FALSE /\ panel' = panel /\ fetches' = fetches
  BY DEF Submit
<1>2. CASE view.query = None
  <2>1. UNCHANGED <<server, starting, copy, row, tasks>>
    BY <1>1, <1>2 DEF Submit, tasks
  <2> QED
    BY <1>1, <2>1, KeptToItself DEF BrowseInv
<1>3. CASE view.query # None
  <2>1. PICK r \in Nat : r = server.request + 1
    BY DEF Snapshots
  <2>2. PICK s : s = [server EXCEPT !.search = "loading", !.request = r]
    OBVIOUS
  <2>3. /\ Reply(s, row)
        /\ searches' =
             searches \cup {[request |-> r, query |-> server.query]}
    BY <1>3, <2>1, <2>2 DEF Submit
  <2>4. server' = s /\ starting' = starting /\ Take(server', row)
    BY <2>3 DEF Reply
  <2>5. /\ s \in Snapshots /\ s.search = "loading" /\ s.request = r
        /\ s.found = server.found /\ s.selected = server.selected
        /\ s.visible = server.visible /\ s.current = server.current
        /\ s.lyricsOf = server.lyricsOf /\ s.lyrics = server.lyrics
        /\ s.lines = server.lines
    BY <2>1, <2>2 DEF Snapshots, Phases
  <2>6. server.query \in Queries
    BY <1>3 DEF BrowseInv, Snapshots
  <2>7. PICK new \in [request : Nat, query : Queries] :
          new.request = r /\ searches' = searches \cup {new}
    BY <2>3, <2>6
  <2>8. TaskTypes'
    BY <1>1, <2>7 DEF TaskTypes
  <2>9. \A a \in searches : a.request \in Nat /\ a.request < r
    BY <2>1 DEF SearchInv, TaskTypes, Snapshots
  <2>10. SearchInv'
    <3>1. Rows(server') = Rows(server)
      BY <2>4, <2>5 DEF Rows
    <3>2. \A a, b \in searches' : a.request = b.request => a = b
      BY <2>1, <2>7, <2>9 DEF SearchInv
    <3>3. \A a \in searches' : a.request <= r
      BY <2>1, <2>7, <2>9
    <3>4. \E a \in searches' : a.request = r
      BY <2>7
    <3> QED
      BY <2>4, <2>5, <3>1, <3>2, <3>3, <3>4 DEF SearchInv
  <2>11. LyricsInv'
    BY <1>1, <2>4, <2>5, LyricsKept DEF SameLyrics
  <2> QED
    BY <1>1, <2>4, <2>5, <2>8, <2>10, <2>11, Replied DEF BrowseInv
<1> QED
  BY <1>2, <1>3

\* The selection stays within the results, around the end.
LEMMA SelectKeeps == ASSUME AppInv, Select PROVE AppInv'
<1> USE DEF AppInv, AppTypes
<1>1. UNCHANGED <<typing, panel, tasks>>
  BY DEF Select
<1>2. Rows(server) \in Seq(Tracks)
  BY RowsAreTracks
<1>3. PICK n \in Nat : n = Len(Rows(server))
  BY <1>2, LenProperties
<1>4. CASE n = 0
  <2>1. Reply(server, row)
    BY <1>3, <1>4 DEF Select
  <2> QED
    BY <1>1, <2>1, CommandKeeps
<1>5. CASE n # 0
  <2>1. PICK i \in {1 + (server.selected % n),
                    IF server.selected = 1 THEN n ELSE server.selected - 1} :
          Reply([server EXCEPT !.selected = i], row)
    BY <1>3, <1>5 DEF Select
  <2>2. Rows(server) # <<>>
    BY <1>3, <1>5
  <2>3. server.selected \in 1 .. n
    BY <1>3, <2>2 DEF SearchInv
  <2>4. server.selected % n \in 0 .. n - 1
    BY <1>5, <2>3
  <2>5. i \in 1 .. n
    BY <1>5, <2>1, <2>3, <2>4
  <2>6. PICK j \in Nat \ {0} : j = i
    BY <2>5
  <2>7. PICK s : s = [server EXCEPT !.selected = j]
    OBVIOUS
  <2>8. /\ s \in Snapshots /\ s.selected = j
        /\ s.search = server.search /\ s.request = server.request
        /\ s.found = server.found /\ s.route = server.route
        /\ s.visible = server.visible /\ s.current = server.current
        /\ s.lyricsOf = server.lyricsOf /\ s.lyrics = server.lyrics
        /\ s.lines = server.lines
    BY <2>7 DEF Snapshots
  <2>9. server' = s /\ starting' = starting /\ Take(server', row)
    BY <2>1, <2>7, <2>6 DEF Reply
  <2>10. Rows(server') = Rows(server)
    BY <2>8, <2>9 DEF Rows
  <2>11. SearchInv'
    BY <1>1, <1>3, <2>5, <2>8, <2>9, <2>10, <2>6 DEF SearchInv, tasks
  <2>12. LyricsInv' /\ TaskTypes'
    BY <1>1, <2>8, <2>9, LyricsKept DEF SameLyrics, TaskTypes, tasks
  <2>13. /\ typing' => server'.route = "Search"
         /\ ~(panel' /\ server'.visible)
    BY <1>1, <2>8, <2>9 DEF BrowseInv
  <2> QED
    BY <1>1, <2>8, <2>9, <2>11, <2>12, <2>13, Replied
<1> QED
  BY <1>4, <1>5

\* The row of the queue moves in the TUI only.
LEMMA MoveRowKeeps == ASSUME AppInv, MoveRow PROVE AppInv'
<1> USE DEF AppInv, AppTypes
<1>1. UNCHANGED <<server, starting, copy, typing, panel, tasks>>
  BY DEF MoveRow
<1>2. row' \in Nat \ {0}
  BY LenProperties DEF MoveRow, Snapshots
<1> QED
  BY <1>1, <1>2, KeptToItself DEF BrowseInv

\* The result that is selected is one of the results.
LEMMA PlaySelectedKeeps == ASSUME AppInv, PlaySelected PROVE AppInv'
<1> USE DEF AppInv, AppTypes
<1>1. UNCHANGED <<typing, panel, tasks>>
  BY DEF PlaySelected
<1>2. CASE Rows(server) = <<>>
  BY <1>1, <1>2, CommandKeeps DEF PlaySelected
<1>3. CASE Rows(server) # <<>>
  <2>1. Rows(server) \in Seq(Tracks)
    BY RowsAreTracks
  <2>2. Rows(server)[server.selected] \in Tracks
    BY <1>3, <2>1, ElementOfSeq DEF SearchInv
  <2>3. Plays[Rows(server)[server.selected]] \in SUBSET Tracks
    BY <2>2, AppAssumption DEF AppAssumption
  <2>4. \/ Starts(Plays[Rows(server)[server.selected]], row)
        \/ Reply(Failed(server), row)
    BY <1>3 DEF PlaySelected
  <2> QED
    BY <1>1, <2>3, <2>4, StartsKeep, FailureKeeps
<1> QED
  BY <1>2, <1>3

\* A track of a list is sent.
LEMMA PlayTrackKeeps ==
  ASSUME AppInv, NEW t \in Tracks, PlayTrack(t) PROVE AppInv'
<1>1. /\ {t} \in SUBSET Tracks /\ row \in Nat \ {0}
      /\ UNCHANGED <<typing, panel, tasks>>
      /\ Starts({t}, row) \/ Reply(Failed(server), row)
  BY DEF PlayTrack, AppInv, AppTypes
<1> QED
  BY <1>1, StartsKeep, FailureKeeps

\* A start that is given up.
LEMMA SkipKeeps == ASSUME AppInv, Skip PROVE AppInv'
<1>1. row \in Nat \ {0} /\ UNCHANGED <<typing, panel, tasks>>
  BY DEF Skip, AppInv, AppTypes
<1>2. CASE Starts(Tracks, row)
  BY <1>1, <1>2, StartsKeep
<1>3. CASE Reply(Refused(server), row)
  BY <1>1, <1>3, RefusalKeeps
<1>4. CASE starting' = None /\ server' = Refused(server) /\ Take(server', row)
  <2>1. /\ server' \in Snapshots /\ SameSearch /\ SameLyrics
        /\ server'.route = server.route /\ server'.visible = server.visible
    BY <1>1, <1>4, RefusedKeeps DEF SameSearch, SameLyrics, tasks
  <2>2. SearchInv' /\ LyricsInv' /\ TaskTypes'
    BY <1>1, <2>1, SearchKept, LyricsKept
    DEF AppInv, AppTypes, TaskTypes, tasks
  <2>3. /\ typing' \in BOOLEAN /\ panel' \in BOOLEAN
        /\ typing' => server'.route = "Search"
        /\ ~(panel' /\ server'.visible)
    BY <1>1, <2>1 DEF AppInv, AppTypes, BrowseInv
  <2> QED
    BY <1>1, <1>4, <2>1, <2>2, <2>3, Replied
<1> QED
  BY <1>2, <1>3, <1>4 DEF Skip

\* A row of the queue is sent; the daemon's queue may have changed.
LEMMA PlayQueueRowKeeps ==
  ASSUME AppInv, NEW i \in 1 .. Len(view.queue), PlayQueueRow(i)
  PROVE  AppInv'
<1> USE DEF AppInv, AppTypes
<1>1. UNCHANGED <<typing, panel, tasks>>
  BY DEF PlayQueueRow
<1>2. /\ server.queue \in Seq(Tracks)
      /\ Len(view.queue) \in Nat /\ Len(server.queue) \in Nat
  BY LenProperties DEF Snapshots
<1>3. i \in Nat \ {0}
  BY <1>2
<1>4. CASE Reply(Refused(server), i)
  BY <1>1, <1>3, <1>4, RefusalKeeps
<1>5. CASE i <= Len(server.queue) /\ Starts(Plays[server.queue[i]], i)
  <2>1. server.queue[i] \in Tracks
    BY <1>2, <1>3, <1>5, ElementOfSeq
  <2>2. Plays[server.queue[i]] \in SUBSET Tracks
    BY <2>1, AppAssumption DEF AppAssumption
  <2> QED
    BY <1>1, <1>3, <1>5, <2>2, StartsKeep
<1> QED
  BY <1>4, <1>5 DEF PlayQueueRow

\* Another queue in its place, by a command.
LEMMA NewQueueKeeps ==
  ASSUME AppInv, NEW q \in Seq(Tracks),
         Reply([server EXCEPT !.queue = q], row),
         UNCHANGED <<typing, panel, tasks>>
  PROVE  AppInv'
<1>1. PICK s : s = [server EXCEPT !.queue = q]
  OBVIOUS
<1>2. s \in Snapshots /\ row \in Nat \ {0} /\ Reply(s, row)
  BY <1>1 DEF AppInv, AppTypes, Snapshots
<1>3. /\ s.search = server.search /\ s.found = server.found
      /\ s.selected = server.selected /\ s.request = server.request
      /\ s.visible = server.visible /\ s.current = server.current
      /\ s.lyricsOf = server.lyricsOf /\ s.lyrics = server.lyrics
      /\ s.lines = server.lines /\ s.route = server.route
  BY <1>1 DEF AppInv, AppTypes, Snapshots
<1> QED
  BY <1>2, <1>3, CommandKeeps

\* A row is taken out of the queue.
LEMMA RemoveQueueRowKeeps == ASSUME AppInv, RemoveQueueRow PROVE AppInv'
<1> USE DEF AppInv, AppTypes
<1>1. UNCHANGED <<typing, panel, tasks>>
  BY DEF RemoveQueueRow
<1>2. CASE Reply(Refused(server), row)
  BY <1>1, <1>2, RefusalKeeps
<1>3. CASE row <= Len(server.queue)
           /\ Reply([server EXCEPT !.queue = RemoveAt(@, row)], row)
  <2>1. server.queue \in Seq(Tracks) /\ Len(server.queue) \in Nat
    BY LenProperties DEF Snapshots
  <2>2. /\ SubSeq(server.queue, 1, row - 1) \in Seq(Tracks)
        /\ SubSeq(server.queue, row + 1, Len(server.queue)) \in Seq(Tracks)
    BY <1>3, <2>1, SubSeqProperties, ElementOfSeq
  <2>3. PICK q \in Seq(Tracks) : q = RemoveAt(server.queue, row)
    BY <2>2, ConcatProperties DEF RemoveAt
  <2> QED
    BY <1>1, <1>3, <2>3, NewQueueKeeps
<1> QED
  BY <1>2, <1>3 DEF RemoveQueueRow

\* The service answers with another queue.
LEMMA EditQueueKeeps == ASSUME AppInv, EditQueue PROVE AppInv'
<1>1. UNCHANGED <<typing, panel, tasks>>
  BY DEF EditQueue
<1>2. CASE Reply(Refused(server), row)
  BY <1>1, <1>2, RefusalKeeps DEF AppInv, AppTypes
<1>3. ASSUME NEW q \in Queues, Reply([server EXCEPT !.queue = q], row)
      PROVE  AppInv'
  BY <1>1, <1>3, AppAssumption, NewQueueKeeps DEF AppAssumption
<1> QED
  BY <1>2, <1>3 DEF EditQueue

\* Playing and paused are exchanged.
LEMMA TogglePlaybackKeeps == ASSUME AppInv, TogglePlayback PROVE AppInv'
<1>1. PICK new \in {"idle", "resolving", "playing", "paused", "failed"} :
        new = CASE server.status = "playing" -> "paused"
                [] server.status = "paused"  -> "playing"
                [] OTHER -> server.status
  BY DEF AppInv, AppTypes, Snapshots
<1>2. PICK s : s = [server EXCEPT !.status = new]
  OBVIOUS
<1>3. Reply(s, row) /\ UNCHANGED <<typing, panel, tasks>>
  BY <1>1, <1>2 DEF TogglePlayback
<1>4. s \in Snapshots /\ row \in Nat \ {0}
  BY <1>2 DEF AppInv, AppTypes, Snapshots
<1>5. /\ s.search = server.search /\ s.found = server.found
      /\ s.selected = server.selected /\ s.request = server.request
      /\ s.visible = server.visible /\ s.current = server.current
      /\ s.lyricsOf = server.lyricsOf /\ s.lyrics = server.lyrics
      /\ s.lines = server.lines /\ s.route = server.route
  BY <1>2 DEF AppInv, AppTypes, Snapshots
<1> QED
  BY <1>3, <1>4, <1>5, CommandKeeps

\* A command that changes nothing that is browsed.
LEMMA OtherCommandKeeps == ASSUME AppInv, OtherCommand PROVE AppInv'
BY CommandKeeps DEF OtherCommand, AppInv, AppTypes

\* The copy is taken, and nothing else is done.
LEMMA LookKeeps ==
  ASSUME AppInv, NEW r \in Nat \ {0}, Take(server, r),
         UNCHANGED <<server, starting, tasks>>,
         typing' \in BOOLEAN, panel' \in BOOLEAN,
         typing' => typing, panel' => panel
  PROVE  AppInv'
<1> USE DEF AppInv, AppTypes
<1>1. Take(server', r) /\ server' = server /\ starting' = starting
  BY DEF Take
<1>2. SearchInv' /\ LyricsInv' /\ TaskTypes'
  BY SearchKept, LyricsKept DEF SameSearch, SameLyrics, TaskTypes, tasks
<1>3. /\ typing' => server'.route = "Search"
      /\ ~(panel' /\ server'.visible)
  BY DEF BrowseInv
<1> QED
  BY <1>1, <1>2, <1>3, Replied

\* A TUI that is started again.
LEMMA ReopenKeeps == ASSUME AppInv, Reopen PROVE AppInv'
<1>1. /\ Take(server, 1) /\ UNCHANGED <<server, starting, tasks>>
      /\ typing' = FALSE /\ panel' = FALSE /\ 1 \in Nat \ {0}
  BY DEF Reopen
<1> QED
  BY <1>1, LookKeeps

\* The copy is taken while something is under way.
LEMMA PollKeeps == ASSUME AppInv, Poll PROVE AppInv'
BY LookKeeps DEF Poll, AppInv, AppTypes

\* The results of a query in the snapshot.
LEMMA ResultsAreShown ==
  ASSUME NEW s \in Snapshots, NEW q \in Queries
  PROVE  [s EXCEPT !.search = "ready", !.found = q, !.selected = 1]
           \in Snapshots
<1>1. q \in Queries \cup {None} /\ "ready" \in Phases /\ 1 \in Nat \ {0}
  BY DEF Phases
<1> QED
  BY <1>1 DEF Snapshots

\* The answer to the newest search is displayed, any other is dropped.
LEMMA SearchAnswersKeeps ==
  ASSUME AppInv, NEW task \in searches, SearchAnswers(task) PROVE AppInv'
<1> USE DEF AppInv, AppTypes
<1>1. /\ searches' = searches \ {task} /\ Unseen
      /\ starting' = starting /\ fetches' = fetches
  BY DEF SearchAnswers
<1>2. TaskTypes'
  BY <1>1 DEF TaskTypes
<1>3. \A a \in searches : a.request \in Nat /\ a.request <= server.request
  BY DEF SearchInv, TaskTypes
<1>4. CASE server.request # task.request
  <2>1. server' = server
    BY <1>4 DEF SearchAnswers
  <2>2. SearchInv'
    <3>1. \A a, b \in searches' : a.request = b.request => a = b
      BY <1>1 DEF SearchInv
    <3>2. server.search = "loading" =>
            \E a \in searches' : a.request = server.request
      BY <1>1, <1>4 DEF SearchInv
    <3> QED
      BY <1>1, <2>1, <3>1, <3>2 DEF SearchInv, Rows
  <2>3. LyricsInv'
    BY <1>1, <2>1, LyricsKept DEF SameLyrics
  <2>4. CopyInv' /\ SamePlace
    BY <1>1, <2>1
    DEF CopyInv, UnderWay, NeedsRefresh, SamePlace, Unseen, tui
  <2> QED
    BY <1>1, <1>2, <2>1, <2>2, <2>3, <2>4, Unheard
<1>5. CASE server.request = task.request
  <2>1. \A a \in searches' : a.request < server.request
    BY <1>1, <1>3, <1>5 DEF SearchInv, Snapshots
  <2>2. \A a, b \in searches' : a.request = b.request => a = b
    BY <1>1 DEF SearchInv
  <2>3. server.search = "loading"
    BY <1>3, <1>5 DEF SearchInv
  <2>4. PICK q \in Queries : q = task.query
    BY DEF TaskTypes
  <2>5. /\ server' \in Snapshots /\ SamePlace /\ SameLyrics
        /\ server'.request = server.request
        /\ server'.search \in {"ready", "failed"}
        /\ \/ server'.selected = 1
           \/ /\ server'.found = server.found
              /\ server'.selected = server.selected
    <3>1. CASE server' = [server EXCEPT !.search = "ready",
                                        !.found = q, !.selected = 1]
      <4>1. server' \in Snapshots
        BY <3>1, ResultsAreShown
      <4>2. /\ server'.request = server.request
            /\ server'.search = "ready" /\ server'.selected = 1
        BY <3>1 DEF Snapshots
      <4>3. SamePlace /\ SameLyrics
        BY <1>1, <3>1 DEF Snapshots, SamePlace, SameLyrics
      <4> QED
        BY <4>1, <4>2, <4>3
    <3>2. CASE server' = [server EXCEPT !.search = "failed"]
      BY <1>1, <3>2 DEF Snapshots, Phases, SamePlace, SameLyrics
    <3> QED
      BY <1>5, <2>4, <3>1, <3>2 DEF SearchAnswers
  <2>6. Rows(server') # <<>> => server'.selected \in 1 .. Len(Rows(server'))
    <3>1. Rows(server') \in Seq(Tracks)
      BY <2>5, RowsAreTracks
    <3>2. CASE server'.selected = 1
      BY <3>1, <3>2, LenProperties, EmptySeq
    <3>3. CASE /\ server'.found = server.found
               /\ server'.selected = server.selected
      BY <3>3 DEF Rows, SearchInv
    <3> QED
      BY <2>5, <3>2, <3>3
  <2>7. SearchInv'
    <3>1. \A a \in searches' : a.request <= server.request
      BY <1>1, <1>3
    <3> QED
      BY <2>1, <2>2, <2>5, <2>6, <3>1 DEF SearchInv
  <2>8. LyricsInv'
    BY <2>5, LyricsKept
  <2>9. view.search = "loading" /\ view' = view
    BY <1>1, <2>3 DEF CopyInv, Unseen, tui
  <2>10. CopyInv'
    BY <2>9 DEF CopyInv, UnderWay, NeedsRefresh
  <2> QED
    BY <1>1, <1>2, <2>5, <2>7, <2>8, <2>10, Unheard
<1> QED
  BY <1>4, <1>5

\* Lyrics are displayed for the track they were asked for.
LEMMA LyricsAnswerKeeps ==
  ASSUME AppInv, NEW t \in Tracks, LyricsAnswer(t) PROVE AppInv'
<1> USE DEF AppInv, AppTypes
<1>1. /\ fetches[t] > 0 /\ fetches' = [fetches EXCEPT ![t] = @ - 1]
      /\ starting' = starting /\ searches' = searches /\ Unseen
  BY DEF LyricsAnswer
<1>2. /\ fetches' \in [Tracks -> Nat]
      /\ \A u \in Tracks \ {t} : fetches'[u] = fetches[u]
  BY <1>1 DEF TaskTypes
<1>3. TaskTypes'
  BY <1>1, <1>2 DEF TaskTypes
<1>4. /\ server' \in Snapshots /\ SamePlace /\ SameSearch
      /\ server'.current = server.current
      /\ server'.lyricsOf = server.lyricsOf
      /\ server'.status = server.status /\ server'.queue = server.queue
      /\ \/ server.lyricsOf # t /\ server' = server
         \/ /\ server.lyricsOf = t /\ server'.lyrics # "loading"
            /\ server'.lines \in {t, server.lines}
  <2>1. CASE server.lyricsOf # t /\ server' = server
    BY <1>1, <2>1 DEF SamePlace, SameSearch
  <2>2. CASE server.lyricsOf = t
             /\ server' = [server EXCEPT !.lyrics = "ready", !.lines = t]
    BY <1>1, <2>2 DEF Snapshots, Phases, SamePlace, SameSearch
  <2>3. CASE server.lyricsOf = t
             /\ server' = [server EXCEPT !.lyrics = "failed"]
    BY <1>1, <2>3 DEF Snapshots, Phases, SamePlace, SameSearch
  <2> QED
    BY <2>1, <2>2, <2>3 DEF LyricsAnswer
<1>5. SearchInv'
  BY <1>4, SearchKept
<1>6. LyricsInv'
  <2>1. server.lyricsOf \in Tracks \cup {None}
    BY DEF Snapshots
  <2> QED
    BY <1>2, <1>4, <2>1 DEF LyricsInv, SamePlace
<1>7. CopyInv'
  BY <1>1, <1>4
  DEF CopyInv, UnderWay, NeedsRefresh, SameSearch, Unseen, tui
<1> QED
  BY <1>1, <1>3, <1>4, <1>5, <1>6, <1>7, Unheard

\* A track that was started: the copy has said that something is under way.
LEMMA StartedKeeps == ASSUME AppInv, Started PROVE AppInv'
<1> USE DEF AppInv, AppTypes
<1>1. PICK t \in Tracks : t = starting /\ starting # None
  BY AppAssumption DEF Started, AppAssumption
<1>2. starting' = None /\ searches' = searches /\ Unseen
  BY DEF Started
<1>3. PICK q \in Seq(Tracks) :
        LET s == [server EXCEPT !.current = t, !.status = "playing",
                                !.queue = q]
        IN IF server.lyricsOf = t
           THEN server' = s /\ UNCHANGED fetches
           ELSE server' = WithLyrics(s, t) /\ Fetch(t)
  <2>1. \A q \in Queues \cup {server.queue} : q \in Seq(Tracks)
    BY AppAssumption DEF AppAssumption, Snapshots
  <2> QED
    BY <1>1, <2>1 DEF Started
<1>4. PICK s : s = [server EXCEPT !.current = t, !.status = "playing",
                                  !.queue = q]
  OBVIOUS
<1>5. /\ s \in Snapshots /\ s.current = t
      /\ \A f \in {"search", "found", "selected", "request", "visible",
                   "lyricsOf", "lyrics", "lines", "route", "history",
                   "query"} : s[f] = server[f]
  BY <1>4 DEF Snapshots
<1>6. /\ server' \in Snapshots /\ SamePlace /\ SameSearch
      /\ TaskTypes' /\ LyricsInv'
  <2>1. CASE server.lyricsOf = t
    <3>1. server' = s /\ fetches' = fetches
      BY <1>3, <1>4, <2>1
    <3>2. SamePlace /\ SameSearch /\ TaskTypes'
      BY <1>2, <1>5, <3>1 DEF SamePlace, SameSearch, TaskTypes
    <3>3. LyricsInv'
      BY <1>1, <1>5, <2>1, <3>1 DEF LyricsInv
    <3> QED
      BY <1>5, <3>1, <3>2, <3>3
  <2>2. CASE server.lyricsOf # t
    <3>1. server' = WithLyrics(s, t) /\ Fetch(t)
      BY <1>3, <1>4, <2>2
    <3>2. /\ server' \in Snapshots
          /\ server'.lyricsOf = t /\ server'.lyrics = "loading"
          /\ server'.lines = None
          /\ \A f \in {"search", "found", "selected", "request", "visible",
                       "current", "route", "history", "query"} :
               server'[f] = s[f]
      BY <1>1, <1>5, <3>1 DEF WithLyrics, Snapshots, Phases
    <3>3. fetches' \in [Tracks -> Nat] /\ fetches'[t] > 0
      BY <3>1 DEF Fetch, TaskTypes
    <3>4. SamePlace /\ SameSearch /\ TaskTypes'
      BY <1>2, <1>5, <3>2, <3>3 DEF SamePlace, SameSearch, TaskTypes
    <3>5. LyricsInv'
      BY <1>1, <1>5, <3>2, <3>3 DEF LyricsInv
    <3> QED
      BY <3>2, <3>4, <3>5
  <2> QED
    BY <2>1, <2>2
<1>7. SearchInv'
  BY <1>6, SearchKept
<1>8. UnderWay /\ view' = view /\ blind' = blind
  BY <1>1, <1>2 DEF CopyInv, Unseen, tui
<1>9. CopyInv'
  BY <1>6, <1>8 DEF CopyInv, UnderWay, NeedsRefresh, SameSearch
<1> QED
  BY <1>2, <1>6, <1>7, <1>9, Unheard

\* A step of the daemon that changes the status, the queue or what is started.
LEMMA BackgroundKeeps ==
  ASSUME AppInv, Unseen, UNCHANGED tasks,
         server' \in Snapshots, starting' \in Tracks \cup {None, Unknown},
         SamePlace, SameSearch, SameLyrics,
         UnderWay \/ /\ starting' = None
                     /\ server'.status \notin {"resolving", "playing"}
                     /\ server'.queue = server.queue
  PROVE  AppInv'
<1>1. SearchInv' /\ LyricsInv' /\ TaskTypes'
  BY SearchKept, LyricsKept DEF AppInv, AppTypes, TaskTypes, tasks
<1>2. view' = view /\ blind' = blind /\ shifted' = shifted
  BY DEF Unseen, tui
<1>3. CopyInv'
  BY <1>2
  DEF AppInv, CopyInv, UnderWay, NeedsRefresh, SameSearch, SameLyrics
<1> QED
  BY <1>1, <1>3, Unheard

\* A track that loads: the copy has said that something is under way.
LEMMA BuffersKeeps == ASSUME AppInv, Buffers PROVE AppInv'
<1> USE DEF AppInv, AppTypes
<1>1. /\ starting # None /\ starting' = starting
      /\ Unseen /\ UNCHANGED tasks
      /\ server' = [server EXCEPT !.status = "resolving"]
  BY AppAssumption DEF Buffers, AppAssumption
<1>2. server' \in Snapshots /\ SamePlace /\ SameSearch /\ SameLyrics
  BY <1>1 DEF Snapshots, SamePlace, SameSearch, SameLyrics, tasks
<1>3. UnderWay
  BY <1>1 DEF CopyInv
<1> QED
  BY <1>1, <1>2, <1>3, BackgroundKeeps

\* A start that failed: the copy has said that something is under way.
LEMMA StartFailsKeeps == ASSUME AppInv, StartFails PROVE AppInv'
<1>1. /\ starting # None /\ starting' = None /\ server' = Refused(server)
      /\ Unseen /\ UNCHANGED tasks
  BY AppAssumption DEF StartFails, AppAssumption
<1>2. server' \in Snapshots /\ SamePlace /\ SameSearch /\ SameLyrics
  BY <1>1, RefusedKeeps DEF SamePlace, SameSearch, SameLyrics, tasks
<1>3. UnderWay
  BY <1>1 DEF AppInv, CopyInv
<1> QED
  BY <1>1, <1>2, <1>3, BackgroundKeeps

\* A daemon asks for the next track while it plays, which the copy shows.
LEMMA TickAsksKeeps == ASSUME AppInv, TickAsks PROVE AppInv'
<1> USE DEF AppInv, AppTypes
<1>1. /\ server.status = "playing" /\ starting' = Unknown
      /\ UNCHANGED <<server, view, blind, shifted, behind, typing, panel, row>>
      /\ UNCHANGED <<searches, fetches>>
  BY DEF TickAsks, tui, tasks
<1>2. AppTypes'
  BY <1>1 DEF TaskTypes
<1>3. SearchInv' /\ LyricsInv' /\ BrowseInv'
  BY <1>1, SearchKept, LyricsKept DEF SameSearch, SameLyrics, BrowseInv
<1>4. UnderWay
  BY <1>1 DEF CopyInv
<1>5. CopyInv'
  BY <1>1, <1>4 DEF CopyInv, UnderWay, NeedsRefresh
<1> QED
  BY <1>2, <1>3, <1>5

\* While it asks, no copy is at rest, paused or not.
LEMMA TickAdvancesKeeps == ASSUME AppInv, TickAdvances PROVE AppInv'
<1> USE DEF AppInv, AppTypes
<1>1. /\ starting # None
      /\ UNCHANGED <<view, blind, shifted, behind, typing, panel, row>>
      /\ UNCHANGED <<searches, fetches>>
  BY AppAssumption DEF TickAdvances, tui, tasks, AppAssumption
<1>2. /\ starting' \in Tracks \cup {None, Unknown}
      /\ server' \in Snapshots /\ SamePlace /\ SameSearch /\ SameLyrics
  <2>1. ASSUME NEW t \in Tracks, Prepare(t)
        PROVE  /\ starting' \in Tracks
               /\ server' \in Snapshots
               /\ SamePlace /\ SameSearch /\ SameLyrics
    BY <1>1, <2>1
    DEF Prepare, Snapshots, SamePlace, SameSearch, SameLyrics
  <2>2. CASE starting' = None /\ UNCHANGED server
    BY <1>1, <2>2 DEF SamePlace, SameSearch, SameLyrics
  <2> QED
    BY <2>1, <2>2 DEF TickAdvances
<1>3. AppTypes'
  BY <1>1, <1>2 DEF TaskTypes
<1>4. SearchInv' /\ LyricsInv' /\ BrowseInv'
  BY <1>1, <1>2, SearchKept, LyricsKept DEF BrowseInv, SamePlace
<1>5. UnderWay
  BY <1>1 DEF CopyInv
<1>6. CopyInv'
  BY <1>1, <1>2, <1>5 DEF CopyInv, UnderWay, NeedsRefresh, SameSearch
<1> QED
  BY <1>3, <1>4, <1>6

\* The queue is extended at its end, or the history says that it was not.
LEMMA RefillKeeps == ASSUME AppInv, Refill PROVE AppInv'
<1> USE DEF AppInv, AppTypes
<1>1. PICK q \in Seq(Tracks) :
        /\ server' = [server EXCEPT !.queue = q]
        /\ shifted' = (shifted \/ ~(UnderWay \/ IsPrefix(server.queue, q)))
  BY AppAssumption DEF Refill, AppAssumption
<1>2. /\ behind' = behind + 1
      /\ UNCHANGED <<starting, view, blind, typing, panel, row>>
      /\ UNCHANGED <<searches, fetches>>
  BY DEF Refill, tui, tasks
<1>3. /\ server' \in Snapshots /\ SamePlace /\ SameSearch /\ SameLyrics
      /\ server'.queue = q /\ server'.status = server.status
  BY <1>1, <1>2 DEF Snapshots, SamePlace, SameSearch, SameLyrics
<1>4. AppTypes'
  BY <1>1, <1>2, <1>3 DEF TaskTypes
<1>5. SearchInv' /\ LyricsInv' /\ BrowseInv'
  BY <1>2, <1>3, SearchKept, LyricsKept DEF BrowseInv, SamePlace
<1>6. ~UnderWay => IsPrefix(view.queue, q) \/ shifted'
  <2>1. view.queue \in Seq(Tracks) /\ server.queue \in Seq(Tracks)
    BY DEF Snapshots
  <2> QED
    BY <1>1, <2>1, PrefixOfPrefix DEF CopyInv
<1>7. CopyInv'
  BY <1>2, <1>3, <1>6
  DEF CopyInv, UnderWay, NeedsRefresh, SameSearch, SameLyrics
<1> QED
  BY <1>4, <1>5, <1>7

\* The audio fails: nothing plays that did not.
LEMMA AudioFailsKeeps == ASSUME AppInv, AudioFails PROVE AppInv'
<1> USE DEF AppInv, AppTypes
<1>1. /\ Unseen /\ UNCHANGED tasks /\ starting' = starting
      /\ server' = [server EXCEPT !.status = "failed"]
  BY DEF AudioFails
<1>2. /\ server' \in Snapshots /\ SamePlace /\ SameSearch /\ SameLyrics
      /\ server'.queue = server.queue /\ server'.status = "failed"
  BY <1>1 DEF Snapshots, SamePlace, SameSearch, SameLyrics, tasks
<1>3. UnderWay \/ /\ starting' = None
                  /\ server'.status \notin {"resolving", "playing"}
                  /\ server'.queue = server.queue
  BY <1>1, <1>2 DEF CopyInv
<1> QED
  BY <1>1, <1>2, <1>3, BackgroundKeeps

\* The invariant holds when the TUI starts.
LEMMA AppInit == Init => AppInv
<1> SUFFICES ASSUME Init PROVE AppInv
  OBVIOUS
<1>1. server \in Snapshots /\ view \in Snapshots
  BY AppAssumption, EmptySeq DEF AppAssumption, Init, Snapshots, Phases
<1>2. AppTypes
  <2>1. TaskTypes
    BY DEF Init, TaskTypes
  <2>2. /\ blind \in BOOLEAN /\ shifted \in BOOLEAN
        /\ typing \in BOOLEAN /\ panel \in BOOLEAN
        /\ starting \in Tracks \cup {None, Unknown}
    BY DEF Init
  <2>3. behind \in Nat /\ row \in Nat \ {0}
    BY DEF Init
  <2> QED
    BY <1>1, <2>1, <2>2, <2>3 DEF AppTypes
<1>3. SearchInv /\ LyricsInv /\ BrowseInv
  BY DEF Init, SearchInv, LyricsInv, BrowseInv, Rows
<1>4. IsPrefix(view.queue, server.queue)
  BY <1>1, PrefixOfItself DEF Init, Snapshots
<1>5. CopyInv
  BY <1>4 DEF Init, CopyInv
<1> QED
  BY <1>2, <1>3, <1>5 DEF AppInv

\* Every key and every step of the daemon keeps it.
LEMMA AppNext == AppInv /\ [Next]_vars => AppInv'
<1> SUFFICES ASSUME AppInv, [Next]_vars PROVE AppInv'
  OBVIOUS
<1>1. CASE Key
  BY <1>1, NavigateKeeps, ToggleLyricsKeeps, ToggleQueueKeeps, EscapeKeeps,
    SubmitKeeps, SelectKeeps, MoveRowKeeps, PlaySelectedKeeps, SkipKeeps,
    RemoveQueueRowKeeps, EditQueueKeeps, TogglePlaybackKeeps,
    OtherCommandKeeps, ReopenKeeps, TypeKeeps, PlayTrackKeeps,
    PlayQueueRowKeeps DEF Key
<1>2. CASE \/ Poll \/ Buffers \/ Started \/ StartFails
           \/ TickAsks \/ TickAdvances \/ Refill \/ AudioFails
  BY <1>2, PollKeeps, BuffersKeeps, StartedKeeps, StartFailsKeeps,
    TickAsksKeeps, TickAdvancesKeeps, RefillKeeps, AudioFailsKeeps
<1>3. ASSUME NEW task \in searches, SearchAnswers(task) PROVE AppInv'
  BY <1>3, SearchAnswersKeeps
<1>4. ASSUME NEW t \in Tracks, LyricsAnswer(t) PROVE AppInv'
  BY <1>4, LyricsAnswerKeeps
<1>5. CASE UNCHANGED vars
  <2>1. /\ UNCHANGED <<server, starting, copy, tasks>>
        /\ UNCHANGED <<typing, panel, row>>
    BY <1>5 DEF vars, tui, copy
  <2> QED
    BY <2>1, KeptToItself DEF AppInv, AppTypes, BrowseInv
<1> QED
  BY <1>1, <1>2, <1>3, <1>4, <1>5 DEF Next

\* What is displayed, what is at work and what the keys rely on, always.
THEOREM AppInvariance == Spec => []AppInv
<1> QED
  BY AppInit, AppNext, PTL DEF Spec

\* Every variable keeps its type.
THEOREM AppTypeCorrect == Spec => []AppTypes
<1>1. AppInv => AppTypes
  BY DEF AppInv
<1> QED
  BY <1>1, AppInvariance, PTL

\* What is displayed is the answer to what was asked last: results of the
\* newest search, lyrics of the current track, and what is displayed as loading
\* has a task at work on it (apply_command, spawn_lyrics).
THEOREM AnswersMatchAlways == Spec => []AnswersMatch
<1>1. AppInv => AnswersMatch
  BY DEF AppInv, SearchInv, LyricsInv, AnswersMatch
<1> QED
  BY <1>1, AppInvariance, PTL

\* A TUI that shows nothing under way shows what the daemon has, but for a
\* track that was being started or asked for when it looked and a queue that
\* the service has rearranged (needs_refresh).
THEOREM ViewIsHonestAlways == Spec => []ViewIsHonest
<1>1. ASSUME AppInv PROVE ViewIsHonest
  <2>1. ~UnderWay => view.search # "loading"
    BY DEF UnderWay, NeedsRefresh
  <2> QED
    BY <1>1, <2>1 DEF AppInv, BrowseInv, CopyInv, ViewIsHonest
<1> QED
  BY <1>1, AppInvariance, PTL

\* What is started is what the service plays for the track under the cursor, but
\* for results that were loading and rows of a queue that was under way or
\* rearranged (PlaySelected, PlayQueueIndex).
THEOREM ActsOnShownAlways == Spec => ActsOnShown
<1>1. ASSUME AppInv, PlaySelected, starting' # starting
      PROVE  \/ starting' \in Plays[Rows(view)[view.selected]]
             \/ view.search = "loading"
  <2>1. starting' \in Plays[Rows(server)[server.selected]]
    BY <1>1 DEF PlaySelected, Starts, Prepare, Reply
  <2>2. view.search # "loading" =>
          view.found = server.found /\ view.selected = server.selected
    BY <1>1 DEF AppInv, CopyInv
  <2> QED
    BY <2>1, <2>2 DEF Rows
<1>2. ASSUME AppInv, NEW i \in 1 .. Len(view.queue), PlayQueueRow(i),
             starting' # starting
      PROVE  starting' \in Plays[view.queue[i]] \/ UnderWay \/ shifted
  <2>1. starting' \in Plays[server.queue[i]]
    BY <1>2 DEF PlayQueueRow, Starts, Prepare, Reply
  <2>2. ~UnderWay /\ ~shifted => IsPrefix(view.queue, server.queue)
    BY <1>2 DEF AppInv, CopyInv
  <2>3. view.queue \in Seq(Tracks) /\ server.queue \in Seq(Tracks)
    BY <1>2 DEF AppInv, AppTypes, Snapshots
  <2> QED
    BY <1>2, <2>1, <2>2, <2>3, PrefixMeans
<1>3. AppInv /\ [Next]_vars =>
        [/\ PlaySelected /\ starting' # starting =>
              \/ starting' \in Plays[Rows(view)[view.selected]]
              \/ view.search = "loading"
         /\ \A i \in 1 .. Len(view.queue) :
              PlayQueueRow(i) /\ starting' # starting =>
                \/ starting' \in Plays[view.queue[i]]
                \/ UnderWay \/ shifted]_vars
  BY <1>1, <1>2
<1> QED
  BY <1>3, AppInvariance, PTL DEF Spec, ActsOnShown
=============================================================================
