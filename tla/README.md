# ZeroBeat, specified

A TLA+ development of ZeroBeat, a terminal music player: a TUI
(`zerobeat-tui`) talks over a local socket to a daemon (`zerobeat-daemon`)
that resolves streams through a music service and plays them on a native
audio engine (`zerobeat-audio`).

## The system

| part | state it keeps | operations | talks to |
|---|---|---|---|
| playback coordinator (`daemon/src/server.rs`) | the snapshot (request id, status, current track, error), the `generation` and `pending_transition` atomics, the queue session held and the projection displayed, two mutexes | client commands, a playback task per request, the audio worker of that task, a telemetry tick every 250 ms | music service (await), stream cache, audio backend (mutex, blocking thread), database |
| stream cache (`daemon/src/stream_cache.rs`) | LRU entries, a table of flights, a watch channel per flight | `resolve`, drop of an owner or of a waiter | called by playback and prewarm tasks on several threads |
| downloads (`daemon/src/download.rs`, `storage/src/download.rs`) | a row per track, the `.part` and final file | request, task, restart | database, HTTP |
| dual deck (`audio/src/dual_deck.rs`) | two decks, which one is active, which one fades in, a generation, a fade thread per transition | load, play, pause, stop, `transition_to_guarded`, volume | called under the coordinator's audio mutex; its fade threads and the cancellation closure are not |
| native engine (`audio/native/zb_audio_engine.cpp`) | engine state, ring buffer, decode worker with a cancel generation, spectrum buffers | load, play, pause, seek, stop, device callback | HTTP range reader |
| player and queue (`audio/src/player.rs`, `queue.rs`) | a queue and a status | sequential | not used by the daemon |
| IPC connection and protocol (`ipc`, `protocol`) | a framed stream, the socket file | bind, connect, send, receive, hello | TUI and daemon |
| launcher and client (`tui/src/launcher.rs`, `client.rs`) | none of its own | connect, spawn, retire a legacy daemon | socket file, processes |
| TUI application (`tui/src/app.rs`, `mouse.rs`, `core`) | a copy of the snapshot, focus, the row of the queue | keys, mouse, refresh | daemon |
| API client and device identity (`api`, `security`) | a shared client, a signed counter in a file | connect, provision, signed requests | service |
| guest storage (`storage`) | SQLite rows | library, settings, lyrics, migrations | daemon |
| rendering, runtime paths, installers, examples | none | | |

What is hard here: client commands that await the music service while other
clients, playback tasks and the tick run; an audio worker on a blocking thread
that outlives the request it was started for; decisions taken on state read
before an await; replies that arrive out of order; starts that fail half-way;
a fade thread that races the next transition. `PROJECT.json` lists each hazard
at the line where it bites, with the properties that cover it.

What makes each part correct, in a sentence: the coordinator displays and plays the
newest request only, says so when it cannot, and never blocks its queue commands on a
request nobody works on; the cache resolves a stream once at a time and releases
everyone who waits; a download that is displayed as in progress is worked on, and its
file is whole as far as anybody said how long it is; the deck that is looked at is the
one that is heard, at the volume that was asked for; the engine's state agrees with
what its worker and its callback do; one daemon owns the socket, and a replaced one
has gone before its successor comes; no signed counter is used twice; the TUI shows
what the daemon has and plays what it shows; a service that fails is not called for
ever, and the end of a track is acted on.

## Modules

### Playback (`server.rs`)

`Playback.tla` models every command of `apply_command` that touches playback or
the queue, the task `spawn_playback` starts for each accepted request, the audio
worker inside it (`run_playback_audio` and the closures of
`PlaybackStart::Replace` and `DualDeck::transition_to_guarded`), and
`refresh_playback_telemetry`.

* A critical section of the snapshot mutex has no await inside and is one
  action. Everything between two awaits, two locks, or two reads of the
  generation is one action; everything else interleaves.
* `queue_mutation` is held across service calls and is the variable `mutation`;
  the audio mutex is held by a task through its whole worker and is
  `audioLock`. A command that only takes the audio mutex for one call is a step
  that requires it free.
* `step[c]` is the await a client command is suspended in, with `read[c]` what it
  read before; `stage[r]` is where the task of request `r` is; `tick` is where
  the telemetry tick is.
* A track is identified with the request that asked for it. A queue session is
  its id and revision. The service (external) may answer any call with any
  revision of the session, older ones too, or fail.
* The backend is what the coordinator can see of the dual deck: which request
  owns the deck that is looked at, its mode, and whether a fade runs or was left
  dead by an abandoned transition. `AudioIsTheBackends` says that all it does is
  what `AudioBackend` (below) promises.
* Abstracted: the refill and auto-advance markers and backoffs, the length of the
  queue and the position in the track only withhold calls, and are a choice here
  (`QueueUpkeep` has them);
  the closeness of the auto-advance to the end of the track likewise; seek
  targets and volumes; which of the six queue edits it is.
* `Seek` is what it does to the mode of the deck; where it seeks is abstracted.
  A command counts on `Sent`, so that each client sends a bounded number of them.
* Left out: `Shutdown` (`Launcher` has it), search, navigation and lyrics (`App`
  has them), and `cancel_incoming`, whose
  effect on a load under way is one of the failures every load may have. Its
  effect on an active deck belongs to the dual deck and the engine.

`LatestRequest.tla` is the promise: numbered requests, at most one open and
always the newest, displayed only while open. `Playback` implements it with
`issued <- requestId, open <- pending, shown <- current`.

### StreamCache (`stream_cache.rs`)

`StreamCache.tla` has one action per lock or channel operation of `resolve`:
the look-up, joining or registering a flight under the flights mutex, the
service call, the insertion with its eviction, the send on the watch channel,
and the removal of the flight, with the drop of an owner (`OwnerGuard::drop`) or
of any other call at its await. A watch channel stores a value only while it has
a receiver, and the receiver made with the channel is dropped at once; this is
what `Publish` says.

### DualDeck (`dual_deck.rs`)

`DualDeck.tla` models `DualDeck` over two native engines: every call of
`AudioBackend`, the fade thread each transition spawns, and the cancellation
closure, which the daemon calls without any lock.

* Callers are serialised by the daemon's audio mutex, and each call holds the lock
  of the decks, so a call is one action; a load and a transition are a step per
  engine call and per look at `should_continue`, since they last long enough to
  be cancelled and superseded, and a pause is two, since it moves both slots
  (`BeginPause`, `Pause`). `call` is the step they are at, and the lock is free
  exactly when it is `none`.
* A fade thread has the look before the lock (`Wake`), the step under the lock
  (`FadeStep`, which looks at the generation again) and the end (`Finish`).
* The closure takes no lock. It reads one slot (`ReadIncomingSlot`), perhaps the
  other later (`ReadActiveSlot`), and then cancels that deck (`Cancel`), whatever
  the slots are by then; only then is the newer request numbered (`Withdraw` to
  `Supersede`), as every caller of `cancel_incoming` does. `seen` is a history
  variable: the load whose deck was exposed (`Exposed`) at the first of these reads.
* An engine is its state, its gain, its decode worker, whether the cancel
  generation moved since it was opened, and its `source`: none, opened by a load that
  has not succeeded, or loaded. Without a source a failed engine cannot play and a
  seek starts no worker. Gains
  are kept in units of `1/Steps` on a linear curve; no property compares gains of
  different steps.
* Left out: the branch of a fade whose volume call fails, which a live native
  engine never takes, and the engine's position.

`AudioBackend.tla` is what the coordinator relies on: one deck that is looked at,
with a mode, and a fade towards it that runs, or is dead. A track is heard only after
it was loaded and played, only a transition that was not superseded begins a fade,
a pause ends one, and a transition during one takes it back. `DualDeck` implements it
(`ImplementsBackend`) with `mode` the mode of the deck of `Looked` (a deck being
loaded is seen as stopped) and `fade` made of `incoming` and of whether a thread of
the newest generation runs (`FadeSeen`); `Playback` is built on no more than that
(`AudioRefinesBackend`, below). So the two modules, which share no variable, meet in
this one.

### NativeEngine (`zb_audio_engine.cpp`)

`NativeEngine.tla` models one engine: the control calls `play`, `pause`, `stop`,
`seek` and the load, the decode worker, the output callback, and the
cancellation of a load.

* Control calls are serialised by `control_mutex`; `control` is the step a call is
  at, and what it does while neither worker nor callback runs is one step. The
  device is stopped in two steps (`Halt`, `Halted`), since a callback that has
  begun still ends; the worker is told to stop before it is joined.
* The worker has a step per access to what it shares: the look at
  `decode_requested`, the packet or frame, the ring buffer, `decoded_frames`, and
  the four accesses of `set_error`. `flushing` says that it is past the last
  packet and empties the decoder.
* The callback reads the state and the cursor (`Render`), the ring buffer, stores
  the cursor, looks at the end and at a failure, and stores the state.
* A stream is `Length` units long. The timeouts of `wait_for_prebuffer` may come
  at any poll. Some failures of the worker do not ask whether it was called off.
* Left out: the generated tone, filter, concealment, spectrum and the range
  reader; a duration that is not known before the end, or not the true one; seeks
  that land before their target.

### Downloads (`download.rs`, `storage/src/database.rs`)

`Downloads.tla` models the command DownloadTrack, the task it spawns
(`spawn_download`, `update_download_state`, `download_stream`), the rows of the
database and a restart of the daemon.

* What is done under the lock of the database is one step, and what is done under
  the snapshot's is another; in between, a command (`askCopy`) or a task (`copy`)
  holds a copy of the library, which it stores into `shown` later, perhaps over
  a newer one.
* A request with its body is one step of a task. The service (external) sends units
  of the stream in order, and a total that it or the URL says is true. Otherwise it
  may do what it likes: answer a range with fewer units, with or without the total,
  answer with the stream from its beginning, cut off anywhere, or fail. One
  assumption is left: having answered a range, it does not answer a later one of the
  same stream from the beginning.
* The database may fail at each write and at each reading of the library. `lost` and
  `unsaid` are history variables: the rows that a restart or such a failure left in
  progress, and the files that were named without a length to compare with.
* Left out: headers, the text of URLs and of errors, and what playback does with
  the file.

### QueueUpkeep (`server.rs`, the tick)

`QueueUpkeep.tla` models what `refresh_playback_telemetry` does for the queue by
itself: `Refill` for its first half, `Advance` or `Rest` for its second, with the
refill marker and backoff, the auto-advance marker, and the clock (`Second`).

* The tick reads the telemetry and the session first and acts on them later: `tick`
  is what it read. A start may end, the track play on, and the user seek, pause or
  resume in between; commands about the queue may not, since the tick holds
  `queue_mutation`.
* `Seek` moves the track anywhere, in a tick too: it takes the audio mutex only.
* The service (external) may answer any call with a later revision, fail, or fail
  for good. A session, its revision and the position in it are one number: the
  service raises the revision with each change, as the queue of the daemon's tests
  does.
* `fails`, `after`, `dry` and `moved` are history variables: the failed calls, the
  calls after a failure for good, and the answers without a new track, of one queue;
  and that a track was started or sought during the tick under way.
* Left out: the reasons of `Playback` for a start to be superseded.

### ApiClient (`api/src/client.rs`, `catalog.rs`, `security`)

`ApiClient.tla` models the shared client of a daemon (`OnceCell`), the connection by
the first call that needs it (load or create the identity, challenge, provision,
bind), and every call as: take and save a counter, send, return.

* `stage[c]` is where a call is; a step is what runs between two awaits. Saving is
  one step, since the file is replaced by a rename; a save that fails may have
  replaced it or not (`SaveFails`).
* Several daemons may share the data directory: nothing in the code prevents it.
  `overlapped` is a history variable that says that two had looked at the file at
  one time. A daemon may end at any step and start again (`Restart`).
* The service (external) may refuse, not answer, or give the key a device id that it
  gave it before. Install ids are random, hence fresh (`Fresh`).
* Left out: URLs, JSON, signatures, the sizes and the kinds of errors of answers.

### Launcher (`tui/src/launcher.rs`, `client.rs`, `ipc`, `server.rs`)

`Launcher.tla` models several launchers and several daemons, on Unix: a launcher
retires a daemon of the legacy protocol, connects, compares the executable, shuts a
replaced daemon down and waits for its release, starts one and tries again; a daemon
looks at the socket file, removes a stale one, binds, serves, and removes the file
when it ends.

* `entry` is the daemon whose socket the file is. Looking, connecting, removing,
  binding and listening are one system call each and a step each: between the last
  two (`"bound"`) the file is there and a connection to it is refused.
* A daemon listens from its `listen` on and accepts later; a launcher that has
  connected waits for the answer with a timeout, so `GreetFails` may always be
  taken. `Crash` ends a daemon at any step and leaves its file.
* `RetireLegacy` has every outcome of the exchange with a legacy daemon: it is told to
  shut down, is left alone, or the launcher fails.
* A daemon that shuts down removes its file and then ends: in between (`"ending"`) its
  tasks still answer the clients they have.
* `told` is the set of daemons that acknowledged a Shutdown; `crashed` and `crossed`
  are history variables: a daemon has left its file behind, and one was tried by
  another between its bind and its listen.
* Left out: Windows, the text of frames, what the daemon serves meanwhile.

### App (`tui/src/app.rs`, `mouse.rs`, `main.rs`, and the browsing of `server.rs`)

`App.tla` models the TUI's copy of the snapshot, its keys and clicks, the refresh
that only happens while something is under way, and the part of the daemon that is
browsed: navigation, search, lyrics, the current track and the displayed queue.

* A key or a click is an action, read from the copy (`view`), and sends a command
  that is applied to `server` in the same step, since the TUI waits for the reply and
  takes it for its copy. The daemon's own steps (`SearchAnswers`, `LyricsAnswer`,
  `Buffers`, `Started`, `StartFails`, `TickAsks`, `TickAdvances`, `Refill`,
  `AudioFails`) come in between, unseen. There is one TUI.
* The tick's request for the next track is two steps (`TickAsks`, `TickAdvances`):
  commands that do not need `queue_mutation` go on in between, a pause among them, and
  the tick starts the next track all the same. `starting` is the track that is being
  started, or `Unknown` while the tick asks for it; the two exclude each other, since
  the tick holds `queue_mutation` (`QueueIsFree`) and asks only while nothing starts.
* The service (external) may answer a refill with any queue, and a request to play a
  track with another one (`Plays`): the daemon plays what the answer says.
* `blind`, `shifted` and `behind` are history variables: the copy shows no sign of a
  track that was being started or asked for when it was taken; the service has
  rearranged the queue behind a copy that shows nothing under way; and the daemon's
  steps since the copy was taken.
* Left out: downloads under way as a reason to refresh, the selected rows of the
  other lists, the cooldown of keys, the spectrum and the animation, the cache of
  lyrics. Requests that supersede each other are the subject of `Playback`.

## Runs

| run | instance | question |
|---|---|---|
| `playback` | 2 clients, 2 requests, 2 revisions, with symmetry | Are the request variables, the queue lock, the session and the displayed queue consistent in every interleaving of two clients, their tasks and the tick? Yes. |
| `playback_live` | 1 client with every command, 2 requests, fairness | Do display and audio follow the newest request, is `LatestRequest` implemented, and does nobody wait for ever? Yes, but for a start whose stream is never resolved, which `stream_cache_late` shows can happen. |
| `dual_deck` | 2 fade steps, 2 volumes, 2 generations, fairness | Are the gains those of volume and progress, whatever interrupts a fade? Is one deck heard, do old threads change nothing, does a cancellation reach the load under way, does every fade thread end? Is all this the one backend that the coordinator assumes? Yes; of cancellations, those that first read a slot during the load and act before it ends. |
| `dual_deck_cut` | 2 steps, 3 generations | A statement of the tests the dual deck does not keep (see Findings). |
| `native_engine` | 3 units, a ring buffer of 2, prebuffer 2 (1 after a failure), 4 calls, 1 cancellation, fairness | Is the position exact, is the state true of the stream, does every call return, and does no track play silence for ever? Yes. |
| `stream_cache` | 3 tasks, 2 keys, capacity 1, 2 flights, fairness | One flight per key, none without an owner, a bounded cache, waiters that subscribed in time released? Yes. |
| `stream_cache_late` | 2 tasks, 1 key, fairness | A statement of the tests the cache does not keep. |
| `downloads` | 1 track of 3 units, chunks of 2, 2 clients, 3 tasks, fairness | Is one task at work on a track, is a named file the whole stream, do settled rows stay, and does a download end, unless it was left behind? Yes, but for the file of a stream whose length neither the URL nor an answer said: that is a beginning of it. |
| `queue_upkeep` | the code's 6 attempts and 8 s, a display of 2, queues of up to 3, 4 revisions, fairness | Are the calls to a service that fails bounded, is no track left early, and is the end of a track acted on? Yes, but a track that is started or sought during a tick may be left by that tick. |
| `api_client` | 2 tasks of one daemon and 1 of another, 2 installs, 1 device, counters up to 2, fairness | Is no counter used twice, is a shared client provisioned, is a credential kept, and does every call return? Yes. |
| `launcher` | 2 launchers, 1 replaced daemon and 2 new ones, 2 tries, fairness | Does a live socket keep its file, has a replaced daemon gone before its successor comes, and does every launch end? Yes; the socket is kept unless a daemon crashed, or one was tried between its bind and its listen. |
| `app` | 2 tracks, one of which the service may answer with the other, 1 query, 1 queue, 2 searches | Does a TUI at rest show what the daemon has, do answers match what was asked last, and is what is asked for what was under the cursor? Yes, unless a track was being started or asked for when the copy was taken, or the service rearranged the queue since. |

Why the bounds are enough. In `Playback` two requests are the smallest number that
can supersede each other; two clients let one command await the service or the audio
mutex while another starts, ends or calls off a request, and the tick is a third
actor. Two revisions distinguish a fresh reply from a stale one. `MaxRequests` and
`MaxRevision` stop the counters: they appear in the guards of `Launch` and
`SkipFails` and in what the service answers; the code's counters are 64 bits wide
and saturate. In `StreamCache` one key has an owner, a waiter and a third task that
misses at the wrong moment, and a second key competes for the only entry;
`MaxFlights` stops the flights, so `TakeOff` is disabled in the last states and
deadlock is not checked there.

In `DualDeck` two steps give a fade a
step in the middle and a last one, and two generations make one thread old while
the other call runs; the theorems cover more. The bound
`MaxGeneration` stops loads, transitions, pauses and stops at the end, so
deadlock is not checked there.

In `NativeEngine` the stream is longer than the ring buffer, so the worker waits for
room and a call may find it waiting; four calls are a load, a play, a seek or
restart, and one more; one cancellation comes before, during or after any of
them. `MaxCalls` and `MaxCancels` stop them, so deadlock is not checked.

In `Downloads` two clients race for one track, one task may be at work while two
others still show what they ended with, and three units in chunks of two make a
full and a partial response; the theorems cover any number of tracks. Nothing is
bounded: the model is finite.

In `QueueUpkeep` the attempts and the longest wait are the code's own; a display of
two tracks can be empty, partly filled and full, and three tracks to come are more
than it shows; four revisions let a queue be replaced, extended and left.
`MaxRevision` and `MaxUpcoming` bound what the service answers; when the revisions
are used up it can only fail.

In `ApiClient` two tasks of one daemon meet at the connection and at the counter, and
the third belongs to a daemon that may share the file; a second install lets a lost
identity be replaced. `MaxCounter` is u64::MAX in the code, and its end is a failure
of `Sign`; `Installs` bounds how often an identity is made, so deadlock is not checked.

In `Launcher` two launchers are the least that can race, and each may start a daemon
while an old one ends; two tries (`Tries`, 40 in the code) are one that is followed by
another and a last one. When every launcher has returned nothing need happen, so
deadlock is not checked.

In `App` a search may overtake another (`MaxSearches` is 2), lyrics are fetched for
two tracks, one task each (`MaxLyrics`), and a route can be left and returned to
(`MaxHistory`). `MaxBehind` bounds the steps of the daemon between two looks of the
TUI that its snapshot shows; the tick's request and its answer show nothing and are
not counted, so one step is enough to start a track or to shift the queue behind a
pause. The theorems cover any number.

Fairness. A spawned task is polled until it returns and its blocking section gets a
thread, so a playback task whose stream is resolved makes progress (`WF` on
`Works(r)`). The resolution itself need not return, although every HTTP request has a
timeout (`api/src/client.rs:38-39`): it may wait for a flight that is over
(`stream_cache_late`). A command that has its answer from the service runs to its end
(`WF` on `ReportSkipFailure`). Nothing is assumed of users, of the service's answers or
of the audio engine. In `StreamCache` every call
that was made proceeds. In `DualDeck` a load ends, because the prebuffer has a
timeout (`WF` on `Proceed`), and a fade thread wakes up and gets the lock that every
call gives back (`SF` on `Thread(g)`: other callers may take the lock first, again
and again, but not for ever). In `NativeEngine` a call that has begun runs (`WF` on
`Proceed`), the worker runs, since its reads time out or are interrupted (`WF` on
`Worker`), and the device calls back while it is started (`WF` on `Callback`);
nobody is assumed to make a call. In `Downloads` a command gets the lock of the
snapshot (`WF` on `Answer`), and a task runs, since its requests time out (`WF` on
`Task(i)`). In `QueueUpkeep` the loop ticks and its requests time out (`WF` on
`Refill` and on `Advance \/ Rest`), and time passes (`WF` on `Second`); a start need
not end. In `ApiClient` a call that was made
proceeds: requests time out, and the semaphore of a `OnceCell` is first come, first
served (`SF` on `Call(c)`, since others may take the permit and give it back). In
`Launcher` launchers and daemons run, and every request has a timeout (`WF` on
`Launch(l)` and `Run(d)`); a crash is never forced. `App` has safety properties
only, since nobody must press a key.

## Proofs

`PlaybackProofs.tla` proves, for any set of clients and any bounds, that the
specification keeps `IInv`, the conjunction of the type invariant and nine
others, from the two assumptions on the constants (the actors are distinct, the
bounds are natural numbers). None of the safety properties is inductive by
itself; what carries them:

* `RequestsCoherent`: the atomic and the snapshot agree, `pending_transition` is
  the newest request exactly while its task is alive, and a stale worker is a
  superseded one. It rests on `RequestSteps` (only a launch, a withdrawal and a
  task touch these variables) and `TaskMoves` (a task moves on, or retires and
  clears what is its own).
* `HoldersHold`: whoever is inside an edit, a skip or the second half of the tick
  holds `queue_mutation`. With it, `EditsExcludeTransitions` is inductive: nobody
  else can launch.
* `ProjectionBehind` and `NewestCarriesSession`: the session is replaced only
  with a launch, which carries it, or while nothing is pending. So a commit
  displays the session held, and the projection only moves forward.
* `NewestOwnsDeck`: a worker touches the deck only while the generation is its
  request, so the request that is committed owns the deck.

From `IInv` follow the invariants the runs check, the action properties
`ProjectionNeverRegresses` and `AudioNeverGoesBack`, and the refinement of
`LatestRequest` (each step issues, withdraws, settles or stutters).

`AudioRefinesBackend` is that what `Playback` lets happen to the audio is what
`AudioBackend` promises. It needs `WorkersExclusive`: the worker that loads or starts
a track holds the audio mutex (`WorkersHoldAudio`), so it finds the deck and the fade
as it left them (`DeckAsLeft`): no fade under a replacement, and none that runs under
a crossfade, for its transition took the generation away from it. Fades and tracks
that end and engines that fail need no mutex, and keep both.

`StreamCacheProofs.tla` proves single flight and that no flight is without its
owner, from the one-to-one match of owners and registered flights; and `TypeOK`, with
the bound of the cache, from `CacheInv`: the cached streams are a sequence without
repetition of at most `Capacity`. `CutOut` and `AppendOne` say what taking an element
out of a sequence, or adding one, makes of each place; what a look-up, an expiry and
an insertion with its eviction do follows from them.

`DualDeckProofs.tla` proves `IInv` for any number of fade steps, any volume scale and
any number of generations, and with it every safety property of the runs that pass.
`SettledVolume` and `OneDeckHeard` speak of the unlocked decks only; what carries them
through a transition is `OtherDeckQuiet` (the deck not looked at is heard only between
its start and the last look at `should_continue`), `ActiveAtVolume`, and
`FadesBehind`: no thread has a generation that was not reached, and while a call is
under way no thread is current. `SlotsFollow` (the slots lead to the deck of the load
under way) and `LooksFollow` (so does what the closure read of them in that load, for
no load comes back) carry `CancelReachesLoad`. `RefinesBackend` is that every step is
one of `AudioBackend`, or is not seen: the steps of a load are each a replacement,
those of a transition are seen only when it takes a fade back or begins one. Beside
`IInv` it needs `StagesShow`: only the deck of the call under way is being loaded, and
the deck that a transition has started plays, has ended or has failed.

`NativeEngineProofs.tla` proves `IInv` for any stream, ring buffer, number of calls and
of cancellations, from `EngineAssumption` (a prebuffer fits into the ring
buffer). `PositionExact` speaks of the moments in which nothing moves; what is
inductive is `Conserved`: a unit that was made was heard or is in the ring buffer,
counting the cursor the callback is about to store and the unit the worker has
not counted. It needs `Alone`, for a stream is rewound only when neither runs.
`EndKnown` and `EndHeard` carry `EndedIsWhole`: the end of the stream is set when
all of it was made or the worker was called, and the callback ends a track only
with the ring buffer empty after that. `BufferingEnds` carries `BufferingHasCause`.

`DownloadsProofs.tla` proves `IInv` for any tracks, sizes and chunk, any clients and
tasks, from `DownloadsAssumption` (there is a track, sizes and chunk are positive).
`SentAreInProgress` and `OneSent` carry `OneWriter`: whoever is sent for a track - the
command that queued its row, then its task - finds the row in progress until it
writes it, and nobody is sent for a row in progress. `FetchedSoFar` carries
`FilesAreWhole`: the `.part` file, which is one task's own, is a beginning of the
stream after each response, and a length that was said is the stream's, so a file that
is named at that length is all of it. `LostAreAlone` carries `LostForGood`.

`QueueUpkeepProofs.tla` proves `Inv` for any number of attempts, longest wait, display
limit and bounds. What is inductive is how far the markers have counted: a marker of
the queue at hand has counted every failed call but at most one (`FailsCounted`), the
one made in the tick whose refill changed the revision. `NeverAhead` says that
revisions only grow, `AfterCounted` and `DryCounted` that the marker of a failure for
good, or of an answer without a track, stands in the way of the next call, and
`TickIsTrue` that what the tick read of the track's end still holds unless another was
started or the user sought, which carries `AdvancesAtEnd`. From the assumption that
powers of two are natural numbers, which the provers do not know and TLC evaluates.

`ApiClientProofs.tla` proves `Inv` for any daemons, callers, installs, devices and
largest counter, and with it the three safety properties of its run. `Ownership` is
the OnceCell: one caller at a time connects a daemon, and calls go on only in a
connected one. `Alone` says that, unless two daemons overlapped, one daemon has looked
at the file and its memory is never behind it; `UsedOnce` that every counter that was
used is on disk. The file has no credential while one is made or bound, so nothing was
used then.

`TuiProofs.tla` proves both modules of the TUI.

* `HandoverInv`, for any number of launchers, daemons and tries. An old daemon that
  has not given up its socket owns the file and listens (`OldOwnsSocket`), so no
  launcher gets to start another (`NewComesLater`); new daemons are never told to end
  (`OnlyOldAreTold`); and a file leads to a daemon that listens or is about to, so no
  start removes it unless a daemon crashed or was tried in between
  (`SocketsAreClean`).
* `AppInv`, for any tracks, queries, results and bounds. Every search has a number of
  its own, and the newest is at work exactly while the snapshot says that it loads
  (`SearchInv`); lyrics that load have a task of their track (`LyricsInv`): from these
  `AnswersMatch`, whatever overtakes whatever. Only the user's keys change where he is,
  so copy and daemon agree on it (`BrowseInv`). `CopyInv` carries `ViewIsHonest` and
  `ActsOnShown`: a key either takes the daemon's snapshot for its copy or leaves both
  alone, so they part only by the daemon's own steps. The daemon of a copy at rest
  plays nothing, starts nothing and has no tick that asks, so of its steps only those
  of a refill, of failed audio and of answers nobody waits for are left, and `shifted`
  says what a refill did.

Model-checked only: liveness under fairness (`NobodyWaitsForever`, `FadesEnd`,
`CallsReturn` of two modules, `PlayingEnds`, `SubscribedAreReleased`, `DownloadsEnd`,
`EndIsActedOn`, `HandoversEnd`), which the provers cannot reach, and that the two
statements of the Findings are violated. Every other property a run checks is a
theorem.

## Findings

1. `stream_cache_late`: a waiter that clones the flight before the owner removes
   it and subscribes after the owner's send waits for ever.
2. `dual_deck_cut`: a skip cancels the active deck when no deck is incoming: its
   decoding stops without an error, and it falls silent while displayed Playing.

Observed while modelling, without a run of its own; where a property covers the
place, it names the case as its exception:

* Coordinator. A skip that fails after the audio worker has finished leaves the
  called-off track playing behind a Failed display (server.rs:1511). A pause that
  overlaps the commit of a new track displays Paused while it is heard
  (server.rs:685). `PlaySelected` plays the daemon's selection, which may be a row
  of results the TUI has not shown (server.rs:424), and then what the service answers
  (server.rs:448). A failed `PlaySelected` or `PlayTrack` sets the status Failed
  although a track plays (server.rs:441, 530). A resolution that never returns
  (Finding 1) blocks queue edits, refills and the advance until another request
  supersedes it.
* Tick. The attempts of the refill backoff never exceed 1, so it waits a second each
  time: the check before the call has removed the record. The auto-advance marker is
  keyed by the revision from before the refill, which costs one more call. An answer
  to the call for the next track is dropped when the audio lock is busy
  (server.rs:1812), and the service is then a track ahead. The telemetry may be that
  of the track before (server.rs:1794). A seek back during the tick's call for the
  next track does not keep it from leaving the track (server.rs:991, 1839); nor does a
  pause, and the TUI that paused then stays on the paused display (server.rs:1810).
* Dual deck. A transition that begins during a fade stops the displayed track before
  its load, which may fail, and an abandoned one leaves the audible deck at the gain
  the fade had reached, with no thread to end it (dual_deck.rs:171). A cancellation
  that reads the slots before a load is exposed cancels the active deck, and one that
  acts before the engine is opened is forgotten by the open (dual_deck.rs:349).
* Engine. A worker that is called off while it empties the decoder sets the end of
  the stream although frames are left (zb_audio_engine.cpp:1597).
* Downloads. A row left in progress by a restart or by a failing database is never
  started again. A stale copy of the library may be displayed until the next update
  (download.rs:88). Of a stream whose length is not told, an answer that was cut off
  is taken for the last one, and the file becomes Available (download.rs:184); one
  that is a multiple of the chunk asks for a range behind its end.
* Identity. Two daemons that share the data directory can use one counter twice
  (`overlapped`). A request that is rejected with 401 or 403 never provisions anew.
  A crash between the answer and its save orphans a device id, harmlessly.
* Launcher. After a crash two daemons may serve, one of them without a socket file;
  likewise when a daemon is tried between its bind and its listen, for its live
  socket is then taken for a stale one (connection.rs:32, server.rs:2104).
  A Shutdown whose acknowledgement fails is not carried out (server.rs:318). Nothing
  waits for a legacy daemon to end.
* TUI. A copy taken while a track is started over a paused one, or a pause that the
  tick answers with the next track, shows no sign of it and is not refreshed
  (app.rs:136). The service may rearrange the queue when it is asked for more of it,
  and the number of a row then means another track (server.rs:1770). Lyrics that
  failed are not fetched again when they are reopened.

## Plan

Done, with the proofs that were planned: `Playback` and `LatestRequest`,
`StreamCache`, `DualDeck` and `AudioBackend` between it and `Playback`, `Downloads`,
`NativeEngine`, `QueueUpkeep`, `ApiClient` (planned as the device identity),
`Launcher`, `App` (with the guards of search and lyrics).

Left, in this order:

1. That `NativeEngine` implements the engine the dual deck sees.
2. That `QueueUpkeep`'s tick is the one whose calls are a choice in `Playback`.
3. The hand-over of spectrum buffers and the range reader beside `NativeEngine`; the
   sequential player.

## Not modelled

Rendering, layout and text; HTTP, JSON, SQLite and the audio codec themselves;
path computation; the installers; the wave lab example; vendored miniaudio. The
sequential player (`audio/src/player.rs`, `queue.rs`), which the daemon does not use.
Likes, history, settings and migrations of the storage, which are single statements
under one lock. The spectrum analyser, whose result the next frame replaces, and the
range reader, of which `NativeEngine` keeps that any read may fail, stall or end. The
named pipes and processes of Windows.
