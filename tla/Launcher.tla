------------------------------ MODULE Launcher ------------------------------
(***************************************************************************)
(* How a TUI gets its daemon (zerobeat-tui/src/launcher.rs, client.rs) and *)
(* how a daemon gets and gives up its socket (zerobeatd's main and          *)
(* DaemonServer, on Unix).  A launcher retires a daemon of the legacy       *)
(* protocol, connects, retires a daemon of another executable, spawns one   *)
(* if there is none and tries again for a while.  A daemon looks at the     *)
(* socket file, removes it if nobody listens, binds it, serves, and removes *)
(* it when it ends.                                                        *)
(*                                                                         *)
(* Several launchers and daemons do so at one time: a step is what one      *)
(* system call or one message does to the others.  A daemon can end without *)
(* removing its socket file at any step, and any request can time out.      *)
(***************************************************************************)
EXTENDS Naturals, FiniteSets

CONSTANTS
  Launchers,   \* TUIs that start
  Daemons,     \* daemon processes
  Old,         \* those of an executable that was replaced since
  NoDaemon,    \* no daemon, no socket file
  Tries        \* 40 in the code

ASSUME LauncherAssumption ==
  /\ Old \subseteq Daemons
  /\ NoDaemon \notin Daemons
  /\ Tries \in Nat \ {0}

DaemonStages == {"off", "looking", "trying", "removing", "binding", "bound",
                 "starting", "serving", "stopping", "ending", "gone"}
LaunchStages == {"legacy", "connecting", "greeting", "closing", "spawning",
                 "connected", "failed"}

VARIABLES
  entry,    \* the daemon whose socket the file is
  stage,    \* where a daemon is
  told,     \* daemons that acknowledged a Shutdown
  legacy,   \* the daemon of the legacy protocol
  at,       \* where a launcher is
  spawned,  \* launchers that have started a daemon
  peer,     \* the daemon a launcher is connected to
  tries,    \* attempts it has left, once it has started a daemon
  waits,    \* attempts it has left to see a socket released; else 0
  crashed,  \* history: whether a daemon has ever left its socket file behind
  crossed   \* history: whether one was ever tried before it listened

launch == <<at, spawned, peer, tries, waits>>
launcherVars == <<entry, stage, told, legacy, launch, crashed, crossed>>

\* An old daemon serves, or has left its file behind, or there is none.
LauncherInit ==
  /\ entry \in Old \cup {NoDaemon}
  /\ \E alive \in BOOLEAN :
       /\ stage = [d \in Daemons |-> IF d \notin Old THEN "off"
                                     ELSE IF d = entry /\ alive THEN "serving"
                                     ELSE "gone"]
       /\ crashed = (entry # NoDaemon /\ ~alive)
  /\ crossed = FALSE
  /\ told = {}
  /\ legacy \in {"off", "on"}
  /\ at = [l \in Launchers |-> "legacy"]
  /\ spawned = {}
  /\ peer = [l \in Launchers |-> NoDaemon]
  /\ tries = [l \in Launchers |-> 0]
  /\ waits = [l \in Launchers |-> 0]

----------------------------------------------------------------------------
(* The launcher. *)

\* A connection to the socket file is accepted by the system as long as its
\* listener lives, whether or not the daemon comes to accept it.
Listening(d) == d # NoDaemon /\ stage[d] \in {"starting", "serving", "stopping"}

\* The launcher returns an error.
Fail(l) ==
  /\ at' = [at EXCEPT ![l] = "failed"]
  /\ UNCHANGED <<spawned, peer, tries, waits>>

\* A daemon of the legacy protocol rejects the hello and is told to shut down;
\* one of this executable, or of another answer, is left as it is.
RetireLegacy(l) ==
  /\ at[l] = "legacy"
  /\ \/ /\ at' = [at EXCEPT ![l] = "connecting"]
        /\ legacy' \in {legacy, IF legacy = "on" THEN "told" ELSE legacy}
        /\ UNCHANGED <<spawned, peer, tries, waits>>
     \/ /\ legacy # "off"
        /\ legacy' \in {legacy, "told"}
        /\ Fail(l)
  /\ UNCHANGED <<entry, stage, told, crashed, crossed>>

\* There is no daemon: the launcher starts one, or tries once more, having
\* started it.
NoClient(l) ==
  /\ waits' = [waits EXCEPT ![l] = 0]
  /\ IF l \notin spawned
     THEN /\ at' = [at EXCEPT ![l] = "spawning"]
          /\ UNCHANGED tries
     ELSE /\ tries' = [tries EXCEPT ![l] = @ - 1]
          /\ at' = [at EXCEPT ![l] = IF tries[l] = 1 THEN "failed"
                                                     ELSE "connecting"]

\* connect: the file is missing, nobody listens, or the connection is made.
Connect(l) ==
  /\ at[l] = "connecting"
  /\ IF Listening(entry)
     THEN /\ at' = [at EXCEPT ![l] = "greeting"]
          /\ peer' = [peer EXCEPT ![l] = entry]
          /\ UNCHANGED <<tries, waits>>
     ELSE /\ NoClient(l)
          /\ peer' = [peer EXCEPT ![l] = NoDaemon]
  /\ UNCHANGED <<entry, stage, told, legacy, spawned, crashed, crossed>>

\* The socket is still there: it is looked at again, for a while.
WaitOn(l) ==
  /\ waits[l] > 0
  /\ waits' = [waits EXCEPT ![l] = @ - 1]
  /\ at' = [at EXCEPT ![l] = IF waits[l] = 1 THEN "failed" ELSE "connecting"]
  /\ UNCHANGED <<spawned, peer, tries>>

\* The daemon answers the hello, and its executable is compared.
Greet(l) ==
  /\ at[l] = "greeting"
  /\ stage[peer[l]] \in {"serving", "stopping", "ending"}
  /\ \/ /\ peer[l] \notin Old
        /\ at' = [at EXCEPT ![l] = "connected"]
        /\ UNCHANGED <<spawned, peer, tries, waits>>
     \/ /\ peer[l] \in Old
        /\ waits[l] = 0
        /\ at' = [at EXCEPT ![l] = "closing"]
        /\ UNCHANGED <<spawned, peer, tries, waits>>
     \/ peer[l] \in Old /\ WaitOn(l)
  /\ UNCHANGED <<entry, stage, told, legacy, crashed, crossed>>

\* The hello times out or the connection is closed, or the daemon ended before
\* its executable was looked at.
GreetFails(l) ==
  /\ at[l] = "greeting"
  /\ \/ /\ waits[l] = 0 \/ stage[peer[l]] = "gone"
        /\ Fail(l)
     \/ WaitOn(l)
  /\ UNCHANGED <<entry, stage, told, legacy, crashed, crossed>>

\* For a mutant: an acknowledgement is taken for the end of the daemon.
CloseWithoutWaiting(l) ==
  /\ at[l] = "closing"
  /\ stage[peer[l]] \in {"serving", "stopping", "ending"}
  /\ told' = told \cup {peer[l]}
  /\ at' = [at EXCEPT ![l] = "spawning"]
  /\ UNCHANGED <<entry, stage, legacy, spawned, peer, tries, waits, crashed,
                 crossed>>

\* The daemon acknowledges the Shutdown; then its release is waited for.
Close(l) ==
  /\ at[l] = "closing"
  /\ stage[peer[l]] \in {"serving", "stopping", "ending"}
  /\ told' = told \cup {peer[l]}
  /\ at' = [at EXCEPT ![l] = "connecting"]
  /\ waits' = [waits EXCEPT ![l] = Tries]
  /\ UNCHANGED <<entry, stage, legacy, spawned, peer, tries, crashed, crossed>>

\* The acknowledgement is late or lost: the daemon may have been told.
CloseFails(l) ==
  /\ at[l] = "closing"
  /\ told' \in {told, told \cup {peer[l]}}
  /\ Fail(l)
  /\ UNCHANGED <<entry, stage, legacy, crashed, crossed>>

Spawn(l) ==
  /\ at[l] = "spawning"
  /\ \E d \in Daemons \ Old :
       /\ stage[d] = "off"
       /\ stage' = [stage EXCEPT ![d] = "looking"]
  /\ spawned' = spawned \cup {l}
  /\ tries' = [tries EXCEPT ![l] = Tries]
  /\ at' = [at EXCEPT ![l] = "connecting"]
  /\ UNCHANGED <<entry, told, legacy, peer, waits, crashed, crossed>>

SpawnFails(l) ==
  /\ at[l] = "spawning"
  /\ Fail(l)
  /\ UNCHANGED <<entry, stage, told, legacy, crashed, crossed>>

Launch(l) ==
  \/ RetireLegacy(l) \/ Connect(l) \/ Greet(l) \/ GreetFails(l) \/ Close(l)
  \/ CloseFails(l) \/ Spawn(l) \/ SpawnFails(l)

----------------------------------------------------------------------------
(* The daemon. *)

Goes(d, next) == stage' = [stage EXCEPT ![d] = next]

\* remove_stale_socket: is there a file?
Look(d) ==
  /\ stage[d] = "looking"
  /\ Goes(d, IF entry = NoDaemon THEN "binding" ELSE "trying")
  /\ UNCHANGED <<entry, told, legacy, launch, crashed, crossed>>

\* For a mutant: a daemon that does not serve yet is taken for none.
TryImpatiently(d) ==
  /\ stage[d] = "trying"
  /\ Goes(d, IF Listening(entry) /\ stage[entry] = "serving"
             THEN "gone" ELSE "removing")
  /\ UNCHANGED <<entry, told, legacy, launch, crashed, crossed>>

\* Does anybody listen?  A file that is gone by now is taken for a stale one,
\* and so is that of a daemon that has bound it but does not listen yet.
Try(d) ==
  /\ stage[d] = "trying"
  /\ Goes(d, IF Listening(entry) THEN "gone" ELSE "removing")
  /\ crossed' = (crossed \/ (entry # NoDaemon /\ stage[entry] = "bound"))
  /\ UNCHANGED <<entry, told, legacy, launch, crashed>>

\* The file is removed, whosever it is by now; it is an error if there is none.
RemoveFile(d) ==
  /\ stage[d] = "removing"
  /\ Goes(d, IF entry = NoDaemon THEN "gone" ELSE "binding")
  /\ entry' = NoDaemon
  /\ UNCHANGED <<told, legacy, launch, crashed, crossed>>

\* IpcListener::bind is two system calls.  bind makes the file and fails if it
\* is there; until listen has returned, a connection to it is refused.
Bind(d) ==
  /\ stage[d] = "binding"
  /\ IF entry = NoDaemon
     THEN Goes(d, "bound") /\ entry' = d
     ELSE Goes(d, "gone") /\ UNCHANGED entry
  /\ UNCHANGED <<told, legacy, launch, crashed, crossed>>

Listen(d) ==
  /\ stage[d] = "bound"
  /\ Goes(d, "starting")
  /\ UNCHANGED <<entry, told, legacy, launch, crashed, crossed>>

\* The queue of the account is asked for before the first connection is
\* accepted.
Serve(d) ==
  /\ stage[d] = "starting"
  /\ Goes(d, "serving")
  /\ UNCHANGED <<entry, told, legacy, launch, crashed, crossed>>

\* For a mutant: the daemon waits for its clients to disconnect.
StopWhenAlone(d) ==
  /\ stage[d] = "serving"
  /\ d \in told
  /\ \A l \in Launchers : peer[l] # d
  /\ Goes(d, "stopping")
  /\ UNCHANGED <<entry, told, legacy, launch, crashed, crossed>>

\* The loop sees the Shutdown once its tick has returned.
Stop(d) ==
  /\ stage[d] = "serving"
  /\ d \in told
  /\ Goes(d, "stopping")
  /\ UNCHANGED <<entry, told, legacy, launch, crashed, crossed>>

\* The audio is stopped and the file removed, if there is one.
Leave(d) ==
  /\ stage[d] = "stopping"
  /\ Goes(d, "ending")
  /\ entry' = NoDaemon
  /\ UNCHANGED <<told, legacy, launch, crashed, crossed>>

\* The process ends once its tasks have: until then they answer their clients.
End(d) ==
  /\ stage[d] = "ending"
  /\ Goes(d, "gone")
  /\ UNCHANGED <<entry, told, legacy, launch, crashed, crossed>>

\* An error, a signal or a crash ends the daemon: its file stays.
Crash(d) ==
  /\ stage[d] \notin {"off", "gone"}
  /\ Goes(d, "gone")
  /\ crashed' = (crashed \/ entry = d)
  /\ UNCHANGED <<entry, told, legacy, launch, crossed>>

\* The daemon of the legacy protocol ends some time after it was told to.
LegacyEnds ==
  /\ legacy = "told"
  /\ legacy' = "off"
  /\ UNCHANGED <<entry, stage, told, launch, crashed, crossed>>

Run(d) ==
  \/ Look(d) \/ Try(d) \/ RemoveFile(d) \/ Bind(d) \/ Listen(d)
  \/ Serve(d) \/ Stop(d) \/ Leave(d) \/ End(d)

LauncherNext ==
  \/ \E l \in Launchers : Launch(l)
  \/ \E d \in Daemons : Run(d) \/ Crash(d)
  \/ LegacyEnds

LauncherSpec == LauncherInit /\ [][LauncherNext]_launcherVars

\* Launchers and daemons run, and every request of a launcher has a timeout.
LauncherFairSpec ==
  /\ LauncherSpec
  /\ \A l \in Launchers : WF_launcherVars(Launch(l))
  /\ \A d \in Daemons : WF_launcherVars(Run(d))

----------------------------------------------------------------------------
TypeOK ==
  /\ entry \in Daemons \cup {NoDaemon}
  /\ stage \in [Daemons -> DaemonStages]
  /\ told \subseteq Daemons
  /\ legacy \in {"off", "on", "told"}
  /\ at \in [Launchers -> LaunchStages]
  /\ spawned \subseteq Launchers
  /\ peer \in [Launchers -> Daemons \cup {NoDaemon}]
  /\ tries \in [Launchers -> 0 .. Tries]
  /\ waits \in [Launchers -> 0 .. Tries]
  /\ crashed \in BOOLEAN /\ crossed \in BOOLEAN

\* As long as every daemon removed its own socket file, and none was tried by
\* another between its bind and its listen, a daemon that has bound the file is
\* the one it leads to: no start removes a live socket or binds another over
\* it, however the launchers race, so no two daemons play.
LiveSocketIsKept ==
  ~crashed /\ ~crossed =>
    \A d \in Daemons : Listening(d) \/ stage[d] = "bound" => entry = d

\* A daemon that is replaced gives way before its successor comes.  Once a
\* launcher has started a daemon or returned a client, the old daemon has told
\* its audio to stop and given up its socket file, or its process has ended;
\* and the daemon of a client is not one that any launcher has told to shut
\* down.
HandoverIsClean ==
  /\ \A l \in Launchers : l \in spawned \/ at[l] = "connected" =>
       \A o \in Old : stage[o] \in {"ending", "gone"}
  /\ \A l \in Launchers : at[l] = "connected" => peer[l] \notin told

\* A launcher returns, with a client or an error, whatever the daemons do, and
\* a daemon that has acknowledged a Shutdown ends.
HandoversEnd ==
  /\ \A l \in Launchers : <>(at[l] \in {"connected", "failed"})
  /\ \A d \in Daemons : d \in told ~> stage[d] = "gone"
=============================================================================
