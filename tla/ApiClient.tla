----------------------------- MODULE ApiClient ------------------------------
(***************************************************************************)
(* The client of the music service and the identity it signs with          *)
(* (zerobeat-api/src/client.rs, catalog.rs; zerobeat-security/src).  The    *)
(* first call that needs the service connects: it loads the identity file,  *)
(* or makes one, and has it provisioned.  Each call then takes the next     *)
(* counter, saves it, and only then sends the request that it signed.       *)
(*                                                                         *)
(* A step is what runs between two awaits; a save is one step, since the    *)
(* file is replaced by a rename and what is signed in memory before it is   *)
(* not sent.  A daemon that ends or crashes loses everything but the file.  *)
(* Nothing in the code keeps two daemons from sharing the file: what holds  *)
(* only as long as none do is stated with `overlapped`.                     *)
(***************************************************************************)
EXTENDS Naturals, FiniteSets

CONSTANTS
  Daemons,     \* processes that share a data directory
  Callers,     \* tasks that call the service
  Home,        \* the daemon a caller belongs to
  Installs,    \* install ids with their keys
  Devices,     \* device ids the service may give out
  Nobody,      \* no caller, no identity, no request
  NoDevice,    \* the device id of an identity that was not provisioned
  MaxCounter   \* u64::MAX

ASSUME ApiAssumption ==
  /\ Home \in [Callers -> Daemons]
  /\ Nobody \notin Callers
  /\ NoDevice \notin Devices
  /\ MaxCounter \in Nat

Stages == {"idle", "waiting", "opening", "creating", "challenging",
           "provisioning", "signing", "sending", "answering"}

\* What is stored of an identity; the install id stands for its key.
Identities ==
  [install : Installs, device : Devices \cup {NoDevice},
   counter : 0 .. MaxCounter]
NoIdentity == [install |-> Nobody, device |-> NoDevice, counter |-> 0]

VARIABLES
  file,         \* device.identity
  memory,       \* the identity a daemon's client holds
  connected,    \* daemons whose OnceCell holds a client
  initializer,  \* the caller that fills a daemon's OnceCell
  stage,        \* where a caller is
  signed,       \* the identity and counter in the headers of its request
  sent,         \* every such header that was put on the wire
  overlapped    \* whether two daemons have held an identity at one time

vars == <<file, memory, connected, initializer, stage, signed, sent,
          overlapped>>

Init ==
  /\ file = NoIdentity
  /\ memory = [d \in Daemons |-> NoIdentity]
  /\ connected = {}
  /\ initializer = [d \in Daemons |-> Nobody]
  /\ stage = [c \in Callers |-> "idle"]
  /\ signed = [c \in Callers |-> NoIdentity]
  /\ sent = {}
  /\ overlapped = FALSE

----------------------------------------------------------------------------
\* Whether a daemon has looked at the file and may write it.
Engaged(d) ==
  \/ d \in connected
  \/ \E c \in Callers : /\ initializer[d] = c
                        /\ stage[c] \notin {"idle", "waiting", "opening"}

\* A save that fails may have replaced the file: the rename, what precedes
\* it, or the check of the new file may be what failed.
SaveFails(identity) == file' \in {file, identity}

\* A call of the catalog or of the queue asks for the client.
Ask(c) ==
  /\ stage[c] = "idle"
  /\ stage' = [stage EXCEPT ![c] = IF Home[c] \in connected
                                   THEN "signing" ELSE "waiting"]
  /\ UNCHANGED <<file, memory, connected, initializer, signed, sent,
                 overlapped>>

\* get_or_try_init: a caller that waits finds the client another made, or
\* makes it while nobody else does.
Await(c) ==
  /\ stage[c] = "waiting"
  /\ \/ /\ Home[c] \in connected
        /\ stage' = [stage EXCEPT ![c] = "signing"]
        /\ UNCHANGED initializer
     \/ /\ Home[c] \notin connected
        /\ initializer[Home[c]] = Nobody
        /\ initializer' = [initializer EXCEPT ![Home[c]] = c]
        /\ stage' = [stage EXCEPT ![c] = "opening"]
  /\ UNCHANGED <<file, memory, connected, signed, sent, overlapped>>

\* For a mutant: the permit to connect is not given back.
GiveUpKeepsPermit(c) ==
  /\ stage' = [stage EXCEPT ![c] = "idle"]
  /\ memory' = [memory EXCEPT ![Home[c]] = NoIdentity]
  /\ UNCHANGED <<connected, initializer, signed, sent, overlapped>>

\* The connection fails: the client is dropped, and the next caller tries.
GiveUp(c) ==
  /\ stage' = [stage EXCEPT ![c] = "idle"]
  /\ initializer' = [initializer EXCEPT ![Home[c]] = Nobody]
  /\ memory' = [memory EXCEPT ![Home[c]] = NoIdentity]
  /\ UNCHANGED <<connected, signed, sent, overlapped>>

\* The connection is made; the caller that made it goes on with its call.
Connect(c) ==
  /\ stage' = [stage EXCEPT ![c] = "signing"]
  /\ initializer' = [initializer EXCEPT ![Home[c]] = Nobody]
  /\ connected' = connected \cup {Home[c]}

\* For a mutant: a file is taken for a credential.
OpenTrustsFile(c) ==
  LET d == Home[c] IN
  /\ stage[c] = "opening"
  /\ overlapped' = (overlapped \/ \E e \in Daemons \ {d} : Engaged(e))
  /\ memory' = [memory EXCEPT ![d] = file]
  /\ IF file # NoIdentity
     THEN Connect(c)
     ELSE /\ stage' = [stage EXCEPT ![c] = "creating"]
          /\ UNCHANGED <<connected, initializer>>
  /\ UNCHANGED <<file, signed, sent>>

\* load_or_create looks for the file, and reads it if it is there.
Open(c) ==
  LET d == Home[c] IN
  /\ stage[c] = "opening"
  /\ overlapped' = (overlapped \/ \E e \in Daemons \ {d} : Engaged(e))
  /\ memory' = [memory EXCEPT ![d] = file]
  /\ IF file # NoIdentity /\ file.device # NoDevice
     THEN Connect(c)
     ELSE /\ stage' = [stage EXCEPT ![c] = IF file = NoIdentity
                                           THEN "creating" ELSE "challenging"]
          /\ UNCHANGED <<connected, initializer>>
  /\ UNCHANGED <<file, signed, sent>>

\* For a mutant: an identity that cannot be read is replaced by a new one.
OpenFailsRecreates(c) ==
  /\ stage[c] = "opening"
  /\ file # NoIdentity
  /\ stage' = [stage EXCEPT ![c] = "creating"]
  /\ UNCHANGED <<file, memory, connected, initializer, signed, sent,
                 overlapped>>

\* The file is unsafe, or cannot be read.
OpenFails(c) ==
  /\ stage[c] = "opening"
  /\ file # NoIdentity
  /\ UNCHANGED file
  /\ GiveUp(c)

\* The install id and the key of a new identity are random.
Fresh(i) ==
  /\ i # file.install
  /\ \A d \in Daemons : i # memory[d].install
  /\ \A s \in sent : i # s.install

Create(c) ==
  /\ stage[c] = "creating"
  /\ \E i \in Installs :
       LET new == [install |-> i, device |-> NoDevice, counter |-> 0] IN
       /\ Fresh(i)
       /\ \/ /\ file' = new
             /\ memory' = [memory EXCEPT ![Home[c]] = new]
             /\ stage' = [stage EXCEPT ![c] = "challenging"]
             /\ UNCHANGED <<connected, initializer, signed, sent, overlapped>>
          \/ SaveFails(new) /\ GiveUp(c)

\* The service answers with a challenge for the key to sign.
Challenge(c) ==
  /\ stage[c] = "challenging"
  /\ stage' = [stage EXCEPT ![c] = "provisioning"]
  /\ UNCHANGED <<file, memory, connected, initializer, signed, sent,
                 overlapped>>

\* Either request of the provisioning is refused, lost or not understood.
ProvisionFails(c) ==
  /\ stage[c] \in {"challenging", "provisioning"}
  /\ UNCHANGED file
  /\ GiveUp(c)

\* bind_credential: the service gave the key a device id, perhaps one it had
\* given it before.
Bind(c) ==
  /\ stage[c] = "provisioning"
  /\ \E v \in Devices :
       LET bound == [install |-> memory[Home[c]].install, device |-> v,
                     counter |-> 0]
       IN
       \/ /\ file' = bound
          /\ memory' = [memory EXCEPT ![Home[c]] = bound]
          /\ Connect(c)
          /\ UNCHANGED <<signed, sent, overlapped>>
       \/ SaveFails(bound) /\ GiveUp(c)

\* For a mutant: a request is sent although its counter was not saved.
SignIgnoresSaveError(c) ==
  LET d == Home[c]
      next == [memory[d] EXCEPT !.counter = @ + 1]
  IN
  /\ stage[c] = "signing"
  /\ memory[d].device # NoDevice
  /\ memory[d].counter < MaxCounter
  /\ memory' = [memory EXCEPT ![d] = next]
  /\ SaveFails(next)
  /\ signed' = [signed EXCEPT ![c] = next]
  /\ stage' = [stage EXCEPT ![c] = "sending"]
  /\ UNCHANGED <<connected, initializer, sent, overlapped>>

\* A call that has its client signs under the lock of the identity: the
\* counter is taken and saved, or the call fails with the counter taken.
Sign(c) ==
  LET d == Home[c]
      next == [memory[d] EXCEPT !.counter = @ + 1]
  IN
  /\ stage[c] = "signing"
  /\ memory[d].device # NoDevice
  /\ memory[d].counter < MaxCounter
  /\ memory' = [memory EXCEPT ![d] = next]
  /\ \/ /\ file' = next
        /\ signed' = [signed EXCEPT ![c] = next]
        /\ stage' = [stage EXCEPT ![c] = "sending"]
     \/ /\ SaveFails(next)
        /\ stage' = [stage EXCEPT ![c] = "idle"]
        /\ UNCHANGED signed
  /\ UNCHANGED <<connected, initializer, sent, overlapped>>

\* No credential, a counter at its end, or a clock before the epoch.
SignFails(c) ==
  /\ stage[c] = "signing"
  /\ stage' = [stage EXCEPT ![c] = "idle"]
  /\ UNCHANGED <<file, memory, connected, initializer, signed, sent,
                 overlapped>>

\* The request goes out, once: no failure is followed by another attempt.
Send(c) ==
  /\ stage[c] = "sending"
  /\ sent' = sent \cup {signed[c]}
  /\ stage' = [stage EXCEPT ![c] = "answering"]
  /\ UNCHANGED <<file, memory, connected, initializer, signed, overlapped>>

\* The call returns: an answer, a rejection, something that is not understood,
\* a timeout, or no connection at all.
Return(c) ==
  /\ stage[c] \in {"sending", "answering"}
  /\ stage' = [stage EXCEPT ![c] = "idle"]
  /\ signed' = [signed EXCEPT ![c] = NoIdentity]
  /\ UNCHANGED <<file, memory, connected, initializer, sent, overlapped>>

\* A daemon ends, or crashes, at any step, and its successor starts.
Restart(d) ==
  /\ memory' = [memory EXCEPT ![d] = NoIdentity]
  /\ connected' = connected \ {d}
  /\ initializer' = [initializer EXCEPT ![d] = Nobody]
  /\ stage' = [c \in Callers |-> IF Home[c] = d THEN "idle" ELSE stage[c]]
  /\ signed' = [c \in Callers |->
                  IF Home[c] = d THEN NoIdentity ELSE signed[c]]
  /\ UNCHANGED <<file, sent, overlapped>>

Call(c) ==
  \/ Await(c) \/ Open(c) \/ OpenFails(c) \/ Create(c) \/ Challenge(c)
  \/ ProvisionFails(c) \/ Bind(c) \/ Sign(c) \/ SignFails(c) \/ Send(c)
  \/ Return(c)

Next ==
  \/ \E c \in Callers : Ask(c) \/ Call(c)
  \/ \E d \in Daemons : Restart(d)

Spec == Init /\ [][Next]_vars

\* Requests have timeouts, and the semaphore of a OnceCell is first come,
\* first served, so a call that was made proceeds.
FairSpec == Spec /\ \A c \in Callers : SF_vars(Call(c))

----------------------------------------------------------------------------
TypeOK ==
  /\ file \in Identities \cup {NoIdentity}
  /\ memory \in [Daemons -> Identities \cup {NoIdentity}]
  /\ connected \subseteq Daemons
  /\ initializer \in [Daemons -> Callers \cup {Nobody}]
  /\ stage \in [Callers -> Stages]
  /\ signed \in [Callers -> Identities \cup {NoIdentity}]
  /\ sent \subseteq Identities
  /\ overlapped \in BOOLEAN

\* No two requests carry one counter under one credential: not after a crash
\* between the save and the request, a save that failed, a provisioning that
\* was repeated or a restart.  A counter that was used is on disk, so that a
\* daemon that starts goes on after it.  Unless two daemons shared the file.
CountersAreFresh ==
  ~overlapped =>
    /\ \A c \in Callers : stage[c] = "sending" =>
         /\ signed[c] \notin sent
         /\ \A o \in Callers \ {c} :
              stage[o] = "sending" => signed[o] # signed[c]
    /\ \A s \in sent \cup {signed[c] : c \in {o \in Callers :
                                               stage[o] = "sending"}} :
         /\ s.install = file.install /\ s.device = file.device
         /\ s.counter \in 1 .. file.counter

\* Whatever failed on the way, a client that is shared has a credential: no
\* call of it ever fails as not provisioned.
ConnectedIsProvisioned ==
  \A d \in connected : memory[d].device # NoDevice

\* A credential, once on disk, is never given up or replaced by another.
CredentialIsKept ==
  [][file.device # NoDevice /\ ~overlapped' =>
       file'.install = file.install /\ file'.device = file.device]_vars

\* A call returns, also when the connection it waits for is given up by the
\* call that was making it.
CallsReturn == \A c \in Callers : stage[c] # "idle" ~> stage[c] = "idle"
=============================================================================
