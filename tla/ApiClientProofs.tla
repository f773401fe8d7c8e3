--------------------------- MODULE ApiClientProofs ---------------------------
(***************************************************************************)
(* Proofs about ApiClient, for any number of daemons, callers, installs and *)
(* devices and any largest counter.                                         *)
(*                                                                         *)
(* The argument: one caller at a time connects a daemon, and calls go on    *)
(* only in a daemon that is connected.  As long as no two daemons held an   *)
(* identity at one time, the file is behind what the daemon has in memory,  *)
(* and ahead of every counter that was used.                                *)
(***************************************************************************)
EXTENDS ApiClient, TLAPS

Connecting == {"opening", "creating", "challenging", "provisioning"}

\* The OnceCell: one caller connects its daemon, or it is connected.
Ownership ==
  /\ \A d \in Daemons : initializer[d] # Nobody =>
       /\ Home[initializer[d]] = d
       /\ stage[initializer[d]] \in Connecting
  /\ \A c \in Callers :
       /\ stage[c] \in Connecting =>
            initializer[Home[c]] = c /\ Home[c] \notin connected
       /\ stage[c] \in {"signing", "sending", "answering"} =>
            Home[c] \in connected

\* What a caller has in hand is an identity.
Credentials ==
  /\ \A d \in connected :
       memory[d] \in Identities /\ memory[d].device # NoDevice
  /\ \A c \in Callers :
       /\ stage[c] \in {"challenging", "provisioning"} =>
            memory[Home[c]] \in Identities
       /\ stage[c] = "sending" =>
            signed[c] \in Identities /\ signed[c].device # NoDevice
  /\ \A s \in sent : s.device # NoDevice

\* One daemon has looked at the file, and the file is as it saw it or made it.
Alone ==
  ~overlapped =>
    /\ \A d, e \in Daemons : Engaged(d) /\ Engaged(e) => d = e
    /\ \A d \in connected : /\ file.install = memory[d].install
                            /\ file.device = memory[d].device
                            /\ file.counter <= memory[d].counter
    /\ \A c \in Callers :
         /\ stage[c] = "creating" => file = NoIdentity
         /\ stage[c] \in {"challenging", "provisioning"} =>
              file = memory[Home[c]] /\ file.device = NoDevice

Saved(s) ==
  /\ s.install = file.install
  /\ s.device = file.device
  /\ s.counter \in 1 .. file.counter

\* What was used is on disk, and was used once.
UsedOnce ==
  ~overlapped =>
    /\ \A s \in sent : Saved(s)
    /\ \A c \in Callers : stage[c] = "sending" =>
         /\ Saved(signed[c])
         /\ signed[c] \notin sent
         /\ \A o \in Callers \ {c} :
              stage[o] = "sending" => signed[o] # signed[c]

Inv == TypeOK /\ Ownership /\ Credentials /\ Alone /\ UsedOnce

----------------------------------------------------------------------------
LEMMA Initially == Init => Inv
<1> SUFFICES ASSUME Init PROVE Inv
  OBVIOUS
<1> USE ApiAssumption DEF ApiAssumption, Init, NoIdentity
<1>1. TypeOK
  BY DEF TypeOK, Stages
<1>2. Ownership /\ Credentials
  BY DEF Ownership, Credentials, Connecting
<1>3. Alone /\ UsedOnce
  BY DEF Alone, UsedOnce, Engaged, Saved
<1> QED
  BY <1>1, <1>2, <1>3 DEF Inv

\* The types, by action.
LEMMA TypeKept == Inv /\ [Next]_vars => TypeOK'
<1> SUFFICES ASSUME Inv, [Next]_vars PROVE TypeOK'
  OBVIOUS
<1> USE ApiAssumption DEF ApiAssumption, Inv, TypeOK, NoIdentity
<1>1. ASSUME NEW c \in Callers, Ask(c) \/ Await(c) PROVE TypeOK'
  BY <1>1 DEF Ask, Await, Stages
<1>2. ASSUME NEW c \in Callers, Open(c) \/ OpenFails(c) PROVE TypeOK'
  <2>1. overlapped' \in BOOLEAN
    <3>1. CASE Open(c)
      <4>1. overlapped' = (overlapped \/
                             \E e \in Daemons \ {Home[c]} : Engaged(e))
        BY <3>1 DEF Open
      <4> HIDE DEF TypeOK, Inv
      <4> QED
        BY <4>1
    <3>2. CASE OpenFails(c)
      BY <3>2 DEF OpenFails, GiveUp
    <3> QED
      BY <1>2, <3>1, <3>2
  <2>2. /\ file' \in Identities \cup {NoIdentity}
        /\ memory' \in [Daemons -> Identities \cup {NoIdentity}]
        /\ connected' \subseteq Daemons
        /\ initializer' \in [Daemons -> Callers \cup {Nobody}]
        /\ stage' \in [Callers -> Stages]
        /\ UNCHANGED <<signed, sent>>
    BY <1>2 DEF Open, OpenFails, GiveUp, Connect, Stages
  <2> QED
    BY <2>1, <2>2
<1>3. ASSUME NEW c \in Callers, Create(c) PROVE TypeOK'
  <2>1. PICK i \in Installs :
          LET new == [install |-> i, device |-> NoDevice, counter |-> 0] IN
          \/ /\ file' = new
             /\ memory' = [memory EXCEPT ![Home[c]] = new]
             /\ stage' = [stage EXCEPT ![c] = "challenging"]
             /\ UNCHANGED <<connected, initializer, signed, sent, overlapped>>
          \/ SaveFails(new) /\ GiveUp(c)
    BY <1>3 DEF Create
  <2>2. [install |-> i, device |-> NoDevice, counter |-> 0] \in Identities
    BY DEF Identities
  <2> QED
    BY <2>1, <2>2 DEF SaveFails, GiveUp, Stages
<1>4. ASSUME NEW c \in Callers, Challenge(c) \/ ProvisionFails(c)
      PROVE  TypeOK'
  BY <1>4 DEF Challenge, ProvisionFails, GiveUp, Stages
<1>5. ASSUME NEW c \in Callers, Bind(c) PROVE TypeOK'
  <2>1. PICK v \in Devices :
          LET bound == [install |-> memory[Home[c]].install, device |-> v,
                        counter |-> 0]
          IN
          \/ /\ file' = bound
             /\ memory' = [memory EXCEPT ![Home[c]] = bound]
             /\ Connect(c)
             /\ UNCHANGED <<signed, sent, overlapped>>
          \/ SaveFails(bound) /\ GiveUp(c)
    BY <1>5 DEF Bind
  <2>2. memory[Home[c]] \in Identities
    BY <1>5 DEF Bind, Credentials
  <2>3. [install |-> memory[Home[c]].install, device |-> v, counter |-> 0]
          \in Identities
    BY <2>2 DEF Identities
  <2> QED
    BY <2>1, <2>3 DEF SaveFails, GiveUp, Connect, Stages
<1>6. ASSUME NEW c \in Callers, Sign(c) \/ SignFails(c) PROVE TypeOK'
  BY <1>6 DEF Sign, SignFails, Ownership, Credentials, SaveFails, Stages,
    Identities
<1>7. ASSUME NEW c \in Callers, Send(c) \/ Return(c) PROVE TypeOK'
  BY <1>7 DEF Send, Return, Credentials, Stages
<1>8. ASSUME NEW d \in Daemons, Restart(d) PROVE TypeOK'
  BY <1>8 DEF Restart, Stages
<1>9. CASE UNCHANGED vars
  BY <1>9 DEF vars
<1> QED
  BY <1>1, <1>2, <1>3, <1>4, <1>5, <1>6, <1>7, <1>8, <1>9 DEF Next, Call

\* Who connects and who is connected, by action.
LEMMA OwnershipKept == Inv /\ [Next]_vars => Ownership'
<1> SUFFICES ASSUME Inv, [Next]_vars PROVE Ownership'
  OBVIOUS
<1> USE ApiAssumption
    DEF ApiAssumption, Inv, TypeOK, Ownership, Connecting
<1>1. ASSUME NEW c \in Callers, Ask(c) \/ Await(c) PROVE Ownership'
  BY <1>1 DEF Ask, Await
<1>2. ASSUME NEW c \in Callers, Open(c) \/ OpenFails(c) PROVE Ownership'
  BY <1>2 DEF Open, OpenFails, GiveUp, Connect
<1>3. ASSUME NEW c \in Callers, Create(c) PROVE Ownership'
  BY <1>3 DEF Create, SaveFails, GiveUp
<1>4. ASSUME NEW c \in Callers, Challenge(c) \/ ProvisionFails(c)
      PROVE  Ownership'
  BY <1>4 DEF Challenge, ProvisionFails, GiveUp
<1>5. ASSUME NEW c \in Callers, Bind(c) PROVE Ownership'
  BY <1>5 DEF Bind, SaveFails, GiveUp, Connect
<1>6. ASSUME NEW c \in Callers, Sign(c) \/ SignFails(c) PROVE Ownership'
  BY <1>6 DEF Sign, SignFails
<1>7. ASSUME NEW c \in Callers, Send(c) \/ Return(c) PROVE Ownership'
  BY <1>7 DEF Send, Return
<1>8. ASSUME NEW d \in Daemons, Restart(d) PROVE Ownership'
  BY <1>8 DEF Restart
<1>9. CASE UNCHANGED vars
  BY <1>9 DEF vars
<1> QED
  BY <1>1, <1>2, <1>3, <1>4, <1>5, <1>6, <1>7, <1>8, <1>9 DEF Next, Call

\* What a caller has in hand, by action.
LEMMA CredentialsKept == Inv /\ [Next]_vars => Credentials'
<1> SUFFICES ASSUME Inv, [Next]_vars PROVE Credentials'
  OBVIOUS
<1> USE ApiAssumption
    DEF ApiAssumption, Inv, TypeOK, Ownership, Connecting, Credentials
<1>1. ASSUME NEW c \in Callers, Ask(c) \/ Await(c) PROVE Credentials'
  BY <1>1 DEF Ask, Await
<1>2. ASSUME NEW c \in Callers, Open(c) PROVE Credentials'
  BY <1>2 DEF Open, Connect, NoIdentity
<1>3. ASSUME NEW c \in Callers, GiveUp(c), stage[c] \in Connecting
      PROVE  Credentials'
  BY <1>3 DEF GiveUp
<1>4. ASSUME NEW c \in Callers, Create(c) PROVE Credentials'
  <2>1. PICK i \in Installs :
          LET new == [install |-> i, device |-> NoDevice, counter |-> 0] IN
          \/ /\ file' = new
             /\ memory' = [memory EXCEPT ![Home[c]] = new]
             /\ stage' = [stage EXCEPT ![c] = "challenging"]
             /\ UNCHANGED <<connected, initializer, signed, sent, overlapped>>
          \/ GiveUp(c)
    BY <1>4 DEF Create
  <2>2. [install |-> i, device |-> NoDevice, counter |-> 0] \in Identities
    BY DEF Identities
  <2>3. stage[c] \in Connecting
    BY <1>4 DEF Create
  <2>4. CASE GiveUp(c)
    BY <1>3, <2>3, <2>4
  <2> QED
    BY <2>1, <2>2, <2>3, <2>4
<1>5. ASSUME NEW c \in Callers, Challenge(c) PROVE Credentials'
  BY <1>5 DEF Challenge
<1>6. ASSUME NEW c \in Callers, Bind(c) PROVE Credentials'
  <2>1. PICK v \in Devices :
          LET bound == [install |-> memory[Home[c]].install, device |-> v,
                        counter |-> 0]
          IN
          \/ /\ memory' = [memory EXCEPT ![Home[c]] = bound]
             /\ Connect(c)
             /\ UNCHANGED <<signed, sent, overlapped>>
          \/ GiveUp(c)
    BY <1>6 DEF Bind
  <2>2. stage[c] \in Connecting /\ memory[Home[c]] \in Identities
    BY <1>6 DEF Bind
  <2>3. [install |-> memory[Home[c]].install, device |-> v, counter |-> 0]
          \in Identities
    BY <2>2 DEF Identities
  <2>4. CASE GiveUp(c)
    BY <1>3, <2>2, <2>4
  <2> QED
    BY <2>1, <2>2, <2>3, <2>4 DEF Connect
<1>7. ASSUME NEW c \in Callers, Sign(c) \/ SignFails(c) PROVE Credentials'
  BY <1>7 DEF Sign, SignFails, Identities
<1>8. ASSUME NEW c \in Callers, Send(c) \/ Return(c) PROVE Credentials'
  BY <1>8 DEF Send, Return
<1>9. ASSUME NEW d \in Daemons, Restart(d) PROVE Credentials'
  BY <1>9 DEF Restart
<1>10. CASE UNCHANGED vars
  BY <1>10 DEF vars
<1> QED
  BY <1>1, <1>2, <1>3, <1>4, <1>5, <1>6, <1>7, <1>8, <1>9, <1>10
  DEF Next, Call, OpenFails, ProvisionFails

\* The file and the memory of the one daemon that looked at it, by action.
LEMMA AloneKept == Inv /\ [Next]_vars => Alone'
<1> SUFFICES ASSUME Inv, [Next]_vars, ~overlapped' PROVE Alone'
  BY DEF Alone
<1> USE ApiAssumption
    DEF ApiAssumption, Inv, TypeOK, Ownership, Connecting, Alone, Engaged
<1>1. ASSUME NEW c \in Callers, Ask(c) \/ Await(c) PROVE Alone'
  BY <1>1 DEF Ask, Await
<1>2. ASSUME NEW c \in Callers, Open(c) PROVE Alone'
  <2>1. /\ ~overlapped
        /\ \A e \in Daemons \ {Home[c]} : ~Engaged(e)
    BY <1>2 DEF Open
  <2>2. /\ \A e \in Daemons \ {Home[c]} : ~Engaged(e)'
        /\ \A o \in Callers :
             stage'[o] \in Connecting \ {"opening"} => o = c
        /\ file' = file /\ memory'[Home[c]] = file
        /\ \A d \in connected' : d = Home[c]
    BY <1>2, <2>1 DEF Open, Connect
  <2>3. /\ stage'[c] = "creating" => file = NoIdentity
        /\ stage'[c] \in {"challenging", "provisioning"} =>
             file.device = NoDevice
    BY <1>2 DEF Open, Connect, Identities
  <2>4. file'.counter <= file.counter
    BY <2>2 DEF Identities, NoIdentity
  <2> QED
    BY <2>2, <2>3, <2>4
<1>3. ASSUME NEW c \in Callers, GiveUp(c), ~overlapped,
             \/ stage[c] \in Connecting /\ UNCHANGED file
             \/ stage[c] \in Connecting \ {"opening"}
      PROVE  Alone'
  BY <1>3 DEF GiveUp
<1>4. ASSUME NEW c \in Callers, Create(c) PROVE Alone'
  <2>1. PICK i \in Installs :
          LET new == [install |-> i, device |-> NoDevice, counter |-> 0] IN
          \/ /\ file' = new
             /\ memory' = [memory EXCEPT ![Home[c]] = new]
             /\ stage' = [stage EXCEPT ![c] = "challenging"]
             /\ UNCHANGED <<connected, initializer, signed, sent, overlapped>>
          \/ GiveUp(c)
    BY <1>4 DEF Create
  <2>2. stage[c] = "creating" /\ ~overlapped
    BY <1>4 DEF Create, GiveUp
  <2>3. CASE GiveUp(c)
    BY <1>3, <2>2, <2>3
  <2> QED
    BY <2>1, <2>2, <2>3
<1>5. ASSUME NEW c \in Callers, Challenge(c) PROVE Alone'
  BY <1>5 DEF Challenge
<1>6. ASSUME NEW c \in Callers, Bind(c) PROVE Alone'
  <2>1. PICK v \in Devices :
          LET bound == [install |-> memory[Home[c]].install, device |-> v,
                        counter |-> 0]
          IN
          \/ /\ file' = bound
             /\ memory' = [memory EXCEPT ![Home[c]] = bound]
             /\ Connect(c)
             /\ UNCHANGED <<signed, sent, overlapped>>
          \/ GiveUp(c)
    BY <1>6 DEF Bind
  <2>2. stage[c] = "provisioning" /\ ~overlapped
    BY <1>6 DEF Bind, GiveUp
  <2>3. CASE GiveUp(c)
    BY <1>3, <2>2, <2>3
  <2> QED
    BY <2>1, <2>2, <2>3 DEF Connect
<1>7. ASSUME NEW c \in Callers, Sign(c) PROVE Alone'
  <2>1. /\ ~overlapped /\ stage[c] = "signing" /\ Home[c] \in connected
        /\ memory[Home[c]] \in Identities
    BY <1>7 DEF Sign, Credentials
  <2>2. PICK next : next = [memory[Home[c]] EXCEPT !.counter = @ + 1]
    OBVIOUS
  <2>3. /\ UNCHANGED <<connected, initializer>>
        /\ memory' = [memory EXCEPT ![Home[c]] = next]
        /\ file' \in {file, next}
        /\ \A o \in Callers : stage'[o] = stage[o] \/
             (o = c /\ stage'[o] \notin Connecting)
    BY <1>7, <2>2 DEF Sign, SaveFails
  <2>4. /\ \A e \in Daemons : Engaged(e)' <=> Engaged(e)
        /\ \A d \in connected : d = Home[c]
        /\ \A o \in Callers : stage[o] \notin Connecting \ {"opening"}
    BY <2>1, <2>3
  <2>5. /\ next.install = memory[Home[c]].install
        /\ next.device = memory[Home[c]].device
        /\ next.counter = memory[Home[c]].counter + 1
        /\ memory[Home[c]].counter \in Nat /\ file.counter \in Nat
    BY <2>1, <2>2 DEF Identities, NoIdentity
  <2>6. /\ memory'[Home[c]] = next
        /\ file'.install = next.install /\ file'.device = next.device
        /\ file'.counter <= next.counter
    BY <2>1, <2>3, <2>5
  <2> QED
    BY <2>3, <2>4, <2>6
<1>8. ASSUME NEW c \in Callers, SignFails(c) \/ Send(c) \/ Return(c)
      PROVE  Alone'
  BY <1>8 DEF SignFails, Send, Return
<1>9. ASSUME NEW d \in Daemons, Restart(d) PROVE Alone'
  BY <1>9 DEF Restart
<1>10. ASSUME NEW c \in Callers, OpenFails(c) \/ ProvisionFails(c)
       PROVE  Alone'
  <2>1. /\ GiveUp(c) /\ ~overlapped /\ UNCHANGED file
        /\ stage[c] \in Connecting
    BY <1>10 DEF OpenFails, ProvisionFails, GiveUp
  <2> QED
    BY <1>3, <2>1
<1>11. CASE UNCHANGED vars
  BY <1>11 DEF vars
<1> QED
  BY <1>1, <1>2, <1>4, <1>5, <1>6, <1>7, <1>8, <1>9, <1>10, <1>11
  DEF Next, Call

\* What was used, by action.
LEMMA UsedOnceKept == Inv /\ [Next]_vars => UsedOnce'
<1> SUFFICES ASSUME Inv, [Next]_vars, ~overlapped' PROVE UsedOnce'
  BY DEF UsedOnce
<1> USE ApiAssumption DEF ApiAssumption, Inv, TypeOK, UsedOnce
<1>1. ~overlapped
  BY DEF Next, Call, Ask, Await, Open, OpenFails, Create, Challenge,
    ProvisionFails, Bind, Sign, SignFails, Send, Return, Restart, GiveUp, vars
\* While the file has no credential, nothing was used.
<1>2. ASSUME file.device = NoDevice
      PROVE  sent = {} /\ \A c \in Callers : stage[c] # "sending"
  BY <1>1, <1>2 DEF Saved, Credentials
<1>3. ASSUME sent' = sent, signed' = signed, file' = file,
             \A c \in Callers : stage'[c] = "sending" => stage[c] = "sending"
      PROVE  UsedOnce'
  BY <1>1, <1>3 DEF Saved
<1>4. ASSUME sent' = {}, \A c \in Callers : stage'[c] # "sending"
      PROVE  UsedOnce'
  BY <1>4
<1>5. ASSUME NEW c \in Callers, Create(c) PROVE UsedOnce'
  <2>1. file.device = NoDevice
    BY <1>1, <1>5 DEF Create, Alone, NoIdentity
  <2>2. sent' = sent /\ \A o \in Callers : stage'[o] # "sending"
    BY <1>2, <1>5, <2>1 DEF Create, GiveUp
  <2> QED
    BY <1>2, <1>4, <2>1, <2>2
<1>6. ASSUME NEW c \in Callers, Bind(c) PROVE UsedOnce'
  <2>1. file.device = NoDevice
    BY <1>1, <1>6 DEF Bind, Alone
  <2>2. sent' = sent /\ \A o \in Callers : stage'[o] # "sending"
    BY <1>2, <1>6, <2>1 DEF Bind, GiveUp, Connect
  <2> QED
    BY <1>2, <1>4, <2>1, <2>2
<1>7. ASSUME NEW c \in Callers, Sign(c) PROVE UsedOnce'
  <2>0. PICK next : next = [memory[Home[c]] EXCEPT !.counter = @ + 1]
    OBVIOUS
  <2>1. /\ Home[c] \in connected /\ memory[Home[c]] \in Identities
        /\ file.install = memory[Home[c]].install
        /\ file.device = memory[Home[c]].device
        /\ file.counter <= memory[Home[c]].counter
    BY <1>1, <1>7 DEF Sign, Ownership, Credentials, Alone
  <2>2. /\ memory[Home[c]].counter \in Nat /\ file.counter \in Nat
        /\ next.counter = memory[Home[c]].counter + 1
        /\ next.install = file.install /\ next.device = file.device
    BY <2>0, <2>1 DEF Identities, NoIdentity
  <2>3. CASE stage'[c] = "sending"
    <3>1. /\ file' = next /\ signed' = [signed EXCEPT ![c] = next]
          /\ stage' = [stage EXCEPT ![c] = "sending"] /\ sent' = sent
      BY <1>7, <2>0, <2>3 DEF Sign
    <3>2. \A s : Saved(s) => Saved(s)' /\ s.counter < next.counter
      BY <2>1, <2>2, <3>1 DEF Saved
    <3>3. Saved(next)'
      BY <2>2, <3>1 DEF Saved
    <3>4. \A s : Saved(s) => s # next
      BY <2>2, <3>2
    <3> QED
      BY <1>1, <3>1, <3>2, <3>3, <3>4 DEF Saved
  <2>4. CASE stage'[c] # "sending"
    <3>1. /\ file' \in {file, next} /\ signed' = signed /\ sent' = sent
          /\ \A o \in Callers : stage'[o] = "sending" => stage[o] = "sending"
      BY <1>7, <2>0, <2>4 DEF Sign, SaveFails
    <3>2. \A s : Saved(s) => Saved(s)'
      BY <2>1, <2>2, <3>1 DEF Saved
    <3> QED
      BY <1>1, <3>1, <3>2
  <2> QED
    BY <2>3, <2>4
<1>8. ASSUME NEW c \in Callers, Send(c) PROVE UsedOnce'
  BY <1>1, <1>8 DEF Send, Saved
<1>9. ASSUME NEW c \in Callers, Return(c) PROVE UsedOnce'
  BY <1>1, <1>9 DEF Return, Saved
<1>10. ASSUME NEW d \in Daemons, Restart(d) PROVE UsedOnce'
  BY <1>1, <1>10 DEF Restart, Saved
<1>11. ASSUME NEW c \in Callers,
              \/ Ask(c) \/ Await(c) \/ Open(c) \/ OpenFails(c)
              \/ Challenge(c) \/ ProvisionFails(c) \/ SignFails(c)
       PROVE  UsedOnce'
  BY <1>3, <1>11 DEF Ask, Await, Open, OpenFails, Challenge, ProvisionFails,
    SignFails, GiveUp, Connect
<1>12. CASE UNCHANGED vars
  BY <1>3, <1>12 DEF vars
<1> QED
  BY <1>5, <1>6, <1>7, <1>8, <1>9, <1>10, <1>11, <1>12 DEF Next, Call

----------------------------------------------------------------------------
\* In every state reached: one caller connects a daemon at a time, the file is
\* the one daemon's, and holds every counter that was used.
THEOREM Invariance == Spec => []Inv
<1>1. Inv /\ [Next]_vars => Inv'
  BY TypeKept, OwnershipKept, CredentialsKept, AloneKept, UsedOnceKept
  DEF Inv
<1> QED
  BY Initially, <1>1, PTL DEF Spec

\* What the client holds, stores and sends has the shape the code gives it.
THEOREM TypeCorrect == Spec => []TypeOK
<1>1. Inv => TypeOK
  BY DEF Inv
<1> QED
  BY Invariance, <1>1, PTL

\* A client that is shared has a credential, so that no call fails for want
\* of one: a connection that failed on the way leaves no client behind.
THEOREM ConnectedProvisioned == Spec => []ConnectedIsProvisioned
<1>1. Inv => ConnectedIsProvisioned
  BY DEF Inv, Credentials, ConnectedIsProvisioned
<1> QED
  BY Invariance, <1>1, PTL

\* No counter is used twice under one credential, and every one that was used
\* is on disk, across crashes, failed saves and repeated provisioning, as long
\* as no two daemons shared the file.
THEOREM CountersFresh == Spec => []CountersAreFresh
<1>1. Inv => CountersAreFresh
  <2> SUFFICES ASSUME Inv, ~overlapped PROVE CountersAreFresh
    BY DEF CountersAreFresh
  <2> USE DEF Inv, UsedOnce, Saved
  <2>1. \A c \in Callers : stage[c] = "sending" =>
          /\ signed[c] \notin sent
          /\ \A o \in Callers \ {c} :
               stage[o] = "sending" => signed[o] # signed[c]
    OBVIOUS
  <2>2. ASSUME NEW s \in sent \cup {signed[c] : c \in {o \in Callers :
                                                  stage[o] = "sending"}}
        PROVE  Saved(s)
    <3>1. CASE s \in sent
      BY <3>1
    <3>2. ASSUME NEW c \in Callers, stage[c] = "sending", s = signed[c]
          PROVE  Saved(s)
      BY <3>2
    <3> QED
      BY <2>2, <3>1, <3>2
  <2> QED
    BY <2>1, <2>2 DEF CountersAreFresh
<1> QED
  BY Invariance, <1>1, PTL

\* A credential on disk is neither given up nor replaced, by no connection,
\* save or restart, as long as no two daemons shared the file.
THEOREM CredentialKept == Spec => CredentialIsKept
<1>1. ASSUME Inv, [Next]_vars, file.device # NoDevice, ~overlapped'
      PROVE  file'.install = file.install /\ file'.device = file.device
  <2> USE ApiAssumption DEF ApiAssumption
  <2>1. ~overlapped
    BY <1>1 DEF Inv, TypeOK, Next, Call, Ask, Await, Open, OpenFails, Create,
      Challenge, ProvisionFails, Bind, Sign, SignFails, Send, Return, Restart,
      GiveUp, vars
  <2>2. ASSUME NEW c \in Callers PROVE ~Create(c) /\ ~Bind(c)
    BY <1>1, <2>1, <2>2 DEF Inv, Alone, Create, Bind, NoIdentity
  <2>3. ASSUME NEW c \in Callers, Sign(c)
        PROVE  file'.install = file.install /\ file'.device = file.device
    <3>1. PICK next : next = [memory[Home[c]] EXCEPT !.counter = @ + 1]
      OBVIOUS
    <3>2. /\ memory[Home[c]] \in Identities
          /\ file.install = memory[Home[c]].install
          /\ file.device = memory[Home[c]].device
      BY <1>1, <2>1, <2>3 DEF Inv, Sign, Ownership, Credentials, Alone
    <3>3. next.install = file.install /\ next.device = file.device
      BY <3>1, <3>2 DEF Identities
    <3>4. file' \in {file, next}
      BY <2>3, <3>1 DEF Sign, SaveFails
    <3> QED
      BY <3>3, <3>4
  <2>4. CASE UNCHANGED file
    BY <2>4
  <2>5. ASSUME NEW c \in Callers, Ask(c) \/ Call(c), ~Sign(c)
        PROVE  UNCHANGED file
    BY <2>2, <2>5 DEF Call, Ask, Await, Open, OpenFails, Challenge,
      ProvisionFails, SignFails, Send, Return
  <2>6. ASSUME NEW d \in Daemons, Restart(d) PROVE UNCHANGED file
    BY <2>6 DEF Restart
  <2> QED
    BY <1>1, <2>3, <2>4, <2>5, <2>6 DEF Next, vars
<1>2. Inv /\ [Next]_vars =>
        [file.device # NoDevice /\ ~overlapped' =>
           file'.install = file.install /\ file'.device = file.device]_vars
  BY <1>1
<1> QED
  BY Invariance, <1>2, PTL DEF Spec, CredentialIsKept
=============================================================================
