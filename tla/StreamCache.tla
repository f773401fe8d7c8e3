----------------------------- MODULE StreamCache -----------------------------
(***************************************************************************)
(* The daemon's cache of resolved streams (zerobeat-daemon/src/             *)
(* stream_cache.rs): a bounded LRU cache with single-flight resolution.     *)
(* Playback tasks and prewarm tasks call resolve concurrently, on several   *)
(* threads of the runtime.                                                  *)
(*                                                                         *)
(* A flight is the Arc<Flight> its owner and its waiters share; it holds a  *)
(* watch channel whose first receiver is dropped when it is made.  `send`   *)
(* on a watch channel without receivers fails and stores nothing.           *)
(* A step holds one lock, or is one call on the channel.                    *)
(***************************************************************************)
EXTENDS Integers, FiniteSets, Sequences

CONSTANTS
  Callers,     \* tasks that call resolve, one call at a time
  Keys,        \* track and quality
  NoKey,       \* the key of a caller that is not in a call
  Capacity,    \* MAX_ENTRIES
  MaxFlights   \* bound on the number of flights ever made

ASSUME CacheAssumption ==
  /\ NoKey \notin Keys
  /\ Capacity \in Nat \ {0}
  /\ MaxFlights \in Nat

Flights == 1 .. MaxFlights

\* Stages of a call of resolve.  An owner resolves, inserts, publishes on the
\* channel and removes the flight; a waiter joins, subscribes and waits.
OwnerStages  == {"resolving", "inserting", "publishing", "removing"}
WaiterStages == {"joined", "waiting"}
CallStages   == {"idle", "lookup", "missed"} \cup OwnerStages \cup WaiterStages

VARIABLES
  recency,    \* cached keys, least recently used first
  expired,    \* keys whose entry is within the safety margin of its expiry
  table,      \* the flight registered for a key, 0 when there is none
  flights,    \* number of flights made
  result,     \* what a flight's channel holds: "none", "ok" or "err"
  receivers,  \* callers subscribed to a flight's channel
  stage,      \* where a caller is in resolve
  key,        \* the key it resolves
  mine,       \* the flight it owns or waits for
  output      \* what an owner will publish

cacheVars  == <<recency, expired>>
flightVars == <<table, flights, result, receivers>>
callVars   == <<stage, key, mine, output>>

vars == <<cacheVars, flightVars, callVars>>

Cached(k) == \E i \in DOMAIN recency : recency[i] = k
Fresh(k)  == Cached(k) /\ k \notin expired

Init ==
  /\ recency = <<>>
  /\ expired = {}
  /\ table = [k \in Keys |-> 0]
  /\ flights = 0
  /\ result = [f \in Flights |-> "none"]
  /\ receivers = [f \in Flights |-> {}]
  /\ stage = [c \in Callers |-> "idle"]
  /\ key = [c \in Callers |-> NoKey]
  /\ mine = [c \in Callers |-> 0]
  /\ output = [c \in Callers |-> "none"]

-----------------------------------------------------------------------------
(* The cache: what `entries` and `clock` amount to. *)

Without(k) ==
  IF Cached(k)
  THEN LET i == CHOOSE j \in DOMAIN recency : recency[j] = k
       IN SubSeq(recency, 1, i - 1) \o SubSeq(recency, i + 1, Len(recency))
  ELSE recency

\* Mutant: nothing is evicted.
Unbounded(s) == s

\* Evict the least recently used entries down to the capacity.
Evict(s) ==
  IF Len(s) > Capacity THEN SubSeq(s, Len(s) - Capacity + 1, Len(s)) ELSE s

\* last_used becomes the newest reading of the clock.
Touch(k) == recency' = Append(Without(k), k)

Leave(c) ==
  /\ stage' = [stage EXCEPT ![c] = "idle"]
  /\ key' = [key EXCEPT ![c] = NoKey]
  /\ mine' = [mine EXCEPT ![c] = 0]
  /\ output' = [output EXCEPT ![c] = "none"]

Goto(c, s) == stage' = [stage EXCEPT ![c] = s]

-----------------------------------------------------------------------------
(* Calls of resolve. *)

Call(c, k) ==
  /\ stage[c] = "idle"
  /\ Goto(c, "lookup")
  /\ key' = [key EXCEPT ![c] = k]
  /\ UNCHANGED <<cacheVars, flightVars, mine, output>>

\* get finds a fresh entry.
Hit(c) ==
  /\ stage[c] = "lookup"
  /\ Fresh(key[c])
  /\ Touch(key[c])
  /\ Leave(c)
  /\ UNCHANGED <<expired, flightVars>>

\* get finds nothing, or an expired entry, which it removes.
Miss(c) ==
  /\ stage[c] = "lookup"
  /\ ~Fresh(key[c])
  /\ recency' = Without(key[c])
  /\ expired' = expired \ {key[c]}
  /\ Goto(c, "missed")
  /\ UNCHANGED <<flightVars, key, mine, output>>

\* Under the flights mutex: join the flight of the key ...
Join(c) ==
  /\ stage[c] = "missed"
  /\ table[key[c]] # 0
  /\ mine' = [mine EXCEPT ![c] = table[key[c]]]
  /\ Goto(c, "joined")
  /\ UNCHANGED <<cacheVars, flightVars, key, output>>

\* ... or register one and own it.
TakeOff(c) ==
  /\ stage[c] = "missed"
  /\ table[key[c]] = 0
  /\ flights < MaxFlights
  /\ flights' = flights + 1
  /\ table' = [table EXCEPT ![key[c]] = flights + 1]
  /\ mine' = [mine EXCEPT ![c] = flights + 1]
  /\ Goto(c, "resolving")
  /\ UNCHANGED <<cacheVars, result, receivers, key, output>>

\* The catalog answers the owner.
Resolve(c) ==
  /\ stage[c] = "resolving"
  /\ \/ Goto(c, "inserting") /\ output' = [output EXCEPT ![c] = "ok"]
     \/ Goto(c, "publishing") /\ output' = [output EXCEPT ![c] = "err"]
  /\ UNCHANGED <<cacheVars, flightVars, key, mine>>

Insert(c) ==
  /\ stage[c] = "inserting"
  /\ recency' = Evict(Append(Without(key[c]), key[c]))
  /\ expired' = expired \ {key[c]}
  /\ Goto(c, "publishing")
  /\ UNCHANGED <<flightVars, key, mine, output>>

\* Mutant: an aborted owner leaves its flight behind.
AbortForgetsFlight(c) ==
  /\ stage[c] \in {"resolving", "inserting"}
  /\ Leave(c)
  /\ UNCHANGED <<cacheVars, flightVars>>

\* The owner's task is dropped at an await: OwnerGuard::drop sends an error.
Abort(c) ==
  /\ stage[c] \in {"resolving", "inserting"}
  /\ output' = [output EXCEPT ![c] = "err"]
  /\ Goto(c, "publishing")
  /\ UNCHANGED <<cacheVars, flightVars, key, mine>>

\* Any other call is dropped at its await: a lock, or the channel.
Drop(c) ==
  /\ stage[c] \in {"lookup", "waiting"}
  /\ receivers' = [f \in Flights |-> receivers[f] \ {c}]
  /\ Leave(c)
  /\ UNCHANGED <<cacheVars, table, flights, result>>

\* Mutant: the result is not sent.
PublishNothing(c) ==
  /\ stage[c] = "publishing"
  /\ Goto(c, "removing")
  /\ UNCHANGED <<cacheVars, flightVars, key, mine, output>>

\* watch::Sender::send: without a receiver the value is not stored.
Publish(c) ==
  /\ stage[c] = "publishing"
  /\ result' = IF receivers[mine[c]] = {} THEN result
               ELSE [result EXCEPT ![mine[c]] = output[c]]
  /\ Goto(c, "removing")
  /\ UNCHANGED <<cacheVars, table, flights, receivers, key, mine, output>>

\* Mutant: the table keeps the landed flight.
RemoveNothing(c) ==
  /\ stage[c] = "removing"
  /\ Leave(c)
  /\ UNCHANGED <<cacheVars, flightVars>>

\* remove: only the owner's own flight; then the owner returns.
Remove(c) ==
  /\ stage[c] = "removing"
  /\ table' = IF table[key[c]] = mine[c] THEN [table EXCEPT ![key[c]] = 0]
              ELSE table
  /\ Leave(c)
  /\ UNCHANGED <<cacheVars, flights, result, receivers>>

Subscribe(c) ==
  /\ stage[c] = "joined"
  /\ receivers' = [receivers EXCEPT ![mine[c]] = @ \cup {c}]
  /\ Goto(c, "waiting")
  /\ UNCHANGED <<cacheVars, table, flights, result, key, mine, output>>

\* The waiter finds a result in the channel and returns it.
Wake(c) ==
  /\ stage[c] = "waiting"
  /\ result[mine[c]] # "none"
  /\ receivers' = [receivers EXCEPT ![mine[c]] = @ \ {c}]
  /\ Leave(c)
  /\ UNCHANGED <<cacheVars, table, flights, result>>

\* Time passes: a cached stream comes within SAFE_MARGIN_SECONDS of its expiry.
Expire(k) ==
  /\ Fresh(k)
  /\ expired' = expired \cup {k}
  /\ UNCHANGED <<recency, flightVars, callVars>>

\* What a call does once it is made, other than being dropped.
Proceed(c) ==
  \/ Hit(c) \/ Miss(c) \/ Join(c) \/ TakeOff(c)
  \/ Resolve(c) \/ Insert(c) \/ Publish(c) \/ Remove(c)
  \/ Subscribe(c) \/ Wake(c)

Next ==
  \/ \E c \in Callers :
       \/ \E k \in Keys : Call(c, k)
       \/ Proceed(c)
       \/ Abort(c) \/ Drop(c)
  \/ \E k \in Keys : Expire(k)

Spec == Init /\ [][Next]_vars

\* The runtime polls every task, and resolve_stream returns (its HTTP requests
\* time out).
FairSpec == Spec /\ \A c \in Callers : WF_vars(Proceed(c))

-----------------------------------------------------------------------------
(* Properties. *)

CacheTypes ==
  /\ recency \in Seq(Keys)
  /\ expired \subseteq Keys

FlightTypes ==
  /\ table \in [Keys -> 0 .. MaxFlights]
  /\ flights \in 0 .. MaxFlights
  /\ result \in [Flights -> {"none", "ok", "err"}]
  /\ receivers \in [Flights -> SUBSET Callers]

CallTypes ==
  /\ stage \in [Callers -> CallStages]
  /\ key \in [Callers -> Keys \cup {NoKey}]
  /\ mine \in [Callers -> 0 .. MaxFlights]
  /\ output \in [Callers -> {"none", "ok", "err"}]
  /\ \A c \in Callers :
       /\ key[c] = NoKey <=> stage[c] = "idle"
       /\ mine[c] # 0 <=> stage[c] \in OwnerStages \cup WaiterStages

\* The cache never holds more than MAX_ENTRIES streams, nor one twice.
Bounded ==
  /\ Len(recency) <= Capacity
  /\ \A i, j \in DOMAIN recency : recency[i] = recency[j] => i = j

\* Every variable has its type; a call has a key, and an owner or a waiter has a
\* flight; the cache is bounded.
TypeOK == CacheTypes /\ FlightTypes /\ CallTypes /\ Bounded

\* Single flight: two calls never resolve the same key at the same time,
\* whatever was aborted or has expired in between.
SingleFlight ==
  \A c, d \in Callers :
    stage[c] \in OwnerStages /\ stage[d] \in OwnerStages /\ key[c] = key[d]
      => c = d

\* A registered flight has an owner that will remove it: an aborted or failed
\* owner does not leave a key that can only be joined.
RegisteredHasOwner ==
  \A k \in Keys : table[k] # 0 =>
    \E c \in Callers :
      stage[c] \in OwnerStages /\ key[c] = k /\ mine[c] = table[k]

\* A flight has one owner, neither two nor none.
FlightsHaveOneOwner == SingleFlight /\ RegisteredHasOwner

\* Why: the table holds the flight of every owner.
OwnersAreRegistered ==
  \A c \in Callers : stage[c] \in OwnerStages => table[key[c]] = mine[c]

\* A waiter subscribed before its owner publishes is released.
Owned(f) == \E d \in Callers :
  mine[d] = f /\ stage[d] \in {"resolving", "inserting", "publishing"}
SubscribedAreReleased ==
  \A c \in Callers :
    stage[c] = "waiting" /\ Owned(mine[c]) ~> stage[c] # "waiting"

-----------------------------------------------------------------------------
(* What the tests say of the cache and it does not keep. *)

\* Every call that joined a flight returns.
JoinersReturn ==
  \A c \in Callers : stage[c] \in WaiterStages ~> stage[c] \notin WaiterStages
=============================================================================
