-------------------------- MODULE StreamCacheProofs --------------------------
(***************************************************************************)
(* Proofs about the stream cache, for any tasks, keys and capacity.         *)
(*                                                                         *)
(* The argument.  The table of flights and the owners match one to one: an  *)
(* owner's flight is the one registered for its key until the owner itself  *)
(* removes it, aborted or not, and a task becomes an owner only by          *)
(* registering a flight for a key that has none.  Two owners of one key     *)
(* would have to be registered under it at once.                            *)
(***************************************************************************)
EXTENDS StreamCache, SequenceTheorems, TLAPS

FlightInv ==
  /\ FlightTypes
  /\ CallTypes
  /\ OwnersAreRegistered
  /\ RegisteredHasOwner
  /\ SingleFlight

\* A cache nobody has called has neither owners nor flights.
LEMMA FlightInit == Init => FlightInv
<1> SUFFICES ASSUME Init PROVE FlightInv
  OBVIOUS
<1> USE CacheAssumption DEF CacheAssumption, Init
<1>1. FlightTypes /\ CallTypes
  BY DEF FlightTypes, CallTypes, CallStages, OwnerStages, WaiterStages
<1>2. OwnersAreRegistered /\ RegisteredHasOwner /\ SingleFlight
  BY DEF OwnersAreRegistered, RegisteredHasOwner, SingleFlight, OwnerStages
<1>3. QED
  BY <1>1, <1>2 DEF FlightInv

\* What a step does to ownership: nothing, or a task takes off with the key's
\* first flight, or an owner removes its own.
OwnershipKept ==
  /\ UNCHANGED table
  /\ \A d \in Callers : stage'[d] \in OwnerStages <=> stage[d] \in OwnerStages
  /\ \A d \in Callers : stage[d] \in OwnerStages =>
                         key'[d] = key[d] /\ mine'[d] = mine[d]

\* Everything but taking off and removing leaves the owners as they are.
LEMMA OwnershipSteps ==
  ASSUME FlightTypes, CallTypes, [Next]_vars
  PROVE  \/ \E c \in Callers : TakeOff(c) \/ Remove(c)
         \/ OwnershipKept
<1> USE DEF FlightTypes, CallTypes, OwnershipKept, OwnerStages, CallStages,
            cacheVars, flightVars, callVars
<1>1. ASSUME NEW c \in Callers, NEW k \in Keys, Call(c, k)
      PROVE  OwnershipKept
  BY <1>1 DEF Call, Goto
<1>2. ASSUME NEW c \in Callers, Hit(c) PROVE OwnershipKept
  BY <1>2 DEF Hit, Leave, Touch
<1>3. ASSUME NEW c \in Callers, Miss(c) PROVE OwnershipKept
  BY <1>3 DEF Miss, Goto
<1>4. ASSUME NEW c \in Callers, Join(c) PROVE OwnershipKept
  BY <1>4 DEF Join, Goto
<1>5. ASSUME NEW c \in Callers, Resolve(c) PROVE OwnershipKept
  BY <1>5 DEF Resolve, Goto
<1>6. ASSUME NEW c \in Callers, Insert(c) PROVE OwnershipKept
  BY <1>6 DEF Insert, Goto
<1>7. ASSUME NEW c \in Callers, Publish(c) PROVE OwnershipKept
  BY <1>7 DEF Publish, Goto
<1>8. ASSUME NEW c \in Callers, Subscribe(c) PROVE OwnershipKept
  BY <1>8 DEF Subscribe, Goto
<1>9. ASSUME NEW c \in Callers, Wake(c) PROVE OwnershipKept
  BY <1>9 DEF Wake, Leave
<1>10. ASSUME NEW c \in Callers, Abort(c) PROVE OwnershipKept
  BY <1>10 DEF Abort, Goto
<1>11. ASSUME NEW c \in Callers, Drop(c) PROVE OwnershipKept
  BY <1>11 DEF Drop, Leave
<1>12. ASSUME NEW k \in Keys, Expire(k) PROVE OwnershipKept
  BY <1>12 DEF Expire
<1>13. CASE UNCHANGED vars
  BY <1>13 DEF vars
<1>14. QED
  BY <1>1, <1>2, <1>3, <1>4, <1>5, <1>6, <1>7, <1>8, <1>9, <1>10, <1>11,
     <1>12, <1>13
  DEF Next, Proceed

\* Types of the flights and the calls, kept by every step.
LEMMA FlightTypesNext ==
  FlightTypes /\ CallTypes /\ [Next]_vars => FlightTypes' /\ CallTypes'
<1> SUFFICES ASSUME FlightTypes, CallTypes, [Next]_vars
             PROVE  FlightTypes' /\ CallTypes'
  OBVIOUS
<1> USE CacheAssumption
    DEF CacheAssumption, FlightTypes, CallTypes, CallStages, OwnerStages,
        WaiterStages, Flights, cacheVars, flightVars, callVars
<1>1. ASSUME NEW c \in Callers, NEW k \in Keys, Call(c, k)
      PROVE  FlightTypes' /\ CallTypes'
  BY <1>1 DEF Call, Goto
<1>2. ASSUME NEW c \in Callers, Hit(c)
      PROVE  FlightTypes' /\ CallTypes'
  BY <1>2 DEF Hit, Leave, Touch
<1>3. ASSUME NEW c \in Callers, Miss(c)
      PROVE  FlightTypes' /\ CallTypes'
  BY <1>3 DEF Miss, Goto
<1>4. ASSUME NEW c \in Callers, Join(c)
      PROVE  FlightTypes' /\ CallTypes'
  BY <1>4 DEF Join, Goto
<1>5. ASSUME NEW c \in Callers, TakeOff(c)
      PROVE  FlightTypes' /\ CallTypes'
  BY <1>5 DEF TakeOff, Goto
<1>6. ASSUME NEW c \in Callers, Resolve(c)
      PROVE  FlightTypes' /\ CallTypes'
  <2>1. CASE Goto(c, "inserting") /\ output' = [output EXCEPT ![c] = "ok"]
    BY <1>6, <2>1 DEF Resolve, Goto
  <2>2. CASE Goto(c, "publishing") /\ output' = [output EXCEPT ![c] = "err"]
    BY <1>6, <2>2 DEF Resolve, Goto
  <2>3. QED
    BY <1>6, <2>1, <2>2 DEF Resolve
<1>7. ASSUME NEW c \in Callers, Insert(c)
      PROVE  FlightTypes' /\ CallTypes'
  BY <1>7 DEF Insert, Goto
<1>8. ASSUME NEW c \in Callers, Publish(c)
      PROVE  FlightTypes' /\ CallTypes'
  BY <1>8 DEF Publish, Goto
<1>9. ASSUME NEW c \in Callers, Remove(c)
      PROVE  FlightTypes' /\ CallTypes'
  BY <1>9 DEF Remove, Leave
<1>10. ASSUME NEW c \in Callers, Subscribe(c)
      PROVE  FlightTypes' /\ CallTypes'
  BY <1>10 DEF Subscribe, Goto
<1>11. ASSUME NEW c \in Callers, Wake(c)
      PROVE  FlightTypes' /\ CallTypes'
  BY <1>11 DEF Wake, Leave
<1>12. ASSUME NEW c \in Callers, Abort(c)
      PROVE  FlightTypes' /\ CallTypes'
  BY <1>12 DEF Abort, Goto
<1>13. ASSUME NEW c \in Callers, Drop(c)
      PROVE  FlightTypes' /\ CallTypes'
  BY <1>13 DEF Drop, Leave
<1>14. ASSUME NEW k \in Keys, Expire(k) PROVE FlightTypes' /\ CallTypes'
  BY <1>14 DEF Expire
<1>15. CASE UNCHANGED vars
  BY <1>15 DEF vars
<1>16. QED
  BY <1>1, <1>2, <1>3, <1>4, <1>5, <1>6, <1>7, <1>8, <1>9, <1>10, <1>11, <1>12,
     <1>13, <1>14, <1>15
  DEF Next, Proceed

\* The match between the table and the owners survives every step.
LEMMA FlightNext == FlightInv /\ [Next]_vars => FlightInv'
<1> SUFFICES ASSUME FlightInv, [Next]_vars PROVE FlightInv'
  OBVIOUS
<1> USE CacheAssumption
    DEF CacheAssumption, FlightInv, OwnersAreRegistered, RegisteredHasOwner,
        SingleFlight
<1>1. FlightTypes' /\ CallTypes'
  BY FlightTypesNext
<1>2. ASSUME NEW c \in Callers, TakeOff(c) PROVE FlightInv'
  <2> USE <1>2 DEF TakeOff, Goto, OwnerStages, FlightTypes, CallTypes
  <2>1. key[c] \in Keys /\ table[key[c]] = 0 /\ flights + 1 # 0
    OBVIOUS
  <2>2. OwnersAreRegistered'
    BY <2>1
  <2>3. RegisteredHasOwner'
    BY <2>1
  <2>4. SingleFlight'
    BY <2>1
  <2>5. QED
    BY <1>1, <2>2, <2>3, <2>4
<1>3. ASSUME NEW c \in Callers, Remove(c) PROVE FlightInv'
  <2> USE <1>3 DEF Remove, Leave, OwnerStages, FlightTypes, CallTypes
  <2>1. key[c] \in Keys /\ table' = [table EXCEPT ![key[c]] = 0]
    OBVIOUS
  <2>2. OwnersAreRegistered'
    BY <2>1
  <2>3. RegisteredHasOwner'
    BY <2>1
  <2>4. SingleFlight'
    BY <2>1
  <2>5. QED
    BY <1>1, <2>2, <2>3, <2>4
<1>4. CASE OwnershipKept
  BY <1>1, <1>4 DEF OwnershipKept, CallTypes, FlightTypes
<1>5. QED
  BY <1>2, <1>3, <1>4, OwnershipSteps

\* The table and the owners match in every behaviour.
THEOREM FlightsMatchOwners == Spec => []FlightInv
<1>1. QED
  BY FlightInit, FlightNext, PTL DEF Spec

\* Two calls never resolve the same key at the same time.
THEOREM OneFlightPerKey == Spec => []SingleFlight
<1>1. FlightInv => SingleFlight
  BY DEF FlightInv
<1>2. QED
  BY <1>1, FlightsMatchOwners, PTL

\* A registered flight always has an owner that will remove it.
THEOREM NoOrphanFlight == Spec => []RegisteredHasOwner
<1>1. FlightInv => RegisteredHasOwner
  BY DEF FlightInv
<1>2. QED
  BY <1>1, FlightsMatchOwners, PTL

\* A flight has one owner, whoever is dropped or aborted.
THEOREM OneOwner == Spec => []FlightsHaveOneOwner
BY OneFlightPerKey, NoOrphanFlight, PTL DEF FlightsHaveOneOwner

----------------------------------------------------------------------------
(* The cached entries. *)

Distinct(s) == \A i, j \in DOMAIN s : s[i] = s[j] => i = j

CacheInv == CacheTypes /\ CallTypes /\ Bounded

\* What taking one element out of a sequence makes of each place.
LEMMA CutOut ==
  ASSUME NEW S, NEW s \in Seq(S), NEW i \in 1 .. Len(s)
  PROVE  \E t \in Seq(S) :
           /\ t = SubSeq(s, 1, i - 1) \o SubSeq(s, i + 1, Len(s))
           /\ Len(t) = Len(s) - 1
           /\ \A j \in 1 .. Len(t) : t[j] = IF j < i THEN s[j] ELSE s[j + 1]
<1> DEFINE a == SubSeq(s, 1, i - 1)
           b == SubSeq(s, i + 1, Len(s))
<1>1. Len(s) \in Nat /\ \A j \in 1 .. Len(s) : s[j] \in S
  BY LenProperties, ElementOfSeq
<1>2. /\ a \in Seq(S) /\ Len(a) = i - 1
      /\ \A j \in 1 .. i - 1 : a[j] = s[j]
  BY <1>1, SubSeqProperties
<1>3. /\ b \in Seq(S) /\ Len(b) = Len(s) - i
      /\ \A j \in 1 .. Len(s) - i : b[j] = s[i + j]
  BY <1>1, SubSeqProperties
<1> HIDE DEF a, b
<1>4. /\ a \o b \in Seq(S) /\ Len(a \o b) = Len(a) + Len(b)
      /\ \A j \in 1 .. Len(a) + Len(b) :
           (a \o b)[j] = IF j <= Len(a) THEN a[j] ELSE b[j - Len(a)]
  BY <1>2, <1>3, ConcatProperties
<1>5. Len(a \o b) = Len(s) - 1
  BY <1>1, <1>2, <1>3, <1>4
<1>6. ASSUME NEW j \in 1 .. Len(s) - 1
      PROVE  (a \o b)[j] = IF j < i THEN s[j] ELSE s[j + 1]
  <2>1. CASE j < i
    BY <1>1, <1>2, <1>3, <1>4, <2>1
  <2>2. CASE ~(j < i)
    <3>1. /\ j - (i - 1) \in 1 .. Len(s) - i
          /\ i + (j - (i - 1)) = j + 1
      BY <1>1, <2>2
    <3>2. (a \o b)[j] = b[j - (i - 1)]
      BY <1>1, <1>2, <1>3, <1>4, <2>2
    <3> QED
      BY <1>3, <2>2, <3>1, <3>2
  <2> QED
    BY <2>1, <2>2
<1> QED
  BY <1>4, <1>5, <1>6 DEF a, b

\* One element taken out of a sequence of distinct ones leaves distinct others.
LEMMA CutKeeps ==
  ASSUME NEW S, NEW s \in Seq(S), Distinct(s), NEW i \in 1 .. Len(s),
         NEW t \in Seq(S), Len(t) = Len(s) - 1,
         \A j \in 1 .. Len(t) : t[j] = IF j < i THEN s[j] ELSE s[j + 1]
  PROVE  Distinct(t) /\ \A j \in 1 .. Len(t) : t[j] # s[i]
<1>1. Len(s) \in Nat
  BY LenProperties
<1>2. \A j, k \in 1 .. Len(s) : s[j] = s[k] => j = k
  BY LenProperties DEF Distinct
<1>3. \A j \in 1 .. Len(t) : t[j] # s[i]
  BY <1>1, <1>2
<1>4. \A j, k \in 1 .. Len(t) : t[j] = t[k] => j = k
  BY <1>1, <1>2
<1>5. Distinct(t)
  BY <1>4, LenProperties DEF Distinct
<1> QED
  BY <1>3, <1>5

\* Without(k) holds each entry once, and none of k.
LEMMA WithoutOne ==
  ASSUME CacheTypes, Bounded, NEW k \in Keys
  PROVE  /\ Without(k) \in Seq(Keys)
         /\ Distinct(Without(k))
         /\ \A j \in 1 .. Len(Without(k)) : Without(k)[j] # k
         /\ Len(Without(k)) = IF Cached(k) THEN Len(recency) - 1
                              ELSE Len(recency)
<1>1. recency \in Seq(Keys) /\ Distinct(recency)
  BY DEF CacheTypes, Bounded, Distinct
<1>2. DOMAIN recency = 1 .. Len(recency)
  BY <1>1, LenProperties
<1>3. CASE Cached(k)
  <2> DEFINE i == CHOOSE j \in DOMAIN recency : recency[j] = k
  <2>1. i \in 1 .. Len(recency) /\ recency[i] = k
    BY <1>2, <1>3 DEF Cached
  <2>2. Without(k) =
          SubSeq(recency, 1, i - 1) \o SubSeq(recency, i + 1, Len(recency))
    BY <1>3 DEF Without
  <2> HIDE DEF i
  <2>3. PICK t \in Seq(Keys) :
          /\ t = SubSeq(recency, 1, i - 1)
                   \o SubSeq(recency, i + 1, Len(recency))
          /\ Len(t) = Len(recency) - 1
          /\ \A j \in 1 .. Len(t) :
               t[j] = IF j < i THEN recency[j] ELSE recency[j + 1]
    BY <1>1, <2>1, CutOut
  <2>4. t = Without(k)
    BY <2>2, <2>3
  <2>5. Distinct(t) /\ \A j \in 1 .. Len(t) : t[j] # recency[i]
    BY <1>1, <2>1, <2>3, CutKeeps
  <2> QED
    BY <1>3, <2>1, <2>3, <2>4, <2>5
<1>4. CASE ~Cached(k)
  BY <1>1, <1>2, <1>4 DEF Without, Cached
<1> QED
  BY <1>3, <1>4

\* An entry that was looked up or inserted is the newest, and the only one.
LEMMA AppendOne ==
  ASSUME NEW S, NEW s \in Seq(S), Distinct(s), NEW k \in S,
         \A j \in 1 .. Len(s) : s[j] # k
  PROVE  /\ Append(s, k) \in Seq(S)
         /\ Distinct(Append(s, k))
         /\ Len(Append(s, k)) = Len(s) + 1
<1>1. Len(s) \in Nat /\ \A j \in 1 .. Len(s) : s[j] \in S
  BY LenProperties, ElementOfSeq
<1>2. /\ Append(s, k) \in Seq(S) /\ Len(Append(s, k)) = Len(s) + 1
      /\ \A j \in 1 .. Len(s) : Append(s, k)[j] = s[j]
      /\ Append(s, k)[Len(s) + 1] = k
  BY <1>1, AppendProperties
<1>3. \A i, j \in 1 .. Len(s) : s[i] = s[j] => i = j
  BY LenProperties DEF Distinct
<1>4. \A i, j \in 1 .. Len(s) + 1 :
        Append(s, k)[i] = Append(s, k)[j] => i = j
  BY <1>1, <1>2, <1>3
<1> QED
  BY <1>2, <1>4, LenProperties DEF Distinct

\* Evicting leaves the newest entries, as many as there is room for.
LEMMA EvictBounds ==
  ASSUME NEW S, NEW s \in Seq(S), Distinct(s)
  PROVE  /\ Evict(s) \in Seq(S)
         /\ Distinct(Evict(s))
         /\ Len(Evict(s)) <= Capacity
<1> USE CacheAssumption DEF CacheAssumption
<1>1. Len(s) \in Nat
  BY LenProperties
<1>2. CASE Len(s) > Capacity
  <2> DEFINE n == Len(s) - Capacity
             t == SubSeq(s, n + 1, Len(s))
  <2>1. /\ t \in Seq(S) /\ Len(t) = Capacity
        /\ \A j \in 1 .. Capacity : t[j] = s[n + j]
    BY <1>1, <1>2, SubSeqProperties, ElementOfSeq
  <2>2. n \in Nat /\ Len(s) = n + Capacity
    BY <1>1, <1>2
  <2>3. \A i, j \in 1 .. Len(s) : s[i] = s[j] => i = j
    BY LenProperties DEF Distinct
  <2> HIDE DEF n, t
  <2>4. \A i, j \in 1 .. Capacity : t[i] = t[j] => i = j
    BY <2>1, <2>2, <2>3
  <2>5. Distinct(t)
    BY <2>1, <2>4, LenProperties DEF Distinct
  <2>6. Evict(s) = t
    BY <1>2 DEF Evict, t, n
  <2> QED
    BY <2>1, <2>5, <2>6
<1>3. CASE ~(Len(s) > Capacity)
  BY <1>1, <1>3 DEF Evict
<1> QED
  BY <1>2, <1>3

LEMMA CacheInit == Init => CacheInv
<1> SUFFICES ASSUME Init PROVE CacheInv
  OBVIOUS
<1>1. CallTypes
  BY FlightInit DEF FlightInv
<1>2. recency \in Seq(Keys) /\ Len(recency) = 0 /\ DOMAIN recency = {}
  BY DEF Init
<1> QED
  BY <1>1, <1>2, CacheAssumption
  DEF CacheAssumption, Init, CacheInv, CacheTypes, Bounded

\* The entries are looked up, inserted, removed and expire.
LEMMA CacheNext ==
  FlightTypes /\ CacheInv /\ [Next]_vars => CacheInv'
<1> SUFFICES ASSUME FlightTypes, CacheInv, [Next]_vars PROVE CacheInv'
  OBVIOUS
<1> USE CacheAssumption DEF CacheAssumption, CacheInv
<1>1. CallTypes'
  BY FlightTypesNext
<1>2. ASSUME NEW c \in Callers, stage[c] # "idle" PROVE key[c] \in Keys
  BY <1>2 DEF CallTypes
<1>3. ASSUME NEW s \in Seq(Keys), Distinct(s), Len(s) <= Capacity,
             recency' = s, expired' \in SUBSET Keys
      PROVE  CacheInv'
  BY <1>1, <1>3 DEF CacheTypes, Bounded, Distinct
<1>4. /\ recency \in Seq(Keys) /\ Distinct(recency)
      /\ Len(recency) \in Nat /\ Len(recency) <= Capacity
      /\ expired \in SUBSET Keys
  BY LenProperties DEF CacheTypes, Bounded, Distinct
<1>5. ASSUME NEW c \in Callers, Hit(c) PROVE CacheInv'
  <2>1. key[c] \in Keys /\ Cached(key[c]) /\ UNCHANGED expired
        /\ recency' = Append(Without(key[c]), key[c])
    BY <1>2, <1>5 DEF Hit, Fresh, Touch
  <2>2. /\ Without(key[c]) \in Seq(Keys)
        /\ Distinct(Without(key[c]))
        /\ \A j \in 1 .. Len(Without(key[c])) : Without(key[c])[j] # key[c]
        /\ Len(Without(key[c])) = Len(recency) - 1
    BY <2>1, WithoutOne
  <2>3. /\ recency' \in Seq(Keys) /\ Distinct(recency')
        /\ Len(recency') = Len(recency)
    BY <1>4, <2>1, <2>2, AppendOne
  <2> QED
    BY <1>3, <1>4, <2>1, <2>3
<1>6. ASSUME NEW c \in Callers, Miss(c) PROVE CacheInv'
  <2>1. key[c] \in Keys
    BY <1>2, <1>6 DEF Miss
  <2>2. /\ Without(key[c]) \in Seq(Keys)
        /\ Distinct(Without(key[c]))
        /\ Len(Without(key[c])) <= Len(recency)
    BY <1>4, <2>1, WithoutOne
  <2> QED
    BY <1>3, <1>4, <1>6, <2>2, LenProperties DEF Miss
<1>7. ASSUME NEW c \in Callers, Insert(c) PROVE CacheInv'
  <2>1. key[c] \in Keys
    BY <1>2, <1>7 DEF Insert
  <2>2. /\ Append(Without(key[c]), key[c]) \in Seq(Keys)
        /\ Distinct(Append(Without(key[c]), key[c]))
    BY <2>1, WithoutOne, AppendOne
  <2>3. /\ recency' \in Seq(Keys) /\ Distinct(recency')
        /\ Len(recency') <= Capacity
    BY <1>7, <2>2, EvictBounds DEF Insert
  <2> QED
    BY <1>3, <1>4, <1>7, <2>3 DEF Insert
<1>8. ASSUME NEW k \in Keys, Expire(k) PROVE CacheInv'
  BY <1>3, <1>4, <1>8 DEF Expire
<1>9. CASE UNCHANGED cacheVars
  BY <1>3, <1>4, <1>9 DEF cacheVars
<1>10. ASSUME NEW c \in Callers,
              \/ \E k \in Keys : Call(c, k)
              \/ Join(c) \/ TakeOff(c) \/ Resolve(c) \/ Publish(c)
              \/ Remove(c) \/ Subscribe(c) \/ Wake(c) \/ Abort(c) \/ Drop(c)
       PROVE  UNCHANGED cacheVars
  BY <1>10 DEF Call, Join, TakeOff, Resolve, Publish, Remove, Subscribe, Wake,
    Abort, Drop
<1> QED
  BY <1>5, <1>6, <1>7, <1>8, <1>9, <1>10 DEF Next, Proceed, vars

\* Every variable keeps its type, and the cache, whatever is looked up, inserted,
\* evicted or expires, never holds more than its capacity or a stream twice.
THEOREM TypeCorrect == Spec => []TypeOK
<1>1. FlightInv => FlightTypes /\ CallTypes
  BY DEF FlightInv
<1>2. CacheInv /\ FlightTypes => TypeOK
  BY DEF CacheInv, TypeOK
<1> QED
  BY <1>1, <1>2, FlightsMatchOwners, CacheInit, CacheNext, PTL DEF Spec
=============================================================================
